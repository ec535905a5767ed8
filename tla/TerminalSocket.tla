---------------------------- MODULE TerminalSocket ----------------------------
(***************************************************************************)
(* hooks/useWebSocket.ts against the life of the server: how the terminal  *)
(* connects, what its connection status shows, and what becomes of it when *)
(* the server goes.                                                        *)
(*                                                                         *)
(* A built terminal mounts once.  In development StrictMode (main.tsx)     *)
(* mounts, cleans up and mounts again in one go: the first socket is       *)
(* closed while it is connecting and its close event comes later, with its *)
(* handlers still set.  `connect' of the hook is called by nobody, so a    *)
(* terminal that lost its connection stays without one.                    *)
(*                                                                         *)
(* The browser sets readyState and runs a socket's handler in one task;    *)
(* the tasks are run in the order they were queued.  A connection that     *)
(* fails fires error and close in one task, both with the same handler.    *)
(***************************************************************************)
EXTENDS ServerLifecycle

ASSUME SocketAssumption == Socket = {1, 2} /\ NoThread \notin Socket

VARIABLES
    socketRef,          \* the socket of the last mount; 0 before
    readyState,
    tasks,              \* open and close events waiting for the event loop
    connectionStatus

pageVars   == <<socketRef, readyState, connectionStatus>>
socketVars == <<lifecycleVars, pageVars, tasks>>

SocketInit ==
    /\ LifecycleInit
    /\ socketRef = 0
    /\ readyState = [s \in Socket |-> "none"]
    /\ tasks = <<>>
    /\ connectionStatus = "CONNECTING"

\* Mutant: the cleanup does not close the socket.
MountAgain ==
    /\ socketRef' = 2
    /\ readyState' = [readyState EXCEPT ![1] = "CONNECTING", ![2] = "CONNECTING"]

\* Mount, cleanup and mount of StrictMode.
MountTwice ==
    /\ socketRef' = 2
    /\ readyState' = [readyState EXCEPT ![1] = "CLOSING", ![2] = "CONNECTING"]

MountOnce ==
    /\ socketRef' = 1
    /\ readyState' = [readyState EXCEPT ![1] = "CONNECTING"]

\* The effect of the hook.
Mount ==
    /\ socketRef = 0
    /\ MountOnce \/ MountTwice
    /\ connectionStatus' = "CONNECTING"
    /\ UNCHANGED <<lifecycleVars, tasks>>

Task(s, event) == tasks' = Append(tasks, [socket |-> s, event |-> event])

\* The network changes the connection of s.
Relink(s, l) ==
    /\ link' = [link EXCEPT ![s] = l]
    /\ UNCHANGED <<main, gServer, thread, handling, mutex, stopped, accept, acceptErrors, signalled>>

\* TCP connects, even if nobody accepts.
Connect(s) ==
    /\ readyState[s] \in {"CONNECTING", "CLOSING"} /\ link[s] = "none" /\ Listening
    /\ Relink(s, "backlog")
    /\ UNCHANGED <<pageVars, tasks>>

\* The connection ends, or never comes about.
Lose(s) ==
    /\ Relink(s, "lost")
    /\ Task(s, "close")
    /\ UNCHANGED pageVars

\* The server is not there.
PeerGone(s) ==
    /\ readyState[s] # "none" /\ link[s] # "lost" /\ ~Listening
    /\ Lose(s)

\* The browser gives up a socket that close() was called on.
Abandon(s) == readyState[s] = "CLOSING" /\ link[s] # "lost" /\ Lose(s)

\* The network fails.
Drop(s) == link[s] \in {"backlog", "taken", "session", "up", "opened"} /\ Lose(s)

\* The server's answer to the handshake arrives.
Opened(s) ==
    /\ link[s] = "up"
    /\ Relink(s, "opened")
    /\ Task(s, "open")
    /\ UNCHANGED pageVars

\* The task of a close event: onclose.
OnClose(s) ==
    /\ readyState' = [readyState EXCEPT ![s] = "CLOSED"]
    /\ connectionStatus' = "DISCONNECTED"

\* The task of an open event: onopen, unless close() was called meanwhile.
OnOpen(s) ==
    IF readyState[s] = "CONNECTING"
    THEN /\ readyState' = [readyState EXCEPT ![s] = "OPEN"]
         /\ connectionStatus' = "CONNECTED"
    ELSE UNCHANGED <<readyState, connectionStatus>>

RunTask ==
    /\ tasks # <<>>
    /\ tasks' = Tail(tasks)
    /\ IF Head(tasks).event = "open" THEN OnOpen(Head(tasks).socket)
                                     ELSE OnClose(Head(tasks).socket)
    /\ UNCHANGED <<lifecycleVars, socketRef>>

\* The user places or cancels an order and the socket is not open.
SendMessage ==
    /\ socketRef # 0 /\ readyState[socketRef] # "OPEN"
    /\ connectionStatus' = "DISCONNECTED"
    /\ UNCHANGED <<lifecycleVars, socketRef, readyState, tasks>>

Network(s) == Connect(s) \/ PeerGone(s) \/ Abandon(s) \/ Opened(s)

SocketNext == \/ ServerStep /\ UNCHANGED <<pageVars, tasks>>
              \/ Mount \/ RunTask \/ SendMessage
              \/ \E s \in Socket : Network(s) \/ Drop(s)

\* main and the threads go on, a handler returns, the network and the
\* browser's event loop do what is due.  Nobody is obliged to send a signal,
\* to use the terminal or to break a connection.
FairSocketSpec ==
    /\ SocketInit /\ [][SocketNext]_socketVars
    /\ WF_socketVars(MainStep /\ UNCHANGED <<pageVars, tasks>>)
    /\ \A t \in Thread : WF_socketVars(~Over /\ RunStep(t) /\ UNCHANGED <<pageVars, tasks>>)
    /\ \A s \in Socket : WF_socketVars(Network(s))
    /\ WF_socketVars(RunTask)

-----------------------------------------------------------------------------
(* Properties.                                                             *)

\* The terminal never shows a connection it does not have: while it shows
\* CONNECTED the socket it sends on is open.  The reverse holds but for the
\* close event of the first socket of a development build: nothing else takes
\* CONNECTED off an open connection.
StatusIsTrue ==
    [][/\ connectionStatus' = "CONNECTED" => readyState'[socketRef'] = "OPEN"
       /\ (socketRef # 0 /\ readyState[socketRef] # "OPEN" /\ readyState'[socketRef] = "OPEN") =>
             connectionStatus' = "CONNECTED"
       /\ (connectionStatus = "CONNECTED" /\ connectionStatus' # "CONNECTED"
             /\ readyState'[socketRef] = "OPEN") =>
             readyState[1] = "CLOSING" /\ readyState'[1] = "CLOSED"]_socketVars

\* A thread waits for ever for the mutex it holds.
Stuck == \E t \in Thread : thread[t] = "stuck"

\* server/README.md:90 speaks of graceful termination.  A signal that
\* gets as far as stop() ends the process, whatever the threads are doing and
\* however many handlers wait; and when the process is over, however it ended,
\* the terminal comes to show it and never shows CONNECTED again.
StopReachesTheTerminal ==
    /\ stopped ~> Over
    /\ []((Over /\ socketRef # 0) => <>[](connectionStatus = "DISCONNECTED"))

\* An attempt to connect is not left hanging: it opens or it fails, through
\* failing accepts and a stop at any moment, unless the signal handler has
\* taken a thread for good.
AttemptEnds ==
    \A s \in Socket :
        readyState[s] = "CONNECTING" ~> readyState[s] # "CONNECTING" \/ Stuck
=============================================================================
