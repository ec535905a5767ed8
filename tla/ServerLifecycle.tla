--------------------------- MODULE ServerLifecycle ---------------------------
(***************************************************************************)
(* main.cpp and Server.cpp: the server's process from its start to its     *)
(* end.  The main thread installs the signal handlers, builds the Server,  *)
(* which listens from then on, and joins the pool of threads that run the  *)
(* io_context; a signal stops the io_context; every thread leaves; the     *)
(* main thread joins the others, and the Server goes with the statics.     *)
(*                                                                         *)
(* io_context is modelled from what run() and stop() do: a thread takes    *)
(* the scheduler's mutex to look for work or for the stop, and releases it *)
(* before it runs a handler; stop() takes the same mutex.  std::signal     *)
(* installs a handler that runs in whatever thread the system interrupts.  *)
(* The system delivers one signal: a second may interrupt the destruction  *)
(* of the Server, of which the code takes no account.  Handlers of         *)
(* established sessions are in WebSocketSession; here are those that bring *)
(* a connection there.                                                     *)
(***************************************************************************)
EXTENDS Naturals, Sequences, FiniteSets

CONSTANTS Main, Worker,     \* the threads: hardware_concurrency() of them
          NoThread,
          Socket,           \* connections that are attempted
          MaxAcceptErrors   \* bound: how often an accept fails

ASSUME LifecycleAssumption == /\ Main \notin Worker /\ NoThread \notin Worker \cup {Main}
                              /\ MaxAcceptErrors \in Nat

Thread == Worker \cup {Main}

VARIABLES
    main,           \* how far main has come
    gServer,        \* "null", "set"
    thread,         \* where a thread is in ioc_.run()
    handling,       \* the handler a thread is running
    mutex,          \* who holds the scheduler's mutex
    stopped,        \* stop() has been called
    accept,         \* an async_accept is outstanding
    acceptErrors,
    link,           \* how far a connection has come
    signalled       \* a signal has been delivered

lifecycleVars == <<main, gServer, thread, handling, mutex, stopped, accept,
                   acceptErrors, link, signalled>>

NoHandler == [kind |-> "none"]

LifecycleInit ==
    /\ main = "start" /\ gServer = "null"
    /\ thread = [t \in Thread |-> "out"] /\ handling = [t \in Thread |-> NoHandler]
    /\ mutex = NoThread /\ stopped = FALSE
    /\ accept = FALSE /\ acceptErrors = 0
    /\ link = [s \in Socket |-> "none"]
    /\ signalled = FALSE

Over == main \in {"exited", "killed"}

\* The acceptor listens as long as the Server exists.
Listening == main \in {"built", "spawning", "running", "joining"}

-----------------------------------------------------------------------------
(* The main thread.                                                        *)

InstallHandlers ==
    /\ main = "start" /\ main' = "constructing"
    /\ UNCHANGED <<gServer, thread, handling, mutex, stopped, accept, acceptErrors, link, signalled>>

\* An invalid port before the handlers, or a port the Server cannot bind.
Fail ==
    /\ main \in {"start", "constructing"} /\ main' = "exited"
    /\ UNCHANGED <<gServer, thread, handling, mutex, stopped, accept, acceptErrors, link, signalled>>

Construct ==
    /\ main = "constructing" /\ main' = "built"
    /\ UNCHANGED <<gServer, thread, handling, mutex, stopped, accept, acceptErrors, link, signalled>>

\* The assignment to gServer, and Server::run up to the first thread, of which
\* there is none on a machine with one processor.
Run ==
    /\ main = "built" /\ main' = IF Worker = {} THEN "running" ELSE "spawning"
    /\ gServer' = "set" /\ accept' = TRUE
    /\ UNCHANGED <<thread, handling, mutex, stopped, acceptErrors, link, signalled>>

\* The threads that have been started are in run() or have left it.
Spawn(t) ==
    /\ main = "spawning" /\ thread[t] = "out"
    /\ thread' = [thread EXCEPT ![t] = "waiting"]
    /\ main' = IF \A w \in Worker \ {t} : thread[w] # "out" THEN "running" ELSE "spawning"
    /\ UNCHANGED <<gServer, handling, mutex, stopped, accept, acceptErrors, link, signalled>>

\* main's own ioc_.run().
Enter ==
    /\ main = "running" /\ thread[Main] = "out"
    /\ thread' = [thread EXCEPT ![Main] = "waiting"]
    /\ UNCHANGED <<main, gServer, handling, mutex, stopped, accept, acceptErrors, link, signalled>>

\* Mutant: the threads are detached.
JoinNobody ==
    /\ main = "running" /\ thread[Main] = "left"
    /\ main' = "destroying"
    /\ UNCHANGED <<gServer, thread, handling, mutex, stopped, accept, acceptErrors, link, signalled>>

Join ==
    /\ main = "running" /\ thread[Main] = "left"
    /\ \A w \in Worker : thread[w] = "left"
    /\ main' = "destroying"
    /\ UNCHANGED <<gServer, thread, handling, mutex, stopped, accept, acceptErrors, link, signalled>>

\* The destructors of the statics, and the end of the process.
Destroy ==
    /\ main = "destroying" /\ main' = "exited" /\ gServer' = "null"
    /\ UNCHANGED <<thread, handling, mutex, stopped, accept, acceptErrors, link, signalled>>

MainStep == \/ InstallHandlers \/ Construct \/ Run \/ Enter \/ Join \/ Destroy
            \/ \E t \in Worker : Spawn(t)

-----------------------------------------------------------------------------
(* A thread in ioc_.run().                                                 *)

\* What a thread can be given to do.
Work ==
    {[kind |-> "accepted", socket |-> s] : s \in {x \in Socket : accept /\ link[x] = "backlog"}}
        \cup {[kind |-> "handshake", socket |-> s] : s \in {x \in Socket : link[x] = "session"}}
        \cup (IF accept /\ acceptErrors < MaxAcceptErrors THEN {[kind |-> "acceptError"]} ELSE {})

\* It is woken when there is something to do.
Lock(t) ==
    /\ thread[t] = "waiting" /\ mutex = NoThread
    /\ stopped \/ Work # {}
    /\ mutex' = t
    /\ UNCHANGED <<main, gServer, thread, handling, stopped, accept, acceptErrors, link, signalled>>

\* Mutant: a thread leaves only when there is nothing left to do.
LeaveWhenIdle(t) ==
    /\ mutex = t /\ thread[t] = "waiting" /\ stopped /\ Work = {}
    /\ mutex' = NoThread
    /\ thread' = [thread EXCEPT ![t] = "left"]
    /\ UNCHANGED <<main, gServer, handling, stopped, accept, acceptErrors, link, signalled>>

\* run() returns once the io_context is stopped.
Leave(t) ==
    /\ mutex = t /\ thread[t] = "waiting" /\ stopped
    /\ mutex' = NoThread
    /\ thread' = [thread EXCEPT ![t] = "left"]
    /\ UNCHANGED <<main, gServer, handling, stopped, accept, acceptErrors, link, signalled>>

\* It takes a handler, or finds that another thread was faster.
Take(t) ==
    /\ mutex = t /\ thread[t] = "waiting" /\ ~stopped
    /\ mutex' = NoThread
    /\ IF Work = {}
       THEN UNCHANGED <<thread, handling, accept, acceptErrors, link>>
       ELSE \E w \in Work :
               /\ thread' = [thread EXCEPT ![t] = "handler"]
               /\ handling' = [handling EXCEPT ![t] = w]
               /\ accept' = (accept /\ w.kind = "handshake")
               /\ acceptErrors' = IF w.kind = "acceptError" THEN acceptErrors + 1 ELSE acceptErrors
               /\ link' = IF w.kind = "acceptError" THEN link
                          ELSE [link EXCEPT ![w.socket] = "taken"]
    /\ UNCHANGED <<main, gServer, stopped, signalled>>

\* Mutant: no new accept after an error.
AcceptHandlerStops(t) ==
    /\ thread[t] = "handler" /\ handling[t].kind \in {"accepted", "acceptError"}
    /\ link' = IF handling[t].kind = "accepted" /\ link[handling[t].socket] = "taken"
               THEN [link EXCEPT ![handling[t].socket] = "session"] ELSE link
    /\ accept' = (handling[t].kind = "accepted")
    /\ thread' = [thread EXCEPT ![t] = "waiting"]
    /\ handling' = [handling EXCEPT ![t] = NoHandler]
    /\ UNCHANGED <<main, gServer, mutex, stopped, acceptErrors, signalled>>

\* The handler of async_accept: a session whose handler is posted, or a line
\* in the log, and the next accept.
AcceptHandler(t) ==
    /\ thread[t] = "handler" /\ handling[t].kind \in {"accepted", "acceptError"}
    /\ link' = IF handling[t].kind = "accepted" /\ link[handling[t].socket] = "taken"
               THEN [link EXCEPT ![handling[t].socket] = "session"] ELSE link
    /\ accept' = TRUE
    /\ thread' = [thread EXCEPT ![t] = "waiting"]
    /\ handling' = [handling EXCEPT ![t] = NoHandler]
    /\ UNCHANGED <<main, gServer, mutex, stopped, acceptErrors, signalled>>

\* The WebSocket handshake of a session: the client can open, if it is there.
Handshake(t) ==
    /\ thread[t] = "handler" /\ handling[t].kind = "handshake"
    /\ link' = IF link[handling[t].socket] = "taken"
               THEN [link EXCEPT ![handling[t].socket] = "up"] ELSE link
    /\ thread' = [thread EXCEPT ![t] = "waiting"]
    /\ handling' = [handling EXCEPT ![t] = NoHandler]
    /\ UNCHANGED <<main, gServer, mutex, stopped, accept, acceptErrors, signalled>>

RunStep(t) == Lock(t) \/ Leave(t) \/ Take(t) \/ AcceptHandler(t) \/ Handshake(t)

-----------------------------------------------------------------------------
(* Signals and the worse.                                                  *)

Alive(t) == t = Main \/ thread[t] \in {"waiting", "handler"}

\* The default action, before the handlers are installed.
DefaultSignal ==
    /\ ~signalled /\ signalled' = TRUE
    /\ main = "start" /\ main' = "killed"
    /\ UNCHANGED <<gServer, thread, handling, mutex, stopped, accept, acceptErrors, link>>

\* signalHandler in thread t.  Where gServer is not set it does nothing.  stop()
\* waits for the scheduler's mutex, for ever if t itself holds it.
Signal(t) ==
    /\ ~signalled /\ signalled' = TRUE
    /\ ~Over /\ main # "start" /\ Alive(t)
    /\ \/ /\ gServer = "null" /\ UNCHANGED <<stopped, thread>>
       \/ /\ gServer = "set" /\ mutex = NoThread
          /\ stopped' = TRUE /\ UNCHANGED thread
       \/ /\ gServer = "set" /\ mutex = t
          /\ thread' = [thread EXCEPT ![t] = "stuck"] /\ UNCHANGED stopped
    /\ UNCHANGED <<main, gServer, handling, mutex, accept, acceptErrors, link>>

\* The process is killed, or ended by an exception no handler catches.
Crash ==
    /\ ~Over /\ main' = "killed"
    /\ UNCHANGED <<gServer, thread, handling, mutex, stopped, accept, acceptErrors, link, signalled>>

ServerStep == \/ MainStep \/ Fail \/ DefaultSignal \/ Crash
              \/ \E t \in Thread : ~Over /\ RunStep(t)
              \/ \E t \in Thread : Signal(t)

-----------------------------------------------------------------------------
(* Properties.                                                             *)

\* The Server, on whose members every handler works, is destroyed only after
\* the last handler has returned: no thread runs one, or can ever run another.
NoHandlerAfterDestruction ==
    main = "destroying" => /\ mutex = NoThread
                           /\ \A t \in Thread : thread[t] = "left" /\ handling[t] = NoHandler
=============================================================================
