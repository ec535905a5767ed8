------------------------ MODULE TerminalSocket_proofs ------------------------
(***************************************************************************)
(* The Server outlives its handlers and the terminal's connection status   *)
(* is true, for any number of threads, whenever the signal comes and       *)
(* whichever thread it takes.                                              *)
(***************************************************************************)
EXTENDS TerminalSocket, TLAPS

\* handling is a function on the threads; what it is set to is left open.
HandlingIsFunction == handling = [t \in Thread |-> handling[t]]

ThreadTypeOK ==
    /\ thread \in [Thread -> {"out", "waiting", "handler", "left", "stuck"}]
    /\ HandlingIsFunction

\* Only a thread between two handlers holds the scheduler's mutex, and only a
\* thread in a handler has one.
MutexHeldInRun == mutex # NoThread => mutex \in Thread /\ thread[mutex] \in {"waiting", "stuck"}
HandlerInHandler == \A t \in Thread : handling[t] # NoHandler => thread[t] = "handler"

\* What main has waited for.
AllJoined == main = "destroying" => \A t \in Thread : thread[t] = "left"

LifeInv == ThreadTypeOK /\ MutexHeldInRun /\ HandlerInHandler /\ AllJoined

\* What LifeInv looks at.
lifeVars == <<main, thread, handling, mutex>>

LEMMA InitLife == LifecycleInit => LifeInv
BY LifecycleAssumption
   DEF LifecycleInit, LifeInv, ThreadTypeOK, HandlingIsFunction, MutexHeldInRun,
       HandlerInHandler, AllJoined

LEMMA LifeUnchanged == LifeInv /\ UNCHANGED lifeVars => LifeInv'
BY DEF LifeInv, ThreadTypeOK, HandlingIsFunction, MutexHeldInRun, HandlerInHandler,
       AllJoined, lifeVars

\* The main thread: it is the join that makes AllJoined true.
LEMMA MainKeepsLife == ASSUME LifeInv, MainStep \/ Fail PROVE LifeInv'
<1>. USE DEF LifeInv, ThreadTypeOK, HandlingIsFunction, MutexHeldInRun,
             HandlerInHandler, AllJoined, Thread
<1>1. CASE InstallHandlers BY <1>1 DEF InstallHandlers
<1>2. CASE Construct BY <1>2 DEF Construct
<1>3. CASE Run BY <1>3 DEF Run
<1>4. CASE Enter BY <1>4, LifecycleAssumption DEF Enter
<1>5. CASE Join BY <1>5 DEF Join
<1>6. CASE Destroy BY <1>6 DEF Destroy
<1>7. CASE Fail BY <1>7 DEF Fail
<1>8. ASSUME NEW t \in Worker, Spawn(t) PROVE LifeInv'
  BY <1>8, LifecycleAssumption DEF Spawn
<1>. QED BY <1>1, <1>2, <1>3, <1>4, <1>5, <1>6, <1>7, <1>8 DEF MainStep

\* A thread of the pool never leaves "left", and takes a handler only from
\* "waiting".
LEMMA RunKeepsLife == ASSUME LifeInv, NEW t \in Thread, RunStep(t) PROVE LifeInv'
<1>. USE DEF LifeInv, ThreadTypeOK, HandlingIsFunction, MutexHeldInRun,
             HandlerInHandler, AllJoined
<1>1. CASE Lock(t) BY <1>1 DEF Lock
<1>2. CASE Leave(t) BY <1>2 DEF Leave
<1>3. CASE Take(t) /\ Work = {} BY <1>3 DEF Take
<1>4. CASE Take(t) /\ Work # {}
  <2>1. PICK w \in Work : /\ thread' = [thread EXCEPT ![t] = "handler"]
                          /\ handling' = [handling EXCEPT ![t] = w]
    BY <1>4 DEF Take
  <2>. QED BY <1>4, <2>1 DEF Take
<1>5. CASE AcceptHandler(t)
  <2>1. mutex # t BY <1>5, LifecycleAssumption DEF AcceptHandler, Thread
  <2>. QED BY <1>5, <2>1 DEF AcceptHandler
<1>6. CASE Handshake(t)
  <2>1. mutex # t BY <1>6, LifecycleAssumption DEF Handshake, Thread
  <2>. QED BY <1>6, <2>1 DEF Handshake
<1>. QED BY <1>1, <1>2, <1>3, <1>4, <1>5, <1>6 DEF RunStep

\* A signal sticks a thread that holds the mutex, and no thread that has left
\* holds it.
LEMMA SignalKeepsLife == ASSUME LifeInv, NEW t \in Thread, Signal(t) PROVE LifeInv'
BY LifecycleAssumption
   DEF LifeInv, ThreadTypeOK, HandlingIsFunction, MutexHeldInRun, HandlerInHandler,
       AllJoined, Signal, Thread

LEMMA ServerKeepsLife == ASSUME LifeInv, ServerStep PROVE LifeInv'
<1>1. CASE DefaultSignal \/ Crash
  BY <1>1 DEF DefaultSignal, Crash, LifeInv, ThreadTypeOK, HandlingIsFunction,
              MutexHeldInRun, HandlerInHandler, AllJoined
<1>. QED BY <1>1, MainKeepsLife, RunKeepsLife, SignalKeepsLife DEF ServerStep

\* The terminal and the network touch nothing of it.
LEMMA NextKeepsLife == LifeInv /\ [SocketNext]_socketVars => LifeInv'
<1>. SUFFICES ASSUME LifeInv, [SocketNext]_socketVars PROVE LifeInv'
  OBVIOUS
<1>1. CASE ServerStep BY <1>1, ServerKeepsLife
<1>2. ASSUME NEW s \in Socket, Network(s) \/ Drop(s) PROVE UNCHANGED lifeVars
  BY <1>2 DEF Network, Drop, Connect, PeerGone, Abandon, Opened, Lose, Relink, lifeVars
<1>3. CASE Mount \/ RunTask \/ SendMessage \/ UNCHANGED socketVars
  <2>1. UNCHANGED lifeVars
    BY <1>3 DEF Mount, RunTask, SendMessage, socketVars, lifecycleVars, lifeVars
  <2>. QED BY <2>1, LifeUnchanged
<1>. QED BY <1>1, <1>2, <1>3, LifeUnchanged DEF SocketNext

LEMMA LifeInvSafe == LifeInv => NoHandlerAfterDestruction
BY DEF LifeInv, ThreadTypeOK, MutexHeldInRun, HandlerInHandler, AllJoined,
       NoHandlerAfterDestruction

\* The Server is destroyed only after the last handler has returned, for any
\* number of threads: std::thread::join in Server::run is what it rests on.
THEOREM ServerOutlivesHandlers == FairSocketSpec => []NoHandlerAfterDestruction
<1>1. SocketInit => LifeInv
  BY InitLife DEF SocketInit
<1>. QED BY <1>1, NextKeepsLife, LifeInvSafe, PTL DEF FairSocketSpec

-----------------------------------------------------------------------------
(* The page.                                                               *)

Link == {"none", "backlog", "taken", "session", "up", "opened", "lost"}

Event == [socket : Socket, event : {"open", "close"}]

PageTypeOK ==
    /\ socketRef \in {0, 1, 2}
    /\ readyState \in [Socket -> {"none", "CONNECTING", "CLOSING", "OPEN", "CLOSED"}]
    /\ link \in [Socket -> Link]
    /\ tasks \in Seq(Event)

\* The socket in use is the last one; only the first one is ever closed.
SocketsKnown ==
    \A s \in Socket : /\ readyState[s] \in {"CONNECTING", "OPEN"} => s = socketRef
                      /\ readyState[s] = "CLOSING" => s = 1
                      /\ socketRef = 0 => readyState[s] = "none"
                      /\ readyState[s] = "none" => link[s] = "none"
                      /\ readyState[s] = "CLOSED" => link[s] = "lost"

ConnectedIsOpen ==
    connectionStatus = "CONNECTED" => socketRef # 0 /\ readyState[socketRef] = "OPEN"

IsClose(i) == tasks[i].event = "close"

\* A socket's close event is the last thing that happens to it, and it comes
\* once.
TasksDue ==
    \A i \in 1..Len(tasks) :
        /\ readyState[tasks[i].socket] # "none"
        /\ IsClose(i) => /\ link[tasks[i].socket] = "lost"
                         /\ readyState[tasks[i].socket] # "CLOSED"
        /\ \A j \in 1..Len(tasks) :
              IsClose(i) /\ IsClose(j) /\ tasks[i].socket = tasks[j].socket => i = j

PageInv == PageTypeOK /\ SocketsKnown /\ ConnectedIsOpen /\ TasksDue

\* What is left of a non-empty sequence.
LEMMA TailFacts ==
  ASSUME NEW S, NEW q \in Seq(S), q # <<>>
  PROVE  /\ Head(q) = q[1] /\ 1 \in 1..Len(q) /\ Len(q) \in Nat
         /\ Tail(q) \in Seq(S) /\ Len(Tail(q)) = Len(q) - 1
         /\ \A i \in 1..Len(Tail(q)) : Tail(q)[i] = q[i + 1] /\ i + 1 \in 1..Len(q)
OBVIOUS

LEMMA TaskFacts ==
  ASSUME PageTypeOK, NEW i \in 1..Len(tasks)
  PROVE  tasks[i] \in Event /\ tasks[i].socket \in Socket /\ tasks[i].event \in {"open", "close"}
<1>1. tasks[i] \in Event
  BY DEF PageTypeOK
<1>. QED BY <1>1 DEF Event

LEMMA InitPage == SocketInit => PageInv
BY SocketAssumption
   DEF SocketInit, LifecycleInit, PageInv, PageTypeOK, Link, SocketsKnown,
       ConnectedIsOpen, TasksDue, IsClose

\* The server takes a connection further, but starts and ends none.
LinkKept == /\ link' \in [Socket -> Link]
            /\ \A s \in Socket : link[s] \in {"none", "lost"} => link'[s] = link[s]

LEMMA ServerKeepsLink == ASSUME link \in [Socket -> Link], ServerStep PROVE LinkKept
<1>. USE DEF LinkKept, Link
<1>1. CASE MainStep \/ Fail \/ DefaultSignal \/ Crash
  BY <1>1 DEF MainStep, Fail, DefaultSignal, Crash, InstallHandlers, Construct, Run,
              Enter, Join, Destroy, Spawn
<1>2. ASSUME NEW t \in Thread, Signal(t) PROVE LinkKept
  BY <1>2 DEF Signal
<1>3. ASSUME NEW t \in Thread, Lock(t) \/ Leave(t) \/ AcceptHandler(t) \/ Handshake(t)
      PROVE  LinkKept
  BY <1>3 DEF Lock, Leave, AcceptHandler, Handshake
<1>4. ASSUME NEW t \in Thread, Take(t) PROVE LinkKept
  <2>1. CASE Work = {} BY <1>4, <2>1 DEF Take
  <2>2. CASE Work # {}
    <3>1. PICK w \in Work : link' = IF w.kind = "acceptError" THEN link
                                    ELSE [link EXCEPT ![w.socket] = "taken"]
      BY <1>4, <2>2 DEF Take
    <3>2. \/ w.kind = "acceptError"
          \/ w.socket \in Socket /\ link[w.socket] \in {"backlog", "session"}
      BY DEF Work
    <3>. QED BY <3>1, <3>2
  <2>. QED BY <2>1, <2>2
<1>. QED BY <1>1, <1>2, <1>3, <1>4 DEF ServerStep, RunStep

LEMMA ServerKeepsPage ==
  ASSUME PageInv, LinkKept, UNCHANGED <<pageVars, tasks>>
  PROVE  PageInv'
<1>1. UNCHANGED <<socketRef, readyState, connectionStatus, tasks>>
  BY DEF pageVars
<1>2. PageTypeOK' /\ SocketsKnown' /\ ConnectedIsOpen'
  BY <1>1 DEF PageInv, PageTypeOK, SocketsKnown, ConnectedIsOpen, LinkKept
<1>3. TasksDue'
  BY <1>1, TaskFacts DEF PageInv, TasksDue, IsClose, LinkKept
<1>. QED BY <1>2, <1>3 DEF PageInv

\* Before it there is no socket, so nothing can be due.
LEMMA MountKeepsPage == ASSUME PageInv, Mount PROVE PageInv'
<1>1. /\ \A i \in 1..Len(tasks) : FALSE
      /\ link' = link /\ tasks' = tasks /\ connectionStatus' = "CONNECTING"
  BY TaskFacts DEF Mount, lifecycleVars, PageInv, SocketsKnown, TasksDue
<1>2. TasksDue' /\ ConnectedIsOpen'
  BY <1>1 DEF TasksDue, ConnectedIsOpen
<1>3. PageTypeOK' /\ SocketsKnown'
  BY <1>1, SocketAssumption
     DEF Mount, MountOnce, MountTwice, PageInv, PageTypeOK, SocketsKnown
<1>. QED BY <1>2, <1>3 DEF PageInv

\* A connection that was not lost yet: its close event is the first.
LEMMA LoseKeepsPage ==
  ASSUME PageInv, NEW s \in Socket, readyState[s] # "none", link[s] # "lost", Lose(s)
  PROVE  PageInv'
<1>1. /\ link' = [link EXCEPT ![s] = "lost"]
      /\ tasks' = Append(tasks, [socket |-> s, event |-> "close"])
      /\ UNCHANGED <<socketRef, readyState, connectionStatus>>
  BY DEF Lose, Relink, Task, pageVars
<1>2. PageTypeOK'
  <2>1. [socket |-> s, event |-> "close"] \in Event
    BY DEF Event
  <2>. QED BY <1>1, <2>1 DEF PageInv, PageTypeOK, Link
<1>3. SocketsKnown' /\ ConnectedIsOpen'
  BY <1>1 DEF PageInv, PageTypeOK, SocketsKnown, ConnectedIsOpen
<1>4. readyState[s] # "CLOSED"
  BY DEF PageInv, SocketsKnown
<1>5. \A i \in 1..Len(tasks) : IsClose(i) => tasks[i].socket # s
  BY DEF PageInv, TasksDue
<1>6. /\ Len(tasks') = Len(tasks) + 1 /\ Len(tasks) \in Nat
      /\ \A i \in 1..Len(tasks) : tasks'[i] = tasks[i]
      /\ tasks'[Len(tasks) + 1] = [socket |-> s, event |-> "close"]
  BY <1>1 DEF PageInv, PageTypeOK
<1>7. TasksDue'
  BY <1>1, <1>4, <1>5, <1>6 DEF PageInv, PageTypeOK, TasksDue, IsClose
<1>. QED BY <1>2, <1>3, <1>7 DEF PageInv

LEMMA NetworkKeepsPage ==
  ASSUME PageInv, NEW s \in Socket, Network(s) \/ Drop(s)
  PROVE  PageInv'
<1>1. CASE Connect(s)
  BY <1>1 DEF Connect, Relink, pageVars, PageInv, PageTypeOK, SocketsKnown,
              ConnectedIsOpen, TasksDue, IsClose, Link
<1>2. CASE Opened(s)
  <2>1. /\ link' = [link EXCEPT ![s] = "opened"]
        /\ tasks' = Append(tasks, [socket |-> s, event |-> "open"])
        /\ UNCHANGED <<socketRef, readyState, connectionStatus>>
    BY <1>2 DEF Opened, Relink, Task, pageVars
  <2>. [socket |-> s, event |-> "open"] \in Event
    BY DEF Event
  <2>2. PageTypeOK' /\ SocketsKnown' /\ ConnectedIsOpen'
    BY <1>2, <2>1 DEF Opened, PageInv, PageTypeOK, SocketsKnown, ConnectedIsOpen, Link
  <2>3. readyState[s] # "none"
    BY <1>2 DEF Opened, PageInv, SocketsKnown
  <2>4. /\ Len(tasks') = Len(tasks) + 1 /\ Len(tasks) \in Nat
        /\ \A i \in 1..Len(tasks) : tasks'[i] = tasks[i]
        /\ tasks'[Len(tasks) + 1] = [socket |-> s, event |-> "open"]
    BY <2>1 DEF PageInv, PageTypeOK
  <2>5. \A i \in 1..Len(tasks) : IsClose(i) => tasks[i].socket # s
    BY <1>2 DEF Opened, PageInv, TasksDue
  <2>6. TasksDue'
    BY <2>1, <2>3, <2>4, <2>5 DEF PageInv, PageTypeOK, TasksDue, IsClose
  <2>. QED BY <2>2, <2>6 DEF PageInv
<1>3. CASE PeerGone(s) \/ Abandon(s) \/ Drop(s)
  <2>1. readyState[s] # "none" /\ link[s] # "lost" /\ Lose(s)
    BY <1>3 DEF PeerGone, Abandon, Drop, PageInv, SocketsKnown
  <2>. QED BY <2>1, LoseKeepsPage
<1>. QED BY <1>1, <1>2, <1>3 DEF Network

\* The task at the head is that of a socket in use, whose later tasks are not
\* close events if it is one itself.
LEMMA RunTaskKeepsPage == ASSUME PageInv, RunTask PROVE PageInv'
<1>. DEFINE s == Head(tasks).socket
<1>1. /\ s \in Socket /\ s = tasks[1].socket /\ Head(tasks) = tasks[1] /\ 1 \in 1..Len(tasks)
      /\ Len(tasks) \in Nat /\ Len(tasks') = Len(tasks) - 1
      /\ \A i \in 1..Len(tasks') : tasks'[i] = tasks[i + 1] /\ i + 1 \in 1..Len(tasks)
      /\ tasks' \in Seq(Event)
  BY TailFacts, TaskFacts DEF RunTask, PageInv, PageTypeOK
<1>2. link' = link /\ socketRef' = socketRef
  BY DEF RunTask, lifecycleVars
\* TasksDue of the tasks that are left, before the head has done anything.
<1>. DEFINE Closes(i) == tasks'[i].event = "close"
<1>3. \A i \in 1..Len(tasks') :
         /\ tasks'[i].socket \in Socket /\ tasks'[i].socket = tasks[i + 1].socket
         /\ Closes(i) <=> IsClose(i + 1)
         /\ i + 1 \in 1..Len(tasks) /\ i + 1 # 1
  BY <1>1, TaskFacts DEF PageInv, IsClose
<1>4. \A i \in 1..Len(tasks') :
         /\ readyState[tasks'[i].socket] # "none"
         /\ Closes(i) => link[tasks'[i].socket] = "lost" /\ readyState[tasks'[i].socket] # "CLOSED"
  BY <1>3 DEF PageInv, TasksDue
<1>5. \A i, j \in 1..Len(tasks') :
         Closes(i) /\ Closes(j) /\ tasks'[i].socket = tasks'[j].socket => i = j
  <2>1. SUFFICES ASSUME NEW i \in 1..Len(tasks'), NEW j \in 1..Len(tasks'),
                        Closes(i), Closes(j), tasks'[i].socket = tasks'[j].socket
                 PROVE  i = j
    OBVIOUS
  <2>2. i + 1 = j + 1
    BY <1>3, <2>1 DEF PageInv, TasksDue
  <2>. QED BY <2>2
<1>6. CASE Head(tasks).event = "open"
  <2>1. CASE readyState[s] = "CONNECTING"
    <3>1. /\ readyState' = [readyState EXCEPT ![s] = "OPEN"]
          /\ connectionStatus' = "CONNECTED"
      BY <1>6, <2>1 DEF RunTask, OnOpen
    <3>. HIDE DEF s
    <3>2. PageTypeOK' /\ SocketsKnown' /\ ConnectedIsOpen'
      BY <1>1, <1>2, <2>1, <3>1, SocketAssumption
         DEF PageInv, PageTypeOK, SocketsKnown, ConnectedIsOpen
    <3>3. TasksDue'
      BY <1>2, <1>3, <1>4, <1>5, <2>1, <3>1 DEF PageInv, PageTypeOK, TasksDue, IsClose
    <3>. QED BY <3>2, <3>3 DEF PageInv
  <2>2. CASE readyState[s] # "CONNECTING"
    <3>1. UNCHANGED <<readyState, connectionStatus>>
      BY <1>6, <2>2 DEF RunTask, OnOpen
    <3>2. TasksDue'
      BY <1>2, <1>4, <1>5, <3>1 DEF TasksDue, IsClose
    <3>. QED BY <1>1, <1>2, <3>1, <3>2
             DEF PageInv, PageTypeOK, SocketsKnown, ConnectedIsOpen
  <2>. QED BY <2>1, <2>2
<1>7. CASE Head(tasks).event # "open"
  <2>1. /\ readyState' = [readyState EXCEPT ![s] = "CLOSED"]
        /\ connectionStatus' = "DISCONNECTED"
    BY <1>7 DEF RunTask, OnClose
  <2>2. IsClose(1)
    BY <1>1, <1>7, TaskFacts DEF IsClose, PageInv
  <2>. HIDE DEF s
  <2>3. PageTypeOK' /\ SocketsKnown' /\ ConnectedIsOpen'
    BY <1>1, <1>2, <2>1, <2>2
       DEF PageInv, PageTypeOK, SocketsKnown, ConnectedIsOpen, TasksDue
  <2>4. \A i \in 1..Len(tasks) : IsClose(i) /\ tasks[i].socket = s => i = 1
    BY <1>1, <2>2 DEF PageInv, TasksDue
  <2>5. TasksDue'
    BY <1>2, <1>3, <1>4, <1>5, <2>1, <2>4 DEF PageInv, PageTypeOK, TasksDue, IsClose
  <2>. QED BY <2>3, <2>5 DEF PageInv
<1>. QED BY <1>6, <1>7

LEMMA NextKeepsPage == PageInv /\ [SocketNext]_socketVars => PageInv'
<1>. SUFFICES ASSUME PageInv, [SocketNext]_socketVars PROVE PageInv'
  OBVIOUS
<1>1. CASE ServerStep /\ UNCHANGED <<pageVars, tasks>>
  BY <1>1, ServerKeepsLink, ServerKeepsPage DEF PageInv, PageTypeOK
<1>2. CASE SendMessage
  BY <1>2 DEF SendMessage, lifecycleVars, PageInv, PageTypeOK, SocketsKnown,
              ConnectedIsOpen, TasksDue, IsClose
<1>3. CASE UNCHANGED socketVars
  BY <1>3, ServerKeepsPage DEF socketVars, lifecycleVars, LinkKept, PageInv, PageTypeOK
<1>. QED BY <1>1, <1>2, <1>3, MountKeepsPage, RunTaskKeepsPage, NetworkKeepsPage
         DEF SocketNext

\* The action of StatusIsTrue.
StatusStep ==
    /\ connectionStatus' = "CONNECTED" => readyState'[socketRef'] = "OPEN"
    /\ (socketRef # 0 /\ readyState[socketRef] # "OPEN" /\ readyState'[socketRef] = "OPEN") =>
          connectionStatus' = "CONNECTED"
    /\ (connectionStatus = "CONNECTED" /\ connectionStatus' # "CONNECTED"
          /\ readyState'[socketRef] = "OPEN") =>
          readyState[1] = "CLOSING" /\ readyState'[1] = "CLOSED"

\* Only a task, a mount and an attempt to send change what the page shows.
LEMMA StatusStepHolds == ASSUME PageInv, PageInv', [SocketNext]_socketVars PROVE StatusStep
<1>1. connectionStatus' = "CONNECTED" => readyState'[socketRef'] = "OPEN"
  BY DEF PageInv, ConnectedIsOpen
<1>2. CASE UNCHANGED pageVars
  BY <1>1, <1>2 DEF pageVars, StatusStep
<1>3. CASE Mount \/ SendMessage
  BY <1>1, <1>3 DEF Mount, SendMessage, StatusStep, PageInv, ConnectedIsOpen
<1>4. CASE RunTask
  <2>. DEFINE s == Head(tasks).socket
  <2>1. s \in Socket /\ s = tasks[1].socket /\ Head(tasks) = tasks[1] /\ 1 \in 1..Len(tasks)
    BY <1>4, TailFacts, TaskFacts DEF RunTask, PageInv, PageTypeOK
  <2>2. CASE Head(tasks).event = "open"
    BY <1>1, <1>4, <2>1, <2>2
       DEF RunTask, OnOpen, StatusStep, PageInv, PageTypeOK, SocketsKnown
  <2>3. CASE Head(tasks).event # "open"
    <3>1. readyState' = [readyState EXCEPT ![s] = "CLOSED"]
      BY <1>4, <2>3 DEF RunTask, OnClose
    <3>2. readyState[s] \notin {"none", "CLOSED"}
      BY <2>1, <2>3, TaskFacts DEF PageInv, TasksDue, IsClose
    <3>3. socketRef # 0 /\ readyState'[socketRef] = "OPEN" =>
             s # socketRef /\ readyState[socketRef] = "OPEN"
      BY <2>1, <3>1, SocketAssumption DEF PageInv, PageTypeOK
    <3>4. s # socketRef => s = 1 /\ readyState[s] = "CLOSING"
      BY <2>1, <3>2 DEF PageInv, PageTypeOK, SocketsKnown
    <3>. HIDE DEF s
    <3>5. connectionStatus = "CONNECTED" => socketRef # 0
      BY DEF PageInv, ConnectedIsOpen
    <3>. QED BY <1>1, <2>1, <3>1, <3>3, <3>4, <3>5, SocketAssumption
             DEF StatusStep, PageInv, PageTypeOK
  <2>. QED BY <2>2, <2>3
<1>. QED
  <2>1. ASSUME NEW s \in Socket, Network(s) \/ Drop(s) PROVE UNCHANGED pageVars
    BY <2>1 DEF Network, Drop, Connect, PeerGone, Abandon, Opened, Lose
  <2>. QED BY <1>2, <1>3, <1>4, <2>1 DEF SocketNext, socketVars, pageVars

\* The terminal shows CONNECTED only on an open socket, and loses it only to the
\* close event of the first socket under StrictMode, whatever server, network
\* and threads do.
THEOREM ConnectionStatusIsTrue == FairSocketSpec => StatusIsTrue
<1>1. SocketInit => PageInv
  BY InitPage
<1>2. PageInv /\ PageInv' /\ [SocketNext]_socketVars => [StatusStep]_socketVars
  BY StatusStepHolds
<1>3. SocketInit /\ [][SocketNext]_socketVars => [][StatusStep]_socketVars
  BY <1>1, <1>2, NextKeepsPage, PTL
<1>. QED BY <1>3, PTL DEF FairSocketSpec, StatusIsTrue, StatusStep
=============================================================================
