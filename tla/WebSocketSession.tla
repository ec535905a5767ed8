-------------------------- MODULE WebSocketSession --------------------------
(***************************************************************************)
(* Message delivery in the server: server/src/WebSocketSession.cpp and     *)
(* ClientManager.cpp, with as much of RequestHandler.cpp as decides when   *)
(* the book is changed, read and announced.                                *)
(*                                                                         *)
(* Every session has a strand: its own handlers (onAccept, onRead, onSend, *)
(* onWrite) run one at a time, in any thread of the pool, and those of two *)
(* sessions run concurrently.  onAccept and onRead are not atomic for the  *)
(* other sessions, so they are split where they touch what is shared: the  *)
(* set sessions_ of ClientManager, the book behind the engine lock, and    *)
(* the other sessions' strands.  onSend, onWrite and disconnect are one    *)
(* step each: they touch the session's own state, and removeClient.        *)
(*                                                                         *)
(* The book is the number of changes made to it, bookVersion: all that     *)
(* matters here is which state of the book a snapshot shows.               *)
(***************************************************************************)
EXTENDS Integers, Sequences, FiniteSets, SequencesExt

CONSTANTS Session,
          MaxRequests,  \* bound: the requests all clients send together
          MaxLoad,      \* bound: those requests and the events they give rise to
          MaxLeavers,   \* bound: how many sessions are closed
          EventCounts   \* how many trades and updates a change may give rise to

ASSUME SessionAssumption == /\ IsFiniteSet(Session) /\ MaxRequests \in Nat
                            /\ MaxLoad \in Nat /\ MaxLeavers \in Nat
                            /\ EventCounts \subseteq Nat

VARIABLES
    pc,           \* where the strand's onAccept or onRead stands
    closed,       \* closed_
    out,          \* what the running handler has yet to send, and to whom
    targets,      \* the sessions the running broadcast has yet to reach
    strand,       \* messages posted to the strand by send, not yet in onSend
    writeQueue,
    writes,       \* outstanding async_write operations
    received,     \* the messages written to the socket, in order
    clients,      \* ClientManager::sessions_
    bookVersion,
    requests,     \* history: requests handled so far
    changes,      \* history: for each request, the clients at that time and
                  \* the number of events it gave rise to
    posted        \* history: everything posted to a strand

sharedVars  == <<clients, bookVersion, requests, changes>>
deliverVars == <<strand, writeQueue, writes, received, posted>>
sessionVars == <<pc, closed, out, targets, deliverVars, sharedVars>>

\* request is 0 in the snapshot a session sends to itself after the handshake.
Reply(k)    == [kind |-> "REPLY", request |-> k]
Event(k, i) == [kind |-> "EVENT", request |-> k, index |-> i]
Book(k, v)  == [kind |-> "BOOK", request |-> k, version |-> v]

ToSelf(m) == [to |-> "self", msg |-> m]
ToAll(m)  == [to |-> "all", msg |-> m]

\* The requests and events there will have been after one more request, with n
\* events; and whether one more session may be closed.  For the bounds only.
Load(n) == 1 + n + FoldSeq(LAMBDA c, sum : 1 + c.events + sum, 0, changes)
MayLeave(s) == Cardinality({t \in Session \ {s} : closed[t]}) < MaxLeavers

\* No onAccept or onRead is running, so the strand can run something else.
StrandFree(s) == pc[s] \in {"handshake", "reading", "done"}

SessionInit ==
    /\ pc = [s \in Session |-> "handshake"]
    /\ closed = [s \in Session |-> FALSE]
    /\ out = [s \in Session |-> <<>>] /\ targets = [s \in Session |-> {}]
    /\ strand = [s \in Session |-> <<>>] /\ writeQueue = [s \in Session |-> <<>>]
    /\ writes = [s \in Session |-> 0] /\ received = [s \in Session |-> <<>>]
    /\ clients = {} /\ bookVersion = 0 /\ requests = 0
    /\ changes = <<>> /\ posted = [s \in Session |-> <<>>]

-----------------------------------------------------------------------------
(* send, onSend, onWrite, disconnect.                                      *)

\* send(m), called from any thread: post onSend unless the session is closed.
Send(s, m) ==
    IF closed[s] THEN UNCHANGED <<strand, posted>>
    ELSE /\ strand' = [strand EXCEPT ![s] = Append(@, m)]
         /\ posted' = [posted EXCEPT ![s] = Append(@, m)]

\* Mutant: every onSend starts a write of its own.
OnSendAlwaysWrites(s) ==
    /\ StrandFree(s) /\ strand[s] # <<>>
    /\ strand' = [strand EXCEPT ![s] = Tail(@)]
    /\ IF closed[s] THEN UNCHANGED <<writeQueue, writes>>
       ELSE /\ writeQueue' = [writeQueue EXCEPT ![s] = Append(@, Head(strand[s]))]
            /\ writes' = [writes EXCEPT ![s] = @ + 1]
    /\ UNCHANGED <<pc, closed, out, targets, received, posted, sharedVars>>

\* onSend: queue the message, and write it if no other write is outstanding.
OnSend(s) ==
    /\ StrandFree(s) /\ strand[s] # <<>>
    /\ strand' = [strand EXCEPT ![s] = Tail(@)]
    /\ IF closed[s] THEN UNCHANGED <<writeQueue, writes>>
       ELSE /\ writeQueue' = [writeQueue EXCEPT ![s] = Append(@, Head(strand[s]))]
            /\ writes' = IF writeQueue[s] = <<>> THEN [writes EXCEPT ![s] = @ + 1] ELSE writes
    /\ UNCHANGED <<pc, closed, out, targets, received, posted, sharedVars>>

\* Mutant: the next write is only started by the next onSend.
OnWriteStops(s) ==
    /\ StrandFree(s) /\ writes[s] > 0
    /\ received' = [received EXCEPT ![s] = Append(@, Head(writeQueue[s]))]
    /\ writeQueue' = [writeQueue EXCEPT ![s] = IF closed[s] THEN @ ELSE Tail(@)]
    /\ writes' = [writes EXCEPT ![s] = @ - 1]
    /\ UNCHANGED <<pc, closed, out, targets, strand, posted, sharedVars>>

\* Mutant: the message at the wrong end of the queue is dropped.
OnWriteDropsLast(s) ==
    /\ StrandFree(s) /\ writes[s] > 0
    /\ received' = [received EXCEPT ![s] = Append(@, Head(writeQueue[s]))]
    /\ IF closed[s]
       THEN writes' = [writes EXCEPT ![s] = @ - 1] /\ UNCHANGED writeQueue
       ELSE /\ writeQueue' = [writeQueue EXCEPT ![s] = Front(@)]
            /\ writes' = [writes EXCEPT ![s] = IF Len(writeQueue[s]) > 1 THEN @ ELSE @ - 1]
    /\ UNCHANGED <<pc, closed, out, targets, strand, posted, sharedVars>>

\* The outstanding write of the front message succeeded: onWrite drops it and
\* writes the next one, unless the session was closed meanwhile.
OnWrite(s) ==
    /\ StrandFree(s) /\ writes[s] > 0
    /\ received' = [received EXCEPT ![s] = Append(@, Head(writeQueue[s]))]
    /\ IF closed[s]
       THEN writes' = [writes EXCEPT ![s] = @ - 1] /\ UNCHANGED writeQueue
       ELSE /\ writeQueue' = [writeQueue EXCEPT ![s] = Tail(@)]
            /\ writes' = [writes EXCEPT ![s] = IF Len(writeQueue[s]) > 1 THEN @ ELSE @ - 1]
    /\ UNCHANGED <<pc, closed, out, targets, strand, posted, sharedVars>>

\* Mutant: the session stays registered.
DisconnectStaysRegistered(s) ==
    closed' = [closed EXCEPT ![s] = TRUE] /\ clients' = clients

\* disconnect; a second call changes nothing.  A send between its two steps
\* would find closed_ set and drop the message, so they are one step here.
Disconnect(s) ==
    closed' = [closed EXCEPT ![s] = TRUE] /\ clients' = clients \ {s}

\* onWrite with an error.
OnWriteError(s) ==
    /\ StrandFree(s) /\ writes[s] > 0 /\ MayLeave(s)
    /\ writes' = [writes EXCEPT ![s] = @ - 1]
    /\ Disconnect(s)
    /\ UNCHANGED <<pc, out, targets, strand, writeQueue, received, posted,
                   bookVersion, requests, changes>>

-----------------------------------------------------------------------------
(* onAccept.                                                               *)

\* The handshake failed: the session is dropped, never registered.
OnAcceptError(s) ==
    /\ pc[s] = "handshake"
    /\ pc' = [pc EXCEPT ![s] = "done"]
    /\ UNCHANGED <<closed, out, targets, deliverVars, sharedVars>>

\* onAccept, first part: addClient.
OnAccept(s) ==
    /\ pc[s] = "handshake"
    /\ clients' = clients \cup {s}
    /\ pc' = [pc EXCEPT ![s] = "registered"]
    /\ UNCHANGED <<closed, out, targets, bookVersion, requests, changes, deliverVars>>

\* onAccept, second part: sendInitialOrderBook reads the book.  That it is sent
\* and that doRead follows is the step SendReply.
SendInitialOrderBook(s) ==
    /\ pc[s] = "registered"
    /\ out' = [out EXCEPT ![s] = <<ToSelf(Book(0, bookVersion))>>]
    /\ pc' = [pc EXCEPT ![s] = "replying"]
    /\ UNCHANGED <<closed, targets, deliverVars, sharedVars>>

-----------------------------------------------------------------------------
(* onRead.                                                                 *)

\* A request that changes nothing: METRICS, a rejection or an error.  The read
\* may have completed before a failed write closed the session.
OnReadNoChange(s) ==
    /\ pc[s] = "reading" /\ requests < MaxRequests /\ Load(0) <= MaxLoad
    /\ requests' = requests + 1
    /\ changes' = Append(changes, [clients |-> {}, events |-> 0])
    /\ out' = [out EXCEPT ![s] = <<ToSelf(Reply(requests'))>>]
    /\ pc' = [pc EXCEPT ![s] = "replying"]
    /\ UNCHANGED <<closed, targets, deliverVars, clients, bookVersion>>

\* Mutant: the broadcasts are listed before the direct response.
OnReadChangeEventFirst(s, n) ==
    /\ pc[s] = "reading" /\ requests < MaxRequests /\ Load(n) <= MaxLoad
    /\ requests' = requests + 1 /\ bookVersion' = bookVersion + 1
    /\ changes' = Append(changes, [clients |-> clients, events |-> n])
    /\ out' = [out EXCEPT ![s] = [i \in 1..n |-> ToAll(Event(requests', i))] \o <<ToSelf(Reply(requests'))>>]
    /\ pc' = [pc EXCEPT ![s] = "announcing"]
    /\ UNCHANGED <<closed, targets, deliverVars, clients>>

\* An accepted placement or cancellation: the engine call, under its lock ...
OnReadChange(s, n) ==
    /\ pc[s] = "reading" /\ requests < MaxRequests /\ Load(n) <= MaxLoad
    /\ requests' = requests + 1 /\ bookVersion' = bookVersion + 1
    /\ changes' = Append(changes, [clients |-> clients, events |-> n])
    /\ out' = [out EXCEPT ![s] = <<ToSelf(Reply(requests'))>> \o [i \in 1..n |-> ToAll(Event(requests', i))]]
    /\ pc' = [pc EXCEPT ![s] = "announcing"]
    /\ UNCHANGED <<closed, targets, deliverVars, clients>>

\* Mutant: only the client that changed the book is shown it.
AnnounceToSelf(s) ==
    /\ pc[s] = "announcing"
    /\ out' = [out EXCEPT ![s] = Append(@, ToSelf(Book(@[1].msg.request, bookVersion)))]
    /\ pc' = [pc EXCEPT ![s] = "replying"]
    /\ UNCHANGED <<closed, targets, deliverVars, sharedVars>>

\* ... and after the unlock the snapshot of the book, which others may have
\* changed in between.
GetOrderBookMessage(s) ==
    /\ pc[s] = "announcing"
    /\ out' = [out EXCEPT ![s] = Append(@, ToAll(Book(@[1].msg.request, bookVersion)))]
    /\ pc' = [pc EXCEPT ![s] = "replying"]
    /\ UNCHANGED <<closed, targets, deliverVars, sharedVars>>

\* The front of out[s] has been dealt with; the last one is followed by doRead,
\* which starts the next read unless the session was closed.
Advance(s) ==
    /\ out' = [out EXCEPT ![s] = Tail(@)]
    /\ pc' = [pc EXCEPT ![s] = IF Len(out[s]) > 1 THEN "replying"
                               ELSE IF closed[s] THEN "done" ELSE "reading"]

\* The direct response, or the initial snapshot, is posted.
SendReply(s) ==
    /\ pc[s] = "replying" /\ Head(out[s]).to = "self"
    /\ Send(s, Head(out[s]).msg)
    /\ Advance(s)
    /\ UNCHANGED <<closed, targets, writeQueue, writes, received, sharedVars>>

\* Mutant: the sender is left out.
BroadcastToOthers(s) ==
    /\ pc[s] = "replying" /\ Head(out[s]).to = "all"
    /\ targets' = [targets EXCEPT ![s] = clients \ {s}]
    /\ IF targets'[s] = {} THEN Advance(s)
       ELSE pc' = [pc EXCEPT ![s] = "broadcasting"] /\ UNCHANGED out
    /\ UNCHANGED <<closed, deliverVars, sharedVars>>

\* broadcast: the targets are copied under the lock of ClientManager ...
Broadcast(s) ==
    /\ pc[s] = "replying" /\ Head(out[s]).to = "all"
    /\ targets' = [targets EXCEPT ![s] = clients]
    /\ IF clients = {} THEN Advance(s)
       ELSE pc' = [pc EXCEPT ![s] = "broadcasting"] /\ UNCHANGED out
    /\ UNCHANGED <<closed, deliverVars, sharedVars>>

\* ... and served one by one without it, in any order.
BroadcastOne(s) ==
    /\ pc[s] = "broadcasting"
    /\ \E t \in targets[s] :
          /\ Send(t, Head(out[s]).msg)
          /\ targets' = [targets EXCEPT ![s] = @ \ {t}]
    /\ IF targets'[s] = {} THEN Advance(s) ELSE UNCHANGED <<pc, out>>
    /\ UNCHANGED <<closed, writeQueue, writes, received, sharedVars>>

\* onRead with an error: the client has gone, or the socket was closed.
OnReadError(s) ==
    /\ pc[s] = "reading" /\ MayLeave(s)
    /\ Disconnect(s)
    /\ pc' = [pc EXCEPT ![s] = "done"]
    /\ UNCHANGED <<out, targets, deliverVars, bookVersion, requests, changes>>

\* The steps the server takes by itself once started.
Work(s) == \/ SendInitialOrderBook(s) \/ GetOrderBookMessage(s)
           \/ SendReply(s) \/ Broadcast(s) \/ BroadcastOne(s)

Written(s) == OnWrite(s) \/ OnWriteError(s)

SessionNext ==
    \E s \in Session :
        \/ OnAccept(s) \/ OnAcceptError(s)
        \/ OnReadNoChange(s) \/ OnReadError(s)
        \/ \E n \in EventCounts : OnReadChange(s, n)
        \/ Work(s) \/ OnSend(s) \/ Written(s)

SessionSpec == SessionInit /\ [][SessionNext]_sessionVars

\* The threads of the pool keep running the strands that have something to
\* run, and a write ends, if only by the timeout of the stream; clients need
\* not do anything.
FairSessionSpec ==
    /\ SessionSpec
    /\ \A s \in Session : WF_sessionVars(Work(s) \/ OnSend(s) \/ Written(s))

-----------------------------------------------------------------------------
(* Properties.                                                             *)

Message == [kind : {"REPLY"}, request : 1..MaxRequests]
              \cup [kind : {"EVENT"}, request : 1..MaxRequests, index : Nat]
              \cup [kind : {"BOOK"}, request : 0..MaxRequests, version : 0..MaxRequests]

\* Every variable has its type, and no more than one write is outstanding: the
\* stream does not allow two.
SessionTypeOK ==
    /\ pc \in [Session -> {"handshake", "registered", "announcing", "replying",
                           "broadcasting", "reading", "done"}]
    /\ closed \in [Session -> BOOLEAN]
    /\ out \in [Session -> Seq([to : {"self", "all"}, msg : Message])]
    /\ targets \in [Session -> SUBSET Session]
    /\ strand \in [Session -> Seq(Message)] /\ writeQueue \in [Session -> Seq(Message)]
    /\ writes \in [Session -> {0, 1}]
    /\ received \in [Session -> Seq(Message)] /\ posted \in [Session -> Seq(Message)]
    /\ clients \subseteq Session
    /\ bookVersion \in 0..MaxRequests /\ requests \in 0..MaxRequests
    /\ changes \in Seq([clients : SUBSET Session, events : EventCounts \cup {0}])

\* A write is outstanding exactly while there is something to write, so no
\* message is left in the queue with nobody to write it.
WriteWhileQueued ==
    \A s \in Session : ~closed[s] => (writes[s] = 1 <=> writeQueue[s] # <<>>)

\* What was posted to a session is written in that order, nothing twice and
\* nothing left out, whatever threads posted it: all of it while the session
\* is open, a prefix of it once it is closed.
DeliveredInOrder ==
    \A s \in Session :
        /\ IsPrefix(received[s], posted[s])
        /\ ~closed[s] => received[s] \o writeQueue[s] \o strand[s] = posted[s]

\* How often m was posted to session t.
TimesPosted(t, m) == Cardinality({i \in DOMAIN posted[t] : posted[t][i] = m})

\* The request some session is still working on.
InProgress(k) ==
    \E s \in Session : \E i \in DOMAIN out[s] : out[s][i].msg.request = k

\* A client that was connected when a change was made, and still is when it has
\* been announced, has been sent every event of it and one snapshot of the book
\* for it; nobody is sent any of them twice, not even a client that joins or
\* leaves while the broadcast is under way.
ChangesAnnounced ==
    \A k \in DOMAIN changes : \A t \in Session :
        LET events == [i \in 1 .. changes[k].events |-> TimesPosted(t, Event(k, i))]
            books  == Cardinality({i \in DOMAIN posted[t] :
                                     posted[t][i].kind = "BOOK" /\ posted[t][i].request = k})
        IN  /\ books <= 1 /\ \A i \in DOMAIN events : events[i] <= 1
            /\ t \in changes[k].clients /\ ~InProgress(k) /\ ~closed[t] =>
                  books = 1 /\ \A i \in DOMAIN events : events[i] = 1

\* ClientManager holds the connected clients and no others: a client that has
\* gone is not kept alive by the set, and none is dropped before it goes.
RegisteredWhileOpen ==
    clients = {s \in Session : ~closed[s] /\ pc[s] \notin {"handshake", "done"}}

\* A client is sent the direct response to a request before any broadcast the
\* same request gave rise to (server/protocol.md, Event Sequence).
ReplyFirst ==
    \A s \in Session : \A i, j \in DOMAIN posted[s] :
        (/\ posted[s][i].kind = "REPLY" /\ posted[s][j].kind # "REPLY"
         /\ posted[s][i].request = posted[s][j].request) => i < j

\* Nothing is left to do until a client acts.
Quiet == \A s \in Session : StrandFree(s) /\ strand[s] = <<>> /\ writes[s] = 0

Connected(s) == ~closed[s] /\ pc[s] = "reading"

\* The versions of the book the client of s was shown, in order.
Shown(s) ==
    LET books == SelectSeq(received[s], LAMBDA m : m.kind = "BOOK")
    IN  [i \in DOMAIN books |-> books[i].version]

\* Once everything is delivered, every connected client has been shown the
\* book as it is, also one that joined while it was changing: because it is
\* registered before its first snapshot is taken, a change it was not told of
\* is in that snapshot.
BookShownToAll ==
    Quiet => \A s \in Session : Connected(s) =>
        \E i \in DOMAIN received[s] : /\ received[s][i].kind = "BOOK"
                                     /\ received[s][i].version = bookVersion

\* server/protocol.md:16: "When the order book changes, the server broadcasts
\* ORDER_BOOK to all connected clients": once everything is delivered, the last
\* book a connected client was shown is the book as it is.
LastBookIsCurrent ==
    Quiet => \A s \in Session : Connected(s) => Last(Shown(s)) = bookVersion

\* Again and again all that was posted to a session has been written, or the
\* session is closed: no message waits for ever, and no write is left undone.
\* Requests are bounded, so a client is not sent messages without end.
EveryPostDelivered ==
    \A s \in Session : []<>(received[s] = posted[s] \/ closed[s])
=============================================================================
