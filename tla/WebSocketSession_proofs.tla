----------------------- MODULE WebSocketSession_proofs -----------------------
(***************************************************************************)
(* Proofs about WebSocketSession, for any finite set of sessions, any      *)
(* number of requests and any number of events a change gives rise to.     *)
(***************************************************************************)
EXTENDS WebSocketSession, SequenceTheorems, FiniteSetTheorems, TLAPS

-----------------------------------------------------------------------------
(* Types, and what the running handler of a session has in hand.           *)

OutItem == [to : {"self", "all"}, msg : Message]
Change  == [clients : SUBSET Session, events : EventCounts \cup {0}]

\* A handler that has something to send has not returned, and the session it
\* broadcasts to next is chosen from targets.
HandlerOK ==
    \A s \in Session :
        /\ pc[s] \in {"announcing", "replying", "broadcasting"} <=> out[s] # <<>>
        /\ pc[s] = "announcing" => out[s][1].msg.request \in 1..requests
        /\ pc[s] = "broadcasting" <=> targets[s] # {}
        /\ pc[s] = "broadcasting" => out[s][1].to = "all"

CountsOK == bookVersion <= requests /\ Len(changes) = requests

\* A write is outstanding only if there is a message at the front of the queue,
\* and while the session is open whenever there is one.
WritesOK ==
    \A s \in Session : /\ writes[s] = 1 => writeQueue[s] # <<>>
                       /\ ~closed[s] /\ writeQueue[s] # <<>> => writes[s] = 1

TypeInv == SessionTypeOK /\ WritesOK /\ HandlerOK /\ CountsOK

LEMMA MessageFacts ==
  /\ \A k \in 1..MaxRequests : Reply(k) \in Message
  /\ \A k \in 1..MaxRequests, i \in Nat : Event(k, i) \in Message
  /\ \A k, v \in 0..MaxRequests : Book(k, v) \in Message
  /\ \A m \in Message : /\ m.request \in 0..MaxRequests
                        /\ m.kind \in {"REPLY", "EVENT", "BOOK"}
                        /\ m.kind = "REPLY" => m.request # 0
  BY SessionAssumption DEF Reply, Event, Book, Message

LEMMA ItemFacts ==
  /\ \A m \in Message : ToSelf(m) \in OutItem /\ ToAll(m) \in OutItem
  /\ \A x \in OutItem : x.to \in {"self", "all"} /\ x.msg \in Message
  BY DEF ToSelf, ToAll, OutItem

\* What is left of a non-empty sequence.
LEMMA TailFacts ==
  ASSUME NEW S, NEW q \in Seq(S), q # <<>>
  PROVE  /\ Head(q) = q[1] /\ Head(q) \in S /\ 1 \in DOMAIN q /\ Len(q) \in Nat
         /\ Tail(q) \in Seq(S) /\ Len(Tail(q)) = Len(q) - 1
         /\ \A i \in DOMAIN Tail(q) : Tail(q)[i] = q[i + 1] /\ i + 1 \in DOMAIN q
         /\ Len(q) > 1 <=> Tail(q) # <<>>
<1>1. /\ Head(q) = q[1] /\ Head(q) \in S /\ 1 \in DOMAIN q /\ Len(q) \in Nat /\ Len(q) # 0
      /\ Tail(q) \in Seq(S) /\ Len(Tail(q)) = Len(q) - 1 /\ DOMAIN q = 1 .. Len(q)
  OBVIOUS
<1>2. \A i \in 1 .. Len(q) - 1 : Tail(q)[i] = q[i + 1] /\ i + 1 \in DOMAIN q
  BY <1>1
<1>3. DOMAIN Tail(q) = 1 .. Len(q) - 1
  BY <1>1
<1>4. Tail(q) = <<>> <=> Len(Tail(q)) = 0
  BY <1>1
<1>5. Len(q) > 1 <=> Len(Tail(q)) # 0
  BY <1>1
<1>. QED
  BY <1>1, <1>2, <1>3, <1>4, <1>5

LEMMA InitType == SessionInit => TypeInv
  BY SessionAssumption DEF SessionInit, TypeInv, SessionTypeOK, WritesOK, HandlerOK, CountsOK, Change

\* The parts of the state an action leaves alone.
LEMMA TypeUnchanged == TypeInv /\ UNCHANGED sessionVars => TypeInv'
  BY DEF TypeInv, SessionTypeOK, WritesOK, HandlerOK, CountsOK, sessionVars, deliverVars, sharedVars

LEMMA OutType == TypeInv => out \in [Session -> Seq(OutItem)]
  BY DEF TypeInv, SessionTypeOK, OutItem

LEMMA SendType ==
  ASSUME TypeInv, NEW t \in Session, NEW m \in Message, Send(t, m)
  PROVE  strand' \in [Session -> Seq(Message)] /\ posted' \in [Session -> Seq(Message)]
<1>1. /\ strand \in [Session -> Seq(Message)] /\ posted \in [Session -> Seq(Message)]
      /\ Append(strand[t], m) \in Seq(Message) /\ Append(posted[t], m) \in Seq(Message)
  BY DEF TypeInv, SessionTypeOK
<1>. QED BY <1>1 DEF Send

\* The handler of s has dealt with the front of out[s], and s has no targets.
LEMMA AdvanceType ==
  ASSUME TypeInv, NEW s \in Session, out[s] # <<>>, Advance(s),
         targets' \in [Session -> SUBSET Session], targets'[s] = {},
         \A t \in Session \ {s} : targets'[t] = targets[t],
         requests' = requests
  PROVE  /\ pc' \in [Session -> {"handshake", "registered", "announcing", "replying",
                                 "broadcasting", "reading", "done"}]
         /\ out' \in [Session -> Seq(OutItem)]
         /\ HandlerOK'
<1>0. out \in [Session -> Seq(OutItem)]
  BY OutType
<1>1. /\ out[s] \in Seq(OutItem) /\ Tail(out[s]) \in Seq(OutItem)
      /\ Len(out[s]) > 1 <=> Tail(out[s]) # <<>>
  BY <1>0, TailFacts
<1>2. /\ out' = [out EXCEPT ![s] = Tail(out[s])]
      /\ pc' = [pc EXCEPT ![s] = IF Tail(out[s]) # <<>> THEN "replying"
                                 ELSE IF closed[s] THEN "done" ELSE "reading"]
  BY <1>1 DEF Advance
<1>4. out' \in [Session -> Seq(OutItem)]
  BY <1>0, <1>1, <1>2
<1>5. pc' \in [Session -> {"handshake", "registered", "announcing", "replying",
                           "broadcasting", "reading", "done"}]
  BY <1>2 DEF TypeInv, SessionTypeOK
<1>6. HandlerOK'
  BY <1>0, <1>2 DEF TypeInv, SessionTypeOK, HandlerOK
<1>. QED BY <1>4, <1>5, <1>6

LEMMA OnSendType == ASSUME TypeInv, NEW s \in Session, OnSend(s) PROVE TypeInv'
<1>1. /\ strand[s] \in Seq(Message) /\ writeQueue[s] \in Seq(Message) /\ strand[s] # <<>>
      /\ writes[s] \in {0, 1}
  BY DEF TypeInv, SessionTypeOK, OnSend
<1>2. /\ Head(strand[s]) \in Message /\ Tail(strand[s]) \in Seq(Message)
  BY <1>1, TailFacts
<1>3. /\ Append(writeQueue[s], Head(strand[s])) \in Seq(Message)
      /\ Append(writeQueue[s], Head(strand[s])) # <<>>
  BY <1>1, <1>2
<1>4. strand' \in [Session -> Seq(Message)] /\ writeQueue' \in [Session -> Seq(Message)]
  BY <1>2, <1>3 DEF OnSend, TypeInv, SessionTypeOK
<1>5. writes' \in [Session -> {0, 1}] /\ WritesOK'
  <2>1. CASE closed[s]
    BY <2>1 DEF OnSend, TypeInv, SessionTypeOK, WritesOK
  <2>2. CASE ~closed[s]
    <3>1. writes' = [writes EXCEPT ![s] = 1]
      BY <1>1, <2>2 DEF OnSend, TypeInv, SessionTypeOK, WritesOK
    <3>. QED BY <1>3, <2>2, <3>1 DEF OnSend, TypeInv, SessionTypeOK, WritesOK
  <2>. QED BY <2>1, <2>2
<1>. QED BY <1>4, <1>5 DEF TypeInv, SessionTypeOK, OnSend, HandlerOK, CountsOK, sharedVars

\* The write of the front message ends, either way.
LEMMA WrittenType == ASSUME TypeInv, NEW s \in Session, Written(s) PROVE TypeInv'
<1>0. writes[s] = 1 /\ writeQueue[s] # <<>> /\ writeQueue[s] \in Seq(Message)
  BY DEF TypeInv, SessionTypeOK, WritesOK, Written, OnWrite, OnWriteError
<1>1. /\ Head(writeQueue[s]) \in Message /\ Tail(writeQueue[s]) \in Seq(Message)
      /\ Len(writeQueue[s]) > 1 <=> Tail(writeQueue[s]) # <<>>
  BY <1>0, TailFacts
<1>2. CASE OnWrite(s)
  <2>1. Append(received[s], Head(writeQueue[s])) \in Seq(Message)
    BY <1>1 DEF TypeInv, SessionTypeOK
  <2>2. received' \in [Session -> Seq(Message)] /\ writeQueue' \in [Session -> Seq(Message)]
    BY <1>1, <1>2, <2>1 DEF OnWrite, TypeInv, SessionTypeOK
  <2>3. writes' \in [Session -> {0, 1}] /\ WritesOK'
    <3>1. CASE closed[s]
      <4>1. writes' = [writes EXCEPT ![s] = 0] /\ writeQueue' = writeQueue /\ closed' = closed
        BY <1>0, <1>2, <3>1 DEF OnWrite
      <4>. QED BY <3>1, <4>1 DEF TypeInv, SessionTypeOK, WritesOK
    <3>2. CASE ~closed[s]
      <4>1. writes' = [writes EXCEPT ![s] = IF Tail(writeQueue[s]) # <<>> THEN 1 ELSE 0]
        BY <1>0, <1>1, <1>2, <3>2 DEF OnWrite
      <4>2. writeQueue' = [writeQueue EXCEPT ![s] = Tail(writeQueue[s])] /\ closed' = closed
        BY <1>2, <3>2 DEF OnWrite
      <4>3. writes' \in [Session -> {0, 1}]
        BY <4>1 DEF TypeInv, SessionTypeOK
      <4>4. \A e \in Session \ {s} : writes'[e] = writes[e] /\ writeQueue'[e] = writeQueue[e]
        BY <4>1, <4>2 DEF TypeInv, SessionTypeOK
      <4>5. /\ writes'[s] = IF Tail(writeQueue[s]) # <<>> THEN 1 ELSE 0
            /\ writeQueue'[s] = Tail(writeQueue[s])
        BY <4>1, <4>2 DEF TypeInv, SessionTypeOK
      <4>6. ASSUME NEW e \in Session
            PROVE  /\ writes'[e] = 1 => writeQueue'[e] # <<>>
                   /\ ~closed'[e] /\ writeQueue'[e] # <<>> => writes'[e] = 1
        <5>1. CASE e = s
          BY <5>1, <4>5
        <5>2. CASE e # s
          BY <5>2, <4>2, <4>4, Zenon DEF TypeInv, WritesOK
        <5>. QED BY <5>1, <5>2
      <4>. QED BY <4>3, <4>6, Zenon DEF WritesOK
    <3>. QED BY <3>1, <3>2
  <2>. QED
    BY <1>2, <2>2, <2>3 DEF TypeInv, SessionTypeOK, OnWrite, HandlerOK, CountsOK, sharedVars
<1>3. CASE OnWriteError(s)
  <2>1. writes' \in [Session -> {0, 1}] /\ closed' \in [Session -> BOOLEAN] /\ WritesOK'
    BY <1>0, <1>3 DEF OnWriteError, Disconnect, TypeInv, SessionTypeOK, WritesOK
  <2>. QED
    BY <1>3, <2>1 DEF TypeInv, SessionTypeOK, OnWriteError, Disconnect, HandlerOK, CountsOK
<1>. QED BY <1>2, <1>3 DEF Written

LEMMA AcceptType ==
  ASSUME TypeInv, NEW s \in Session, OnAccept(s) \/ OnAcceptError(s) \/ OnReadError(s)
  PROVE  TypeInv'
<1>1. /\ pc[s] \in {"handshake", "reading"}
      /\ \E l \in {"registered", "done"} : pc' = [pc EXCEPT ![s] = l]
      /\ closed' \in [Session -> BOOLEAN] /\ \A t \in Session : closed[t] => closed'[t]
      /\ clients' \subseteq Session
      /\ UNCHANGED <<out, targets, deliverVars, bookVersion, requests, changes>>
  BY DEF OnAccept, OnAcceptError, OnReadError, Disconnect, TypeInv, SessionTypeOK, sharedVars
<1>2. SessionTypeOK'
  BY <1>1 DEF TypeInv, SessionTypeOK, deliverVars
<1>3. HandlerOK'
  BY <1>1 DEF TypeInv, SessionTypeOK, HandlerOK
<1>. QED BY <1>1, <1>2, <1>3 DEF TypeInv, WritesOK, CountsOK, deliverVars

\* A handler gets something to send: the list q.
LEMMA HandlerStartsType ==
  ASSUME TypeInv, NEW s \in Session, NEW q \in Seq(OutItem), q # <<>>,
         targets[s] = {}, NEW l \in {"announcing", "replying"},
         out' = [out EXCEPT ![s] = q], pc' = [pc EXCEPT ![s] = l],
         UNCHANGED <<closed, targets, deliverVars, clients>>,
         requests' \in {requests, requests + 1} /\ requests' <= MaxRequests,
         bookVersion' \in 0..requests', Len(changes') = requests',
         changes' \in Seq(Change),
         l = "announcing" => q[1].msg.request \in 1..requests'
  PROVE  TypeInv'
<1>1. out' \in [Session -> Seq(OutItem)]
  BY OutType
<1>2. /\ requests \in Nat /\ requests' \in 0..MaxRequests /\ bookVersion' \in 0..MaxRequests
      /\ bookVersion' <= requests' /\ 1..requests \subseteq 1..requests'
  BY SessionAssumption DEF TypeInv, SessionTypeOK
<1>3. HandlerOK'
  <2>1. /\ DOMAIN pc = Session /\ DOMAIN out = Session
        /\ pc' = [t \in Session |-> IF t = s THEN l ELSE pc[t]]
        /\ out' = [t \in Session |-> IF t = s THEN q ELSE out[t]]
    BY OutType DEF TypeInv, SessionTypeOK
  <2>. SUFFICES ASSUME NEW t \in Session
                PROVE  /\ pc'[t] \in {"announcing", "replying", "broadcasting"} <=> out'[t] # <<>>
                       /\ pc'[t] = "announcing" => out'[t][1].msg.request \in 1..requests'
                       /\ pc'[t] = "broadcasting" <=> targets'[t] # {}
                       /\ pc'[t] = "broadcasting" => out'[t][1].to = "all"
    BY DEF HandlerOK
  <2>2. CASE t = s
    BY <2>1, <2>2
  <2>3. CASE t # s
    <3>1. pc'[t] = pc[t] /\ out'[t] = out[t] /\ targets'[t] = targets[t]
      BY <2>1, <2>3
    <3>. QED BY <1>2, <3>1 DEF TypeInv, HandlerOK
  <2>. QED BY <2>2, <2>3
<1>4. SessionTypeOK'
  BY <1>1, <1>2 DEF TypeInv, SessionTypeOK, OutItem, Change, deliverVars
<1>. QED BY <1>2, <1>3, <1>4 DEF TypeInv, WritesOK, CountsOK, deliverVars

LEMMA CountFacts ==
  ASSUME TypeInv
  PROVE  /\ MaxRequests \in Nat /\ requests \in 0..MaxRequests /\ bookVersion \in 0..requests
         /\ changes \in Seq(Change) /\ Len(changes) = requests /\ clients \subseteq Session
BY SessionAssumption DEF TypeInv, SessionTypeOK, CountsOK, Change

LEMMA NoTargets ==
  ASSUME TypeInv, NEW s \in Session, pc[s] # "broadcasting"
  PROVE  targets[s] = {}
BY DEF TypeInv, HandlerOK

LEMMA StartType ==
  ASSUME TypeInv, NEW s \in Session,
         SendInitialOrderBook(s) \/ OnReadNoChange(s) \/ (\E n \in EventCounts : OnReadChange(s, n))
  PROVE  TypeInv'
<1>1. /\ MaxRequests \in Nat /\ requests \in 0..MaxRequests /\ bookVersion \in 0..requests
      /\ changes \in Seq(Change) /\ Len(changes) = requests /\ clients \subseteq Session
  BY CountFacts
<1>0. targets[s] = {}
  BY NoTargets DEF SendInitialOrderBook, OnReadNoChange, OnReadChange
<1>2. CASE SendInitialOrderBook(s)
  <2>. DEFINE q == <<ToSelf(Book(0, bookVersion))>>
  <2>1. q \in Seq(OutItem) /\ q # <<>>
    <3>1. Book(0, bookVersion) \in Message
      BY <1>1, MessageFacts
    <3>. QED BY <3>1, ItemFacts
  <2>2. /\ out' = [out EXCEPT ![s] = q] /\ pc' = [pc EXCEPT ![s] = "replying"]
        /\ UNCHANGED <<closed, targets, deliverVars, clients, bookVersion, requests, changes>>
    BY <1>2 DEF SendInitialOrderBook, sharedVars
  <2>. HIDE DEF q
  <2>3. /\ requests' \in {requests, requests + 1} /\ requests' <= MaxRequests
        /\ bookVersion' \in 0..requests' /\ Len(changes') = requests' /\ changes' \in Seq(Change)
        /\ UNCHANGED <<closed, targets, deliverVars, clients>>
    BY <1>1, <2>2
  <2>. QED BY <1>0, <2>1, <2>2, <2>3, HandlerStartsType
<1>3. CASE OnReadNoChange(s)
  <2>. DEFINE q == <<ToSelf(Reply(requests'))>>
  <2>1. requests' = requests + 1 /\ requests' \in 1..MaxRequests
    BY <1>1, <1>3 DEF OnReadNoChange
  <2>2. q \in Seq(OutItem) /\ q # <<>>
    BY <2>1, MessageFacts, ItemFacts
  <2>3. changes' \in Seq(Change) /\ Len(changes') = requests'
    <3>1. [clients |-> {}, events |-> 0] \in Change
      BY DEF Change
    <3>. QED BY <1>1, <1>3, <2>1, <3>1 DEF OnReadNoChange
  <2>4. /\ out' = [out EXCEPT ![s] = q] /\ pc' = [pc EXCEPT ![s] = "replying"]
        /\ UNCHANGED <<closed, targets, deliverVars, clients, bookVersion>>
    BY <1>3 DEF OnReadNoChange
  <2>. HIDE DEF q
  <2>5. /\ requests' \in {requests, requests + 1} /\ requests' <= MaxRequests
        /\ bookVersion' \in 0..requests' /\ UNCHANGED <<closed, targets, deliverVars, clients>>
    BY <1>1, <2>1, <2>4
  <2>. QED BY <1>0, <2>2, <2>3, <2>4, <2>5, HandlerStartsType
<1>4. ASSUME NEW n \in EventCounts, OnReadChange(s, n) PROVE TypeInv'
  <2>. DEFINE events == [i \in 1..n |-> ToAll(Event(requests', i))]
              q == <<ToSelf(Reply(requests'))>> \o events
  <2>1. /\ requests' = requests + 1 /\ requests' \in 1..MaxRequests
        /\ bookVersion' = bookVersion + 1 /\ n \in Nat
    BY <1>1, <1>4, SessionAssumption DEF OnReadChange
  <2>2. events \in Seq(OutItem)
    <3>1. \A i \in 1..n : ToAll(Event(requests', i)) \in OutItem
      BY <2>1, MessageFacts, ItemFacts
    <3>. QED BY <2>1, <3>1
  <2>3. ToSelf(Reply(requests')) \in OutItem
    BY <2>1, MessageFacts, ItemFacts
  <2>. HIDE DEF events
  <2>4. q \in Seq(OutItem) /\ q # <<>> /\ q[1] = ToSelf(Reply(requests'))
    BY <2>2, <2>3
  <2>5. q[1].msg.request = requests'
    BY <2>4 DEF ToSelf, Reply
  <2>6. changes' \in Seq(Change) /\ Len(changes') = requests'
    <3>1. [clients |-> clients, events |-> n] \in Change
      BY <1>1 DEF Change
    <3>. QED BY <1>1, <1>4, <2>1, <3>1 DEF OnReadChange
  <2>7. /\ out' = [out EXCEPT ![s] = q] /\ pc' = [pc EXCEPT ![s] = "announcing"]
        /\ UNCHANGED <<closed, targets, deliverVars, clients>>
    BY <1>4 DEF OnReadChange, events
  <2>. HIDE DEF q
  <2>8. /\ requests' \in {requests, requests + 1} /\ requests' <= MaxRequests
        /\ bookVersion' \in 0..requests' /\ requests' \in 1..requests'
    BY <1>1, <2>1
  <2>. QED BY <1>0, <2>4, <2>5, <2>6, <2>7, <2>8, HandlerStartsType
<1>. QED BY <1>2, <1>3, <1>4

LEMMA GetOrderBookType == ASSUME TypeInv, NEW s \in Session, GetOrderBookMessage(s) PROVE TypeInv'
<1>. DEFINE q == Append(out[s], ToAll(Book(out[s][1].msg.request, bookVersion)))
<1>0. /\ MaxRequests \in Nat /\ requests \in 0..MaxRequests /\ bookVersion \in 0..requests
      /\ changes \in Seq(Change) /\ Len(changes) = requests
  BY CountFacts
<1>1. targets[s] = {} /\ out[s] \in Seq(OutItem) /\ out[s][1].msg.request \in 1..requests
  BY OutType, NoTargets DEF TypeInv, HandlerOK, GetOrderBookMessage
<1>2. ToAll(Book(out[s][1].msg.request, bookVersion)) \in OutItem
  <2>1. out[s][1].msg.request \in 0..MaxRequests /\ bookVersion \in 0..MaxRequests
    BY <1>0, <1>1
  <2>. QED BY <2>1, MessageFacts, ItemFacts
<1>3. q \in Seq(OutItem) /\ q # <<>>
  BY <1>1, <1>2
<1>4. /\ out' = [out EXCEPT ![s] = q] /\ pc' = [pc EXCEPT ![s] = "replying"]
      /\ UNCHANGED <<closed, targets, deliverVars, clients, bookVersion, requests, changes>>
  BY OutType DEF GetOrderBookMessage, sharedVars
<1>5. q[1].msg.request \in 1..requests
  BY <1>1, <1>2 DEF TypeInv, HandlerOK, GetOrderBookMessage
<1>6. /\ requests' \in {requests, requests + 1} /\ requests' <= MaxRequests
      /\ bookVersion' \in 0..requests' /\ Len(changes') = requests' /\ changes' \in Seq(Change)
      /\ UNCHANGED <<closed, targets, deliverVars, clients>>
  BY <1>0, <1>4
<1>. HIDE DEF q
<1>. QED BY <1>1, <1>3, <1>4, <1>5, <1>6, HandlerStartsType

\* The front of the list of a handler that is sending.
LEMMA FrontFacts ==
  ASSUME TypeInv, NEW s \in Session, pc[s] \in {"replying", "broadcasting"}
  PROVE  out[s] # <<>> /\ out[s] \in Seq(OutItem) /\ Head(out[s]) \in OutItem
         /\ Head(out[s]) = out[s][1] /\ Head(out[s]).msg \in Message
<1>1. out[s] # <<>> /\ out[s] \in Seq(OutItem)
  BY OutType DEF TypeInv, HandlerOK
<1>2. Head(out[s]) \in OutItem /\ Head(out[s]) = out[s][1]
  BY <1>1, TailFacts
<1>. QED BY <1>1, <1>2, ItemFacts

LEMMA SendReplyType == ASSUME TypeInv, NEW s \in Session, SendReply(s) PROVE TypeInv'
<1>1. /\ targets[s] = {} /\ out[s] # <<>> /\ Head(out[s]).msg \in Message
      /\ targets \in [Session -> SUBSET Session]
  BY FrontFacts, NoTargets DEF SendReply, TypeInv, SessionTypeOK
<1>2. strand' \in [Session -> Seq(Message)] /\ posted' \in [Session -> Seq(Message)]
  BY <1>1, SendType DEF SendReply
<1>3. /\ pc' \in [Session -> {"handshake", "registered", "announcing", "replying",
                              "broadcasting", "reading", "done"}]
      /\ out' \in [Session -> Seq(OutItem)] /\ HandlerOK'
  BY <1>1, AdvanceType DEF SendReply, sharedVars
<1>4. SessionTypeOK'
  BY <1>2, <1>3 DEF SendReply, TypeInv, SessionTypeOK, sharedVars, OutItem
<1>. QED BY <1>3, <1>4 DEF SendReply, TypeInv, WritesOK, CountsOK, sharedVars

LEMMA BroadcastType == ASSUME TypeInv, NEW s \in Session, Broadcast(s) PROVE TypeInv'
<1>1. /\ out[s] # <<>> /\ Head(out[s]) = out[s][1] /\ Head(out[s]).to = "all"
      /\ targets \in [Session -> SUBSET Session]
      /\ targets' = [targets EXCEPT ![s] = clients] /\ clients \subseteq Session
      /\ UNCHANGED <<closed, deliverVars, sharedVars>>
  BY FrontFacts DEF Broadcast, TypeInv, SessionTypeOK
<1>2. targets' \in [Session -> SUBSET Session] /\ targets'[s] = clients
      /\ \A t \in Session \ {s} : targets'[t] = targets[t]
  BY <1>1
<1>3. /\ pc' \in [Session -> {"handshake", "registered", "announcing", "replying",
                              "broadcasting", "reading", "done"}]
      /\ out' \in [Session -> Seq(OutItem)] /\ HandlerOK'
  <2>1. CASE clients = {}
    BY <1>1, <1>2, <2>1, AdvanceType DEF Broadcast, sharedVars
  <2>2. CASE clients # {}
    <3>1. pc' = [pc EXCEPT ![s] = "broadcasting"] /\ out' = out /\ requests' = requests
      BY <2>2 DEF Broadcast, sharedVars
    <3>2. HandlerOK'
      BY <1>1, <1>2, <2>2, <3>1 DEF TypeInv, SessionTypeOK, HandlerOK
    <3>. QED BY <3>1, <3>2, OutType DEF TypeInv, SessionTypeOK
  <2>. QED BY <2>1, <2>2
<1>4. SessionTypeOK'
  BY <1>1, <1>2, <1>3 DEF TypeInv, SessionTypeOK, deliverVars, sharedVars, OutItem
<1>. QED BY <1>1, <1>3, <1>4 DEF TypeInv, WritesOK, CountsOK, deliverVars, sharedVars

LEMMA BroadcastOneType == ASSUME TypeInv, NEW s \in Session, BroadcastOne(s) PROVE TypeInv'
<1>1. /\ out[s] # <<>> /\ Head(out[s]) = out[s][1] /\ Head(out[s]).msg \in Message
      /\ targets \in [Session -> SUBSET Session] /\ pc[s] = "broadcasting"
      /\ UNCHANGED <<closed, writeQueue, writes, received, sharedVars>>
  BY FrontFacts DEF BroadcastOne, TypeInv, SessionTypeOK
<1>2. PICK t \in targets[s] : /\ Send(t, Head(out[s]).msg)
                              /\ targets' = [targets EXCEPT ![s] = @ \ {t}]
  BY DEF BroadcastOne
<1>3. targets' \in [Session -> SUBSET Session] /\ targets'[s] = targets[s] \ {t}
      /\ \A u \in Session \ {s} : targets'[u] = targets[u]
      /\ t \in Session
  BY <1>1, <1>2
<1>4. strand' \in [Session -> Seq(Message)] /\ posted' \in [Session -> Seq(Message)]
  BY <1>1, <1>2, <1>3, SendType
<1>5. /\ pc' \in [Session -> {"handshake", "registered", "announcing", "replying",
                              "broadcasting", "reading", "done"}]
      /\ out' \in [Session -> Seq(OutItem)] /\ HandlerOK'
  <2>1. CASE targets'[s] = {}
    BY <1>1, <1>3, <2>1, AdvanceType DEF BroadcastOne, sharedVars
  <2>2. CASE targets'[s] # {}
    <3>1. pc' = pc /\ out' = out /\ requests' = requests
      BY <2>2 DEF BroadcastOne, sharedVars
    <3>2. HandlerOK'
      BY <1>1, <1>3, <2>2, <3>1 DEF TypeInv, SessionTypeOK, HandlerOK
    <3>. QED BY <3>1, <3>2, OutType DEF TypeInv, SessionTypeOK
  <2>. QED BY <2>1, <2>2
<1>6. SessionTypeOK'
  BY <1>1, <1>3, <1>4, <1>5 DEF TypeInv, SessionTypeOK, sharedVars, OutItem
<1>. QED BY <1>1, <1>5, <1>6 DEF TypeInv, WritesOK, CountsOK, sharedVars

LEMMA NextType == TypeInv /\ [SessionNext]_sessionVars => TypeInv'
<1>. SUFFICES ASSUME TypeInv, [SessionNext]_sessionVars PROVE TypeInv'
  OBVIOUS
<1>1. CASE UNCHANGED sessionVars
  BY <1>1, TypeUnchanged
<1>2. ASSUME NEW s \in Session, Work(s) PROVE TypeInv'
  BY <1>2, StartType, GetOrderBookType, SendReplyType, BroadcastType, BroadcastOneType DEF Work
<1>. QED BY <1>1, <1>2, AcceptType, StartType, OnSendType, WrittenType DEF SessionNext

\* Every variable of the sessions has its type, and the stream is never asked
\* for a second write while one is outstanding, whatever the threads that post
\* to a session do.
THEOREM SessionTypeCorrect == SessionSpec => []SessionTypeOK
<1>1. TypeInv => SessionTypeOK
  BY DEF TypeInv
<1>. QED BY <1>1, InitType, NextType, PTL DEF SessionSpec

\* While a session is open a write is outstanding exactly if a message is
\* queued: none is left behind with nobody to write it.
THEOREM QueueIsWritten == SessionSpec => []WriteWhileQueued
<1>1. TypeInv => WriteWhileQueued
  BY DEF TypeInv, SessionTypeOK, WritesOK, WriteWhileQueued
<1>. QED BY <1>1, InitType, NextType, PTL DEF SessionSpec

-----------------------------------------------------------------------------
(* The set of clients.                                                     *)

IsClient(s) == ~closed[s] /\ pc[s] \notin {"handshake", "done"}

\* RegisteredWhileOpen, session by session.
Registered == \A s \in Session : s \in clients <=> IsClient(s)

\* Nothing has been sent to a session that has not been accepted yet, and
\* nobody is about to.
HandshakeBlank ==
    \A s \in Session : pc[s] = "handshake" =>
        /\ ~closed[s] /\ strand[s] = <<>> /\ writes[s] = 0
        /\ \A t \in Session : s \notin targets[t]

RegisteredInv == TypeInv /\ Registered /\ HandshakeBlank

LEMMA InitRegistered == SessionInit => RegisteredInv
  BY InitType DEF RegisteredInv, SessionInit, Registered, IsClient, HandshakeBlank

\* The functions a step may change at one argument.
LEMMA Functions ==
  TypeInv => /\ DOMAIN pc = Session /\ pc = [s \in Session |-> pc[s]]
             /\ DOMAIN closed = Session /\ closed = [s \in Session |-> closed[s]]
             /\ targets \in [Session -> SUBSET Session]
             /\ strand = [s \in Session |-> strand[s]] /\ posted = [s \in Session |-> posted[s]]
             /\ writeQueue = [s \in Session |-> writeQueue[s]]
             /\ received = [s \in Session |-> received[s]]
             /\ writes \in [Session -> {0, 1}] /\ out = [s \in Session |-> out[s]]
             /\ clients \subseteq Session
  BY DEF TypeInv, SessionTypeOK

\* What an action that is not about the set of clients may do: no session goes
\* back to the handshake, and a session is done only when it is closed.
LEMMA RegisteredKept ==
  ASSUME RegisteredInv, closed' = closed, clients' = clients,
         \A s \in Session :
            /\ pc'[s] = "handshake" <=> pc[s] = "handshake"
            /\ pc'[s] = "done" /\ pc[s] # "done" => closed[s]
            /\ pc[s] = "done" => pc'[s] = "done"
            /\ pc[s] = "handshake" =>
                  /\ strand'[s] = strand[s] /\ writes'[s] = writes[s]
                  /\ \A t \in Session : s \notin targets'[t]
  PROVE  Registered' /\ HandshakeBlank'
BY DEF RegisteredInv, Registered, IsClient, HandshakeBlank

LEMMA NextRegistered ==
  RegisteredInv /\ [SessionNext]_sessionVars => RegisteredInv'
<1>. SUFFICES ASSUME RegisteredInv, [SessionNext]_sessionVars PROVE RegisteredInv'
  OBVIOUS
<1>0. TypeInv /\ TypeInv'
  BY NextType DEF RegisteredInv
<1>00. \A s \in Session : pc[s] = "handshake" => \A t \in Session : s \notin targets[t]
  BY DEF RegisteredInv, HandshakeBlank
<1>. DEFINE Kept == Registered' /\ HandshakeBlank'
<1>1. ASSUME NEW s \in Session, OnAccept(s) \/ OnAcceptError(s) \/ OnReadError(s) PROVE Kept
  <2>1. UNCHANGED <<strand, writes, targets>>
    BY <1>1 DEF OnAccept, OnAcceptError, OnReadError, deliverVars
  <2>. QED
    BY <1>0, <1>1, <2>1, Functions
       DEF OnAccept, OnAcceptError, OnReadError, Disconnect, sharedVars,
           RegisteredInv, Registered, IsClient, HandshakeBlank
<1>2. ASSUME NEW s \in Session, SendInitialOrderBook(s) \/ GetOrderBookMessage(s)
                                  \/ OnReadNoChange(s) \/ (\E n \in EventCounts : OnReadChange(s, n))
      PROVE  Kept
  <2>1. UNCHANGED <<strand, writes, targets, closed, clients>>
    BY <1>2 DEF SendInitialOrderBook, GetOrderBookMessage, OnReadNoChange, OnReadChange,
                deliverVars, sharedVars
  <2>2. pc[s] \notin {"handshake", "done"} /\ \E l \in {"replying", "announcing"} : pc' = [pc EXCEPT ![s] = l]
    BY <1>2 DEF SendInitialOrderBook, GetOrderBookMessage, OnReadNoChange, OnReadChange
  <2>. QED BY <1>0, <1>00, <2>1, <2>2, Functions, RegisteredKept
<1>3. ASSUME NEW s \in Session, SendReply(s) PROVE Kept
  <2>1. UNCHANGED <<writes, targets, closed, clients>> /\ \A t \in Session \ {s} : strand'[t] = strand[t]
    BY <1>0, <1>3, Functions DEF SendReply, Send, sharedVars
  <2>2. pc[s] \notin {"handshake", "done"} /\ \E l \in {"replying", "reading", "done"} :
           pc' = [pc EXCEPT ![s] = l] /\ (l = "done" => closed[s])
    BY <1>3 DEF SendReply, Advance
  <2>. QED BY <1>0, <1>00, <2>1, <2>2, Functions, RegisteredKept
<1>4. ASSUME NEW s \in Session, Broadcast(s) PROVE Kept
  <2>1. UNCHANGED <<strand, writes, closed, clients>> /\ targets' = [targets EXCEPT ![s] = clients]
    BY <1>4 DEF Broadcast, deliverVars, sharedVars
  <2>2. pc[s] \notin {"handshake", "done"} /\ \E l \in {"replying", "reading", "done", "broadcasting"} :
           pc' = [pc EXCEPT ![s] = l] /\ (l = "done" => closed[s])
    BY <1>4 DEF Broadcast, Advance
  <2>3. \A u \in Session : pc[u] = "handshake" => u \notin clients
    BY DEF RegisteredInv, Registered, IsClient
  <2>. QED BY <1>0, <1>00, <2>1, <2>2, <2>3, Functions, RegisteredKept
<1>5. ASSUME NEW s \in Session, BroadcastOne(s) PROVE Kept
  <2>1. PICK t \in targets[s] : /\ Send(t, Head(out[s]).msg)
                                /\ targets' = [targets EXCEPT ![s] = @ \ {t}]
    BY <1>5 DEF BroadcastOne
  <2>2. /\ UNCHANGED <<writes, closed, clients>> /\ t \in Session
        /\ \A u \in Session \ {t} : strand'[u] = strand[u]
    BY <1>0, <1>5, <2>1, Functions DEF BroadcastOne, Send, sharedVars
  <2>3. pc[s] \notin {"handshake", "done"} /\ \E l \in {"replying", "reading", "done", "broadcasting"} :
           pc' = [pc EXCEPT ![s] = l] /\ (l = "done" => closed[s])
    BY <1>0, <1>5, Functions DEF BroadcastOne, Advance
  <2>. QED BY <1>0, <1>00, <2>1, <2>2, <2>3, Functions, RegisteredKept
<1>6. ASSUME NEW s \in Session, OnSend(s) PROVE Kept
  <2>1. pc[s] # "handshake"
    BY <1>6 DEF OnSend, RegisteredInv, HandshakeBlank
  <2>2. UNCHANGED <<pc, closed, clients, targets>>
        /\ \A t \in Session \ {s} : strand'[t] = strand[t] /\ writes'[t] = writes[t]
    BY <1>0, <1>6, Functions DEF OnSend, sharedVars
  <2>. QED BY <1>0, <1>00, <2>1, <2>2, RegisteredKept
<1>7. ASSUME NEW s \in Session, Written(s) PROVE Kept
  <2>1. pc[s] # "handshake"
    BY <1>7 DEF Written, OnWrite, OnWriteError, RegisteredInv, HandshakeBlank
  <2>2. UNCHANGED <<pc, targets, strand>> /\ \A t \in Session \ {s} : writes'[t] = writes[t]
    BY <1>0, <1>7, Functions DEF Written, OnWrite, OnWriteError
  <2>3. CASE UNCHANGED <<closed, clients>>
    BY <1>0, <1>00, <2>1, <2>2, <2>3, RegisteredKept
  <2>4. CASE Disconnect(s)
    BY <1>0, <1>00, <2>1, <2>2, <2>4, Functions
       DEF Disconnect, RegisteredInv, Registered, IsClient, HandshakeBlank
  <2>. QED BY <1>7, <2>3, <2>4 DEF Written, OnWrite, OnWriteError, sharedVars
<1>8. CASE UNCHANGED sessionVars
  <2>1. UNCHANGED <<strand, writes, targets, closed, clients, pc>>
    BY <1>8 DEF sessionVars, deliverVars, sharedVars
  <2>. QED BY <1>0, <2>1 DEF RegisteredInv, Registered, IsClient, HandshakeBlank
<1>. QED BY <1>0, <1>1, <1>2, <1>3, <1>4, <1>5, <1>6, <1>7, <1>8 DEF SessionNext, Work, RegisteredInv

\* ClientManager holds exactly the sessions that were accepted and have not
\* been closed, whichever way they come and go.
THEOREM ClientsAreRegistered == SessionSpec => []RegisteredWhileOpen
<1>1. RegisteredInv => RegisteredWhileOpen
  BY Functions DEF RegisteredInv, Registered, IsClient, RegisteredWhileOpen
<1>. QED BY <1>1, InitRegistered, NextRegistered, PTL DEF SessionSpec

-----------------------------------------------------------------------------
(* Delivery.                                                               *)

\* A prefix, element by element.
LEMMA PrefixIs ==
  ASSUME NEW S, NEW p \in Seq(S), NEW q \in Seq(S)
  PROVE  IsPrefix(p, q) <=> Len(p) <= Len(q) /\ \A i \in 1..Len(p) : p[i] = q[i]
<1>1. CASE Len(p) <= Len(q)
  <2>1. /\ SubSeq(p, 1, Len(p)) \in Seq(S) /\ SubSeq(q, 1, Len(p)) \in Seq(S)
        /\ Len(SubSeq(p, 1, Len(p))) = Len(p) /\ Len(SubSeq(q, 1, Len(p))) = Len(p)
        /\ \A i \in 1..Len(p) : SubSeq(p, 1, Len(p))[i] = p[i] /\ SubSeq(q, 1, Len(p))[i] = q[i]
    BY <1>1
  <2>2. SubSeq(p, 1, Len(p)) = SubSeq(q, 1, Len(p)) <=> \A i \in 1..Len(p) : p[i] = q[i]
    BY <2>1, SeqEqual
  <2>. QED BY <1>1, <2>2 DEF IsPrefix
<1>2. CASE ~(Len(p) <= Len(q))
  BY <1>2 DEF IsPrefix
<1>. QED BY <1>1, <1>2

LEMMA PrefixAppend ==
  ASSUME NEW S, NEW p \in Seq(S), NEW q \in Seq(S), NEW m \in S, IsPrefix(p, q)
  PROVE  IsPrefix(p, Append(q, m))
<1>1. Len(p) <= Len(q) /\ \A i \in 1..Len(p) : p[i] = q[i]
  BY PrefixIs
<1>2. Append(q, m) \in Seq(S)
  OBVIOUS
<1>3. Len(p) <= Len(Append(q, m)) /\ \A i \in 1..Len(p) : p[i] = Append(q, m)[i]
  BY <1>1
<1>. QED BY <1>2, <1>3, PrefixIs

\* What happens to the three stretches of the way a message takes.
LEMMA PostedIsLast ==
  ASSUME NEW S, NEW r \in Seq(S), NEW q \in Seq(S), NEW t \in Seq(S), NEW m \in S
  PROVE  r \o q \o Append(t, m) = Append(r \o q \o t, m)
<1>1. r \o q \in Seq(S)
  OBVIOUS
<1>. HIDE <1>1
<1>2. \A a \in Seq(S) : a \o Append(t, m) = Append(a \o t, m)
  OBVIOUS
<1>. QED BY <1>1, <1>2

Joined(r, q, t) == r \o q \o t

\* The same, with names for what the provers should not look into.
Moved(q, t, q2, t2) == q2 = Append(q, Head(t)) /\ t2 = Tail(t)

LEMMA SentIsJoined ==
  ASSUME NEW S, NEW r \in Seq(S), NEW q \in Seq(S), NEW t \in Seq(S), t # <<>>,
         NEW q2, NEW t2, Moved(q, t, q2, t2)
  PROVE  Joined(r, q2, t2) = Joined(r, q, t)
<1>. SUFFICES r \o Append(q, Head(t)) \o Tail(t) = r \o q \o t
  BY DEF Moved, Joined
<1>1. /\ Head(t) \in S /\ Tail(t) \in Seq(S) /\ Append(q, Head(t)) \in Seq(S)
      /\ Len(Tail(t)) = Len(t) - 1 /\ Head(t) = t[1]
      /\ \A i \in 1..Len(Tail(t)) : Tail(t)[i] = t[i + 1]
  OBVIOUS
<1>2. Append(q, Head(t)) \o Tail(t) = q \o t
  <2>1. /\ Append(q, Head(t)) \o Tail(t) \in Seq(S) /\ q \o t \in Seq(S)
        /\ Len(Append(q, Head(t)) \o Tail(t)) = Len(q \o t)
        /\ \A i \in 1..Len(q \o t) : (Append(q, Head(t)) \o Tail(t))[i] = (q \o t)[i]
    BY <1>1
  <2>. QED BY <2>1, SeqEqual
<1>. DEFINE h == Append(q, Head(t))
<1>3. r \o h \o Tail(t) = r \o (h \o Tail(t))
  <2>1. h \in Seq(S) /\ Tail(t) \in Seq(S)
    BY <1>1
  <2>. HIDE DEF h
  <2>. QED BY <2>1, ConcatAssociative
<1>4. r \o q \o t = r \o (q \o t)
  BY ConcatAssociative
<1>. QED BY <1>2, <1>3, <1>4

LEMMA QueuedIsWritten ==
  ASSUME NEW S, NEW r \in Seq(S), NEW q \in Seq(S), NEW t \in Seq(S), q # <<>>
  PROVE  /\ Append(r, Head(q)) \o Tail(q) \o t = r \o q \o t
         /\ IsPrefix(Append(r, Head(q)), r \o q \o t)
<1>1. Append(r, Head(q)) \o Tail(q) = r \o q
  <2>1. /\ Head(q) \in S /\ Tail(q) \in Seq(S) /\ Append(r, Head(q)) \in Seq(S)
        /\ Len(Tail(q)) = Len(q) - 1 /\ Head(q) = q[1]
        /\ \A i \in 1..Len(Tail(q)) : Tail(q)[i] = q[i + 1]
    OBVIOUS
  <2>2. /\ Append(r, Head(q)) \o Tail(q) \in Seq(S) /\ r \o q \in Seq(S)
        /\ Len(Append(r, Head(q)) \o Tail(q)) = Len(r \o q)
        /\ \A i \in 1..Len(r \o q) : (Append(r, Head(q)) \o Tail(q))[i] = (r \o q)[i]
    BY <2>1
  <2>. QED BY <2>2, SeqEqual
<1>2. Append(r, Head(q)) \in Seq(S) /\ r \o q \o t \in Seq(S)
  OBVIOUS
<1>3. /\ Len(Append(r, Head(q))) <= Len(r \o q \o t)
      /\ \A i \in 1..Len(Append(r, Head(q))) : Append(r, Head(q))[i] = (r \o q \o t)[i]
  OBVIOUS
<1>. QED BY <1>1, <1>2, <1>3, PrefixIs

\* What was written, what is queued and what waits in the strand of a session
\* make up what was posted to it.  A closed session's outstanding write may
\* still succeed: what it writes is the next message all the same.
OnTheWay(isClosed, w, r, q, t, p) ==
    /\ ~isClosed => r \o q \o t = p
    /\ IsPrefix(r, p)
    /\ w = 1 => IsPrefix(Append(r, Head(q)), p)

LEMMA PostKeepsWay ==
  ASSUME NEW r \in Seq(Message), NEW q \in Seq(Message), NEW t \in Seq(Message),
         NEW p \in Seq(Message), NEW m \in Message, NEW w, w = 1 => q # <<>>,
         OnTheWay(FALSE, w, r, q, t, p)
  PROVE  OnTheWay(FALSE, w, r, q, Append(t, m), Append(p, m))
<1>1. r \o q \o Append(t, m) = Append(p, m)
  <2>1. r \o q \o t = p
    BY DEF OnTheWay
  <2>2. r \o q \o Append(t, m) = Append(r \o q \o t, m)
    BY PostedIsLast
  <2>. QED BY <2>1, <2>2
<1>2. IsPrefix(r, Append(p, m))
  BY PrefixAppend DEF OnTheWay
<1>3. ASSUME w = 1 PROVE IsPrefix(Append(r, Head(q)), Append(p, m))
  <2>. DEFINE r2 == Append(r, Head(q))
  <2>1. r2 \in Seq(Message) /\ IsPrefix(r2, p)
    BY <1>3, TailFacts DEF OnTheWay
  <2>. HIDE DEF r2
  <2>2. IsPrefix(r2, Append(p, m))
    BY <2>1, PrefixAppend
  <2>. QED BY <2>2 DEF r2
<1>. QED BY <1>1, <1>2, <1>3 DEF OnTheWay

LEMMA SendKeepsWay ==
  ASSUME NEW r \in Seq(Message), NEW q \in Seq(Message), NEW t \in Seq(Message),
         NEW p \in Seq(Message), t # <<>>, NEW w, OnTheWay(FALSE, w, r, q, t, p)
  PROVE  OnTheWay(FALSE, 1, r, Append(q, Head(t)), Tail(t), p)
<1>0. r \o Append(q, Head(t)) \o Tail(t) = r \o q \o t
  <2>1. Moved(q, t, Append(q, Head(t)), Tail(t))
    BY DEF Moved
  <2>2. Joined(r, Append(q, Head(t)), Tail(t)) = Joined(r, q, t)
    BY <2>1, SentIsJoined
  <2>. QED BY <2>2 DEF Joined
<1>. DEFINE q2 == Append(q, Head(t))
<1>1. q2 \in Seq(Message) /\ Tail(t) \in Seq(Message) /\ q2 # <<>>
  BY TailFacts
<1>2. r \o q2 \o Tail(t) = p
  BY <1>0 DEF OnTheWay
<1>. HIDE DEF q2
<1>3. IsPrefix(Append(r, Head(q2)), p)
  BY <1>1, <1>2, QueuedIsWritten
<1>4. OnTheWay(FALSE, 1, r, q2, Tail(t), p)
  BY <1>2, <1>3 DEF OnTheWay
<1>. QED BY <1>4 DEF q2

LEMMA WriteKeepsWay ==
  ASSUME NEW r \in Seq(Message), NEW q \in Seq(Message), NEW t \in Seq(Message),
         NEW p \in Seq(Message), q # <<>>, OnTheWay(FALSE, 1, r, q, t, p),
         NEW w, w = 1 => Tail(q) # <<>>
  PROVE  OnTheWay(FALSE, w, Append(r, Head(q)), Tail(q), t, p)
<1>. DEFINE r2 == Append(r, Head(q))
            q2 == Tail(q)
<1>1. r2 \in Seq(Message) /\ q2 \in Seq(Message)
  BY TailFacts
<1>2. r2 \o q2 \o t = p /\ IsPrefix(r2, p)
  <2>1. p = r \o q \o t
    BY DEF OnTheWay
  <2>2. r2 \o q2 \o t = r \o q \o t /\ IsPrefix(r2, r \o q \o t)
    BY QueuedIsWritten, Zenon
  <2>. QED
    BY <2>1, <2>2, Zenon
<1>3. w = 1 => q2 # <<>>
  OBVIOUS
<1>. HIDE DEF r2, q2
<1>4. w = 1 => IsPrefix(Append(r2, Head(q2)), p)
  BY <1>1, <1>2, <1>3, QueuedIsWritten
<1>5. OnTheWay(FALSE, w, r2, q2, t, p)
  BY <1>2, <1>4 DEF OnTheWay
<1>. QED BY <1>5 DEF r2, q2

\* The last write of a closed session.
LEMMA LastWriteKeepsWay ==
  ASSUME NEW r, NEW q, NEW t, NEW p, OnTheWay(TRUE, 1, r, q, t, p)
  PROVE  OnTheWay(TRUE, 0, Append(r, Head(q)), q, t, p)
BY DEF OnTheWay

\* Closing the session, and what its strand drops then.
LEMMA CloseKeepsWay ==
  ASSUME NEW c \in BOOLEAN, NEW w, NEW r, NEW q, NEW t, NEW p, OnTheWay(c, w, r, q, t, p)
  PROVE  \A u : OnTheWay(TRUE, w, r, q, u, p) /\ OnTheWay(TRUE, 0, r, q, u, p)
BY DEF OnTheWay

DeliveryOf(s) ==
    OnTheWay(closed[s], writes[s], received[s], writeQueue[s], strand[s], posted[s])

DeliveryInv == TypeInv /\ \A s \in Session : DeliveryOf(s)

LEMMA InitDelivery == SessionInit => DeliveryInv
<1>. SUFFICES ASSUME SessionInit PROVE DeliveryInv
  OBVIOUS
<1>1. <<>> \o <<>> \o <<>> = <<>> /\ IsPrefix(<<>>, <<>>)
  BY DEF IsPrefix
<1>2. OnTheWay(FALSE, 0, <<>>, <<>>, <<>>, <<>>)
  BY <1>1 DEF OnTheWay
<1>. QED BY <1>2, InitType DEF SessionInit, DeliveryInv, DeliveryOf

\* A session none of whose queues a step touches.
LEMMA DeliveryKept ==
  ASSUME NEW s \in Session, DeliveryOf(s), closed \in [Session -> BOOLEAN],
         closed'[s] = closed[s] \/ closed'[s] = TRUE,
         received'[s] = received[s], writeQueue'[s] = writeQueue[s], strand'[s] = strand[s],
         posted'[s] = posted[s],
         writes'[s] = writes[s] \/ (writes'[s] = 0 /\ closed'[s] = TRUE)
  PROVE  DeliveryOf(s)'
<1>1. /\ closed[s] \in BOOLEAN
      /\ OnTheWay(closed[s], writes[s], received[s], writeQueue[s], strand[s], posted[s])
  BY DEF DeliveryOf
<1>2. CASE closed'[s] = closed[s] /\ writes'[s] = writes[s]
  BY <1>1, <1>2 DEF DeliveryOf
<1>3. CASE closed'[s] = TRUE
  <2>1. /\ OnTheWay(TRUE, writes[s], received[s], writeQueue[s], strand[s], posted[s])
        /\ OnTheWay(TRUE, 0, received[s], writeQueue[s], strand[s], posted[s])
    BY <1>1, CloseKeepsWay
  <2>. QED BY <1>3, <2>1 DEF DeliveryOf
<1>. QED BY <1>2, <1>3

LEMMA SendDelivers ==
  ASSUME DeliveryInv, NEW t \in Session, NEW m \in Message, Send(t, m),
         UNCHANGED <<closed, writeQueue, writes, received>>
  PROVE  \A s \in Session : DeliveryOf(s)'
<1>1. ASSUME NEW s \in Session, s # t \/ closed[t] PROVE DeliveryOf(s)'
  BY <1>1, Functions DEF Send, DeliveryInv, DeliveryOf
<1>2. CASE ~closed[t]
  <2>1. /\ strand'[t] = Append(strand[t], m) /\ posted'[t] = Append(posted[t], m)
        /\ closed[t] = FALSE
    BY <1>2, Functions DEF Send, DeliveryInv, TypeInv, SessionTypeOK
  <2>2. /\ received[t] \in Seq(Message) /\ writeQueue[t] \in Seq(Message)
        /\ strand[t] \in Seq(Message) /\ posted[t] \in Seq(Message)
        /\ writes[t] = 1 => writeQueue[t] # <<>>
    BY DEF DeliveryInv, TypeInv, SessionTypeOK, WritesOK
  <2>3. OnTheWay(FALSE, writes[t], received[t], writeQueue[t], strand[t], posted[t])
    BY <2>1 DEF DeliveryInv, DeliveryOf
  <2>4. DeliveryOf(t)'
    BY <2>1, <2>2, <2>3, PostKeepsWay DEF DeliveryOf
  <2>. QED BY <1>1, <2>4
<1>. QED BY <1>1, <1>2

LEMMA OnSendDelivers ==
  ASSUME DeliveryInv, NEW s \in Session, OnSend(s)
  PROVE  \A t \in Session : DeliveryOf(t)'
<1>1. ASSUME NEW t \in Session, t # s PROVE DeliveryOf(t)'
  BY <1>1, Functions DEF OnSend, DeliveryInv, DeliveryOf
<1>2. /\ received[s] \in Seq(Message) /\ writeQueue[s] \in Seq(Message)
      /\ strand[s] \in Seq(Message) /\ strand[s] # <<>> /\ posted[s] \in Seq(Message)
      /\ strand'[s] = Tail(strand[s]) /\ UNCHANGED <<closed, received, posted>>
      /\ closed[s] \in BOOLEAN /\ writes[s] \in {0, 1}
      /\ ~closed[s] /\ writeQueue[s] # <<>> => writes[s] = 1
      /\ writes[s] = 1 => writeQueue[s] # <<>>
  BY Functions DEF DeliveryInv, TypeInv, SessionTypeOK, WritesOK, OnSend
<1>3. CASE closed[s]
  <2>1. /\ OnTheWay(closed[s], writes[s], received[s], writeQueue[s], strand[s], posted[s])
        /\ closed[s] = TRUE /\ closed'[s] = TRUE /\ UNCHANGED <<writes, writeQueue>>
    BY <1>2, <1>3 DEF OnSend, DeliveryInv, DeliveryOf
  <2>2. OnTheWay(TRUE, writes[s], received[s], writeQueue[s], Tail(strand[s]), posted[s])
    BY <2>1, CloseKeepsWay
  <2>3. DeliveryOf(s)'
    BY <1>2, <2>1, <2>2 DEF DeliveryOf
  <2>. QED BY <1>1, <2>3
<1>4. CASE ~closed[s]
  <2>1. /\ writeQueue'[s] = Append(writeQueue[s], Head(strand[s]))
        /\ writes'[s] = 1 /\ closed[s] = FALSE
    BY <1>2, <1>4, Functions DEF DeliveryInv, OnSend
  <2>2. OnTheWay(FALSE, writes[s], received[s], writeQueue[s], strand[s], posted[s])
    BY <2>1 DEF DeliveryInv, DeliveryOf
  <2>3. DeliveryOf(s)'
    BY <1>2, <2>1, <2>2, SendKeepsWay DEF DeliveryOf
  <2>. QED BY <1>1, <2>3
<1>. QED BY <1>3, <1>4

LEMMA WrittenDelivers ==
  ASSUME DeliveryInv, NEW s \in Session, Written(s)
  PROVE  \A t \in Session : DeliveryOf(t)'
<1>1. ASSUME NEW t \in Session, t # s PROVE DeliveryOf(t)'
  BY <1>1, Functions DEF Written, OnWrite, OnWriteError, Disconnect, sharedVars, DeliveryInv, DeliveryOf
<1>2. /\ received[s] \in Seq(Message) /\ writeQueue[s] \in Seq(Message)
      /\ strand[s] \in Seq(Message) /\ posted[s] \in Seq(Message)
      /\ writes[s] = 1 /\ writeQueue[s] # <<>>
      /\ strand' = strand /\ posted' = posted /\ closed \in [Session -> BOOLEAN]
  BY Functions DEF DeliveryInv, TypeInv, SessionTypeOK, WritesOK, Written, OnWrite, OnWriteError
<1>3. CASE OnWriteError(s)
  <2>1. closed'[s] = TRUE /\ writes'[s] = 0 /\ UNCHANGED <<received, writeQueue>>
    BY <1>2, <1>3, Functions DEF OnWriteError, Disconnect, DeliveryInv
  <2>2. DeliveryOf(s)'
    BY <1>2, <2>1, DeliveryKept DEF DeliveryInv
  <2>. QED BY <1>1, <2>2
<1>4. CASE OnWrite(s)
  <2>1. received'[s] = Append(received[s], Head(writeQueue[s])) /\ closed' = closed
    BY <1>4, Functions DEF OnWrite, DeliveryInv
  <2>2. CASE closed[s]
    <3>1. writes'[s] = 0 /\ closed[s] = TRUE /\ writeQueue' = writeQueue
      BY <1>2, <1>4, <2>2, Functions DEF OnWrite, DeliveryInv
    <3>2. OnTheWay(TRUE, 1, received[s], writeQueue[s], strand[s], posted[s])
      BY <1>2, <3>1 DEF DeliveryInv, DeliveryOf
    <3>3. OnTheWay(TRUE, 0, Append(received[s], Head(writeQueue[s])), writeQueue[s],
                   strand[s], posted[s])
      BY <3>2, LastWriteKeepsWay
    <3>4. DeliveryOf(s)'
      BY <1>2, <2>1, <3>1, <3>3 DEF DeliveryOf
    <3>. QED BY <1>1, <3>4
  <2>3. CASE ~closed[s]
    <3>1. /\ writeQueue'[s] = Tail(writeQueue[s]) /\ closed[s] = FALSE
          /\ writes'[s] = 1 => Tail(writeQueue[s]) # <<>>
      BY <1>2, <1>4, <2>3, Functions, TailFacts DEF OnWrite, DeliveryInv
    <3>2. OnTheWay(FALSE, 1, received[s], writeQueue[s], strand[s], posted[s])
      BY <1>2, <3>1 DEF DeliveryInv, DeliveryOf
    <3>3. DeliveryOf(s)'
      BY <1>2, <2>1, <3>1, <3>2, WriteKeepsWay DEF DeliveryOf
    <3>. QED BY <1>1, <3>3
  <2>. QED BY <2>2, <2>3
<1>. QED BY <1>3, <1>4 DEF Written

LEMMA NextDelivery == DeliveryInv /\ [SessionNext]_sessionVars => DeliveryInv'
<1>. SUFFICES ASSUME DeliveryInv, [SessionNext]_sessionVars PROVE DeliveryInv'
  OBVIOUS
<1>. DEFINE Kept == \A t \in Session : DeliveryOf(t)'
<1>0. TypeInv /\ TypeInv' /\ closed \in [Session -> BOOLEAN]
  BY NextType DEF DeliveryInv, TypeInv, SessionTypeOK
<1>1. ASSUME UNCHANGED deliverVars,
             \A t \in Session : closed'[t] = closed[t] \/ closed'[t] = TRUE
      PROVE  Kept
  BY <1>0, <1>1, DeliveryKept DEF DeliveryInv, deliverVars
<1>2. ASSUME NEW s \in Session, OnAccept(s) \/ OnAcceptError(s) \/ OnReadError(s)
                                  \/ SendInitialOrderBook(s) \/ GetOrderBookMessage(s)
                                  \/ OnReadNoChange(s) \/ (\E n \in EventCounts : OnReadChange(s, n))
                                  \/ Broadcast(s)
      PROVE  /\ UNCHANGED deliverVars
             /\ \A t \in Session : closed'[t] = closed[t] \/ closed'[t] = TRUE
  BY <1>0, <1>2, Functions
     DEF OnAccept, OnAcceptError, OnReadError, Disconnect, SendInitialOrderBook,
         GetOrderBookMessage, OnReadNoChange, OnReadChange, Broadcast
<1>3. ASSUME NEW s \in Session, SendReply(s) PROVE Kept
  BY <1>0, <1>3, SendDelivers, FrontFacts DEF SendReply
<1>4. ASSUME NEW s \in Session, BroadcastOne(s) PROVE Kept
  <2>1. PICK t \in targets[s] : Send(t, Head(out[s]).msg)
    BY <1>4 DEF BroadcastOne
  <2>2. t \in Session
    BY <1>0, <2>1, Functions
  <2>. QED BY <1>0, <1>4, <2>1, <2>2, SendDelivers, FrontFacts DEF BroadcastOne
<1>5. ASSUME UNCHANGED sessionVars PROVE Kept
  BY <1>0, <1>5 DEF DeliveryInv, DeliveryOf, sessionVars, deliverVars
<1>6. ASSUME NEW s \in Session, SendReply(s) \/ BroadcastOne(s) \/ OnSend(s) \/ Written(s)
      PROVE  Kept
  BY <1>3, <1>4, <1>6, OnSendDelivers, WrittenDelivers
<1>7. Kept
  <2>1. CASE SessionNext
    <3>1. PICK s \in Session :
            \/ OnAccept(s) \/ OnAcceptError(s) \/ OnReadError(s)
               \/ SendInitialOrderBook(s) \/ GetOrderBookMessage(s)
               \/ OnReadNoChange(s) \/ (\E n \in EventCounts : OnReadChange(s, n))
               \/ Broadcast(s)
            \/ SendReply(s) \/ BroadcastOne(s) \/ OnSend(s) \/ Written(s)
      BY <2>1 DEF SessionNext, Work
    <3>2. CASE SendReply(s) \/ BroadcastOne(s) \/ OnSend(s) \/ Written(s)
      BY <1>6, <3>2
    <3>3. CASE ~(SendReply(s) \/ BroadcastOne(s) \/ OnSend(s) \/ Written(s))
      BY <1>1, <1>2, <3>1, <3>3
    <3>. QED BY <3>2, <3>3
  <2>. QED BY <1>5, <2>1
<1>. QED BY <1>0, <1>7 DEF DeliveryInv

\* What is posted to a session is written in that order, nothing twice and
\* nothing left out, however many threads post to it and however the writes
\* end; a session that is closed has written a prefix of it.
THEOREM PostsDeliveredInOrder == SessionSpec => []DeliveredInOrder
<1>1. DeliveryInv => DeliveredInOrder
  BY DEF DeliveryInv, DeliveryOf, OnTheWay, DeliveredInOrder
<1>. QED BY <1>1, InitDelivery, NextDelivery, PTL DEF SessionSpec

-----------------------------------------------------------------------------
(* The direct response precedes the broadcasts of its request.             *)

\* What a handler has in hand belongs to one request, and only the first of it
\* can be the direct response.
OutOK(s) ==
    \A i \in DOMAIN out[s] : /\ out[s][i].msg.request = out[s][1].msg.request
                             /\ out[s][i].msg.request <= requests
                             /\ i > 1 => out[s][i].to = "all"
                             /\ out[s][i].to = "all" => out[s][i].msg.kind # "REPLY"

\* No two handlers work on the same request.
OneHandler ==
    \A s, t \in Session :
        s # t /\ out[s] # <<>> /\ out[t] # <<>>
              /\ out[s][1].msg.request = out[t][1].msg.request => out[s][1].msg.request = 0

PostedOK == \A t \in Session : \A i \in DOMAIN posted[t] : posted[t][i].request <= requests

\* While the direct response to a request is to be sent, nothing of the request
\* has been posted to anyone.
ReplyPending ==
    \A s \in Session : out[s] # <<>> /\ out[s][1].msg.kind = "REPLY" =>
        \A t \in Session : \A i \in DOMAIN posted[t] :
            posted[t][i].request # out[s][1].msg.request

ReplyInv == (\A s \in Session : OutOK(s)) /\ OneHandler /\ PostedOK /\ ReplyPending /\ ReplyFirst

RequestsTyped ==
    /\ requests \in Nat
    /\ \A s \in Session : \A i \in DOMAIN out[s] :
         /\ out[s][i].msg.request \in Nat
         /\ out[s][i].msg.kind = "REPLY" => out[s][i].msg.request # 0
    /\ \A s \in Session : out[s] # <<>> => 1 \in DOMAIN out[s]
    /\ \A t \in Session : \A i \in DOMAIN posted[t] : posted[t][i].request \in Nat /\ i \in Nat

LEMMA RequestFacts == TypeInv => RequestsTyped
<1>. SUFFICES ASSUME TypeInv PROVE RequestsTyped
  OBVIOUS
<1>1. requests \in Nat /\ \A k \in 0..MaxRequests : k \in Nat
  BY CountFacts
<1>2. ASSUME NEW s \in Session PROVE out[s] \in Seq(OutItem) /\ posted[s] \in Seq(Message)
  BY OutType DEF TypeInv, SessionTypeOK
<1>3. ASSUME NEW s \in Session, NEW i \in DOMAIN out[s]
      PROVE  /\ out[s][i].msg.request \in Nat
             /\ out[s][i].msg.kind = "REPLY" => out[s][i].msg.request # 0
  <2>1. out[s][i] \in OutItem
    BY <1>2
  <2>. QED BY <1>1, <2>1, ItemFacts, MessageFacts
<1>4. ASSUME NEW t \in Session, NEW i \in DOMAIN posted[t]
      PROVE  posted[t][i].request \in Nat /\ i \in Nat
  <2>1. posted[t][i] \in Message /\ i \in Nat
    BY <1>2
  <2>. QED BY <1>1, <2>1, MessageFacts
<1>5. ASSUME NEW s \in Session, out[s] # <<>> PROVE 1 \in DOMAIN out[s]
  BY <1>2, <1>5, TailFacts
<1>. QED BY <1>1, <1>3, <1>4, <1>5 DEF RequestsTyped

LEMMA InitReply == SessionInit => ReplyInv
BY DEF SessionInit, ReplyInv, OutOK, OneHandler, PostedOK, ReplyPending, ReplyFirst

\* A handler starts on a new request, or on the first snapshot.
LEMMA ReplyStarts ==
  ASSUME TypeInv, TypeInv', ReplyInv, NEW s \in Session, out[s] = <<>>, out'[s] # <<>>,
         \A t \in Session \ {s} : out'[t] = out[t], posted' = posted,
         \/ out'[s][1].msg.request = 0 /\ requests' = requests
         \/ out'[s][1].msg.request = requests' /\ requests' = requests + 1,
         \A i \in DOMAIN out'[s] :
            /\ out'[s][i].msg.request = out'[s][1].msg.request
            /\ i > 1 => out'[s][i].to = "all"
            /\ out'[s][i].to = "all" => out'[s][i].msg.kind # "REPLY"
  PROVE  ReplyInv'
<1>1. /\ requests \in Nat /\ requests' \in Nat /\ requests <= requests'
      /\ \A t \in Session : \A i \in DOMAIN out[t] : out[t][i].msg.request \in Nat
      /\ \A t \in Session : out[t] # <<>> => 1 \in DOMAIN out[t]
      /\ 1 \in DOMAIN out'[s] /\ out'[s][1].msg.request \in Nat
      /\ out'[s][1].msg.kind = "REPLY" => out'[s][1].msg.request # 0
      /\ \A t \in Session : \A i \in DOMAIN posted[t] : posted[t][i].request \in Nat
  <2>1. TypeInv' => RequestsTyped'
    BY RequestFacts, PTL
  <2>. QED BY <2>1, RequestFacts DEF RequestsTyped
<1>2. ASSUME NEW t \in Session PROVE OutOK(t)'
  BY <1>1 DEF ReplyInv, OutOK
<1>3. OneHandler'
  BY <1>1 DEF ReplyInv, OutOK, OneHandler
<1>4. PostedOK' /\ ReplyFirst'
  BY <1>1 DEF ReplyInv, PostedOK, ReplyFirst
<1>5. ReplyPending'
  BY <1>1 DEF ReplyInv, PostedOK, ReplyPending
<1>. QED BY <1>2, <1>3, <1>4, <1>5 DEF ReplyInv

LEMMA ReplyExtends ==
  ASSUME TypeInv, TypeInv', ReplyInv, NEW s \in Session, out[s] # <<>>,
         \A t \in Session \ {s} : out'[t] = out[t], UNCHANGED <<posted, requests>>,
         DOMAIN out[s] \subseteq DOMAIN out'[s],
         \A i \in DOMAIN out[s] : out'[s][i] = out[s][i],
         \A i \in DOMAIN out'[s] \ DOMAIN out[s] :
            /\ out'[s][i].to = "all" /\ out'[s][i].msg.kind # "REPLY"
            /\ out'[s][i].msg.request = out[s][1].msg.request
  PROVE  ReplyInv'
<1>1. 1 \in DOMAIN out[s]
  BY RequestFacts DEF RequestsTyped
<1>2. ASSUME NEW t \in Session PROVE OutOK(t)'
  BY <1>1 DEF ReplyInv, OutOK
<1>3. out'[s] # <<>>
  BY <1>1
<1>4. OneHandler'
  BY <1>1, <1>3 DEF ReplyInv, OneHandler
<1>5. PostedOK' /\ ReplyFirst' /\ ReplyPending'
  BY <1>1, <1>3 DEF ReplyInv, PostedOK, ReplyFirst, ReplyPending
<1>. QED BY <1>2, <1>4, <1>5 DEF ReplyInv

\* Nothing but m, and m no more than once, is added to what was posted to t.
PostsAtMost(t, m) ==
    /\ \A i \in DOMAIN posted[t] : i \in DOMAIN posted'[t] /\ posted'[t][i] = posted[t][i]
    /\ \A i \in DOMAIN posted'[t] \ DOMAIN posted[t] :
          /\ posted'[t][i] = m /\ \A j \in DOMAIN posted[t] : j < i
          /\ DOMAIN posted'[t] = DOMAIN posted[t] \cup {i}

LEMMA SendPosts ==
  ASSUME TypeInv, NEW t \in Session, NEW m, Send(t, m)
  PROVE  /\ PostsAtMost(t, m)
         /\ ~closed[t] => \E i \in DOMAIN posted'[t] \ DOMAIN posted[t] : posted'[t][i] = m
         /\ \A u \in Session \ {t} : posted'[u] = posted[u]
<1>1. posted[t] \in Seq(Message)
  BY DEF TypeInv, SessionTypeOK
<1>2. CASE closed[t]
  BY <1>2 DEF Send, PostsAtMost
<1>3. CASE ~closed[t]
  <2>1. posted' = [posted EXCEPT ![t] = Append(posted[t], m)]
    BY <1>3 DEF Send
  <2>2. posted'[t] = Append(posted[t], m) /\ \A u \in Session \ {t} : posted'[u] = posted[u]
    BY <2>1 DEF TypeInv, SessionTypeOK
  <2>. DEFINE p == posted[t]
  <2>3. /\ Append(p, m)[Len(p) + 1] = m /\ Len(p) + 1 \in DOMAIN Append(p, m)
        /\ Len(p) + 1 \notin DOMAIN p
        /\ \A i \in DOMAIN p : i \in DOMAIN Append(p, m) /\ Append(p, m)[i] = p[i] /\ i < Len(p) + 1
        /\ DOMAIN Append(p, m) = DOMAIN p \cup {Len(p) + 1}
    BY <1>1
  <2>. QED BY <2>2, <2>3 DEF PostsAtMost
<1>. QED BY <1>2, <1>3

\* The handler of s is done with the front of its list, or goes on with it.
TailOf(s) ==
    /\ Len(out'[s]) = Len(out[s]) - 1
    /\ \A i \in DOMAIN out'[s] : out'[s][i] = out[s][i + 1] /\ i + 1 \in DOMAIN out[s]

LEMMA ReplyPosts ==
  ASSUME TypeInv, TypeInv', ReplyInv, NEW s \in Session, out[s] # <<>>,
         \A t \in Session \ {s} : out'[t] = out[t],
         TailOf(s) \/ (out'[s] = out[s] /\ out[s][1].to = "all"),
         requests' = requests,
         \A t \in Session : posted'[t] = posted[t] \/ PostsAtMost(t, out[s][1].msg)
  PROVE  ReplyInv'
<1>0. /\ 1 \in DOMAIN out[s] /\ RequestsTyped
      /\ \A i \in DOMAIN out'[s] : i \in Nat \ {0} /\ 1 \in DOMAIN out'[s]
      /\ \A t \in Session : out'[t] # <<>> => 1 \in DOMAIN out'[t]
  <2>1. TypeInv' => RequestsTyped' /\ out'[s] \in Seq(OutItem)
    <3>1. TypeInv' => RequestsTyped'
      BY RequestFacts, PTL
    <3>2. TypeInv' => out' \in [Session -> Seq(OutItem)]
      BY DEF TypeInv, SessionTypeOK, OutItem
    <3>. QED BY <3>1, <3>2
  <2>. QED BY <2>1, RequestFacts DEF RequestsTyped
<1>1. /\ \A i \in DOMAIN out'[s] : \E j \in DOMAIN out[s] : out'[s][i] = out[s][j] /\ (i > 1 => j > 1)
  BY <1>0 DEF TailOf
<1>2. ASSUME NEW t \in Session PROVE OutOK(t)'
  BY <1>0, <1>1 DEF ReplyInv, OutOK
<1>3. out'[s] # <<>> => out'[s][1].msg.request = out[s][1].msg.request
                        /\ out'[s][1].msg.kind # "REPLY"
  BY <1>0 DEF ReplyInv, OutOK, TailOf
<1>4. OneHandler'
  BY <1>0, <1>3 DEF ReplyInv, OneHandler
<1>5. PostedOK'
  BY <1>0 DEF ReplyInv, PostedOK, OutOK, PostsAtMost
<1>6. ReplyPending'
  BY <1>0, <1>3 DEF ReplyInv, ReplyPending, OneHandler, PostsAtMost, RequestsTyped
<1>7. ReplyFirst'
  BY <1>0 DEF ReplyInv, ReplyPending, ReplyFirst, PostsAtMost
<1>. QED BY <1>2, <1>4, <1>5, <1>6, <1>7 DEF ReplyInv

\* What an action does to the list of the handler and to what was posted.
LEMMA AdvanceIsTail ==
  ASSUME TypeInv, NEW s \in Session, out[s] # <<>>, Advance(s)
  PROVE  TailOf(s) /\ \A t \in Session \ {s} : out'[t] = out[t]
<1>1. out \in [Session -> Seq(OutItem)] /\ out[s] \in Seq(OutItem)
  BY OutType
<1>2. /\ out'[s] = Tail(out[s]) /\ \A t \in Session \ {s} : out'[t] = out[t]
  BY <1>1 DEF Advance
<1>3. /\ Len(Tail(out[s])) = Len(out[s]) - 1
      /\ \A i \in DOMAIN Tail(out[s]) : Tail(out[s])[i] = out[s][i + 1] /\ i + 1 \in DOMAIN out[s]
  BY <1>1, TailFacts
<1>. QED BY <1>2, <1>3 DEF TailOf

\* The list of a handler that has made a change: the direct response, then the
\* events.
LEMMA ChangeList ==
  ASSUME TypeInv, TypeInv', NEW s \in Session, NEW n \in EventCounts, OnReadChange(s, n)
  PROVE  /\ n \in Nat /\ requests' = requests + 1 /\ out[s] = <<>> /\ out'[s] # <<>>
         /\ posted' = posted /\ \A t \in Session \ {s} : out'[t] = out[t]
         /\ DOMAIN out'[s] = 1 .. n + 1 /\ out'[s][1] = ToSelf(Reply(requests'))
         /\ \A i \in 2 .. n + 1 : out'[s][i] = ToAll(Event(requests', i - 1))
<1>. DEFINE events == [i \in 1..n |-> ToAll(Event(requests', i))]
            q == <<ToSelf(Reply(requests'))>> \o events
<1>1. /\ out[s] = <<>> /\ out' = [out EXCEPT ![s] = q]
      /\ posted' = posted /\ requests' = requests + 1 /\ n \in Nat
  BY SessionAssumption DEF OnReadChange, TypeInv, HandlerOK, deliverVars
<1>2. out'[s] = q /\ \A t \in Session \ {s} : out'[t] = out[t]
  BY <1>1, OutType
<1>3. /\ \A i \in 1..n : ToAll(Event(requests', i)) \in OutItem
      /\ ToSelf(Reply(requests')) \in OutItem
  <2>1. requests' \in 1..MaxRequests
    BY <1>1, CountFacts DEF TypeInv, SessionTypeOK
  <2>. QED BY <1>1, <2>1, MessageFacts, ItemFacts
<1>4. /\ events \in Seq(OutItem) /\ Len(events) = n
      /\ \A i \in 1..n : events[i] = ToAll(Event(requests', i))
  BY <1>1, <1>3
<1>5. /\ DOMAIN q = 1 .. n + 1 /\ q[1] = ToSelf(Reply(requests')) /\ q # <<>>
      /\ \A i \in 2 .. n + 1 : q[i] = ToAll(Event(requests', i - 1))
  <2>. HIDE DEF events
  <2>. QED BY <1>1, <1>3, <1>4
<1>. HIDE DEF q
<1>. QED BY <1>1, <1>2, <1>5

LEMMA NextReply == TypeInv /\ ReplyInv /\ [SessionNext]_sessionVars => ReplyInv'
<1>. SUFFICES ASSUME TypeInv, ReplyInv, [SessionNext]_sessionVars PROVE ReplyInv'
  OBVIOUS
<1>0. TypeInv' /\ out \in [Session -> Seq(OutItem)] /\ requests \in Nat
  BY NextType, OutType, CountFacts
<1>1. ASSUME UNCHANGED <<out, posted, requests>> PROVE ReplyInv'
  BY <1>1 DEF ReplyInv, OutOK, OneHandler, PostedOK, ReplyPending, ReplyFirst
<1>2. ASSUME NEW s \in Session, OnAccept(s) \/ OnAcceptError(s) \/ OnReadError(s)
                                  \/ OnSend(s) \/ Written(s)
      PROVE  UNCHANGED <<out, posted, requests>>
  BY <1>2 DEF OnAccept, OnAcceptError, OnReadError, Disconnect, OnSend, Written, OnWrite,
              OnWriteError, deliverVars, sharedVars
<1>3. ASSUME NEW s \in Session, SendInitialOrderBook(s) PROVE ReplyInv'
  <2>1. /\ out[s] = <<>> /\ out' = [out EXCEPT ![s] = <<ToSelf(Book(0, bookVersion))>>]
        /\ UNCHANGED <<posted, requests>>
    BY <1>3 DEF SendInitialOrderBook, TypeInv, HandlerOK, deliverVars, sharedVars
  <2>2. /\ out'[s] = <<ToSelf(Book(0, bookVersion))>>
        /\ \A t \in Session \ {s} : out'[t] = out[t]
    BY <1>0, <2>1
  <2>3. DOMAIN out'[s] = {1} /\ out'[s][1] = ToSelf(Book(0, bookVersion)) /\ out'[s] # <<>>
    BY <2>2
  <2>4. out'[s][1].msg.request = 0 /\ out'[s][1].to = "self"
    BY <2>3 DEF ToSelf, Book
  <2>. QED BY <1>0, <2>1, <2>2, <2>3, <2>4, ReplyStarts
<1>4. ASSUME NEW s \in Session, OnReadNoChange(s) PROVE ReplyInv'
  <2>1. /\ out[s] = <<>> /\ out' = [out EXCEPT ![s] = <<ToSelf(Reply(requests'))>>]
        /\ posted' = posted /\ requests' = requests + 1
    BY <1>4 DEF OnReadNoChange, TypeInv, HandlerOK, deliverVars
  <2>2. /\ out'[s] = <<ToSelf(Reply(requests'))>>
        /\ \A t \in Session \ {s} : out'[t] = out[t]
    BY <1>0, <2>1
  <2>3. DOMAIN out'[s] = {1} /\ out'[s][1] = ToSelf(Reply(requests')) /\ out'[s] # <<>>
    BY <2>2
  <2>4. out'[s][1].msg.request = requests' /\ out'[s][1].to = "self"
    BY <2>3 DEF ToSelf, Reply
  <2>. QED BY <1>0, <2>1, <2>2, <2>3, <2>4, ReplyStarts
<1>5. ASSUME NEW s \in Session, NEW n \in EventCounts, OnReadChange(s, n) PROVE ReplyInv'
  <2>1. /\ n \in Nat /\ requests' = requests + 1 /\ out[s] = <<>> /\ out'[s] # <<>>
        /\ posted' = posted /\ \A t \in Session \ {s} : out'[t] = out[t]
        /\ DOMAIN out'[s] = 1 .. n + 1 /\ out'[s][1] = ToSelf(Reply(requests'))
        /\ \A i \in 2 .. n + 1 : out'[s][i] = ToAll(Event(requests', i - 1))
    BY <1>0, <1>5, ChangeList
  <2>2. ToSelf(Reply(requests')).msg.request = requests' /\ ToSelf(Reply(requests')).to = "self"
    BY DEF ToSelf, Reply
  <2>3. \A i : /\ ToAll(Event(requests', i)).msg.request = requests'
               /\ ToAll(Event(requests', i)).to = "all"
               /\ ToAll(Event(requests', i)).msg.kind = "EVENT"
    BY DEF ToAll, Event
  <2>4. \A i \in DOMAIN out'[s] : /\ out'[s][i].msg.request = requests'
                                  /\ i > 1 => out'[s][i].to = "all"
                                  /\ out'[s][i].to = "all" => out'[s][i].msg.kind # "REPLY"
    BY <2>1, <2>2, <2>3
  <2>. QED BY <1>0, <2>1, <2>2, <2>4, ReplyStarts
<1>6. ASSUME NEW s \in Session, GetOrderBookMessage(s) PROVE ReplyInv'
  <2>. DEFINE x == ToAll(Book(out[s][1].msg.request, bookVersion))
              p == out[s]
  <2>1. /\ out[s] # <<>> /\ out' = [out EXCEPT ![s] = Append(out[s], x)]
        /\ UNCHANGED <<posted, requests>> /\ out[s] \in Seq(OutItem)
    BY <1>0, <1>6 DEF GetOrderBookMessage, TypeInv, HandlerOK, deliverVars, sharedVars
  <2>2. x.to = "all" /\ x.msg.kind = "BOOK" /\ x.msg.request = out[s][1].msg.request
    BY DEF ToAll, Book
  <2>. HIDE DEF x
  <2>3. out'[s] = Append(out[s], x) /\ \A t \in Session \ {s} : out'[t] = out[t]
    BY <1>0, <2>1
  <2>4. /\ DOMAIN p \subseteq DOMAIN Append(p, x) /\ \A i \in DOMAIN p : Append(p, x)[i] = p[i]
        /\ \A i \in DOMAIN Append(p, x) \ DOMAIN p : Append(p, x)[i] = x
    BY <2>1
  <2>5. /\ DOMAIN out[s] \subseteq DOMAIN out'[s] /\ \A i \in DOMAIN out[s] : out'[s][i] = out[s][i]
        /\ \A i \in DOMAIN out'[s] \ DOMAIN out[s] : out'[s][i] = x
    BY <2>3, <2>4
  <2>. QED BY <1>0, <2>1, <2>2, <2>3, <2>5, ReplyExtends
<1>7. ASSUME NEW s \in Session, SendReply(s) PROVE ReplyInv'
  <2>1. /\ out[s] # <<>> /\ Send(s, out[s][1].msg) /\ Advance(s) /\ requests' = requests
    BY <1>7, FrontFacts DEF SendReply, sharedVars
  <2>2. \A t \in Session : posted'[t] = posted[t] \/ PostsAtMost(t, out[s][1].msg)
    BY <2>1, SendPosts
  <2>. QED BY <1>0, <2>1, <2>2, AdvanceIsTail, ReplyPosts
<1>8. ASSUME NEW s \in Session, Broadcast(s) PROVE ReplyInv'
  <2>1. /\ out[s] # <<>> /\ out[s][1].to = "all" /\ UNCHANGED <<posted, requests>>
        /\ Advance(s) \/ out' = out
    BY <1>8, FrontFacts DEF Broadcast, deliverVars, sharedVars
  <2>. QED BY <1>0, <2>1, AdvanceIsTail, ReplyPosts
<1>9. ASSUME NEW s \in Session, BroadcastOne(s) PROVE ReplyInv'
  <2>1. /\ out[s] # <<>> /\ out[s][1].to = "all" /\ requests' = requests
        /\ Advance(s) \/ out' = out
    BY <1>9, FrontFacts DEF BroadcastOne, TypeInv, HandlerOK, sharedVars
  <2>2. PICK t \in targets[s] : Send(t, out[s][1].msg)
    BY <1>9, FrontFacts DEF BroadcastOne
  <2>3. t \in Session
    BY <2>2 DEF TypeInv, SessionTypeOK
  <2>4. \A u \in Session : posted'[u] = posted[u] \/ PostsAtMost(u, out[s][1].msg)
    BY <2>2, <2>3, SendPosts
  <2>. QED BY <1>0, <2>1, <2>4, AdvanceIsTail, ReplyPosts
<1>10. CASE SessionNext
  BY <1>1, <1>2, <1>3, <1>4, <1>5, <1>6, <1>7, <1>8, <1>9, <1>10 DEF SessionNext, Work
<1>. QED BY <1>1, <1>10 DEF sessionVars, deliverVars, sharedVars

\* A client is sent the direct response to a request before anything the
\* request is broadcast to it for, whatever other handlers run in between.
THEOREM ReplyComesFirst == SessionSpec => []ReplyFirst
<1>1. ReplyInv => ReplyFirst
  BY DEF ReplyInv
<1>2. SessionInit => TypeInv /\ ReplyInv
  BY InitType, InitReply
<1>3. (TypeInv /\ ReplyInv) /\ [SessionNext]_sessionVars => (TypeInv /\ ReplyInv)'
  BY NextType, NextReply
<1>. QED BY <1>1, <1>2, <1>3, PTL DEF SessionSpec

-----------------------------------------------------------------------------
(* A change is announced to every client that saw it happen, once.         *)

\* What a request is announced with: the snapshot, whatever version of the book
\* it shows, and each of its events.
Books(k)     == [kind : {"BOOK"}, request : {k}, version : Int]
Announced(k) == {Books(k)} \cup {{Event(k, i)} : i \in 1 .. changes[k].events}

\* What the handler of s has yet to send, a snapshot still to be taken included.
ToSend(s) == IF pc[s] = "announcing"
             THEN Append(out[s], ToAll(Book(out[s][1].msg.request, -1))) ELSE out[s]

\* The p-th of these will be sent to t, if t is registered by then.
DueAt(s, p, t) ==
    IF ToSend(s)[p].to = "self" THEN s = t
    ELSE p = 1 /\ pc[s] = "broadcasting" => t \in targets[s]

Due(s, t, M)  == \E p \in DOMAIN ToSend(s) : ToSend(s)[p].msg \in M /\ DueAt(s, p, t)
Told(t, M)    == \E i \in DOMAIN posted[t] : posted[t][i] \in M
Once(t, M)    == \A i, j \in DOMAIN posted[t] : posted[t][i] \in M /\ posted[t][j] \in M => i = j
Single(s, M)  == \A p, q \in DOMAIN ToSend(s) :
                    ToSend(s)[p].msg \in M /\ ToSend(s)[q].msg \in M => p = q

\* Of the messages M some handler has at most one, no session was posted two,
\* what was posted to a session is not due to it again, and an open session of
\* C was posted one or is due one.
AnnouncedOnce(M, C) ==
    /\ \A s \in Session : Single(s, M)
    /\ \A t \in Session :
         /\ Once(t, M)
         /\ Told(t, M) => \A s \in Session : ~Due(s, t, M)
         /\ t \in C /\ ~closed[t] => Told(t, M) \/ \E s \in Session : Due(s, t, M)

\* A client that saw a change and has not gone is still registered.
StillRegistered ==
    \A k \in DOMAIN changes : \A t \in changes[k].clients : ~closed[t] => t \in clients

AnnounceInv ==
    /\ \A k \in DOMAIN changes : \A M \in Announced(k) : AnnouncedOnce(M, changes[k].clients)
    /\ StillRegistered

Handlers == TypeInv /\ ReplyInv

LEMMA AnnouncedFacts ==
  ASSUME TypeInv, NEW k \in DOMAIN changes, NEW M \in Announced(k)
  PROVE  /\ k \in Nat /\ k # 0 /\ k <= requests /\ DOMAIN changes = 1..requests
         /\ \A m \in M : m.request = k /\ m.kind # "REPLY"
<1>1. changes \in Seq(Change) /\ Len(changes) = requests /\ requests \in Nat
  BY CountFacts
<1>2. k \in Nat /\ k # 0 /\ k <= requests /\ DOMAIN changes = 1..requests
  BY <1>1
<1>3. ASSUME NEW m \in M PROVE m.request = k /\ m.kind # "REPLY"
  <2>1. CASE M = Books(k)
    BY <2>1 DEF Books
  <2>2. ASSUME NEW i \in 1 .. changes[k].events, M = {Event(k, i)}
        PROVE  m.request = k /\ m.kind # "REPLY"
    BY <2>2 DEF Event
  <2>. QED BY <2>1, <2>2 DEF Announced
<1>. QED BY <1>2, <1>3

LEMMA ToSendFacts ==
  ASSUME Handlers, NEW s \in Session
  PROVE  /\ out[s] = <<>> => DOMAIN ToSend(s) = {}
         /\ \A p \in DOMAIN ToSend(s) :
              /\ p \in Nat /\ p # 0 /\ out[s] # <<>> /\ ToSend(s)[p].to \in {"self", "all"}
              /\ ToSend(s)[p].msg.request = out[s][1].msg.request
              /\ p > 1 => ToSend(s)[p].to = "all"
              /\ ToSend(s)[p].to = "all" => ToSend(s)[p].msg.kind # "REPLY"
<1>1. /\ out[s] \in Seq(OutItem) /\ out[s] # <<>> => 1 \in DOMAIN out[s]
      /\ out[s] = <<>> => pc[s] # "announcing"
      /\ \A i \in DOMAIN out[s] : out[s][i] \in OutItem /\ i \in Nat /\ i # 0
  BY OutType, RequestFacts DEF Handlers, RequestsTyped, TypeInv, HandlerOK
<1>2. \A i \in DOMAIN out[s] : /\ out[s][i].msg.request = out[s][1].msg.request
                               /\ i > 1 => out[s][i].to = "all"
                               /\ out[s][i].to = "all" => out[s][i].msg.kind # "REPLY"
                               /\ out[s][i].to \in {"self", "all"}
  BY <1>1, ItemFacts DEF Handlers, ReplyInv, OutOK
<1>3. CASE pc[s] # "announcing"
  BY <1>1, <1>2, <1>3 DEF ToSend
<1>4. CASE pc[s] = "announcing"
  <2>. DEFINE p == out[s]
              x == ToAll(Book(out[s][1].msg.request, -1))
  <2>1. /\ \A i \in DOMAIN Append(p, x) : i \in Nat /\ i # 0
        /\ \A i \in DOMAIN p : Append(p, x)[i] = p[i]
        /\ \A i \in DOMAIN Append(p, x) \ DOMAIN p : Append(p, x)[i] = x
    BY <1>1
  <2>2. x.to = "all" /\ x.msg.request = out[s][1].msg.request /\ x.msg.kind = "BOOK"
    BY DEF ToAll, Book
  <2>3. ToSend(s) = Append(p, x) /\ p # <<>>
    BY <1>1, <1>4 DEF ToSend
  <2>. HIDE DEF x
  <2>. QED BY <1>1, <1>2, <2>1, <2>2, <2>3
<1>. QED BY <1>3, <1>4

\* Only one handler has anything to send for a request.
LEMMA OneSender ==
  ASSUME Handlers, NEW k \in DOMAIN changes, NEW M \in Announced(k),
         NEW s \in Session, NEW t \in Session, NEW p \in DOMAIN ToSend(s), NEW q \in DOMAIN ToSend(t),
         ToSend(s)[p].msg \in M, ToSend(t)[q].msg \in M
  PROVE  s = t
BY AnnouncedFacts, ToSendFacts DEF Handlers, ReplyInv, OneHandler

LEMMA InitAnnounce == SessionInit => AnnounceInv
BY DEF SessionInit, AnnounceInv, StillRegistered

\* A step that posts nothing and neither adds to nor takes from what is left to
\* send of M.
LEMMA AnnounceKept ==
  ASSUME NEW M, NEW C, AnnouncedOnce(M, C), posted' = posted,
         \A t \in Session : ~closed'[t] => ~closed[t],
         \A u \in Session :
            /\ pc'[u] = "broadcasting" <=> pc[u] = "broadcasting"
            /\ targets'[u] = targets[u]
            /\ \A p \in DOMAIN ToSend(u)' : ToSend(u)'[p].msg \in M =>
                 p \in DOMAIN ToSend(u) /\ ToSend(u)[p].msg \in M /\ ToSend(u)[p].to = ToSend(u)'[p].to
            /\ \A p \in DOMAIN ToSend(u) : ToSend(u)[p].msg \in M =>
                 p \in DOMAIN ToSend(u)' /\ ToSend(u)'[p].msg \in M /\ ToSend(u)[p].to = ToSend(u)'[p].to
  PROVE  AnnouncedOnce(M, C)'
<1>1. ASSUME NEW u \in Session, NEW t \in Session PROVE Due(u, t, M)' <=> Due(u, t, M)
  BY DEF Due, DueAt
<1>2. ASSUME NEW u \in Session PROVE Single(u, M)'
  BY DEF AnnouncedOnce, Single
<1>3. ASSUME NEW t \in Session PROVE (Told(t, M)' <=> Told(t, M)) /\ (Once(t, M)' <=> Once(t, M))
  BY DEF Told, Once
<1>. QED BY <1>1, <1>2, <1>3 DEF AnnouncedOnce

\* The handler of s sends, or starts to send, the front of its list.
Sends(s) == SendReply(s) \/ Broadcast(s) \/ BroadcastOne(s)

\* It is done with the front, or is broadcasting it.
Moves(s)  == TailOf(s) /\ pc'[s] \notin {"broadcasting", "announcing"}
GoesOn(s) == /\ out'[s] = out[s] /\ out[s][1].to = "all" /\ pc'[s] = "broadcasting"
             /\ targets'[s] \subseteq targets[s] \/ pc[s] # "broadcasting"

LEMMA AdvanceMoves ==
  ASSUME TypeInv, NEW s \in Session, out[s] # <<>>, Advance(s)
  PROVE  Moves(s) /\ \A u \in Session \ {s} : out'[u] = out[u] /\ pc'[u] = pc[u]
<1>1. pc'[s] \notin {"broadcasting", "announcing"} /\ \A u \in Session \ {s} : pc'[u] = pc[u]
  BY DEF Advance, TypeInv, SessionTypeOK
<1>. QED BY <1>1, AdvanceIsTail DEF Moves

\* What a sending step does: the other handlers are left alone, the front is
\* posted to no one it is not due to, and whoever it was due to, is registered
\* and open, is posted it or remains a target.
LEMMA SendsFacts ==
  ASSUME TypeInv, NEW s \in Session, Sends(s)
  PROVE  /\ out[s] # <<>> /\ pc[s] \in {"replying", "broadcasting"}
         /\ Moves(s) \/ GoesOn(s)
         /\ \A u \in Session \ {s} : out'[u] = out[u] /\ pc'[u] = pc[u] /\ targets'[u] = targets[u]
         /\ UNCHANGED <<closed, clients, changes>>
         /\ \A t \in Session :
              /\ \/ posted'[t] = posted[t]
                 \/ /\ PostsAtMost(t, out[s][1].msg) /\ DueAt(s, 1, t)
                    /\ Moves(s) \/ t \notin targets'[s]
              /\ t \in clients /\ ~closed[t] /\ DueAt(s, 1, t) =>
                    \/ GoesOn(s) /\ t \in targets'[s]
                    \/ \E i \in DOMAIN posted'[t] : posted'[t][i] = out[s][1].msg
              /\ \A i \in DOMAIN posted[t] : i \in DOMAIN posted'[t] /\ posted'[t][i] = posted[t][i]
<1>0. /\ pc \in [Session -> {"handshake", "registered", "announcing", "replying",
                             "broadcasting", "reading", "done"}]
      /\ targets \in [Session -> SUBSET Session]
      /\ pc[s] \in {"replying", "broadcasting"} /\ ToSend(s) = out[s]
  BY DEF TypeInv, SessionTypeOK, Sends, SendReply, Broadcast, BroadcastOne, ToSend
<1>1. out[s] # <<>> /\ Head(out[s]) = out[s][1] /\ out[s][1] \in OutItem
  BY <1>0, FrontFacts
<1>2. CASE SendReply(s)
  <2>1. /\ Send(s, out[s][1].msg) /\ Advance(s) /\ out[s][1].to = "self"
        /\ UNCHANGED <<closed, clients, changes, targets>>
    BY <1>1, <1>2 DEF SendReply, sharedVars
  <2>2. DueAt(s, 1, s) /\ \A t \in Session : DueAt(s, 1, t) => t = s
    BY <1>0, <2>1 DEF DueAt
  <2>3. Moves(s) /\ \A u \in Session \ {s} : out'[u] = out[u] /\ pc'[u] = pc[u]
    BY <1>1, <2>1, AdvanceMoves
  <2>4. /\ PostsAtMost(s, out[s][1].msg)
        /\ ~closed[s] => \E i \in DOMAIN posted'[s] \ DOMAIN posted[s] : posted'[s][i] = out[s][1].msg
        /\ \A u \in Session \ {s} : posted'[u] = posted[u]
    BY <2>1, SendPosts
  <2>5. \A t \in Session : \A i \in DOMAIN posted[t] : i \in DOMAIN posted'[t] /\ posted'[t][i] = posted[t][i]
    BY <2>4 DEF PostsAtMost
  <2>. QED BY <1>0, <1>1, <2>1, <2>2, <2>3, <2>4, <2>5
<1>3. CASE Broadcast(s)
  <2>1. /\ out[s][1].to = "all" /\ pc[s] = "replying" /\ targets'[s] = clients
        /\ \A u \in Session \ {s} : targets'[u] = targets[u]
        /\ UNCHANGED <<closed, clients, changes, posted>>
    BY <1>0, <1>1, <1>3 DEF Broadcast, deliverVars, sharedVars
  <2>2. CASE clients = {}
    <3>1. Moves(s) /\ \A u \in Session \ {s} : out'[u] = out[u] /\ pc'[u] = pc[u]
      BY <1>1, <1>3, <2>2, AdvanceMoves DEF Broadcast
    <3>. QED BY <1>0, <1>1, <2>1, <2>2, <3>1
  <2>3. CASE clients # {}
    <3>1. /\ out' = out /\ pc'[s] = "broadcasting" /\ \A u \in Session \ {s} : pc'[u] = pc[u]
      BY <1>0, <1>3, <2>3 DEF Broadcast
    <3>2. GoesOn(s)
      BY <2>1, <3>1 DEF GoesOn
    <3>. QED BY <1>0, <1>1, <2>1, <3>1, <3>2
  <2>. QED BY <2>2, <2>3
<1>4. CASE BroadcastOne(s)
  <2>1. PICK t \in targets[s] : /\ Send(t, out[s][1].msg)
                                /\ targets' = [targets EXCEPT ![s] = @ \ {t}]
    BY <1>1, <1>4 DEF BroadcastOne
  <2>2. /\ out[s][1].to = "all" /\ pc[s] = "broadcasting" /\ t \in Session
        /\ targets'[s] = targets[s] \ {t}
        /\ \A u \in Session \ {s} : targets'[u] = targets[u]
        /\ UNCHANGED <<closed, clients, changes>>
    BY <1>0, <1>4, <2>1 DEF BroadcastOne, TypeInv, HandlerOK, sharedVars
  <2>3. \A u \in Session : DueAt(s, 1, u) <=> u \in targets[s]
    BY <1>0, <2>2 DEF DueAt
  <2>4. /\ PostsAtMost(t, out[s][1].msg)
        /\ ~closed[t] => \E i \in DOMAIN posted'[t] \ DOMAIN posted[t] : posted'[t][i] = out[s][1].msg
        /\ \A u \in Session \ {t} : posted'[u] = posted[u]
    BY <2>1, <2>2, SendPosts
  <2>5. \A u \in Session : \A i \in DOMAIN posted[u] : i \in DOMAIN posted'[u] /\ posted'[u][i] = posted[u][i]
    BY <2>4 DEF PostsAtMost
  <2>6. /\ (Moves(s) /\ targets'[s] = {}) \/ GoesOn(s)
        /\ \A u \in Session \ {s} : out'[u] = out[u] /\ pc'[u] = pc[u]
    <3>1. CASE targets'[s] = {}
      BY <1>1, <1>4, <3>1, AdvanceMoves DEF BroadcastOne
    <3>2. CASE targets'[s] # {}
      <4>1. pc' = pc /\ out' = out
        BY <1>4, <3>2 DEF BroadcastOne
      <4>. QED BY <2>2, <4>1 DEF GoesOn
    <3>. QED BY <3>1, <3>2
  <2>. QED BY <1>0, <1>1, <2>2, <2>3, <2>4, <2>5, <2>6
<1>. QED BY <1>2, <1>3, <1>4 DEF Sends

\* The lists before and after a sending step, item by item.
LEMMA SendsLists ==
  ASSUME Handlers, TypeInv', NEW s \in Session, Sends(s)
  PROVE  /\ ToSend(s) = out[s] /\ ToSend(s)' = out'[s] /\ 1 \in DOMAIN out[s]
         /\ \A u \in Session \ {s} : ToSend(u)' = ToSend(u) /\ \A p, t : DueAt(u, p, t)' <=> DueAt(u, p, t)
         /\ \A p \in DOMAIN out'[s] : \E q \in DOMAIN out[s] :
              /\ out'[s][p] = out[s][q]
              /\ (p = q /\ GoesOn(s)) \/ (p + 1 = q /\ Moves(s))
              /\ \A t \in Session : DueAt(s, p, t)' => DueAt(s, q, t)
         /\ \A q \in DOMAIN out[s] : \A t \in Session :
              DueAt(s, q, t) /\ q # 1 =>
                \E p \in DOMAIN out'[s] : out'[s][p] = out[s][q] /\ DueAt(s, p, t)'
<1>1. /\ out[s] # <<>> /\ pc[s] \in {"replying", "broadcasting"}
      /\ Moves(s) \/ GoesOn(s)
      /\ \A u \in Session \ {s} : out'[u] = out[u] /\ pc'[u] = pc[u] /\ targets'[u] = targets[u]
  BY SendsFacts DEF Handlers
<1>2. /\ ToSend(s) = out[s] /\ ToSend(s)' = out'[s]
      /\ \A u \in Session \ {s} : ToSend(u)' = ToSend(u)
  <2>1. pc[s] # "announcing" /\ pc'[s] # "announcing"
    BY <1>1 DEF Moves, GoesOn
  <2>2. ToSend(s) = out[s] /\ ToSend(s)' = out'[s]
    BY <2>1 DEF ToSend
  <2>3. ASSUME NEW u \in Session \ {s} PROVE ToSend(u)' = ToSend(u)
    BY <1>1 DEF ToSend
  <2>. QED BY <2>2, <2>3
<1>3. ASSUME NEW u \in Session \ {s}, NEW p, NEW t PROVE DueAt(u, p, t)' <=> DueAt(u, p, t)
  BY <1>1, <1>2 DEF DueAt
<1>4. /\ 1 \in DOMAIN out[s]
      /\ out[s] \in Seq(OutItem)
      /\ \A p \in DOMAIN out[s] : p \in Nat /\ p # 0 /\ (p > 1 => out[s][p].to = "all")
  <2>1. out[s] \in Seq(OutItem) /\ 1 \in DOMAIN out[s]
    BY <1>1, OutType, RequestFacts DEF Handlers, RequestsTyped
  <2>2. \A p \in DOMAIN ToSend(s) : p \in Nat /\ p # 0 /\ (p > 1 => ToSend(s)[p].to = "all")
    BY ToSendFacts
  <2>. QED BY <1>2, <2>1, <2>2
<1>5. CASE Moves(s)
  <2>1. /\ \A p \in DOMAIN out'[s] : p + 1 \in DOMAIN out[s] /\ out'[s][p] = out[s][p + 1]
        /\ \A q \in DOMAIN out[s] : q # 1 => q - 1 \in DOMAIN out'[s] /\ out'[s][q - 1] = out[s][q]
        /\ \A p \in DOMAIN out'[s] : p \in Nat /\ p # 0
        /\ pc'[s] # "broadcasting"
    <3>1. out'[s] \in Seq(OutItem)
      BY DEF TypeInv, SessionTypeOK, OutItem
    <3>. QED BY <1>4, <1>5, <3>1 DEF Moves, TailOf
  <2>2. \A p \in DOMAIN out'[s] : \A t \in Session : DueAt(s, p, t)' /\ DueAt(s, p + 1, t)
    BY <1>2, <1>4, <2>1 DEF DueAt
  <2>3. ASSUME NEW q \in DOMAIN out[s], NEW t \in Session, q # 1
        PROVE  \E p \in DOMAIN out'[s] : out'[s][p] = out[s][q] /\ DueAt(s, p, t)'
    BY <2>1, <2>2, <2>3
  <2>. QED BY <1>2, <1>3, <1>4, <1>5, <2>1, <2>2, <2>3 DEF Moves
<1>6. CASE GoesOn(s)
  <2>1. out'[s] = out[s] /\ pc'[s] = "broadcasting" /\ out[s][1].to = "all"
    BY <1>6 DEF GoesOn
  <2>2. ASSUME NEW p \in DOMAIN out'[s], NEW t \in Session, DueAt(s, p, t)' PROVE DueAt(s, p, t)
    BY <1>1, <1>2, <1>4, <1>6, <2>1, <2>2 DEF DueAt, GoesOn
  <2>3. ASSUME NEW q \in DOMAIN out[s], NEW t \in Session, q # 1 PROVE DueAt(s, q, t)'
    BY <1>1, <1>2, <1>4, <1>6, <2>1, <2>3 DEF DueAt, GoesOn
  <2>4. ASSUME NEW p \in DOMAIN out'[s]
        PROVE  \E q \in DOMAIN out[s] : /\ out'[s][p] = out[s][q]
                                        /\ (p = q /\ GoesOn(s)) \/ (p + 1 = q /\ Moves(s))
                                        /\ \A t \in Session : DueAt(s, p, t)' => DueAt(s, q, t)
    BY <1>6, <2>1, <2>2
  <2>5. ASSUME NEW q \in DOMAIN out[s], NEW t \in Session, DueAt(s, q, t) /\ q # 1
        PROVE  \E p \in DOMAIN out'[s] : out'[s][p] = out[s][q] /\ DueAt(s, p, t)'
    BY <2>1, <2>3, <2>5
  <2>. QED BY <1>2, <1>3, <1>4, <2>4, <2>5
<1>. QED BY <1>1, <1>5, <1>6

\* A registered, open session that was sent one of M, or is due one, stays so.
LEMMA SendsTell ==
  ASSUME Handlers, TypeInv', NEW M, NEW s \in Session, Sends(s),
         NEW t \in Session, t \in clients, ~closed[t],
         Told(t, M) \/ \E u \in Session : Due(u, t, M)
  PROVE  Told(t, M)' \/ \E u \in Session : Due(u, t, M)'
<1>1. /\ ToSend(s) = out[s] /\ ToSend(s)' = out'[s] /\ 1 \in DOMAIN out[s]
      /\ \A u \in Session \ {s} : ToSend(u)' = ToSend(u) /\ \A p : DueAt(u, p, t)' <=> DueAt(u, p, t)
  BY SendsLists
<1>2. \A q \in DOMAIN out[s] :
        DueAt(s, q, t) /\ q # 1 => \E p \in DOMAIN out'[s] : out'[s][p] = out[s][q] /\ DueAt(s, p, t)'
  BY SendsLists
<1>3. /\ DueAt(s, 1, t) => \/ GoesOn(s) /\ t \in targets'[s]
                           \/ \E i \in DOMAIN posted'[t] : posted'[t][i] = out[s][1].msg
      /\ \A i \in DOMAIN posted[t] : i \in DOMAIN posted'[t] /\ posted'[t][i] = posted[t][i]
  BY SendsFacts DEF Handlers
<1>4. CASE Told(t, M)
  BY <1>3, <1>4 DEF Told
<1>5. ASSUME NEW u \in Session, u # s, Due(u, t, M) PROVE Due(u, t, M)'
  BY <1>1, <1>5 DEF Due
<1>6. CASE Due(s, t, M)
  <2>1. PICK q \in DOMAIN out[s] : out[s][q].msg \in M /\ DueAt(s, q, t)
    BY <1>1, <1>6 DEF Due
  <2>2. CASE q # 1
    BY <1>1, <1>2, <2>1, <2>2 DEF Due
  <2>3. CASE q = 1 /\ GoesOn(s) /\ t \in targets'[s]
    <3>1. 1 \in DOMAIN out'[s] /\ out'[s][1] = out[s][1] /\ DueAt(s, 1, t)'
      BY <1>1, <2>3 DEF DueAt, GoesOn
    <3>. QED BY <1>1, <2>1, <2>3, <3>1 DEF Due
  <2>4. CASE q = 1 /\ \E i \in DOMAIN posted'[t] : posted'[t][i] = out[s][1].msg
    BY <2>1, <2>4 DEF Told
  <2>. QED BY <1>3, <2>1, <2>2, <2>3, <2>4
<1>. QED BY <1>4, <1>5, <1>6

LEMMA SendsAnnounce ==
  ASSUME Handlers, TypeInv', StillRegistered, NEW k \in DOMAIN changes, NEW M \in Announced(k),
         AnnouncedOnce(M, changes[k].clients), NEW s \in Session, Sends(s)
  PROVE  AnnouncedOnce(M, changes[k].clients)'
<1>. DEFINE C == changes[k].clients
<1>1. /\ ToSend(s) = out[s] /\ ToSend(s)' = out'[s] /\ 1 \in DOMAIN out[s]
      /\ \A u \in Session \ {s} : ToSend(u)' = ToSend(u) /\ \A p, t : DueAt(u, p, t)' <=> DueAt(u, p, t)
  BY SendsLists
<1>2. \A p \in DOMAIN out'[s] : \E q \in DOMAIN out[s] :
        /\ out'[s][p] = out[s][q]
        /\ (p = q /\ GoesOn(s)) \/ (p + 1 = q /\ Moves(s))
        /\ \A t \in Session : DueAt(s, p, t)' => DueAt(s, q, t)
  BY SendsLists
<1>4. /\ Moves(s) \/ GoesOn(s)
      /\ UNCHANGED <<closed, clients, changes>>
      /\ \A t \in Session :
              /\ \/ posted'[t] = posted[t]
                 \/ /\ PostsAtMost(t, out[s][1].msg) /\ DueAt(s, 1, t)
                    /\ Moves(s) \/ t \notin targets'[s]
              /\ \A i \in DOMAIN posted[t] : i \in DOMAIN posted'[t] /\ posted'[t][i] = posted[t][i]
  BY SendsFacts DEF Handlers
<1>5. \A p \in DOMAIN out[s], q \in DOMAIN out'[s] : p \in Nat /\ p # 0 /\ q \in Nat /\ q # 0
  <2>1. out[s] \in Seq(OutItem) /\ out'[s] \in Seq(OutItem)
    BY DEF Handlers, TypeInv, SessionTypeOK, OutItem
  <2>. QED BY <2>1
<1>6. ASSUME NEW u \in Session PROVE Single(u, M)'
  <2>1. CASE u = s
    BY <1>1, <1>2, <1>4, <1>5, <2>1 DEF AnnouncedOnce, Single, Moves, GoesOn
  <2>2. CASE u # s
    BY <1>1, <2>2 DEF AnnouncedOnce, Single
  <2>. QED BY <2>1, <2>2
<1>7. ASSUME NEW u \in Session, NEW t \in Session, Due(u, t, M)' PROVE Due(u, t, M)
  <2>1. CASE u = s
    BY <1>1, <1>2, <1>7, <2>1 DEF Due
  <2>2. CASE u # s
    BY <1>1, <1>7, <2>2 DEF Due
  <2>. QED BY <2>1, <2>2
<1>8. ASSUME NEW t \in Session PROVE Once(t, M)' /\ (Told(t, M)' => \A u \in Session : ~Due(u, t, M)')
  <2>1. CASE posted'[t] = posted[t]
    BY <1>7, <2>1 DEF AnnouncedOnce, Told, Once
  <2>2. CASE PostsAtMost(t, out[s][1].msg) /\ out[s][1].msg \notin M
    <3>1. \A i \in DOMAIN posted'[t] : posted'[t][i] \in M =>
             i \in DOMAIN posted[t] /\ posted'[t][i] = posted[t][i]
      BY <2>2 DEF PostsAtMost
    <3>. QED BY <1>7, <3>1 DEF AnnouncedOnce, Told, Once
  <2>3. CASE /\ PostsAtMost(t, out[s][1].msg) /\ out[s][1].msg \in M /\ DueAt(s, 1, t)
             /\ Moves(s) \/ t \notin targets'[s]
    <3>1. ~Told(t, M)
      BY <1>1, <2>3 DEF AnnouncedOnce, Due
    <3>2. Once(t, M)'
      BY <2>3, <3>1 DEF Once, Told, PostsAtMost
    <3>3. ASSUME NEW u \in Session, Due(u, t, M)' PROVE FALSE
      <4>1. PICK q \in DOMAIN ToSend(u) : ToSend(u)[q].msg \in M
        BY <1>7, <3>3 DEF Due
      <4>2. u = s
        BY <1>1, <2>3, <4>1, OneSender
      <4>3. PICK p \in DOMAIN out'[s] : out'[s][p].msg \in M /\ DueAt(s, p, t)'
        BY <1>1, <3>3, <4>2 DEF Due
      <4>4. \A r \in DOMAIN out[s] : out[s][r].msg \in M => r = 1
        BY <1>1, <2>3 DEF AnnouncedOnce, Single
      <4>5. p = 1 /\ GoesOn(s) /\ out'[s][1] = out[s][1]
        BY <1>1, <1>2, <1>4, <1>5, <4>3, <4>4 DEF Moves, TailOf, GoesOn
      <4>6. t \in targets'[s]
        BY <1>1, <4>3, <4>5 DEF DueAt, GoesOn
      <4>7. ~Moves(s)
        BY <4>5 DEF Moves, GoesOn
      <4>. QED BY <2>3, <4>6, <4>7
    <3>. QED BY <3>2, <3>3
  <2>. QED BY <1>4, <2>1, <2>2, <2>3
<1>9. ASSUME NEW t \in C, t \in Session, ~closed'[t]
      PROVE  Told(t, M)' \/ \E u \in Session : Due(u, t, M)'
  <2>1. t \in clients /\ ~closed[t]
    BY <1>4, <1>9 DEF StillRegistered
  <2>. QED BY <1>9, <2>1, SendsTell DEF AnnouncedOnce
<1>10. C' = C
  BY <1>4
<1>. QED BY <1>6, <1>8, <1>9, <1>10 DEF AnnouncedOnce

LEMMA ChangeRecorded ==
  ASSUME TypeInv, NEW c, changes' = Append(changes, c)
  PROVE  /\ DOMAIN changes' = DOMAIN changes \cup {requests + 1} /\ requests + 1 \notin DOMAIN changes
         /\ \A k \in DOMAIN changes : changes'[k] = changes[k]
         /\ changes'[requests + 1] = c
<1>1. changes \in Seq(Change) /\ Len(changes) = requests /\ requests \in Nat
  BY CountFacts
<1>. QED BY <1>1

\* A request that changes nothing has nothing to announce.
LEMMA NoChangeAnnounces ==
  ASSUME Handlers, TypeInv', NEW s \in Session, OnReadNoChange(s),
         NEW k, k = requests', NEW M, M \in Announced(k)'
  PROVE  AnnouncedOnce(M, changes[k].clients)'
<1>1. /\ out[s] = <<>> /\ out' = [out EXCEPT ![s] = <<ToSelf(Reply(requests'))>>]
      /\ pc' = [pc EXCEPT ![s] = "replying"] /\ targets' = targets
      /\ posted' = posted /\ requests' = requests + 1
      /\ changes' = Append(changes, [clients |-> {}, events |-> 0])
  BY DEF OnReadNoChange, Handlers, TypeInv, HandlerOK, deliverVars
<1>2. changes'[k] = [clients |-> {}, events |-> 0]
  BY <1>1, ChangeRecorded DEF Handlers
<1>3. M = Books(k)
  BY <1>2 DEF Announced
<1>4. \A t \in Session : \A i \in DOMAIN posted[t] : posted[t][i] \notin M
  BY <1>1, <1>3, RequestFacts DEF Handlers, RequestsTyped, ReplyInv, PostedOK, Books
<1>5. ASSUME NEW u \in Session, NEW p \in DOMAIN ToSend(u)' PROVE ToSend(u)'[p].msg \notin M
  <2>1. CASE u = s
    <3>1. out'[s] = <<ToSelf(Reply(requests'))>> /\ pc'[s] = "replying"
      BY <1>1 DEF Handlers, TypeInv, SessionTypeOK
    <3>2. ToSend(s)' = <<ToSelf(Reply(requests'))>>
      BY <3>1 DEF ToSend
    <3>3. p = 1 /\ ToSend(s)'[p] = ToSelf(Reply(requests'))
      BY <1>5, <2>1, <3>2
    <3>. QED BY <1>3, <2>1, <3>3 DEF ToSelf, Reply, Books
  <2>2. CASE u # s
    <3>1. out'[u] = out[u] /\ pc'[u] = pc[u]
      BY <1>1, <2>2 DEF Handlers, TypeInv, SessionTypeOK
    <3>2. ToSend(u)' = ToSend(u)
      BY <3>1 DEF ToSend
    <3>3. ToSend(u)[p].msg.request <= requests
      BY <1>5, <3>2, ToSendFacts, RequestFacts DEF Handlers, RequestsTyped, ReplyInv, OutOK
    <3>. QED BY <1>1, <1>3, <3>2, <3>3, RequestFacts DEF Handlers, RequestsTyped, Books
  <2>. QED BY <2>1, <2>2
<1>6. ASSUME NEW u \in Session PROVE Single(u, M)'
  BY <1>5 DEF Single
<1>7. ASSUME NEW t \in Session PROVE Once(t, M)' /\ ~Told(t, M)'
  BY <1>1, <1>4 DEF Once, Told
<1>8. changes'[k].clients = {}
  BY <1>2
<1>. QED BY <1>6, <1>7, <1>8 DEF AnnouncedOnce

\* What the handler of s has yet to send once it has made a change.
LEMMA ChangeToSend ==
  ASSUME TypeInv, TypeInv', NEW s \in Session, NEW n \in EventCounts, OnReadChange(s, n)
  PROVE  /\ n \in Nat /\ DOMAIN ToSend(s)' = 1 .. n + 2
         /\ ToSend(s)'[1] = ToSelf(Reply(requests'))
         /\ \A i \in 2 .. n + 1 : ToSend(s)'[i] = ToAll(Event(requests', i - 1))
         /\ ToSend(s)'[n + 2] = ToAll(Book(requests', -1))
<1>. DEFINE q == out'[s]
            x == ToAll(Book(requests', -1))
<1>1. /\ n \in Nat /\ DOMAIN q = 1 .. n + 1 /\ q[1] = ToSelf(Reply(requests'))
      /\ \A i \in 2 .. n + 1 : q[i] = ToAll(Event(requests', i - 1))
  BY ChangeList
<1>2. q \in Seq(OutItem) /\ pc'[s] = "announcing"
  BY DEF OnReadChange, TypeInv, SessionTypeOK, OutItem
<1>3. q[1].msg.request = requests'
  BY <1>1 DEF ToSelf, Reply
<1>4. ToSend(s)' = Append(q, x)
  BY <1>2, <1>3 DEF ToSend
<1>. HIDE DEF q, x
<1>5. Len(q) = n + 1
  BY <1>1, <1>2
<1>6. /\ DOMAIN Append(q, x) = 1 .. n + 2 /\ Append(q, x)[n + 2] = x
      /\ \A i \in 1 .. n + 1 : Append(q, x)[i] = q[i]
  BY <1>1, <1>2, <1>5
<1>7. 1 \in 1 .. n + 1 /\ 2 .. n + 1 \subseteq 1 .. n + 1
  BY <1>1
<1>. QED BY <1>1, <1>4, <1>6, <1>7 DEF x

\* A handler that has made a change has to tell everyone, and no one was told.
LEMMA ChangeAnnounces ==
  ASSUME Handlers, TypeInv', NEW s \in Session, NEW n \in EventCounts, OnReadChange(s, n),
         NEW k, k = requests', NEW M, M \in Announced(k)'
  PROVE  AnnouncedOnce(M, changes[k].clients)'
<1>1. /\ n \in Nat /\ DOMAIN ToSend(s)' = 1 .. n + 2
      /\ ToSend(s)'[1] = ToSelf(Reply(requests'))
      /\ \A i \in 2 .. n + 1 : ToSend(s)'[i] = ToAll(Event(requests', i - 1))
      /\ ToSend(s)'[n + 2] = ToAll(Book(requests', -1))
  BY ChangeToSend DEF Handlers
<1>2. /\ requests' = requests + 1 /\ posted' = posted /\ pc'[s] = "announcing"
      /\ \A u \in Session \ {s} : out'[u] = out[u] /\ pc'[u] = pc[u]
      /\ changes' = Append(changes, [clients |-> clients, events |-> n])
  BY DEF OnReadChange, deliverVars, Handlers, TypeInv, SessionTypeOK
<1>3. changes'[k].events = n
  BY <1>2, ChangeRecorded DEF Handlers
<1>4. /\ \A m \in M : m.request = k /\ m.kind # "REPLY"
      /\ \E p \in 2 .. n + 2 : \A q \in 1 .. n + 2 : ToSend(s)'[q].msg \in M <=> q = p
  <2>1. CASE M = Books(k)
    <3>1. Book(requests', -1) \in M
      BY <1>1, <2>1 DEF Books, Book
    <3>2. \A m \in M : m.kind = "BOOK" /\ m.request = k
      BY <2>1 DEF Books
    <3>3. ToSelf(Reply(requests')).msg.kind = "REPLY"
      BY DEF ToSelf, Reply
    <3>4. \A i : ToAll(Event(requests', i)).msg.kind = "EVENT"
      BY DEF ToAll, Event
    <3>5. ToAll(Book(requests', -1)).msg = Book(requests', -1)
      BY DEF ToAll
    <3>6. ASSUME NEW q \in 1 .. n + 2 PROVE ToSend(s)'[q].msg \in M <=> q = n + 2
      BY <1>1, <3>1, <3>2, <3>3, <3>4, <3>5
    <3>. QED BY <1>1, <3>2, <3>6
  <2>2. ASSUME NEW i \in 1 .. n, M = {Event(k, i)}
        PROVE  /\ \A m \in M : m.request = k /\ m.kind # "REPLY"
               /\ \E p \in 2 .. n + 2 : \A q \in 1 .. n + 2 : ToSend(s)'[q].msg \in M <=> q = p
    <3>1. \A m \in M : m.kind = "EVENT" /\ m.request = k /\ m.index = i
      BY <2>2 DEF Event
    <3>2. ToSelf(Reply(requests')).msg.kind = "REPLY"
      BY DEF ToSelf, Reply
    <3>3. \A j : ToAll(Event(requests', j)).msg = Event(k, j) /\ Event(k, j).index = j
      BY DEF ToAll, Event
    <3>4. ToAll(Book(requests', -1)).msg.kind = "BOOK"
      BY DEF ToAll, Book
    <3>5. ASSUME NEW q \in 1 .. n + 2 PROVE ToSend(s)'[q].msg \in M <=> q = i + 1
      <4>1. CASE q = 1
        BY <1>1, <3>1, <3>2, <4>1
      <4>2. CASE q = n + 2
        BY <1>1, <3>1, <3>4, <4>2
      <4>3. CASE q \in 2 .. n + 1
        BY <1>1, <2>2, <3>1, <3>3, <4>3
      <4>. QED BY <1>1, <4>1, <4>2, <4>3
    <3>6. i + 1 \in 2 .. n + 2
      BY <1>1
    <3>7. \E p \in 2 .. n + 2 : \A q \in 1 .. n + 2 : ToSend(s)'[q].msg \in M <=> q = p
      BY <3>5, <3>6
    <3>. QED BY <3>1, <3>7
  <2>. QED BY <1>3, <2>1, <2>2 DEF Announced
<1>5. PICK p \in 2 .. n + 2 : \A q \in 1 .. n + 2 : ToSend(s)'[q].msg \in M <=> q = p
  BY <1>4
<1>6. ASSUME NEW u \in Session, u # s, NEW q \in DOMAIN ToSend(u)' PROVE ToSend(u)'[q].msg \notin M
  <2>1. ToSend(u)' = ToSend(u)
    BY <1>2, <1>6 DEF ToSend
  <2>2. ToSend(u)[q].msg.request <= requests
    BY <1>6, <2>1, ToSendFacts, RequestFacts DEF Handlers, RequestsTyped, ReplyInv, OutOK
  <2>. QED BY <1>2, <1>4, <2>1, <2>2, RequestFacts DEF Handlers, RequestsTyped
<1>7. ASSUME NEW u \in Session PROVE Single(u, M)'
  <2>1. CASE u = s
    BY <1>1, <1>5, <2>1 DEF Single
  <2>2. CASE u # s
    BY <1>6, <2>2 DEF Single
  <2>. QED BY <2>1, <2>2
<1>8. \A t \in Session : \A i \in DOMAIN posted[t] : posted[t][i] \notin M
  BY <1>2, <1>4, RequestFacts DEF Handlers, RequestsTyped, ReplyInv, PostedOK
<1>9. ASSUME NEW t \in Session PROVE Once(t, M)' /\ ~Told(t, M)'
  BY <1>2, <1>8 DEF Once, Told
<1>10. ASSUME NEW t \in Session PROVE Due(s, t, M)'
  <2>1. p \in DOMAIN ToSend(s)' /\ ToSend(s)'[p].msg \in M
    BY <1>1, <1>5
  <2>2. ToSend(s)'[p].to = "all"
    <3>1. \A i : ToAll(Event(requests', i)).to = "all" /\ ToAll(Book(requests', -1)).to = "all"
      BY DEF ToAll
    <3>2. p \in 2 .. n + 1 \/ p = n + 2
      BY <1>1
    <3>. QED BY <1>1, <3>1, <3>2
  <2>3. DueAt(s, p, t)'
    BY <1>2, <2>2 DEF DueAt
  <2>. QED BY <2>1, <2>3 DEF Due
<1>. QED BY <1>7, <1>9, <1>10 DEF AnnouncedOnce

\* Steps that leave alone what there is to send.
LEMMA QuietAnnounces ==
  ASSUME NEW s \in Session,
         \/ OnAccept(s) \/ OnAcceptError(s) \/ OnReadError(s) \/ OnSend(s) \/ Written(s)
         \/ GetOrderBookMessage(s) \/ SendInitialOrderBook(s),
         Handlers, NEW k \in DOMAIN changes, NEW M \in Announced(k),
         AnnouncedOnce(M, changes[k].clients)
  PROVE  AnnouncedOnce(M, changes[k].clients)'
<1>. DEFINE C == changes[k].clients
<1>1. /\ UNCHANGED <<posted, targets, changes>>
      /\ \A t \in Session : ~closed'[t] => ~closed[t]
      /\ \A u \in Session : pc'[u] = "broadcasting" <=> pc[u] = "broadcasting"
      /\ \A u \in Session \ {s} : out'[u] = out[u] /\ pc'[u] = pc[u]
  BY DEF OnAccept, OnAcceptError, OnReadError, Disconnect, OnSend, Written, OnWrite, OnWriteError,
         GetOrderBookMessage, SendInitialOrderBook, deliverVars, sharedVars,
         Handlers, TypeInv, SessionTypeOK
<1>2. ASSUME NEW u \in Session, u # s \/ (out' = out /\ pc[s] # "announcing" /\ pc'[s] # "announcing")
      PROVE  ToSend(u)' = ToSend(u)
  BY <1>1, <1>2 DEF ToSend
<1>3. C' = C
  BY <1>1
<1>4. CASE OnAccept(s) \/ OnAcceptError(s) \/ OnReadError(s) \/ OnSend(s) \/ Written(s)
  <2>1. out' = out /\ pc[s] # "announcing" /\ pc'[s] # "announcing"
    BY <1>4 DEF OnAccept, OnAcceptError, OnReadError, Disconnect, OnSend, Written, OnWrite, OnWriteError,
                StrandFree, Handlers, TypeInv, SessionTypeOK
  <2>2. \A u \in Session : ToSend(u)' = ToSend(u)
    BY <1>2, <2>1
  <2>. HIDE DEF C
  <2>3. AnnouncedOnce(M, C)'
    BY <1>1, <1>3, <2>2, AnnounceKept DEF C
  <2>. QED BY <2>3 DEF C
<1>5. CASE SendInitialOrderBook(s)
  <2>1. out[s] = <<>> /\ out'[s] = <<ToSelf(Book(0, bookVersion))>> /\ pc'[s] = "replying"
    BY <1>5 DEF SendInitialOrderBook, Handlers, TypeInv, SessionTypeOK, HandlerOK
  <2>2. ToSend(s)' = <<ToSelf(Book(0, bookVersion))>> /\ DOMAIN ToSend(s) = {}
    BY <2>1, ToSendFacts DEF ToSend
  <2>3. \A p \in DOMAIN ToSend(s)' : ToSend(s)'[p].msg.request = 0
    <3>1. \A p \in DOMAIN ToSend(s)' : ToSend(s)'[p] = ToSelf(Book(0, bookVersion))
      BY <2>2
    <3>. QED BY <3>1 DEF ToSelf, Book
  <2>4. \A p \in DOMAIN ToSend(s)' : ToSend(s)'[p].msg \notin M
    BY <2>3, AnnouncedFacts DEF Handlers
  <2>5. AnnouncedOnce(M, C)'
    BY <1>1, <1>2, <1>3, <2>2, <2>4, AnnounceKept
  <2>. QED BY <2>5
<1>6. CASE GetOrderBookMessage(s)
  <2>. DEFINE q == out[s]
              r == out[s][1].msg.request
  <2>1. /\ q \in Seq(OutItem) /\ out'[s] = Append(q, ToAll(Book(r, bookVersion)))
        /\ pc[s] = "announcing" /\ pc'[s] = "replying" /\ bookVersion \in Int
    <3>1. /\ TypeInv /\ out \in [Session -> Seq(OutItem)] /\ bookVersion \in Int
          /\ pc[s] = "announcing" /\ pc'[s] = "replying"
      <4>1. TypeInv /\ pc[s] = "announcing" /\ pc' = [pc EXCEPT ![s] = "replying"]
        BY <1>6 DEF GetOrderBookMessage, Handlers
      <4>2. pc'[s] = "replying"
        BY <4>1 DEF TypeInv, SessionTypeOK
      <4>. QED BY <4>1, <4>2, OutType, CountFacts
    <3>2. out' = [out EXCEPT ![s] = Append(q, ToAll(Book(r, bookVersion)))]
      BY <1>6 DEF GetOrderBookMessage
    <3>. QED BY <3>1, <3>2
  <2>2. /\ ToSend(s) = Append(q, ToAll(Book(r, -1)))
        /\ ToSend(s)' = Append(q, ToAll(Book(r, bookVersion)))
    BY <2>1 DEF ToSend
  <2>3. \A x, y : /\ DOMAIN Append(q, x) = DOMAIN Append(q, y)
                  /\ \A p \in DOMAIN Append(q, x) : \/ p \in DOMAIN q /\ Append(q, x)[p] = Append(q, y)[p]
                                                    \/ Append(q, x)[p] = x /\ Append(q, y)[p] = y
    BY <2>1
  <2>4. \A v \in Int : ToAll(Book(r, v)).to = "all" /\ ToAll(Book(r, v)).msg = Book(r, v)
    BY DEF ToAll
  <2>5. Book(r, -1) \in M <=> Book(r, bookVersion) \in M
    <3>1. CASE M = Books(k)
      BY <2>1, <3>1 DEF Books, Book
    <3>2. ASSUME NEW i \in 1 .. changes[k].events, M = {Event(k, i)}
          PROVE  Book(r, -1) \notin M /\ Book(r, bookVersion) \notin M
      BY <3>2 DEF Event, Book
    <3>. QED BY <3>1, <3>2 DEF Announced
  <2>. DEFINE x == ToAll(Book(r, -1))
              y == ToAll(Book(r, bookVersion))
  <2>6. x.to = y.to /\ (x.msg \in M <=> y.msg \in M)
    BY <2>1, <2>4, <2>5
  <2>. HIDE DEF x, y
  <2>7. /\ DOMAIN Append(q, x) = DOMAIN Append(q, y)
        /\ \A p \in DOMAIN Append(q, x) : /\ Append(q, x)[p].to = Append(q, y)[p].to
                                          /\ Append(q, x)[p].msg \in M <=> Append(q, y)[p].msg \in M
    BY <2>3, <2>6
  <2>8. /\ DOMAIN ToSend(s) = DOMAIN ToSend(s)'
        /\ \A p \in DOMAIN ToSend(s) : /\ ToSend(s)[p].to = ToSend(s)'[p].to
                                       /\ ToSend(s)[p].msg \in M <=> ToSend(s)'[p].msg \in M
    BY <2>2, <2>7 DEF x, y
  <2>9. AnnouncedOnce(M, C)'
    BY <1>1, <1>2, <1>3, <2>8, AnnounceKept
  <2>. QED BY <2>9
<1>. QED BY <1>4, <1>5, <1>6

\* A client leaves the set only when it is closed, and is never opened again.
LEMMA StillRegisteredKept ==
  ASSUME Handlers, TypeInv', StillRegistered, NEW s \in Session,
         \/ OnAccept(s) \/ OnAcceptError(s) \/ OnReadError(s) \/ OnSend(s) \/ Written(s)
         \/ GetOrderBookMessage(s) \/ SendInitialOrderBook(s) \/ Sends(s)
         \/ OnReadNoChange(s) \/ \E n \in EventCounts : OnReadChange(s, n)
  PROVE  StillRegistered'
<1>1. \/ clients \subseteq clients' /\ closed' = closed
      \/ clients' = clients \ {s} /\ closed' = [closed EXCEPT ![s] = TRUE]
  BY DEF OnAccept, OnAcceptError, OnReadError, Disconnect, OnSend, Written, OnWrite, OnWriteError,
         GetOrderBookMessage, SendInitialOrderBook, Sends, SendReply, Broadcast, BroadcastOne,
         OnReadNoChange, OnReadChange, deliverVars, sharedVars
<1>2. \A t \in Session : ~closed'[t] => ~closed[t] /\ (t \in clients => t \in clients')
  BY <1>1 DEF Handlers, TypeInv, SessionTypeOK
<1>3. ASSUME NEW k \in DOMAIN changes PROVE changes[k].clients \subseteq Session
  <2>1. changes[k] \in Change
    BY <1>3, CountFacts DEF Handlers
  <2>. QED BY <2>1 DEF Change
<1>4. CASE changes' = changes
  BY <1>2, <1>3, <1>4 DEF StillRegistered
<1>5. ASSUME NEW c, changes' = Append(changes, c), c.clients = {} \/ c.clients = clients,
             UNCHANGED <<clients, closed>>
      PROVE  StillRegistered'
  <2>1. /\ DOMAIN changes' = DOMAIN changes \cup {requests + 1}
        /\ \A k \in DOMAIN changes : changes'[k] = changes[k]
        /\ changes'[requests + 1] = c
    BY <1>5, ChangeRecorded DEF Handlers
  <2>. QED BY <1>5, <2>1 DEF StillRegistered
<1>6. ASSUME NEW n \in EventCounts, OnReadChange(s, n) PROVE StillRegistered'
  <2>1. [clients |-> clients, events |-> n].clients = clients
    OBVIOUS
  <2>. QED BY <1>5, <1>6, <2>1 DEF OnReadChange
<1>7. CASE OnReadNoChange(s)
  <2>1. [clients |-> {}, events |-> 0].clients = {}
    OBVIOUS
  <2>. QED BY <1>5, <1>7, <2>1 DEF OnReadNoChange
<1>8. changes' = changes \/ OnReadNoChange(s) \/ \E n \in EventCounts : OnReadChange(s, n)
  BY DEF OnAccept, OnAcceptError, OnReadError, Disconnect, OnSend, Written, OnWrite, OnWriteError,
         GetOrderBookMessage, SendInitialOrderBook, Sends, SendReply, Broadcast, BroadcastOne, sharedVars
<1>. QED BY <1>4, <1>6, <1>7, <1>8

LEMMA NextAnnounce == Handlers /\ AnnounceInv /\ [SessionNext]_sessionVars => AnnounceInv'
<1>. SUFFICES ASSUME Handlers, AnnounceInv, [SessionNext]_sessionVars PROVE AnnounceInv'
  OBVIOUS
<1>. DEFINE AllAnnounced == \A k \in DOMAIN changes : \A M \in Announced(k) :
                               AnnouncedOnce(M, changes[k].clients)
<1>0. TypeInv' /\ StillRegistered /\ AllAnnounced
  BY NextType DEF Handlers, AnnounceInv
<1>1. CASE UNCHANGED sessionVars
  <2>1. /\ UNCHANGED <<pc, out, targets, posted, closed, clients, changes>>
    BY <1>1 DEF sessionVars, deliverVars, sharedVars
  <2>2. /\ \A u \in Session : ToSend(u)' = ToSend(u)
        /\ \A k \in DOMAIN changes : Announced(k)' = Announced(k)
    BY <2>1 DEF ToSend, Announced
  <2>3. ASSUME NEW k \in DOMAIN changes, NEW M \in Announced(k)
        PROVE  AnnouncedOnce(M, changes[k].clients)'
    BY <1>0, <2>1, <2>2, <2>3, AnnounceKept
  <2>4. StillRegistered'
    BY <1>0, <2>1 DEF StillRegistered
  <2>. QED BY <2>1, <2>2, <2>3, <2>4 DEF AnnounceInv
<1>2. ASSUME NEW s \in Session,
             \/ OnAccept(s) \/ OnAcceptError(s) \/ OnReadError(s) \/ OnSend(s) \/ Written(s)
             \/ GetOrderBookMessage(s) \/ SendInitialOrderBook(s) \/ Sends(s)
      PROVE  AnnounceInv'
  <2>1. changes' = changes
    BY <1>2 DEF OnAccept, OnAcceptError, OnReadError, Disconnect, OnSend, Written, OnWrite, OnWriteError,
         GetOrderBookMessage, SendInitialOrderBook, Sends, SendReply, Broadcast, BroadcastOne, sharedVars
  <2>2. \A k \in DOMAIN changes : Announced(k)' = Announced(k)
    BY <2>1 DEF Announced
  <2>3. ASSUME NEW k \in DOMAIN changes, NEW M \in Announced(k)
        PROVE  AnnouncedOnce(M, changes[k].clients)'
    BY <1>0, <1>2, QuietAnnounces, SendsAnnounce
  <2>4. StillRegistered'
    BY <1>0, <1>2, StillRegisteredKept
  <2>. QED BY <2>1, <2>2, <2>3, <2>4 DEF AnnounceInv
<1>3. ASSUME NEW s \in Session, OnReadNoChange(s) \/ \E n \in EventCounts : OnReadChange(s, n)
      PROVE  AnnounceInv'
  <2>1. PICK c : changes' = Append(changes, c)
    BY <1>3 DEF OnReadNoChange, OnReadChange
  <2>2. /\ DOMAIN changes' = DOMAIN changes \cup {requests + 1}
        /\ \A k \in DOMAIN changes : changes'[k] = changes[k]
        /\ requests' = requests + 1
    BY <1>3, <2>1, ChangeRecorded DEF Handlers, OnReadNoChange, OnReadChange
  <2>3. ASSUME NEW k \in DOMAIN changes, NEW M, M \in Announced(k)'
        PROVE  AnnouncedOnce(M, changes[k].clients)'
    <3>1. M \in Announced(k)
      BY <2>2, <2>3 DEF Announced
    <3>2. AnnouncedOnce(M, changes[k].clients) /\ changes'[k] = changes[k]
      BY <1>0, <2>2, <3>1
    <3>3. /\ UNCHANGED <<posted, targets, closed>> /\ out[s] = <<>>
          /\ pc[s] # "broadcasting" /\ pc'[s] # "broadcasting"
          /\ \A u \in Session \ {s} : out'[u] = out[u] /\ pc'[u] = pc[u]
      BY <1>3 DEF OnReadNoChange, OnReadChange, deliverVars, Handlers, TypeInv, SessionTypeOK, HandlerOK
    <3>4. \A u \in Session \ {s} : ToSend(u)' = ToSend(u)
      BY <3>3 DEF ToSend
    <3>5. DOMAIN ToSend(s) = {}
      BY <3>3, ToSendFacts
    <3>6. \A p \in DOMAIN ToSend(s)' : ToSend(s)'[p].msg.request = requests + 1
      <4>1. /\ ToSelf(Reply(requests')).msg.request = requests'
            /\ \A i : ToAll(Event(requests', i)).msg.request = requests'
            /\ ToAll(Book(requests', -1)).msg.request = requests'
        BY DEF ToSelf, ToAll, Reply, Event, Book
      <4>2. CASE OnReadNoChange(s)
        <5>1. out'[s] = <<ToSelf(Reply(requests'))>> /\ pc'[s] = "replying"
          BY <4>2 DEF OnReadNoChange, Handlers, TypeInv, SessionTypeOK
        <5>2. ToSend(s)' = <<ToSelf(Reply(requests'))>>
          BY <5>1 DEF ToSend
        <5>3. \A p \in DOMAIN ToSend(s)' : ToSend(s)'[p] = ToSelf(Reply(requests'))
          BY <5>2
        <5>. QED BY <2>2, <4>1, <5>3
      <4>3. ASSUME NEW n \in EventCounts, OnReadChange(s, n)
            PROVE  \A p \in DOMAIN ToSend(s)' : ToSend(s)'[p].msg.request = requests + 1
        <5>1. /\ n \in Nat /\ DOMAIN ToSend(s)' = 1 .. n + 2
              /\ ToSend(s)'[1] = ToSelf(Reply(requests'))
              /\ \A i \in 2 .. n + 1 : ToSend(s)'[i] = ToAll(Event(requests', i - 1))
              /\ ToSend(s)'[n + 2] = ToAll(Book(requests', -1))
          BY <1>0, <4>3, ChangeToSend DEF Handlers
        <5>2. \A p \in 1 .. n + 2 : p = 1 \/ p \in 2 .. n + 1 \/ p = n + 2
          BY <5>1
        <5>. QED BY <2>2, <4>1, <5>1, <5>2
      <4>. QED BY <1>3, <4>2, <4>3
    <3>7. \A p \in DOMAIN ToSend(s)' : ToSend(s)'[p].msg \notin M
      BY <3>1, <3>6, AnnouncedFacts, CountFacts DEF Handlers
    <3>. DEFINE C == changes[k].clients
    <3>8. C' = C
      BY <3>2
    <3>9. AnnouncedOnce(M, C)'
      BY <3>2, <3>3, <3>4, <3>5, <3>7, <3>8, AnnounceKept
    <3>. QED BY <3>9
  <2>4. ASSUME NEW k, k = requests', NEW M, M \in Announced(k)'
        PROVE  AnnouncedOnce(M, changes[k].clients)'
    BY <1>0, <1>3, <2>4, NoChangeAnnounces, ChangeAnnounces
  <2>5. StillRegistered'
    BY <1>0, <1>3, StillRegisteredKept
  <2>. QED BY <2>2, <2>3, <2>4, <2>5 DEF AnnounceInv
<1>. QED BY <1>1, <1>2, <1>3 DEF SessionNext, Work, Sends

LEMMA HandlersInvariant == SessionSpec => []Handlers
<1>1. SessionInit => Handlers
  BY InitType, InitReply DEF Handlers
<1>2. Handlers /\ [SessionNext]_sessionVars => Handlers'
  BY NextType, NextReply DEF Handlers
<1>. QED BY <1>1, <1>2, PTL DEF SessionSpec

\* A finite set with no two elements has at most one, and counting it tells
\* whether it has any.
LEMMA AtMostOne ==
  ASSUME NEW S, \A x, y \in S : x = y
  PROVE  Cardinality(S) \in {0, 1} /\ (S # {} <=> Cardinality(S) = 1)
<1>1. CASE S = {}
  BY <1>1, FS_EmptySet
<1>2. ASSUME NEW x \in S PROVE Cardinality(S) = 1
  <2>1. S = {x}
    BY <1>2
  <2>. QED BY <2>1, FS_Singleton
<1>. QED BY <1>1, <1>2

LEMMA AnnounceIsCounted == Handlers /\ AnnounceInv => ChangesAnnounced
<1>. SUFFICES ASSUME Handlers, AnnounceInv, NEW k \in DOMAIN changes, NEW t \in Session
              PROVE  LET events == [i \in 1 .. changes[k].events |-> TimesPosted(t, Event(k, i))]
                         books  == Cardinality({i \in DOMAIN posted[t] :
                                     posted[t][i].kind = "BOOK" /\ posted[t][i].request = k})
                     IN  /\ books <= 1 /\ \A i \in DOMAIN events : events[i] <= 1
                         /\ t \in changes[k].clients /\ ~InProgress(k) /\ ~closed[t] =>
                               books = 1 /\ \A i \in DOMAIN events : events[i] = 1
  BY DEF ChangesAnnounced
<1>. DEFINE Sent(M) == {i \in DOMAIN posted[t] : posted[t][i] \in M}
            bs      == {i \in DOMAIN posted[t] :
                           posted[t][i].kind = "BOOK" /\ posted[t][i].request = k}
            MustBeTold == t \in changes[k].clients /\ ~InProgress(k) /\ ~closed[t]
<1>1. ASSUME NEW M \in Announced(k)
      PROVE  Cardinality(Sent(M)) \in {0, 1} /\ (MustBeTold => Cardinality(Sent(M)) = 1)
  <2>1. AnnouncedOnce(M, changes[k].clients)
    BY DEF AnnounceInv
  <2>2. \A x, y \in Sent(M) : x = y
    BY <2>1 DEF AnnouncedOnce, Once
  <2>3. ASSUME MustBeTold PROVE Sent(M) # {}
    <3>1. ASSUME NEW s \in Session PROVE ~Due(s, t, M)
      <4>1. \A i \in DOMAIN out[s] : out[s][i].msg.request # k
        BY <2>3 DEF InProgress
      <4>2. out[s] # <<>> => out[s][1].msg.request # k
        BY <4>1, RequestFacts DEF Handlers, RequestsTyped
      <4>3. \A m \in M : m.request = k
        BY AnnouncedFacts DEF Handlers
      <4>. QED BY <4>2, <4>3, ToSendFacts DEF Due
    <3>2. Told(t, M)
      BY <2>1, <2>3, <3>1 DEF AnnouncedOnce
    <3>. QED BY <3>2 DEF Told
  <2>. HIDE DEF Sent, MustBeTold
  <2>. QED BY <2>2, <2>3, AtMostOne
<1>2. bs = Sent(Books(k)) /\ Books(k) \in Announced(k)
  <2>1. ASSUME NEW i \in DOMAIN posted[t]
        PROVE  (posted[t][i].kind = "BOOK" /\ posted[t][i].request = k) <=> posted[t][i] \in Books(k)
    <3>1. posted[t][i] \in Message
      <4>1. posted[t] \in Seq(Message)
        BY DEF Handlers, TypeInv, SessionTypeOK
      <4>. QED BY <4>1
    <3>. QED BY <3>1, SessionAssumption DEF Message, Books
  <2>. QED BY <2>1 DEF Announced
<1>3. ASSUME NEW i \in 1 .. changes[k].events
      PROVE  TimesPosted(t, Event(k, i)) = Cardinality(Sent({Event(k, i)})) /\ {Event(k, i)} \in Announced(k)
  <2>1. {j \in DOMAIN posted[t] : posted[t][j] = Event(k, i)} = Sent({Event(k, i)})
    OBVIOUS
  <2>. QED BY <2>1 DEF TimesPosted, Announced
<1>. DEFINE events == [i \in 1 .. changes[k].events |-> TimesPosted(t, Event(k, i))]
<1>4. ASSUME NEW i \in DOMAIN events PROVE events[i] <= 1 /\ (MustBeTold => events[i] = 1)
  <2>1. i \in 1 .. changes[k].events /\ events[i] = TimesPosted(t, Event(k, i))
    BY <1>4
  <2>2. TimesPosted(t, Event(k, i)) = Cardinality(Sent({Event(k, i)})) /\ {Event(k, i)} \in Announced(k)
    BY <1>3, <2>1
  <2>. HIDE DEF events, MustBeTold, Sent
  <2>3. /\ Cardinality(Sent({Event(k, i)})) \in {0, 1}
        /\ MustBeTold => Cardinality(Sent({Event(k, i)})) = 1
    BY <1>1, <2>2
  <2>. QED BY <2>1, <2>2, <2>3
<1>5. Cardinality(bs) <= 1 /\ (MustBeTold => Cardinality(bs) = 1)
  <2>. HIDE DEF bs, MustBeTold, Sent
  <2>. QED BY <1>1, <1>2
<1>. QED BY <1>4, <1>5

\* A change is announced to every client that was connected when it was made
\* and is still connected when its announcement is over, each of its events and
\* a snapshot of the book once; nobody is sent any of them twice.
THEOREM ChangesAreAnnounced == SessionSpec => []ChangesAnnounced
<1>1. SessionInit => AnnounceInv
  BY InitAnnounce
<1>2. Handlers /\ AnnounceInv /\ [SessionNext]_sessionVars => AnnounceInv'
  BY NextAnnounce
<1>3. Handlers /\ AnnounceInv => ChangesAnnounced
  BY AnnounceIsCounted
<1>. QED BY <1>1, <1>2, <1>3, HandlersInvariant, PTL DEF SessionSpec

-----------------------------------------------------------------------------
(* Every connected client is shown the book as it is.                      *)

\* The snapshots that show the book as it is.
Current == [kind : {"BOOK"}, request : Nat, version : {bookVersion}]

\* A registered client will be shown the book as it is: it was posted it or is
\* due it, or a snapshot has yet to be taken.
ShownInv ==
    \A t \in clients : \/ pc[t] = "registered"
                       \/ \E s \in Session : pc[s] = "announcing"
                       \/ Told(t, Current) \/ \E s \in Session : Due(s, t, Current)

LEMMA InitShown == SessionInit => ShownInv
BY DEF SessionInit, ShownInv

LEMMA SnapshotShows ==
  ASSUME Handlers, TypeInv', NEW s \in Session, GetOrderBookMessage(s) \/ SendInitialOrderBook(s)
  PROVE  \A t \in Session : t = s \/ GetOrderBookMessage(s) => Due(s, t, Current)'
<1>0. TypeInv /\ bookVersion \in Nat /\ out \in [Session -> Seq(OutItem)]
  BY CountFacts, OutType DEF Handlers
<1>1. CASE SendInitialOrderBook(s)
  <2>. DEFINE x == ToSelf(Book(0, bookVersion))
  <2>1. out'[s] = <<x>> /\ pc'[s] = "replying" /\ bookVersion' = bookVersion
    BY <1>0, <1>1 DEF SendInitialOrderBook, sharedVars, TypeInv, SessionTypeOK
  <2>2. ToSend(s)' = <<x>>
    BY <2>1 DEF ToSend
  <2>3. x.to = "self" /\ x.msg \in Current'
    BY <1>0, <2>1 DEF ToSelf, Book, Current
  <2>. HIDE DEF x
  <2>4. 1 \in DOMAIN ToSend(s)' /\ ToSend(s)'[1] = x
    BY <2>2
  <2>5. Due(s, s, Current)'
    BY <2>3, <2>4 DEF Due, DueAt
  <2>6. ~GetOrderBookMessage(s)
    BY <1>1 DEF SendInitialOrderBook, GetOrderBookMessage
  <2>. QED BY <2>5, <2>6
<1>2. CASE GetOrderBookMessage(s)
  <2>. DEFINE q == out[s]
              x == ToAll(Book(out[s][1].msg.request, bookVersion))
  <2>1. /\ out' = [out EXCEPT ![s] = Append(q, x)] /\ pc'[s] = "replying"
        /\ bookVersion' = bookVersion /\ pc[s] = "announcing"
    BY <1>0, <1>2 DEF GetOrderBookMessage, sharedVars, TypeInv, SessionTypeOK
  <2>2. q \in Seq(OutItem) /\ out[s][1].msg.request \in Nat
    <3>1. out[s] # <<>>
      BY <1>0, <2>1 DEF TypeInv, HandlerOK
    <3>. QED BY <1>0, <3>1, RequestFacts DEF RequestsTyped
  <2>3. x.to = "all" /\ x.msg \in Current'
    BY <1>0, <2>1, <2>2 DEF ToAll, Book, Current
  <2>. HIDE DEF x
  <2>4. ToSend(s)' = Append(q, x)
    <3>1. out'[s] = Append(q, x)
      BY <1>0, <2>1
    <3>. QED BY <2>1, <3>1 DEF ToSend
  <2>5. Len(q) + 1 \in DOMAIN Append(q, x) /\ Append(q, x)[Len(q) + 1] = x
    BY <2>2
  <2>6. ASSUME NEW t \in Session PROVE Due(s, t, Current)'
    BY <2>1, <2>3, <2>4, <2>5 DEF Due, DueAt
  <2>. QED BY <2>6
<1>. QED BY <1>1, <1>2

LEMMA NextShown ==
  Handlers /\ RegisteredInv /\ ShownInv /\ [SessionNext]_sessionVars => ShownInv'
<1>. SUFFICES ASSUME Handlers, RegisteredInv, ShownInv, [SessionNext]_sessionVars PROVE ShownInv'
  OBVIOUS
<1>0. /\ TypeInv /\ TypeInv' /\ clients \subseteq Session /\ clients' \subseteq Session
      /\ \A t \in clients : ~closed[t]
  <2>1. TypeInv /\ TypeInv'
    BY NextType DEF Handlers
  <2>2. clients \subseteq Session /\ clients' \subseteq Session
    BY <2>1 DEF TypeInv, SessionTypeOK
  <2>3. \A t \in clients : ~closed[t]
    BY <2>2 DEF RegisteredInv, Registered, IsClient
  <2>. QED BY <2>1, <2>2, <2>3
<1>1. ASSUME UNCHANGED <<posted, targets, bookVersion>>,
             \A u \in Session : /\ pc'[u] = "broadcasting" <=> pc[u] = "broadcasting"
                                /\ pc'[u] = "announcing" <=> pc[u] = "announcing"
                                /\ ToSend(u)' = ToSend(u) \/ DOMAIN ToSend(u) = {},
             \A t \in clients' : \/ pc'[t] = "registered"
                                 \/ t \in clients /\ pc[t] # "registered"
                                 \/ \E u \in Session : Due(u, t, Current)'
      PROVE  ShownInv'
  <2>1. Current' = Current
    BY <1>1 DEF Current
  <2>2. ASSUME NEW t \in Session, NEW u \in Session, Due(u, t, Current) PROVE Due(u, t, Current)'
    BY <1>1, <2>1, <2>2 DEF Due, DueAt
  <2>3. ASSUME NEW t \in Session, Told(t, Current) PROVE Told(t, Current)'
    BY <1>1, <2>1, <2>3 DEF Told
  <2>. QED BY <1>0, <1>1, <2>2, <2>3 DEF ShownInv
<1>2. ASSUME NEW s \in Session, \/ OnAccept(s) \/ OnAcceptError(s) \/ OnReadError(s)
                                 \/ OnSend(s) \/ Written(s)
      PROVE  ShownInv'
  <2>1. /\ UNCHANGED <<posted, targets, bookVersion, out>>
        /\ \A u \in Session : /\ pc'[u] = "broadcasting" <=> pc[u] = "broadcasting"
                              /\ pc'[u] = "announcing" <=> pc[u] = "announcing"
        /\ \A t \in clients' : \/ pc'[t] = "registered"
                               \/ t \in clients /\ pc'[t] = pc[t]
                               \/ t \in clients /\ pc[t] # "registered"
    BY <1>0, <1>2 DEF OnAccept, OnAcceptError, OnReadError, Disconnect, OnSend, Written, OnWrite,
                      OnWriteError, deliverVars, sharedVars, TypeInv, SessionTypeOK
  <2>2. ASSUME NEW u \in Session PROVE ToSend(u)' = ToSend(u)
    BY <2>1 DEF ToSend
  <2>3. \A t \in clients' : pc'[t] = "registered" \/ (t \in clients /\ pc[t] # "registered")
    BY <2>1
  <2>. QED BY <1>1, <2>1, <2>2, <2>3
<1>3. ASSUME NEW s \in Session, OnReadNoChange(s) PROVE ShownInv'
  <2>1. /\ UNCHANGED <<posted, targets, bookVersion, clients>> /\ out[s] = <<>>
        /\ \A u \in Session \ {s} : out'[u] = out[u] /\ pc'[u] = pc[u]
        /\ pc[s] = "reading" /\ pc'[s] = "replying"
    <3>1. out[s] = <<>> /\ pc[s] = "reading"
      BY <1>0, <1>3 DEF OnReadNoChange, TypeInv, HandlerOK
    <3>2. DOMAIN pc = Session /\ DOMAIN out = Session
      BY <1>0 DEF TypeInv, SessionTypeOK
    <3>. QED BY <1>3, <3>1, <3>2 DEF OnReadNoChange, deliverVars
  <2>2. ASSUME NEW u \in Session, u # s PROVE ToSend(u)' = ToSend(u)
    BY <2>1, <2>2 DEF ToSend
  <2>3. DOMAIN ToSend(s) = {}
    BY <2>1, ToSendFacts
  <2>4. \A t \in clients' : pc'[t] = "registered" \/ (t \in clients /\ pc[t] # "registered")
    BY <1>0, <2>1
  <2>. QED BY <1>1, <2>1, <2>2, <2>3, <2>4
<1>4. ASSUME NEW s \in Session, NEW n \in EventCounts, OnReadChange(s, n) PROVE ShownInv'
  <2>1. pc'[s] = "announcing"
    BY <1>0, <1>4 DEF OnReadChange, TypeInv, SessionTypeOK
  <2>. QED BY <2>1 DEF ShownInv
<1>5. ASSUME NEW s \in Session, SendInitialOrderBook(s) PROVE ShownInv'
  <2>1. /\ UNCHANGED <<posted, targets, bookVersion, clients>> /\ out[s] = <<>>
        /\ \A u \in Session \ {s} : out'[u] = out[u] /\ pc'[u] = pc[u]
        /\ pc[s] = "registered" /\ pc'[s] = "replying"
    <3>1. out[s] = <<>> /\ pc[s] = "registered"
      BY <1>0, <1>5 DEF SendInitialOrderBook, TypeInv, HandlerOK
    <3>2. DOMAIN pc = Session /\ DOMAIN out = Session
      BY <1>0 DEF TypeInv, SessionTypeOK
    <3>. QED BY <1>5, <3>1, <3>2 DEF SendInitialOrderBook, deliverVars, sharedVars
  <2>2. ASSUME NEW u \in Session, u # s PROVE ToSend(u)' = ToSend(u)
    BY <2>1, <2>2 DEF ToSend
  <2>3. DOMAIN ToSend(s) = {}
    BY <2>1, ToSendFacts
  <2>4. Due(s, s, Current)'
    BY <1>0, <1>5, SnapshotShows
  <2>5. ASSUME NEW t \in clients'
        PROVE  \/ pc'[t] = "registered"
               \/ t \in clients /\ pc[t] # "registered"
               \/ \E u \in Session : Due(u, t, Current)'
    <3>1. CASE t = s
      BY <2>4, <3>1
    <3>2. CASE t # s
      <4>1. t \in clients /\ t \in Session /\ pc'[t] = pc[t]
        BY <1>0, <2>1, <2>5, <3>2
      <4>. QED BY <4>1
    <3>. QED BY <3>1, <3>2
  <2>. QED BY <1>1, <2>1, <2>2, <2>3, <2>5
<1>6. ASSUME NEW s \in Session, GetOrderBookMessage(s) PROVE ShownInv'
  <2>1. \A t \in Session : Due(s, t, Current)'
    BY <1>0, <1>6, SnapshotShows
  <2>. QED BY <1>0, <2>1 DEF ShownInv
<1>7. ASSUME NEW s \in Session, Sends(s) PROVE ShownInv'
  <2>1. /\ \A u \in Session \ {s} : pc'[u] = pc[u]
        /\ pc[s] \in {"replying", "broadcasting"}
        /\ UNCHANGED <<closed, clients, changes>>
    BY <1>0, <1>7, SendsFacts
  <2>2. bookVersion' = bookVersion
    BY <1>7 DEF Sends, SendReply, Broadcast, BroadcastOne, sharedVars
  <2>3. Current' = Current
    BY <2>2 DEF Current
  <2>4. ASSUME NEW t \in clients'
        PROVE  \/ pc'[t] = "registered" \/ \E u \in Session : pc'[u] = "announcing"
               \/ Told(t, Current)' \/ \E u \in Session : Due(u, t, Current)'
    <3>1. t \in clients /\ t \in Session /\ ~closed[t]
      BY <1>0, <2>1, <2>4
    <3>2. CASE pc[t] = "registered"
      BY <2>1, <3>1, <3>2
    <3>3. ASSUME NEW u \in Session, pc[u] = "announcing" PROVE pc'[u] = "announcing"
      BY <2>1, <3>3
    <3>4. ASSUME NEW M, M = Current, Told(t, M) \/ \E u \in Session : Due(u, t, M)
          PROVE  Told(t, M)' \/ \E u \in Session : Due(u, t, M)'
      BY <1>0, <1>7, <3>1, <3>4, SendsTell
    <3>5. ASSUME Told(t, Current) \/ \E u \in Session : Due(u, t, Current)
          PROVE  Told(t, Current)' \/ \E u \in Session : Due(u, t, Current)'
      BY <2>3, <3>4, <3>5
    <3>. QED BY <3>1, <3>2, <3>3, <3>5 DEF ShownInv
  <2>. QED BY <2>4 DEF ShownInv
<1>8. CASE UNCHANGED sessionVars
  <2>1. UNCHANGED <<pc, out, targets, posted, clients, bookVersion>>
    BY <1>8 DEF sessionVars, deliverVars, sharedVars
  <2>2. /\ \A u \in Session : ToSend(u)' = ToSend(u)
        /\ Current' = Current
    BY <2>1 DEF ToSend, Current
  <2>. QED BY <2>1, <2>2 DEF ShownInv, Told, Due, DueAt
<1>. QED BY <1>2, <1>3, <1>4, <1>5, <1>6, <1>7, <1>8 DEF SessionNext, Work, Sends

\* Once nothing is left to do, a connected client has been posted the book as
\* it is, and was written all it was posted.
LEMMA QuietIsShown ==
  Handlers /\ RegisteredInv /\ ShownInv /\ DeliveryInv => BookShownToAll
<1>. SUFFICES ASSUME Handlers, RegisteredInv, ShownInv, DeliveryInv, Quiet,
                     NEW s \in Session, Connected(s)
              PROVE  \E i \in DOMAIN received[s] : /\ received[s][i].kind = "BOOK"
                                                   /\ received[s][i].version = bookVersion
  BY DEF BookShownToAll
<1>0. TypeInv
  BY DEF Handlers
<1>1. s \in clients /\ pc[s] # "registered"
  BY DEF Connected, RegisteredInv, Registered, IsClient
<1>2. ASSUME NEW u \in Session PROVE pc[u] # "announcing" /\ DOMAIN ToSend(u) = {}
  <2>1. pc[u] \in {"handshake", "reading", "done"}
    BY DEF Quiet, StrandFree
  <2>2. out[u] = <<>>
    BY <1>0, <2>1 DEF TypeInv, HandlerOK
  <2>. QED BY <2>1, <2>2, ToSendFacts
<1>3. Told(s, Current)
  BY <1>1, <1>2 DEF ShownInv, Due
<1>4. PICK i \in DOMAIN posted[s] : posted[s][i].kind = "BOOK" /\ posted[s][i].version = bookVersion
  BY <1>3 DEF Told, Current
<1>5. received[s] = posted[s]
  <2>1. /\ received[s] \in Seq(Message) /\ writeQueue[s] = <<>> /\ strand[s] = <<>>
        /\ received[s] \o writeQueue[s] \o strand[s] = posted[s]
    BY <1>0 DEF Quiet, Connected, DeliveryInv, DeliveryOf, OnTheWay, TypeInv, SessionTypeOK, WritesOK
  <2>2. received[s] \o <<>> \o <<>> = received[s]
    BY <2>1
  <2>. QED BY <2>1, <2>2
<1>. QED BY <1>4, <1>5

\* Once everything is delivered every connected client has been shown the book
\* as it is, also one that joined while it was changing.
THEOREM EveryoneIsShownTheBook == SessionSpec => []BookShownToAll
<1>1. SessionInit => RegisteredInv /\ ShownInv /\ DeliveryInv
  BY InitRegistered, InitShown, InitDelivery
<1>2. Handlers /\ (RegisteredInv /\ ShownInv /\ DeliveryInv) /\ [SessionNext]_sessionVars
        => (RegisteredInv /\ ShownInv /\ DeliveryInv)'
  BY NextRegistered, NextShown, NextDelivery
<1>3. Handlers /\ (RegisteredInv /\ ShownInv /\ DeliveryInv) => BookShownToAll
  BY QuietIsShown
<1>. QED BY <1>1, <1>2, <1>3, HandlersInvariant, PTL DEF SessionSpec
=============================================================================
