----------------------- MODULE TradingTerminal_proofs -----------------------
(***************************************************************************)
(* Proofs about TradingTerminal, for any number of clients and orders, any *)
(* lengths of the lists and however React batches its renders: a terminal  *)
(* shows its own orders only, never with less than they have left, hides   *)
(* none but for a cancellation or a full list, and shows no trade twice.   *)
(*                                                                         *)
(* The server around the terminal is that of OrderServer, whose invariants *)
(* say what the messages are: true when they were sent, and each piece of  *)
(* news told once.  What is added here is whose orders the messages are    *)
(* about, and what the terminal has made of those it has seen.             *)
(***************************************************************************)
EXTENDS TradingTerminal, OrderServer_proofs

LEMMA TerminalStepIsServerStep ==
  ASSUME [ServerStep \/ Render]_terminalVars
  PROVE  [ServerNext \/ AllAnswered]_serverVars
<1>1. CASE ServerStep
  BY <1>1, TerminalAssumption DEF ServerStep, ServerNext
<1>2. CASE Render
  BY <1>2 DEF Render
<1>3. CASE UNCHANGED terminalVars
  BY <1>3 DEF terminalVars
<1>. QED
  BY <1>1, <1>2, <1>3

\* Around a terminal the server does what it does by itself: what is proved of
\* the server holds of it.
THEOREM TerminalUsesServer == TerminalSpec => ServerSpec
<1>1. TerminalInit => ServerInit
  BY DEF TerminalInit
<1>. QED
  BY <1>1, TerminalStepIsServerStep, PTL DEF TerminalSpec, ServerSpec

\* What is known of the server.
ServedInv == NewsInvs /\ CountersInv /\ AnnouncedInv

LEMMA ServedInvariant == ServerSpec => []ServedInv
  BY NewsInvariant, CountersInvariant, AnnouncedInvariant, PTL DEF ServedInv

-----------------------------------------------------------------------------
(* Whose order an id is.                                                   *)

\* The message says that the order id was accepted.
Accepts(m, id) == m.type = "ORDER_ACCEPTED" /\ m.id = id

\* The order is at work for c, or its acceptance is being sent or was told.
Owns(c, id) == \/ pc[c] = "engine" /\ order.orderId = id
               \/ pc[c] \in AfterCall /\ call[c].kind = "place" /\ call[c].orderId = id
               \/ \E i \in DOMAIN outbox[c] : Accepts(outbox[c][i].msg, id)
               \/ \E i \in DOMAIN told[c] : Accepts(told[c][i], id)

NoneAccepted(ms) == \A i \in DOMAIN ms : ms[i].type # "ORDER_ACCEPTED"

\* What ps accepts is for c only.
AcceptsFor(c, ps) == \A i \in DOMAIN ps : ps[i].msg.type = "ORDER_ACCEPTED" => ps[i].to \subseteq {c}

OwnerOK(c) ==
    /\ AcceptsFor(c, outbox[c])
    /\ pc[c] \in AfterCall => NoneAccepted(Broadcasts(call[c]))
    /\ \A id : Owns(c, id) => id \in SubmittedIds

Exclusively(c) == \A d \in Client \ {c} : \A id : ~(Owns(c, id) /\ Owns(d, id))

OwnersInv == \A c \in Client : OwnerOK(c) /\ Exclusively(c)

\* The others own what they owned ...
LEMMA OthersOwn ==
  ASSUME NewsInvs, NEW c \in Client, ClientStep(c), NEW e \in Client \ {c},
         \A i \in DOMAIN told'[e] : \/ i \in DOMAIN told[e] /\ told'[e][i] = told[e][i]
                                    \/ told'[e][i].type # "ORDER_ACCEPTED"
  PROVE  \A id : Owns(e, id)' => Owns(e, id)
<1>1. pc'[e] = pc[e] /\ call'[e] = call[e] /\ outbox'[e] = outbox[e]
  BY OneAtATime DEF Idles, NewsInvs, HandlersInv
<1>2. ASSUME pc[e] = "engine" PROVE order' = order
  BY <1>2, NotTheirCall DEF NewsInvs, adapterVars, engineVars
<1>. QED
  BY <1>1, <1>2 DEF Owns, Accepts

\* ... and c gains only what was handed in just now.
LEMMA OwnersStep ==
  ASSUME NewsInvs, OwnersInv, NEW c \in Client, ClientStep(c), [AdapterNext]_adapterVars,
         \A e \in Client \ {c} : \A i \in DOMAIN told'[e] :
            \/ i \in DOMAIN told[e] /\ told'[e][i] = told[e][i]
            \/ told'[e][i].type # "ORDER_ACCEPTED",
         \A id : Owns(c, id)' => Owns(c, id) \/ (id \notin SubmittedIds /\ id \in SubmittedIds'),
         AcceptsFor(c, outbox'[c]),
         pc'[c] \in AfterCall => NoneAccepted(Broadcasts(call'[c]))
  PROVE  OwnersInv'
<1>1. \A e \in Client \ {c} : \A id : Owns(e, id)' => Owns(e, id)
  BY OthersOwn
<1>2. SubmittedIds \subseteq SubmittedIds'
  BY ServedGrows DEF NewsInvs
<1>3. ASSUME NEW e \in Client, NEW id, Owns(e, id)' PROVE id \in SubmittedIds'
  BY <1>1, <1>2, <1>3 DEF OwnersInv, OwnerOK
<1>4. ASSUME NEW e \in Client, NEW d \in Client \ {e}, NEW id, Owns(e, id)', Owns(d, id)'
      PROVE  FALSE
  <2>1. \A f \in Client : Owns(f, id) => id \in SubmittedIds
    BY DEF OwnersInv, OwnerOK
  <2>2. ~(Owns(e, id) /\ Owns(d, id))
    BY DEF OwnersInv, Exclusively
  <2>. QED
    BY <1>1, <1>4, <2>1, <2>2
<1>5. ASSUME NEW e \in Client \ {c}
      PROVE  /\ AcceptsFor(e, outbox'[e])
             /\ pc'[e] \in AfterCall => NoneAccepted(Broadcasts(call'[e]))
  <2>1. pc'[e] = pc[e] /\ call'[e] = call[e] /\ outbox'[e] = outbox[e]
    BY OneAtATime DEF Idles, NewsInvs, HandlersInv
  <2>. QED
    BY <2>1 DEF OwnersInv, OwnerOK
<1>6. ASSUME NEW e \in Client PROVE OwnerOK(e)' /\ Exclusively(e)'
  <2>1. /\ AcceptsFor(e, outbox'[e])
        /\ pc'[e] \in AfterCall => NoneAccepted(Broadcasts(call'[e]))
    BY <1>5
  <2>2. AcceptsFor(e, outbox[e])'
    BY <2>1 DEF AcceptsFor
  <2>3. NoneAccepted(Broadcasts(call[e]))' <=> NoneAccepted(Broadcasts(call'[e]))
    <3>1. Broadcasts(call[e])' = Broadcasts(call'[e])
      BY DEF Broadcasts
    <3>. QED
      BY <3>1 DEF NoneAccepted
  <2>4. OwnerOK(e)'
    BY <1>3, <2>1, <2>2, <2>3 DEF OwnerOK
  <2>5. Exclusively(e)'
    BY <1>4 DEF Exclusively
  <2>. QED
    BY <2>4, <2>5
<1>. QED
  BY <1>6 DEF OwnersInv

\* What a handler sends: what it says to its client, then the broadcasts.
LEMMA OutgoingParts ==
  ASSUME NEW c \in Client, NEW direct, NEW ms, Posts(ms)
  PROVE  LET ps == Outgoing(c, direct, ms)
         IN  /\ 1 \in DOMAIN ps /\ ps[1].to = {c} /\ ps[1].msg = direct
             /\ \A i \in DOMAIN ps \ {1} : \E j \in DOMAIN ms : ps[i].msg = ms[j]
<1>. DEFINE h    == [to |-> {c}, msg |-> direct]
            rest == [i \in DOMAIN ms |-> [to |-> Client, msg |-> ms[i]]]
            ps   == Outgoing(c, direct, ms)
<1>1. ps = <<h>> \o rest
  BY DEF Outgoing
<1>2. Len(ms) \in Nat /\ DOMAIN ms = 1 .. Len(ms)
  BY PostsFacts
<1>3. rest \in Seq({rest[i] : i \in DOMAIN ms}) /\ Len(rest) = Len(ms)
  BY <1>2
<1>4. \A i \in DOMAIN ms : rest[i].msg = ms[i]
  OBVIOUS
<1>5. h.to = {c} /\ h.msg = direct
  OBVIOUS
<1>. HIDE DEF h, rest, ps
<1>6. PICK hs : hs = <<h>> /\ hs \in Seq({h}) /\ Len(hs) = 1 /\ hs[1] = h
  <2>1. <<h>> \in Seq({h}) /\ Len(<<h>>) = 1 /\ <<h>>[1] = h
    OBVIOUS
  <2>. QED
    BY <2>1
<1>7. Posts(hs) /\ Posts(rest)
  BY <1>3, <1>6 DEF Posts
<1>8. /\ DOMAIN ps = 1 .. 1 + Len(ms) /\ ps[1] = h
      /\ \A i \in 1 .. Len(ms) : ps[1 + i] = rest[i]
  <2>1. ps = hs \o rest
    BY <1>1, <1>6
  <2>2. /\ DOMAIN ps = 1 .. Len(hs) + Len(rest)
        /\ \A i \in 1 .. Len(hs) : ps[i] = hs[i]
        /\ \A i \in 1 .. Len(rest) : ps[Len(hs) + i] = rest[i]
    BY <1>7, <2>1, PostsConcat
  <2>. QED
    BY <1>3, <1>6, <2>2
<1>9. ASSUME NEW i \in DOMAIN ps \ {1} PROVE \E j \in DOMAIN ms : ps[i].msg = ms[j]
  <2>1. i - 1 \in 1 .. Len(ms) /\ 1 + (i - 1) = i
    BY <1>2, <1>8
  <2>2. ps[i] = rest[i - 1]
    BY <1>8, <2>1
  <2>. QED
    BY <1>2, <1>4, <2>1, <2>2
<1>. QED
  BY <1>2, <1>5, <1>8, <1>9 DEF ps

\* The steps that send nothing and begin nothing,
LEMMA OwnersQuiet ==
  ASSUME NewsInvs, OwnersInv, NEW c \in Client, ClientStep(c), [AdapterNext]_adapterVars,
         told' = told, outbox'[c] = outbox[c],
         pc'[c] = "engine" => pc[c] = "engine" /\ order'.orderId = order.orderId,
         pc'[c] \in AfterCall => pc[c] \in AfterCall /\ call'[c] = call[c]
  PROVE  OwnersInv'
<1>1. \A id : Owns(c, id)' => Owns(c, id)
  BY DEF Owns
<1>2. AcceptsFor(c, outbox'[c]) /\ (pc'[c] \in AfterCall => NoneAccepted(Broadcasts(call'[c])))
  BY DEF OwnersInv, OwnerOK
<1>. QED
  BY <1>1, <1>2, OwnersStep

\* and those that prepare what is to be sent.
LEMMA OwnersPrepared ==
  ASSUME NewsInvs, OwnersInv, NEW c \in Client, ClientStep(c), [AdapterNext]_adapterVars,
         told' = told, pc'[c] = "sending",
         NEW direct, NEW ms, Posts(ms), NoneAccepted(ms), outbox'[c] = Outgoing(c, direct, ms),
         \A id : Accepts(direct, id) => Owns(c, id)
  PROVE  OwnersInv'
<1>1. PICK ps : ps = outbox'[c]
  OBVIOUS
<1>2. /\ 1 \in DOMAIN ps /\ ps[1].to = {c} /\ ps[1].msg = direct
      /\ \A i \in DOMAIN ps \ {1} : \E j \in DOMAIN ms : ps[i].msg = ms[j]
  BY <1>1, OutgoingParts
<1>3. \A i \in DOMAIN ps : ps[i].msg.type = "ORDER_ACCEPTED" => i = 1
  BY <1>2 DEF NoneAccepted
<1>4. AcceptsFor(c, ps)
  BY <1>2, <1>3 DEF AcceptsFor
<1>5. \A id : Owns(c, id)' => Owns(c, id)
  <2>1. \A id : \A i \in DOMAIN ps : Accepts(ps[i].msg, id) => Owns(c, id)
    BY <1>2, <1>3 DEF Accepts
  <2>2. \A id : Owns(c, id)' => \/ \E i \in DOMAIN ps : Accepts(ps[i].msg, id)
                                \/ \E i \in DOMAIN told[c] : Accepts(told[c][i], id)
    BY <1>1 DEF Owns, AfterCall, Accepts
  <2>. QED
    BY <2>1, <2>2 DEF Owns
<1>. QED
  BY <1>1, <1>4, <1>5, OwnersStep DEF AfterCall

LEMMA OwnersPlace ==
  ASSUME NewsInvs, OwnersInv, NEW c \in Client, NEW req \in PlaceOrderRequest,
         HandlePlaceOrder(c, req)
  PROVE  OwnersInv'
<1>. USE DEF NewsInvs
<1>1. ClientStep(c) /\ Functions /\ [AdapterNext]_adapterVars
  BY DEF ClientStep, HandlersInv, HandlePlaceOrder, AdapterNext
<1>2. /\ pc'[c] = "engine" /\ outbox' = outbox /\ told' = told /\ AdapterPlace(req)
  BY <1>1 DEF HandlePlaceOrder, Begin, Goto, Functions, IsOn
<1>3. PICK o : o = EngineOrder(req)
  OBVIOUS
<1>4. /\ o \in Order /\ submitted \in Seq(Order) /\ submitted' = Append(submitted, o)
      /\ order' = o /\ o.orderId \notin SubmittedIds
  BY <1>2, <1>3, PlacementAllowed DEF AdapterPlace, PlaceOrder, IdsBelowNext, Fresh, SubmittedIds
<1>5. o.orderId \in SubmittedIds'
  <2>1. o \in ToSet(submitted)'
    BY <1>4, AppendProperties DEF ToSet
  <2>. QED
    BY <2>1 DEF SubmittedIds
<1>6. \A id : Owns(c, id)' => Owns(c, id) \/ (id \notin SubmittedIds /\ id \in SubmittedIds')
  BY <1>2, <1>4, <1>5 DEF Owns, AfterCall
<1>7. AcceptsFor(c, outbox'[c])
  BY <1>2 DEF OwnersInv, OwnerOK
<1>. QED
  BY <1>1, <1>2, <1>6, <1>7, OwnersStep DEF AfterCall

LEMMA OwnersReturn ==
  ASSUME NewsInvs, OwnersInv, NEW c \in Client, EngineReturns(c)
  PROVE  OwnersInv'
<1>. USE DEF NewsInvs
<1>1. ClientStep(c) /\ Functions /\ [AdapterNext]_adapterVars /\ AdapterReply
  BY DEF ClientStep, Handler, HandlersInv, EngineReturns, AdapterNext
<1>2. /\ pc[c] = "engine" /\ pc'[c] = "returned" /\ call'[c] = result'
      /\ outbox' = outbox /\ told' = told
  BY <1>1 DEF EngineReturns, Goto, Functions, IsOn
<1>3. PICK r, ts, us : r = result' /\ ts = r.trades /\ us = Forwarded(r.orderUpdates)
  OBVIOUS
<1>4. /\ r.kind = "place" /\ r.orderId = order.orderId /\ Announces(PlaceBroadcasts(r), ts, us)
  BY <1>1, <1>3, ReplyNews DEF AdapterInv
<1>5. NoneAccepted(Broadcasts(r))
  <2>1. PICK bs : bs = Broadcasts(r)
    OBVIOUS
  <2>2. Announces(bs, ts, us)
    BY <1>4, <2>1 DEF Broadcasts
  <2>3. /\ \A t : TradeMsg(t).type = "TRADE"
        /\ \A u : UpdateMsg(u).type = "ORDER_STATUS"
    BY DEF TradeMsg, UpdateMsg, StatusMsg
  <2>. QED
    BY <2>1, <2>2, <2>3 DEF Announces, NoneAccepted
<1>6. \A id : Owns(c, id)' => Owns(c, id)
  BY <1>2, <1>3, <1>4 DEF Owns
<1>7. AcceptsFor(c, outbox'[c])
  BY <1>2 DEF OwnersInv, OwnerOK
<1>. QED
  BY <1>1, <1>2, <1>3, <1>5, <1>6, <1>7, OwnersStep

LEMMA CancelAcceptsNone ==
  ASSUME NEW r, r.kind = "cancel"
  PROVE  NoneAccepted(Broadcasts(r))
<1>1. PICK a, b : a = StatusMsg(r.orderId, "CANCELLED", 0) /\ b = BookMsg
  OBVIOUS
<1>2. a.type = "ORDER_STATUS" /\ b.type = "ORDER_BOOK"
  BY <1>1 DEF StatusMsg, BookMsg
<1>3. Broadcasts(r) = <<a, b>>
  BY <1>1 DEF Broadcasts
<1>. QED
  BY <1>2, <1>3 DEF NoneAccepted

LEMMA OwnersCancel ==
  ASSUME NewsInvs, OwnersInv, NEW c \in Client, NEW id \in OrderIds, HandleCancelOrder(c, id)
  PROVE  OwnersInv'
<1>. USE DEF NewsInvs
<1>1. ClientStep(c) /\ Functions /\ [AdapterNext]_adapterVars
  BY DEF ClientStep, HandlersInv, HandleCancelOrder, AdapterNext
<1>2. pc'[c] = "returned" /\ call'[c] = result' /\ outbox' = outbox /\ told' = told
  BY <1>1 DEF HandleCancelOrder, Begin, Goto, Functions, IsOn
<1>3. PICK r : r = result'
  OBVIOUS
<1>4. r.kind = "cancel"
  BY <1>3 DEF HandleCancelOrder, AdapterCancel, CancelResult
<1>5. \A x : Owns(c, x)' => Owns(c, x)
  BY <1>2, <1>3, <1>4 DEF Owns
<1>6. AcceptsFor(c, outbox'[c])
  BY <1>2 DEF OwnersInv, OwnerOK
<1>. QED
  BY <1>1, <1>2, <1>3, <1>4, <1>5, <1>6, CancelAcceptsNone, OwnersStep

LEMMA OwnersGetBook ==
  ASSUME NewsInvs, OwnersInv, NEW c \in Client, GetOrderBook(c)
  PROVE  OwnersInv'
<1>. USE DEF NewsInvs
<1>1. ClientStep(c) /\ Functions /\ [AdapterNext]_adapterVars /\ HandlerOK(c) /\ OwnerOK(c)
  BY DEF ClientStep, Handler, HandlersInv, GetOrderBook, OwnersInv
<1>2. /\ pc[c] = "book" /\ pc'[c] = "sending" /\ told' = told /\ outbox'[c] = HandleResult(c)
  BY <1>1 DEF GetOrderBook, Goto, Functions, IsOn
<1>3. PICK r, ms : r = call[c] /\ ms = Broadcasts(r)
  OBVIOUS
<1>4. r.kind \in {"place", "cancel"} /\ Posts(ms) /\ NoneAccepted(ms)
  BY <1>1, <1>2, <1>3 DEF HandlerOK, OwnerOK, AfterCall
<1>5. PICK direct : direct = Msg(IF r.kind = "place" THEN "ORDER_ACCEPTED" ELSE "ORDER_CANCELLED",
                                 r.orderId)
  OBVIOUS
<1>6. outbox'[c] = Outgoing(c, direct, ms)
  BY <1>2, <1>3, <1>4, <1>5 DEF HandleResult, Broadcasts
<1>7. \A id : Accepts(direct, id) => Owns(c, id)
  BY <1>2, <1>3, <1>4, <1>5 DEF Accepts, Msg, Owns, AfterCall
<1>. QED
  BY <1>1, <1>2, <1>4, <1>6, <1>7, OwnersPrepared

LEMMA OwnersSetActive ==
  ASSUME NewsInvs, OwnersInv, NEW c \in Client, SetActiveOrders(c)
  PROVE  OwnersInv'
<1>. USE DEF NewsInvs
<1>1. ClientStep(c) /\ Functions /\ [AdapterNext]_adapterVars
  BY DEF ClientStep, Handler, HandlersInv, SetActiveOrders
<1>2. pc[c] = "returned" /\ told' = told /\ call' = call
  BY DEF SetActiveOrders
<1>3. CASE Succeeded(call[c])
  <2>1. outbox' = outbox /\ pc'[c] \in {"recordOrder", "book"}
    BY <1>1, <1>3 DEF SetActiveOrders, Goto, Functions, IsOn
  <2>. QED
    BY <1>1, <1>2, <2>1, OwnersQuiet DEF AfterCall
<1>4. CASE ~Succeeded(call[c])
  <2>1. PICK direct, ms : direct = Rejected /\ ms = <<>>
    OBVIOUS
  <2>2. pc'[c] = "sending" /\ outbox'[c] = Outgoing(c, direct, ms)
    BY <1>1, <1>4, <2>1 DEF SetActiveOrders, Goto, Functions, IsOn
  <2>3. Posts(ms) /\ NoneAccepted(ms) /\ \A id : ~Accepts(direct, id)
    BY <2>1, EmptyMail DEF NoneAccepted, Accepts, Rejected
  <2>. QED
    BY <1>1, <1>2, <2>2, <2>3, OwnersPrepared
<1>. QED
  BY <1>3, <1>4

LEMMA OwnersLoad ==
  ASSUME NewsInvs, OwnersInv, NEW c \in Client, LoadCounter(c)
  PROVE  OwnersInv'
<1>. USE DEF NewsInvs
<1>1. ClientStep(c) /\ Functions /\ [AdapterNext]_adapterVars
  BY DEF ClientStep, Handler, HandlersInv, LoadCounter
<1>2. told' = told
  BY DEF LoadCounter
<1>3. \/ pc'[c] = "loading" /\ outbox'[c] = outbox[c]
      \/ pc'[c] = "sending" /\ \E x : outbox'[c] = Outgoing(c, [type |-> "METRICS", data |-> x], <<>>)
  BY <1>1, LoadedOrSent
<1>4. CASE pc'[c] = "loading" /\ outbox'[c] = outbox[c]
  BY <1>1, <1>2, <1>4, OwnersQuiet DEF AfterCall
<1>5. ASSUME pc'[c] = "sending",
             NEW x, outbox'[c] = Outgoing(c, [type |-> "METRICS", data |-> x], <<>>)
      PROVE  OwnersInv'
  <2>1. PICK direct, ms : direct = [type |-> "METRICS", data |-> x] /\ ms = <<>>
    OBVIOUS
  <2>2. Posts(ms) /\ NoneAccepted(ms) /\ \A id : ~Accepts(direct, id)
    BY <2>1, EmptyMail DEF NoneAccepted, Accepts
  <2>. QED
    BY <1>1, <1>2, <1>5, <2>1, <2>2, OwnersPrepared
<1>. QED
  BY <1>3, <1>4, <1>5

\* The engine's loop keeps the id of the order it matches.
LEMMA MatchKeepsId ==
  ASSUME EngineInvs, Match
  PROVE  order'.orderId = order.orderId
<1>1. PICK m, q : m = BestOrder(Opposite(order.side)) /\ q = TradeQuantity(m)
  OBVIOUS
<1>2. order \in Order /\ order' = [order EXCEPT !.remainingQuantity = @ - q]
  BY <1>1, MatchAccounts DEF EngineInvs
<1>3. PICK e, e1 : e = order /\ e1 = order'
  OBVIOUS
<1>4. e1.orderId = e.orderId
  BY <1>2, <1>3 DEF Order
<1>. QED
  BY <1>3, <1>4

LEMMA OwnersRest ==
  ASSUME NewsInvs, OwnersInv, NEW c \in Client,
         \/ HandleGetMetrics(c) \/ EngineStep(c) \/ RecordOrder(c) \/ RecordTrade(c)
         \/ RecordVolume(c)
  PROVE  OwnersInv'
<1>. USE DEF NewsInvs
<1>1. ClientStep(c) /\ Functions
  BY DEF ClientStep, Handler, HandlersInv
<1>2. [AdapterNext]_adapterVars
  BY DEF HandleGetMetrics, EngineStep, RecordOrder, RecordTrade, RecordVolume, AdapterNext
<1>3. told' = told /\ outbox' = outbox /\ call' = call
  BY DEF HandleGetMetrics, EngineStep, RecordOrder, RecordTrade, RecordVolume, handlerVars
<1>4. /\ pc'[c] = "engine" => pc[c] = "engine" /\ order'.orderId = order.orderId
      /\ pc'[c] \in AfterCall => pc[c] \in AfterCall
  <2>1. CASE HandleGetMetrics(c)
    BY <1>1, <2>1 DEF HandleGetMetrics, Begin, Goto, Functions, IsOn, AfterCall
  <2>2. CASE EngineStep(c)
    <3>1. pc[c] = "engine" /\ pc' = pc /\ AdapterMatch
      BY <2>2 DEF EngineStep, handlerVars
    <3>2. order'.orderId = order.orderId
      BY <3>1, MatchKeepsId DEF AdapterMatch
    <3>. QED
      BY <3>1, <3>2
  <2>3. CASE RecordOrder(c) \/ RecordTrade(c) \/ RecordVolume(c)
    <3>1. pc[c] \in AfterCall /\ pc'[c] \in AfterCall
      BY <1>1, <2>3 DEF RecordOrder, RecordTrade, RecordVolume, Goto, Functions, IsOn, AfterCall
    <3>. QED
      BY <3>1 DEF AfterCall
  <2>. QED
    BY <2>1, <2>2, <2>3
<1>. QED
  BY <1>1, <1>2, <1>3, <1>4, OwnersQuiet

\* The first message goes to the first it is for; the rest is as it was.
LEMMA SendAccepts ==
  ASSUME NEW ps, Parceled(ps), ps # <<>>, ParcelsOnce(ps)
  PROVE  LET t    == Min(ps[1].to)
             left == ps[1].to \ {t}
             qs   == IF left = {} THEN Tail(ps) ELSE [ps EXCEPT ![1].to = left]
         IN  /\ t \in ps[1].to
             /\ \A j \in DOMAIN qs : \E i \in DOMAIN ps : /\ qs[j].msg = ps[i].msg
                                                          /\ qs[j].to \subseteq ps[i].to
<1>. DEFINE t    == Min(ps[1].to)
            left == ps[1].to \ {t}
            qs   == IF left = {} THEN Tail(ps) ELSE [ps EXCEPT ![1].to = left]
<1>1. PICK S : ps \in Seq(Parcels(S))
  BY DEF Parceled
<1>2. /\ 1 \in DOMAIN ps /\ Len(ps) \in Nat /\ DOMAIN ps = 1 .. Len(ps)
      /\ \A i \in DOMAIN ps : ps[i] \in Parcels(S)
  BY <1>1
<1>3. t \in ps[1].to
  <2>1. ps[1].to \in SUBSET Client /\ ps[1].to # {}
    BY <1>2 DEF Parcels
  <2>. QED
    BY <2>1, LeastOfClients
<1>. DEFINE Kept == \A j \in DOMAIN qs : \E i \in DOMAIN ps : /\ qs[j].msg = ps[i].msg
                                                              /\ qs[j].to \subseteq ps[i].to
<1>4. ASSUME left = {} PROVE Kept
  <2>1. \A j \in DOMAIN Tail(ps) : j + 1 \in DOMAIN ps /\ Tail(ps)[j] = ps[j + 1]
    BY <1>1, <1>2
  <2>2. qs = Tail(ps)
    BY <1>4
  <2>. HIDE DEF qs
  <2>. QED
    BY <2>1, <2>2
<1>5. ASSUME left # {} PROVE Kept
  <2>1. /\ DOMAIN qs = DOMAIN ps /\ \A j \in DOMAIN ps \ {1} : qs[j] = ps[j]
        /\ qs[1] = [ps[1] EXCEPT !.to = left]
    BY <1>2, <1>5
  <2>2. left \subseteq ps[1].to
    OBVIOUS
  <2>. HIDE DEF qs, left
  <2>3. qs[1].msg = ps[1].msg /\ qs[1].to = left
    BY <1>2, <2>1 DEF Parcels
  <2>4. \A j \in DOMAIN qs : j \in DOMAIN ps /\ qs[j].msg = ps[j].msg /\ qs[j].to \subseteq ps[j].to
    BY <2>1, <2>2, <2>3
  <2>. QED
    BY <2>4
<1>. QED
  BY <1>3, <1>4, <1>5

LEMMA OwnersSend ==
  ASSUME NewsInvs, OwnersInv, NEW c \in Client, SendOne(c)
  PROVE  OwnersInv'
<1>. USE DEF NewsInvs
<1>1. ClientStep(c) /\ Functions /\ [AdapterNext]_adapterVars /\ HandlerOK(c) /\ OwnerOK(c)
  BY DEF ClientStep, Handler, HandlersInv, SendOne, OwnersInv
<1>2. PICK ps : ps = outbox[c]
  OBVIOUS
<1>3. pc[c] = "sending" /\ Parceled(ps) /\ ParcelsOnce(ps) /\ ps # <<>> /\ AcceptsFor(c, ps)
  BY <1>1, <1>2 DEF HandlerOK, SendOne, OwnerOK
<1>. DEFINE t    == Min(ps[1].to)
            left == ps[1].to \ {t}
            m    == ps[1].msg
            qs   == IF left = {} THEN Tail(ps) ELSE [ps EXCEPT ![1].to = left]
<1>4. /\ t \in Client /\ 1 \in DOMAIN ps /\ Head(ps) = ps[1] /\ t \in ps[1].to
      /\ \A j \in DOMAIN qs : \E i \in DOMAIN ps : /\ qs[j].msg = ps[i].msg
                                                   /\ qs[j].to \subseteq ps[i].to
  BY <1>3, SendFirst, SendAccepts
<1>5. outbox'[c] = qs /\ told' = [told EXCEPT ![t] = Append(told[t], m)]
  BY <1>1, <1>2, <1>4 DEF SendOne, Functions, IsOn
<1>6. pc'[c] \in {"idle", "sending"}
  BY <1>1, <1>3 DEF SendOne, Goto, Functions, IsOn
<1>7. m.type = "ORDER_ACCEPTED" => t = c
  BY <1>3, <1>4 DEF AcceptsFor
<1>. HIDE DEF t, m, qs
<1>8. AcceptsFor(c, outbox'[c])
  BY <1>3, <1>4, <1>5 DEF AcceptsFor
<1>9. ASSUME NEW d \in Client
      PROVE  /\ d # t => told'[d] = told[d]
             /\ d = t => \A i \in DOMAIN told'[d] :
                            \/ i \in DOMAIN told[d] /\ told'[d][i] = told[d][i]
                            \/ told'[d][i] = m
  <2>1. d # t => told'[d] = told[d]
    BY <1>1, <1>5 DEF Functions, IsOn
  <2>2. CASE d = t
    <3>1. PICK ms, ns : ms = told[d] /\ ns = Append(ms, m)
      OBVIOUS
    <3>2. told'[d] = ns /\ Posts(ms)
      BY <1>1, <1>5, <2>2, <3>1 DEF Functions, IsOn, HandlersInv
    <3>3. /\ Len(ms) \in Nat /\ DOMAIN ms = 1 .. Len(ms) /\ DOMAIN ns = 1 .. Len(ms) + 1
          /\ \A i \in 1 .. Len(ms) : ns[i] = ms[i]
          /\ ns[Len(ms) + 1] = m
      BY <3>1, <3>2, PostsAppend
    <3>4. \A i \in DOMAIN ns : i \in DOMAIN ms \/ i = Len(ms) + 1
      BY <3>3
    <3>. QED
      BY <2>2, <3>1, <3>2, <3>3, <3>4
  <2>. QED
    BY <2>1, <2>2
<1>10. \A e \in Client \ {c} : \A i \in DOMAIN told'[e] :
          \/ i \in DOMAIN told[e] /\ told'[e][i] = told[e][i]
          \/ told'[e][i].type # "ORDER_ACCEPTED"
  BY <1>7, <1>9
<1>11. \A id : Owns(c, id)' => Owns(c, id)
  <2>1. ASSUME NEW id, NEW i \in DOMAIN outbox'[c], Accepts(outbox'[c][i].msg, id)
        PROVE  Owns(c, id)
    <3>1. \E j \in DOMAIN ps : Accepts(ps[j].msg, id)
      BY <1>4, <1>5, <2>1
    <3>. QED
      BY <1>2, <3>1 DEF Owns
  <2>2. ASSUME NEW id, NEW i \in DOMAIN told'[c], Accepts(told'[c][i], id)
        PROVE  Owns(c, id)
    <3>1. (\E j \in DOMAIN told[c] : Accepts(told[c][j], id)) \/ Accepts(m, id)
      BY <1>9, <2>2
    <3>2. Accepts(m, id) => \E j \in DOMAIN ps : Accepts(ps[j].msg, id)
      BY <1>4 DEF m
    <3>. QED
      BY <1>2, <3>1, <3>2 DEF Owns
  <2>. QED
    BY <1>6, <2>1, <2>2 DEF Owns, AfterCall, Accepts
<1>. QED
  BY <1>1, <1>6, <1>8, <1>10, <1>11, OwnersStep DEF AfterCall

LEMMA OwnersKept ==
  ASSUME NewsInvs, OwnersInv, [ServerNext \/ AllAnswered]_serverVars
  PROVE  OwnersInv'
<1>1. ASSUME NEW c \in Client, ClientStep(c) PROVE OwnersInv'
  BY <1>1, OwnersPlace, OwnersCancel, OwnersReturn, OwnersSetActive, OwnersGetBook, OwnersSend,
     OwnersLoad, OwnersRest DEF ClientStep, Handler
<1>2. CASE UNCHANGED serverVars
  <2>1. /\ pc' = pc /\ call' = call /\ outbox' = outbox /\ told' = told /\ order' = order
        /\ submitted' = submitted
    BY <1>2 DEF serverVars, handlerVars, adapterVars, engineVars
  <2>2. \A c, id : Owns(c, id)' <=> Owns(c, id)
    BY <2>1 DEF Owns
  <2>3. SubmittedIds' = SubmittedIds
    BY <2>1 DEF SubmittedIds
  <2>4. \A c \in Client : OwnerOK(c)'
    BY <2>1, <2>2, <2>3 DEF OwnersInv, OwnerOK
  <2>5. \A c \in Client : Exclusively(c)'
    BY <2>2 DEF OwnersInv, Exclusively
  <2>. QED
    BY <2>4, <2>5 DEF OwnersInv
<1>. QED
  BY <1>1, <1>2 DEF ServerNext, AllAnswered, ClientStep

LEMMA OwnersInit == ServerInit => OwnersInv
<1>. SUFFICES ASSUME ServerInit PROVE OwnersInv
  OBVIOUS
<1>1. \A c \in Client : pc[c] = "idle" /\ outbox[c] = <<>> /\ told[c] = <<>>
  BY DEF ServerInit
<1>2. \A c \in Client : \A id : ~Owns(c, id)
  BY <1>1 DEF Owns, AfterCall
<1>. QED
  BY <1>1, <1>2 DEF OwnersInv, OwnerOK, Exclusively, AcceptsFor, AfterCall

\* An order is one client's: nobody is told of the acceptance of another's.
LEMMA OwnersInvariant == ServerSpec => []OwnersInv
<1>1. NewsInvs /\ OwnersInv /\ [ServerNext \/ AllAnswered]_serverVars => OwnersInv'
  BY OwnersKept
<1>. QED
  BY <1>1, OwnersInit, NewsInvariant, PTL DEF ServerSpec

-----------------------------------------------------------------------------
(* The lists of the terminal.                                              *)

\* r is the first n of x and then s.
IsPrepended(r, x, s, n) ==
    /\ Posts(r) /\ Len(s) \in Nat
    /\ Len(r) = IF n < Len(s) + 1 THEN n ELSE Len(s) + 1
    /\ DOMAIN r = 1 .. Len(r) /\ DOMAIN s = 1 .. Len(s)
    /\ \A i \in DOMAIN r : IF i = 1 THEN r[i] = x ELSE i - 1 \in DOMAIN s /\ r[i] = s[i - 1]

LEMMA Prepended ==
  ASSUME NEW x, NEW s, Posts(s), NEW n \in Nat
  PROVE  IsPrepended(Slice(<<x>> \o s, n), x, s, n)
<1>1. PICK xs : xs = <<x>> /\ xs \in Seq({x}) /\ Len(xs) = 1 /\ xs[1] = x
  <2>1. <<x>> \in Seq({x}) /\ Len(<<x>>) = 1 /\ <<x>>[1] = x
    OBVIOUS
  <2>. QED
    BY <2>1
<1>2. PICK all : all = xs \o s
  OBVIOUS
<1>3. /\ Posts(all) /\ Len(s) \in Nat /\ DOMAIN s = 1 .. Len(s)
      /\ DOMAIN all = 1 .. 1 + Len(s) /\ all[1] = x
      /\ \A i \in 1 .. Len(s) : all[1 + i] = s[i]
  <2>1. Posts(xs)
    BY <1>1 DEF Posts
  <2>2. /\ Posts(all) /\ Len(s) \in Nat /\ DOMAIN s = 1 .. Len(s)
        /\ DOMAIN all = 1 .. Len(xs) + Len(s)
        /\ \A i \in 1 .. Len(xs) : all[i] = xs[i]
        /\ \A i \in 1 .. Len(s) : all[Len(xs) + i] = s[i]
    BY <1>2, <2>1, PostsConcat
  <2>. QED
    BY <1>1, <2>2
<1>4. PICK k : k = IF n < Len(s) + 1 THEN n ELSE Len(s) + 1
  OBVIOUS
<1>5. Len(all) = Len(s) + 1 /\ k \in Nat /\ k <= Len(all)
  <2>1. Len(all) \in Nat /\ DOMAIN all = 1 .. Len(all)
    BY <1>3, PostsFacts
  <2>. QED
    BY <1>3, <1>4, <2>1
<1>6. PICK r : r = SubSeq(all, 1, k)
  OBVIOUS
<1>7. Slice(<<x>> \o s, n) = r
  BY <1>1, <1>2, <1>4, <1>5, <1>6 DEF Slice
<1>8. Posts(r) /\ Len(r) = k /\ DOMAIN r = 1 .. k /\ \A i \in 1 .. k : r[i] = all[i]
  <2>1. PICK S : all \in Seq(S)
    BY <1>3 DEF Posts
  <2>2. r = [i \in 1 .. k |-> all[i]]
    BY <1>5, <1>6, <2>1
  <2>3. \A i \in 1 .. k : all[i] \in S
    BY <1>3, <1>5, <2>1
  <2>4. r \in Seq(S) /\ Len(r) = k
    BY <1>5, <2>2, <2>3
  <2>. QED
    BY <2>2, <2>4 DEF Posts
<1>9. ASSUME NEW i \in 1 .. k
      PROVE  IF i = 1 THEN r[i] = x ELSE i - 1 \in DOMAIN s /\ r[i] = s[i - 1]
  <2>1. CASE i = 1
    BY <1>3, <1>8, <2>1
  <2>2. CASE i # 1
    <3>1. i - 1 \in 1 .. Len(s) /\ 1 + (i - 1) = i
      BY <1>3, <1>5, <2>2
    <3>2. all[i] = s[i - 1]
      BY <1>3, <3>1
    <3>. QED
      BY <1>3, <1>8, <2>2, <3>1, <3>2
  <2>. QED
    BY <2>1, <2>2
<1>10. IsPrepended(r, x, s, n)
  BY <1>3, <1>4, <1>8, <1>9 DEF IsPrepended
<1>. QED
  BY <1>7, <1>10

\* f holds the rows other than id's of the first m orders.
IsWithout(f, m, orders, id) ==
    f = [n \in 0 .. m |-> IF n = 0 THEN <<>>
                          ELSE IF orders[n].id # id
                          THEN Append(f[n - 1], orders[n]) ELSE f[n - 1]]

LEMMA WithoutExists ==
  ASSUME NEW orders, NEW id
  PROVE  \A m \in Nat : \E f : IsWithout(f, m, orders, id)
<1>. DEFINE Has(k) == \E f : IsWithout(f, k, orders, id)
            Lacks == {k \in Nat : ~Has(k)}
<1>. SUFFICES ASSUME Lacks # {} PROVE FALSE
  OBVIOUS
<1>1. PICK k \in Lacks : \A l \in Lacks : k <= l
  <2>1. Lacks \in SUBSET Nat
    OBVIOUS
  <2>. HIDE DEF Lacks
  <2>. QED
    BY <2>1, LeastExists
<1>2. CASE k = 0
  <2>1. IsWithout([n \in 0 .. 0 |-> <<>>], 0, orders, id)
    BY DEF IsWithout
  <2>. QED
    BY <1>2, <2>1
<1>3. CASE k # 0
  <2>1. k - 1 \in Nat /\ k - 1 \notin Lacks
    BY <1>1, <1>3
  <2>2. PICK f : IsWithout(f, k - 1, orders, id)
    BY <2>1
  <2>. DEFINE last == IF orders[k].id # id
                      THEN Append(f[k - 1], orders[k]) ELSE f[k - 1]
              g == [n \in 0 .. k |-> IF n = k THEN last ELSE f[n]]
  <2>3. IsWithout(g, k, orders, id)
    <3>1. \A n \in 0 .. k - 1 : f[n] = IF n = 0 THEN <<>>
                                       ELSE IF orders[n].id # id
                                       THEN Append(f[n - 1], orders[n]) ELSE f[n - 1]
      BY <2>2 DEF IsWithout
    <3>2. \A n \in 0 .. k : g[n] = IF n = 0 THEN <<>>
                                   ELSE IF orders[n].id # id
                                   THEN Append(g[n - 1], orders[n]) ELSE g[n - 1]
      BY <1>3, <3>1
    <3>. QED
      BY <3>2 DEF IsWithout
  <2>. QED
    BY <2>3
<1>. QED
  BY <1>2, <1>3

\* No order is in two rows.
RowsApart(rows) == \A i, j \in DOMAIN rows : rows[i].id = rows[j].id => i = j

\* The rows of orders up to the n-th, without id's.
IsRest(rows, orders, n, id) ==
    /\ Posts(rows) /\ RowsApart(rows) /\ Len(rows) <= n
    /\ \A i \in DOMAIN rows : \E k \in 1 .. n : rows[i] = orders[k] /\ orders[k].id # id
    /\ \A k \in 1 .. n : IF orders[k].id # id THEN \E i \in DOMAIN rows : rows[i] = orders[k]
                                              ELSE Len(rows) < n

LEMMA RestGrows ==
  ASSUME NEW orders, NEW n \in Nat, NEW id, NEW rows, IsRest(rows, orders, n, id),
         \A k \in 1 .. n : orders[k].id # orders[n + 1].id
  PROVE  IsRest(IF orders[n + 1].id # id THEN Append(rows, orders[n + 1]) ELSE rows,
                orders, n + 1, id)
<1>1. /\ Posts(rows) /\ Len(rows) \in Nat /\ DOMAIN rows = 1 .. Len(rows) /\ Len(rows) <= n
  BY PostsFacts DEF IsRest
<1>2. ASSUME orders[n + 1].id = id PROVE IsRest(rows, orders, n + 1, id)
  <2>1. \A k \in 1 .. n + 1 : k \in 1 .. n \/ k = n + 1
    OBVIOUS
  <2>2. \A k \in 1 .. n : k \in 1 .. n + 1
    OBVIOUS
  <2>3. \A i \in DOMAIN rows : \E k \in 1 .. n + 1 : rows[i] = orders[k] /\ orders[k].id # id
    BY <2>2 DEF IsRest
  <2>4. \A k \in 1 .. n + 1 : IF orders[k].id # id THEN \E i \in DOMAIN rows : rows[i] = orders[k]
                                                  ELSE Len(rows) < n + 1
    <3>1. \A k \in 1 .. n : IF orders[k].id # id THEN \E i \in DOMAIN rows : rows[i] = orders[k]
                                                 ELSE Len(rows) < n
      BY DEF IsRest
    <3>2. Len(rows) < n + 1
      BY <1>1
    <3>. QED
      BY <1>2, <2>1, <3>1, <3>2
  <2>5. Posts(rows) /\ RowsApart(rows) /\ Len(rows) <= n + 1
    BY <1>1 DEF IsRest
  <2>. QED
    BY <2>3, <2>4, <2>5 DEF IsRest
<1>3. ASSUME orders[n + 1].id # id PROVE IsRest(Append(rows, orders[n + 1]), orders, n + 1, id)
  <2>1. PICK o, more : o = orders[n + 1] /\ more = Append(rows, o)
    OBVIOUS
  <2>2. /\ Posts(more) /\ DOMAIN more = 1 .. Len(rows) + 1
        /\ \A i \in 1 .. Len(rows) : more[i] = rows[i]
        /\ more[Len(rows) + 1] = o
    BY <1>1, <2>1, PostsAppend
  <2>3. Len(more) = Len(rows) + 1
    <3>1. Len(more) \in Nat /\ DOMAIN more = 1 .. Len(more)
      BY <2>2, PostsFacts
    <3>. QED
      BY <1>1, <2>2, <3>1
  <2>4. \A i \in DOMAIN more : i \in DOMAIN rows \/ i = Len(rows) + 1
    BY <1>1, <2>2
  <2>5. \A k \in 1 .. n + 1 : k \in 1 .. n \/ k = n + 1
    OBVIOUS
  <2>6. \A i \in DOMAIN rows : i \in DOMAIN more /\ more[i] = rows[i]
    BY <1>1, <2>2
  <2>7. \A i \in DOMAIN rows : rows[i].id # o.id
    BY <2>1 DEF IsRest
  <2>8. RowsApart(more)
    <3>1. RowsApart(rows)
      BY DEF IsRest
    <3>. QED
      BY <2>2, <2>4, <2>6, <2>7, <3>1 DEF RowsApart
  <2>9. \A i \in DOMAIN more : \E k \in 1 .. n + 1 : more[i] = orders[k] /\ orders[k].id # id
    <3>1. \A i \in DOMAIN rows : \E k \in 1 .. n : rows[i] = orders[k] /\ orders[k].id # id
      BY DEF IsRest
    <3>2. n + 1 \in 1 .. n + 1 /\ \A k \in 1 .. n : k \in 1 .. n + 1
      OBVIOUS
    <3>. QED
      BY <1>3, <2>1, <2>2, <2>4, <2>6, <3>1, <3>2
  <2>10. \A k \in 1 .. n + 1 : IF orders[k].id # id THEN \E i \in DOMAIN more : more[i] = orders[k]
                                                   ELSE Len(more) < n + 1
    <3>1. \A k \in 1 .. n : IF orders[k].id # id THEN \E i \in DOMAIN rows : rows[i] = orders[k]
                                                 ELSE Len(rows) < n
      BY DEF IsRest
    <3>2. Len(rows) + 1 \in DOMAIN more
      BY <1>1, <2>2
    <3>. QED
      BY <1>1, <1>3, <2>1, <2>2, <2>3, <2>5, <2>6, <3>1, <3>2
  <2>11. Len(more) <= n + 1
    BY <1>1, <2>3
  <2>12. IsRest(more, orders, n + 1, id)
    BY <2>2, <2>8, <2>9, <2>10, <2>11 DEF IsRest
  <2>. QED
    BY <2>1, <2>12
<1>. QED
  BY <1>2, <1>3

LEMMA WithoutIs ==
  ASSUME NEW orders, Posts(orders), RowsApart(orders), NEW id
  PROVE  IsRest(Without(orders, id), orders, Len(orders), id)
<1>. DEFINE N == Len(orders)
            f == CHOOSE f : IsWithout(f, N, orders, id)
<1>1. N \in Nat /\ DOMAIN orders = 1 .. N
  BY PostsFacts
<1>2. IsWithout(f, N, orders, id)
  BY <1>1, WithoutExists
<1>3. Without(orders, id) = f[N]
  BY DEF Without, IsWithout
<1>. HIDE DEF f, N
<1>4. \A n \in 0 .. N : f[n] = IF n = 0 THEN <<>>
                               ELSE IF orders[n].id # id
                               THEN Append(f[n - 1], orders[n]) ELSE f[n - 1]
  BY <1>2 DEF IsWithout
<1>. DEFINE Odd == {n \in 0 .. N : ~IsRest(f[n], orders, n, id)}
<1>5. Odd = {}
  <2>. SUFFICES ASSUME Odd # {} PROVE FALSE
    OBVIOUS
  <2>1. PICK n \in Odd : \A l \in Odd : n <= l
    <3>1. Odd \in SUBSET Nat
      BY <1>1
    <3>. HIDE DEF Odd
    <3>. QED
      BY <3>1, LeastExists
  <2>2. n # 0
    <3>1. f[0] = <<>> /\ Posts(<<>>) /\ DOMAIN <<>> = {} /\ Len(<<>>) = 0
      BY <1>1, <1>4, EmptyMail
    <3>2. IsRest(f[0], orders, 0, id)
      BY <3>1 DEF IsRest, RowsApart
    <3>. QED
      BY <2>1, <3>2
  <2>3. n \in Nat /\ n - 1 \in 0 .. N /\ n - 1 \in Nat /\ n \in 1 .. N /\ (n - 1) + 1 = n /\ ~(n <= n - 1)
    BY <1>1, <2>1, <2>2
  <2>4. IsRest(f[n - 1], orders, n - 1, id)
    BY <2>1, <2>3
  <2>5. f[n] = IF orders[n].id # id THEN Append(f[n - 1], orders[n]) ELSE f[n - 1]
    BY <1>4, <2>2, <2>3
  <2>6. \A k \in 1 .. n - 1 : orders[k].id # orders[n].id
    <3>1. \A k \in 1 .. n - 1 : k \in 1 .. N /\ k # n
      BY <1>1, <2>3
    <3>. QED
      BY <1>1, <2>3, <3>1 DEF RowsApart
  <2>7. PICK l, rows : l = n - 1 /\ rows = f[n - 1]
    OBVIOUS
  <2>8. IsRest(IF orders[l + 1].id # id THEN Append(rows, orders[l + 1]) ELSE rows, orders, l + 1, id)
    BY <2>3, <2>4, <2>6, <2>7, RestGrows
  <2>. QED
    BY <2>1, <2>3, <2>5, <2>7, <2>8
<1>6. IsRest(f[N], orders, N, id)
  BY <1>1, <1>5
<1>. QED
  BY <1>3, <1>6 DEF N

-----------------------------------------------------------------------------
(* What the terminal has made of what it was told.                         *)

\* A row shows no less than its order has left, and FILLED only at the end.
RowHolds(o) ==
    \E x \in ToSet(submitted) :
        /\ x.orderId = o.id /\ o.remaining \in Int /\ o.remaining >= Unfilled(x)
        /\ o.status = "FILLED" => Unfilled(x) = 0

RowOK(o) == RowHolds(o) /\ \E i \in DOMAIN told[Viewer] : Accepts(told[Viewer][i], o.id)

RowsOK(rows) == /\ Posts(rows) /\ RowsApart(rows) /\ Len(rows) <= MaxListed
                /\ \A i \in DOMAIN rows : RowOK(rows[i])

\* A message that the terminal has got so far is about the trade id.
TradeSeen(id) ==
    \E i \in 1 .. rendered : told[Viewer][i].type = "TRADE" /\ told[Viewer][i].id = id

Unseen == {i \in DOMAIN recentTrades : ~TradeSeen(i)}

TradesOK(ids) == /\ Posts(ids) /\ \A i, j \in DOMAIN ids : ids[i] = ids[j] => i = j
                 /\ \A i \in DOMAIN ids : TradeSeen(ids[i])

VolumeOK(v) == v \in Nat /\ v <= Total(Volumes(Unseen))

TerminalInv == /\ rendered \in 0 .. Len(told[Viewer])
               /\ RowsOK(openOrders) /\ TradesOK(trades) /\ VolumeOK(volume)

\* What the rows of orders became, and why one of them is gone.
Gone(orders, rows) ==
    \/ \A i \in DOMAIN orders : \/ \E j \in DOMAIN rows : rows[j].id = orders[i].id
                                \/ orders[i].id \in cancelled
    \/ /\ Len(orders) = MaxListed
       /\ \E j \in DOMAIN rows : \A i \in DOMAIN orders : orders[i].id # rows[j].id

\* What is known of the messages to the viewer.
LEMMA ToldFacts ==
  ASSUME ServedInv, NEW n \in DOMAIN told[Viewer], NEW m, m = told[Viewer][n]
  PROVE  /\ m.type = "ORDER_ACCEPTED" => \E o \in ToSet(submitted) : o.orderId = m.id
         /\ Removes(m) => m.id \in cancelled
         /\ m.type = "ORDER_STATUS" /\ ~Removes(m) =>
               StatusHolds(m) /\ (m.status = "FILLED" => Spent(m.id))
         /\ m.type = "TRADE" => /\ m.id \in DOMAIN recentTrades
                                /\ m.quantity = recentTrades[m.id].quantity
<1>. USE DEF ServedInv
<1>1. Viewer \in Client
  BY TerminalAssumption
<1>2. TrueMsg(m)
  BY <1>1 DEF AnnouncedInv, AnnouncedOK, TrueMsgs
<1>3. Item(m) # Nothing => Item(m) \in Happened
  <2>1. Items(told[Viewer]) \subseteq Happened
    BY <1>1 DEF NewsInvs, NewsInv, Flow
  <2>. QED
    BY <2>1 DEF Items
<1>4. m.type = "ORDER_ACCEPTED" => \E o \in ToSet(submitted) : o.orderId = m.id
  <2>. SUFFICES ASSUME m.type = "ORDER_ACCEPTED" PROVE \E o \in ToSet(submitted) : o.orderId = m.id
    OBVIOUS
  <2>1. PICK o \in Processed : m = Msg("ORDER_ACCEPTED", o.orderId)
    BY <1>2 DEF TrueMsg
  <2>2. o \in ToSet(submitted)
    BY DEF Processed, ServedOrders
  <2>3. m.id = o.orderId
    BY <2>1 DEF Msg
  <2>. QED
    BY <2>2, <2>3
<1>5. \A id : /\ <<"FILLED", id>> \in Happened => Spent(id)
              /\ <<"CANCELLED", id>> \in Happened => id \in cancelled
  BY InSpentIds DEF Happened, News
<1>6. m.type = "ORDER_STATUS" /\ m.status = "CANCELLED" => m.id \in cancelled
  BY <1>3, <1>5 DEF Item, IsTrade, IsFilled, IsCancelled, Nothing
<1>7. m.type = "ORDER_STATUS" /\ m.status = "FILLED" => Spent(m.id)
  BY <1>3, <1>5 DEF Item, IsTrade, IsFilled, IsCancelled, Nothing
<1>8. m.type = "TRADE" => m.id \in DOMAIN recentTrades /\ m.quantity = recentTrades[m.id].quantity
  <2>. SUFFICES ASSUME m.type = "TRADE"
                PROVE  m.id \in DOMAIN recentTrades /\ m.quantity = recentTrades[m.id].quantity
    OBVIOUS
  <2>1. PICK i \in DOMAIN recentTrades : m = TradeMsg(recentTrades[i])
    BY <1>2 DEF TrueMsg
  <2>2. recentTrades[i].tradeId = i
    BY DEF NewsInvs, HistoryInv, TradesNumbered
  <2>3. m.id = i /\ m.quantity = recentTrades[i].quantity
    BY <2>1, <2>2 DEF TradeMsg
  <2>. QED
    BY <2>3
<1>. QED
  BY <1>2, <1>4, <1>6, <1>7, <1>8 DEF TrueMsg, Removes

\* The orders on the list, by the three things a message does to it.
LEMMA RowsAccepted ==
  ASSUME NEW orders, RowsOK(orders), NEW x, RowOK(x)
  PROVE  LET rows == Slice(<<x>> \o Without(orders, x.id), MaxListed)
         IN  RowsOK(rows) /\ Gone(orders, rows)
<1>1. PICK w : w = Without(orders, x.id)
  OBVIOUS
<1>2. PICK rows : rows = Slice(<<x>> \o w, MaxListed)
  OBVIOUS
<1>3. MaxListed \in Nat /\ Len(orders) \in Nat /\ DOMAIN orders = 1 .. Len(orders) /\ Len(orders) <= MaxListed
  BY TerminalAssumption, PostsFacts DEF RowsOK
<1>4. IsRest(w, orders, Len(orders), x.id)
  BY <1>1, WithoutIs DEF RowsOK
<1>5. /\ Posts(w) /\ RowsApart(w) /\ Len(w) <= Len(orders)
      /\ \A i \in DOMAIN w : \E k \in DOMAIN orders : w[i] = orders[k] /\ orders[k].id # x.id
      /\ \A k \in DOMAIN orders : IF orders[k].id # x.id THEN \E i \in DOMAIN w : w[i] = orders[k]
                                  ELSE Len(w) < Len(orders)
  BY <1>3, <1>4 DEF IsRest
<1>6. /\ Posts(rows) /\ Len(w) \in Nat
      /\ Len(rows) = IF MaxListed < Len(w) + 1 THEN MaxListed ELSE Len(w) + 1
      /\ DOMAIN rows = 1 .. Len(rows) /\ DOMAIN w = 1 .. Len(w)
      /\ \A i \in DOMAIN rows : IF i = 1 THEN rows[i] = x ELSE i - 1 \in DOMAIN w /\ rows[i] = w[i - 1]
  <2>1. IsPrepended(rows, x, w, MaxListed)
    BY <1>2, <1>3, <1>5, Prepended
  <2>. QED
    BY <2>1 DEF IsPrepended
<1>7. RowsApart(rows)
  <2>1. ASSUME NEW i \in DOMAIN rows, NEW j \in DOMAIN rows, rows[i].id = rows[j].id PROVE i = j
    <3>1. \A k \in DOMAIN rows \ {1} : rows[k].id # x.id
      BY <1>5, <1>6
    <3>2. CASE i = 1 \/ j = 1
      BY <1>6, <2>1, <3>1, <3>2
    <3>3. CASE i # 1 /\ j # 1
      <4>1. i - 1 \in DOMAIN w /\ rows[i] = w[i - 1] /\ j - 1 \in DOMAIN w /\ rows[j] = w[j - 1]
        BY <1>6, <3>3
      <4>2. i - 1 = j - 1
        BY <1>5, <2>1, <4>1 DEF RowsApart
      <4>. QED
        BY <1>6, <4>2
    <3>. QED
      BY <3>2, <3>3
  <2>. QED
    BY <2>1 DEF RowsApart
<1>8. \A i \in DOMAIN rows : RowOK(rows[i])
  <2>1. \A i \in DOMAIN w : RowOK(w[i])
    BY <1>5 DEF RowsOK
  <2>. QED
    BY <1>6, <2>1
<1>9. RowsOK(rows)
  BY <1>3, <1>6, <1>7, <1>8 DEF RowsOK
<1>10. CASE Len(w) + 1 <= MaxListed
  <2>1. Len(rows) = Len(w) + 1 /\ 1 \in DOMAIN rows
    BY <1>3, <1>6, <1>10
  <2>2. \A i \in DOMAIN w : i + 1 \in DOMAIN rows /\ i + 1 # 1 /\ (i + 1) - 1 = i
    BY <1>6, <2>1
  <2>3. \A i \in DOMAIN w : i + 1 \in DOMAIN rows /\ rows[i + 1] = w[i]
    BY <1>6, <2>2
  <2>4. ASSUME NEW k \in DOMAIN orders PROVE \E j \in DOMAIN rows : rows[j].id = orders[k].id
    <3>1. CASE orders[k].id = x.id
      BY <1>6, <2>1, <3>1
    <3>2. CASE orders[k].id # x.id
      <4>1. PICK i \in DOMAIN w : w[i] = orders[k]
        BY <1>5, <3>2
      <4>. QED
        BY <2>3, <4>1
    <3>. QED
      BY <3>1, <3>2
  <2>. QED
    BY <1>1, <1>2, <1>9, <2>4 DEF Gone
<1>11. CASE ~(Len(w) + 1 <= MaxListed)
  <2>1. Len(w) = Len(orders) /\ Len(orders) = MaxListed
    <3>1. /\ Len(w) \in Nat /\ Len(orders) \in Nat /\ MaxListed \in Nat
          /\ Len(w) <= Len(orders) /\ Len(orders) <= MaxListed
      BY <1>3, <1>5, <1>6
    <3>. QED
      BY <1>11, <3>1
  <2>2. \A k \in DOMAIN orders : orders[k].id # x.id
    BY <1>3, <1>5, <2>1
  <2>3. CASE MaxListed = 0
    <3>1. DOMAIN orders = {}
      BY <1>3, <2>1, <2>3
    <3>. QED
      BY <1>1, <1>2, <1>9, <3>1 DEF Gone
  <2>4. CASE MaxListed # 0
    <3>1. 1 \in DOMAIN rows /\ rows[1] = x
      BY <1>3, <1>6, <1>11, <2>4
    <3>. QED
      BY <1>1, <1>2, <1>9, <2>1, <2>2, <3>1 DEF Gone
  <2>. QED
    BY <2>3, <2>4
<1>. QED
  BY <1>10, <1>11

LEMMA RowsRemoved ==
  ASSUME NEW orders, RowsOK(orders), NEW id \in cancelled
  PROVE  RowsOK(Without(orders, id)) /\ Gone(orders, Without(orders, id))
<1>1. PICK w : w = Without(orders, id)
  OBVIOUS
<1>2. MaxListed \in Nat /\ Len(orders) \in Nat /\ DOMAIN orders = 1 .. Len(orders) /\ Len(orders) <= MaxListed
  BY TerminalAssumption, PostsFacts DEF RowsOK
<1>3. IsRest(w, orders, Len(orders), id)
  BY <1>1, WithoutIs DEF RowsOK
<1>4. /\ Posts(w) /\ RowsApart(w) /\ Len(w) <= Len(orders)
      /\ \A i \in DOMAIN w : \E k \in DOMAIN orders : w[i] = orders[k]
      /\ \A k \in DOMAIN orders : orders[k].id # id => \E i \in DOMAIN w : w[i] = orders[k]
  BY <1>2, <1>3 DEF IsRest
<1>5. Len(w) \in Nat
  BY <1>4, PostsFacts
<1>6. Len(w) <= MaxListed
  BY <1>2, <1>4, <1>5
<1>7. \A i \in DOMAIN w : RowOK(w[i])
  BY <1>4 DEF RowsOK
<1>. QED
  BY <1>1, <1>4, <1>6, <1>7 DEF RowsOK, Gone

LEMMA RowsUpdated ==
  ASSUME ServedInv, NEW orders, RowsOK(orders), NEW m, StatusHolds(m), m.status = "FILLED" => Spent(m.id)
  PROVE  RowsOK(Updated(orders, m)) /\ Gone(orders, Updated(orders, m))
<1>. USE DEF ServedInv
<1>1. PICK rows : rows = Updated(orders, m)
  OBVIOUS
<1>2. Len(orders) \in Nat /\ DOMAIN orders = 1 .. Len(orders) /\ Len(orders) <= MaxListed
  BY PostsFacts DEF RowsOK
<1>3. /\ DOMAIN rows = DOMAIN orders
      /\ \A i \in DOMAIN orders :
            IF orders[i].id # m.id THEN rows[i] = orders[i]
            ELSE /\ rows[i].id = m.id /\ rows[i].remaining = m.remaining
                 /\ rows[i].status = "FILLED" => m.remaining <= 0 \/ m.status = "FILLED"
  BY <1>1 DEF Updated
<1>4. Posts(rows) /\ Len(rows) = Len(orders)
  <2>1. rows = [i \in 1 .. Len(orders) |-> rows[i]]
    BY <1>1, <1>2 DEF Updated
  <2>2. rows \in Seq({rows[i] : i \in DOMAIN rows}) /\ Len(rows) = Len(orders)
    BY <1>2, <2>1
  <2>. QED
    BY <2>2 DEF Posts
<1>5. \A i \in DOMAIN orders : rows[i].id = orders[i].id
  BY <1>3
<1>6. RowsApart(rows)
  BY <1>3, <1>5 DEF RowsOK, RowsApart
<1>7. ASSUME NEW i \in DOMAIN rows PROVE RowOK(rows[i])
  <2>1. RowOK(orders[i]) /\ i \in DOMAIN orders
    BY <1>3 DEF RowsOK
  <2>2. CASE orders[i].id # m.id
    BY <1>3, <2>1, <2>2
  <2>3. CASE orders[i].id = m.id
    <3>1. PICK x \in ToSet(submitted) : x.orderId = m.id /\ m.remaining \in Int /\ m.remaining >= Unfilled(x)
      BY DEF StatusHolds
    <3>2. Unfilled(x) \in Int /\ Unfilled(x) >= 0
      BY <3>1, UnfilledIs DEF NewsInvs, EngineInvs, ConserveInv, NotOvertraded
    <3>3. Spent(m.id) => Unfilled(x) = 0
      BY <3>1, SameSubmitted DEF Spent, NewsInvs, EngineInvs, RefinementInv
    <3>4. PICK r : r = rows[i]
      OBVIOUS
    <3>5. r.id = m.id /\ r.remaining = m.remaining /\ (r.status = "FILLED" => m.remaining <= 0 \/ m.status = "FILLED")
      BY <1>3, <2>1, <2>3, <3>4
    <3>6. r.status = "FILLED" => Unfilled(x) = 0
      BY <3>1, <3>2, <3>3, <3>5
    <3>7. RowHolds(r)
      BY <3>1, <3>5, <3>6 DEF RowHolds
    <3>. QED
      BY <1>5, <2>1, <3>4, <3>7 DEF RowOK
  <2>. QED
    BY <2>2, <2>3
<1>8. RowsOK(rows)
  BY <1>2, <1>4, <1>6, <1>7 DEF RowsOK
<1>. QED
  BY <1>1, <1>3, <1>5, <1>8 DEF Gone

\* The list after a message is as true as before.
LEMMA RowsRendered ==
  ASSUME ServedInv, RowsOK(openOrders), NEW n \in DOMAIN told[Viewer],
         NEW m, m = told[Viewer][n], UpdateOpenOrders(m)
  PROVE  RowsOK(openOrders') /\ Gone(openOrders, openOrders')
<1>1. CASE m.type = "ORDER_ACCEPTED"
  <2>1. PICK o \in ToSet(submitted) : o.orderId = m.id
    BY <1>1, ToldFacts
  <2>2. Placed(m.id) = o
    <3>1. PICK k \in DOMAIN submitted : o = submitted[k]
      BY DEF ToSet
    <3>2. ArrivalOf(m.id) = k
      BY <2>1, <3>1, ArrivalIs DEF ServedInv, NewsInvs, EngineInvs, RefinementInv
    <3>. QED
      BY <3>1, <3>2 DEF Placed
  <2>3. PICK x : x = Listed(m.id)
    OBVIOUS
  <2>4. x.id = m.id /\ x.remaining = o.quantity /\ x.status = "OPEN"
    BY <2>2, <2>3 DEF Listed
  <2>5. o.quantity \in Nat /\ Traded(o.orderId) \in Nat /\ Unfilled(o) = o.quantity - Traded(o.orderId)
    BY UnfilledIs DEF ServedInv, NewsInvs, EngineInvs
  <2>6. RowHolds(x)
    BY <2>1, <2>4, <2>5 DEF RowHolds
  <2>7. RowOK(x)
    BY <1>1, <2>4, <2>6 DEF RowOK, Accepts
  <2>8. openOrders' = Slice(<<x>> \o Without(openOrders, x.id), MaxListed)
    <3>1. openOrders' = Slice(<<Listed(m.id)>> \o Without(openOrders, m.id), MaxListed)
      BY <1>1 DEF UpdateOpenOrders, Removes
    <3>. QED
      BY <2>3, <2>4, <3>1
  <2>. QED
    BY <2>7, <2>8, RowsAccepted
<1>2. CASE Removes(m)
  <2>1. openOrders' = Without(openOrders, m.id)
    BY <1>2 DEF UpdateOpenOrders, Removes
  <2>2. m.id \in cancelled
    BY <1>2, ToldFacts
  <2>. QED
    BY <2>1, <2>2, RowsRemoved
<1>3. CASE m.type = "ORDER_STATUS" /\ ~Removes(m)
  <2>1. openOrders' = Updated(openOrders, m)
    BY <1>3 DEF UpdateOpenOrders
  <2>2. StatusHolds(m) /\ (m.status = "FILLED" => Spent(m.id))
    BY <1>3, ToldFacts
  <2>. QED
    BY <2>1, <2>2, RowsUpdated
<1>4. CASE m.type # "ORDER_ACCEPTED" /\ ~Removes(m) /\ m.type # "ORDER_STATUS"
  <2>1. openOrders' = openOrders
    BY <1>4 DEF UpdateOpenOrders
  <2>. QED
    BY <2>1 DEF Gone
<1>. QED
  BY <1>1, <1>2, <1>3, <1>4

-----------------------------------------------------------------------------
(* The volume of the trades that the terminal has seen.                    *)

LEMMA VolumesListed ==
  ASSUME EngineInvs, NEW S
  PROVE  /\ Volumes(S) \in Seq(Nat) /\ Len(Volumes(S)) = Len(recentTrades)
         /\ Total(Volumes(S)) \in Nat
<1>1. PICK v, m : v = Volumes(S) /\ m = Len(recentTrades)
  OBVIOUS
<1>2. m \in Nat /\ DOMAIN recentTrades = 1 .. m /\ \A i \in 1 .. m : recentTrades[i].quantity \in Nat
  BY <1>1, TradesListed
<1>3. v = [i \in 1 .. m |-> IF i \in S THEN 0 ELSE recentTrades[i].quantity]
  BY <1>1, <1>2 DEF Volumes
<1>4. \A i \in 1 .. m : v[i] \in Nat
  BY <1>2, <1>3
<1>5. v \in Seq(Nat) /\ Len(v) = m
  BY <1>2, <1>3, <1>4
<1>. QED
  BY <1>1, <1>5, TotalNat

\* The fewer trades are left out, the more volume.
LEMMA VolumesOrdered ==
  ASSUME EngineInvs, NEW S, NEW T, T \cap DOMAIN recentTrades \subseteq S
  PROVE  Total(Volumes(S)) <= Total(Volumes(T))
<1>1. PICK v, w, m : v = Volumes(S) /\ w = Volumes(T) /\ m = Len(recentTrades)
  OBVIOUS
<1>2. m \in Nat /\ DOMAIN recentTrades = 1 .. m /\ \A i \in 1 .. m : recentTrades[i].quantity \in Nat
  BY <1>1, TradesListed
<1>3. /\ v = [i \in 1 .. m |-> IF i \in S THEN 0 ELSE recentTrades[i].quantity]
      /\ w = [i \in 1 .. m |-> IF i \in T THEN 0 ELSE recentTrades[i].quantity]
  BY <1>1, <1>2 DEF Volumes
<1>4. \A i \in 1 .. m : v[i] <= w[i]
  BY <1>2, <1>3
<1>5. v \in Seq(Nat) /\ w \in Seq(Nat) /\ Len(v) = m /\ Len(w) = m
  BY <1>1, VolumesListed
<1>. QED
  BY <1>1, <1>4, <1>5, TotalOrdered

\* One that is no longer left out adds its quantity.
LEMMA VolumeAdded ==
  ASSUME EngineInvs, NEW S, NEW x \in S \cap DOMAIN recentTrades,
         NEW T, T \subseteq S \ {x}
  PROVE  /\ recentTrades[x].quantity \in Nat
         /\ Total(Volumes(S)) + recentTrades[x].quantity <= Total(Volumes(T))
<1>1. PICK v, w, m, q : /\ v = Volumes(S) /\ w = Volumes(S \ {x}) /\ m = Len(recentTrades)
                        /\ q = recentTrades[x].quantity
  OBVIOUS
<1>2. m \in Nat /\ DOMAIN recentTrades = 1 .. m /\ \A i \in 1 .. m : recentTrades[i].quantity \in Nat
  BY <1>1, TradesListed
<1>3. /\ v = [i \in 1 .. m |-> IF i \in S THEN 0 ELSE recentTrades[i].quantity]
      /\ w = [i \in 1 .. m |-> IF i \in S \ {x} THEN 0 ELSE recentTrades[i].quantity]
  BY <1>1, <1>2 DEF Volumes
<1>4. v \in Seq(Nat) /\ w \in Seq(Nat) /\ Len(v) = m /\ Len(w) = m /\ Total(v) \in Nat /\ Total(w) \in Nat
  BY <1>1, VolumesListed
<1>5. \A i \in 1 .. m : v[i] \in Nat /\ w[i] \in Nat
  BY <1>4
<1>6. \A i \in 1 .. m : i # x => v[i] = w[i]
  BY <1>3
<1>7. x \in 1 .. m /\ v[x] = 0 /\ w[x] = q /\ q \in Int /\ q \in Nat
  <2>1. x \in S /\ x \in 1 .. m
    BY <1>2
  <2>2. q \in Nat
    BY <1>1, <1>2, <2>1
  <2>3. x \notin S \ {x}
    OBVIOUS
  <2>4. v[x] = 0
    BY <1>3, <2>1
  <2>5. w[x] = recentTrades[x].quantity
    BY <1>3, <2>1, <2>3
  <2>. QED
    BY <1>1, <2>1, <2>2, <2>4, <2>5
<1>8. MoreBy(q, v[x], w[x])
  BY <1>7 DEF MoreBy
<1>9. MoreBy(q, Total(v), Total(w))
  BY <1>2, <1>4, <1>5, <1>6, <1>7, <1>8, TotalChanged
<1>10. Total(w) <= Total(Volumes(T))
  BY <1>1, VolumesOrdered
<1>11. Total(Volumes(T)) \in Nat
  BY VolumesListed
<1>. QED
  BY <1>1, <1>4, <1>7, <1>9, <1>10, <1>11 DEF MoreBy

\* A new trade that is left out adds nothing.
LEMMA VolumeUntouched ==
  ASSUME EngineInvs, IdsBelowNext, [AdapterNext]_adapterVars, NEW S, S \subseteq DOMAIN recentTrades,
         NEW w, w = [i \in DOMAIN recentTrades' |->
                        IF i \in S \cup (DOMAIN recentTrades' \ DOMAIN recentTrades)
                        THEN 0 ELSE recentTrades'[i].quantity]
  PROVE  Total(w) = Total(Volumes(S))
<1>1. PICK v : v = Volumes(S)
  OBVIOUS
<1>2. Len(v) = Len(recentTrades) /\ Total(v) \in Nat
  BY <1>1, VolumesListed
<1>3. CASE recentTrades' = recentTrades
  <2>1. w = v
    BY <1>1, <1>3 DEF Volumes
  <2>. QED
    BY <1>1, <2>1
<1>4. CASE AdapterMatch
  <2>1. PICK t : Made(t)
    BY <1>4, MatchMakes DEF AdapterMatch
  <2>2. PICK n, m : m = Len(recentTrades) /\ n = m + 1
    OBVIOUS
  <2>3. /\ m \in Nat /\ n \in Nat /\ DOMAIN recentTrades = 1 .. m /\ DOMAIN recentTrades' = 1 .. n
        /\ \A i \in 1 .. m : recentTrades'[i] = recentTrades[i]
    BY <2>1, <2>2 DEF Made
  <2>4. \A i \in 1 .. n : i \in S \cup (1 .. n \ 1 .. m) <=> i \in S \/ i = n
    BY <2>2, <2>3
  <2>5. /\ v = [i \in 1 .. m |-> IF i \in S THEN 0 ELSE recentTrades[i].quantity]
        /\ w = [i \in 1 .. n |-> IF i \in S \cup (1 .. n \ 1 .. m) THEN 0 ELSE recentTrades'[i].quantity]
    BY <1>1, <2>3 DEF Volumes
  <2>6. Len(w) = n /\ w[n] = 0
    BY <2>2, <2>3, <2>4, <2>5
  <2>7. \A i \in 1 .. m : w[i] = v[i]
    <3>1. \A i \in 1 .. m : i \in 1 .. n /\ i # n
      BY <2>2, <2>3
    <3>. QED
      BY <2>3, <2>4, <2>5, <3>1
  <2>8. Total(w) = Total(v) + w[Len(w)]
    <3>1. Len(v) = m /\ Len(v) \in Nat /\ Len(w) = Len(v) + 1
      BY <1>2, <2>2, <2>3, <2>6
    <3>2. \A i \in 1 .. Len(v) : w[i] = v[i]
      BY <2>7, <3>1
    <3>. QED
      BY <3>1, <3>2, TotalAppend
  <2>. QED
    BY <1>1, <1>2, <2>6, <2>8
<1>5. CASE \/ AdapterReply \/ (\E id \in OrderIds : AdapterCancel(id)) \/ UNCHANGED adapterVars
           \/ \E req \in PlaceOrderRequest : AdapterPlace(req)
  <2>1. recentTrades' = recentTrades
    BY <1>5 DEF AdapterReply, Finish, AdapterCancel, EngineCancel, AdapterPlace, PlaceOrder,
       adapterVars, engineVars
  <2>. QED
    BY <1>3, <2>1
<1>. QED
  BY <1>4, <1>5 DEF AdapterNext

-----------------------------------------------------------------------------
(* A render.                                                               *)

\* A trade in a message that was not rendered before is a new one.
LEMMA SeenGrows ==
  ASSUME ServedInv, TerminalInv, NEW n \in rendered + 1 .. Len(told[Viewer]), rendered' = n,
         NEW m, m = told[Viewer][n], told' = told
  PROVE  /\ n \in DOMAIN told[Viewer]
         /\ \A id : TradeSeen(id) => TradeSeen(id)'
         /\ m.type = "TRADE" => TradeSeen(m.id)' /\ ~TradeSeen(m.id)
<1>1. Viewer \in Client
  BY TerminalAssumption
<1>2. PICK ms : ms = told[Viewer]
  OBVIOUS
<1>3. Posts(ms) /\ NewsOnce(ms)
  BY <1>1, <1>2 DEF ServedInv, NewsInvs, HandlersInv, NewsInv
<1>4. Len(ms) \in Nat /\ DOMAIN ms = 1 .. Len(ms) /\ rendered \in 0 .. Len(ms)
  BY <1>2, <1>3, PostsFacts DEF TerminalInv
<1>5. n \in DOMAIN ms /\ n \in 1 .. n /\ \A i \in 1 .. rendered : i \in DOMAIN ms /\ i \in 1 .. n /\ i # n
  BY <1>2, <1>4
<1>6. \A id : TradeSeen(id)' <=> \E i \in 1 .. n : ms[i].type = "TRADE" /\ ms[i].id = id
  BY <1>2 DEF TradeSeen
<1>7. \A id : TradeSeen(id) <=> \E i \in 1 .. rendered : ms[i].type = "TRADE" /\ ms[i].id = id
  BY <1>2 DEF TradeSeen
<1>8. ASSUME m.type = "TRADE", NEW i \in 1 .. rendered, ms[i].type = "TRADE", ms[i].id = m.id
      PROVE  FALSE
  <2>1. Item(ms[i]) = Item(ms[n]) /\ Item(ms[i]) # Nothing
    BY <1>2, <1>8 DEF Item, IsTrade, Nothing
  <2>. QED
    BY <1>3, <1>5, <2>1 DEF NewsOnce
<1>. QED
  BY <1>2, <1>5, <1>6, <1>7, <1>8

\* The volume of more trades, or of one more.
LEMMA VolumeRendered ==
  ASSUME EngineInvs, VolumeOK(volume), recentTrades' = recentTrades,
         \A id : TradeSeen(id) => TradeSeen(id)'
  PROVE  /\ volume' = volume => VolumeOK(volume)'
         /\ \A x \in DOMAIN recentTrades :
               ~TradeSeen(x) /\ TradeSeen(x)' /\ volume' = volume + recentTrades[x].quantity =>
                  VolumeOK(volume)'
<1>1. PICK S, T, v : S = Unseen /\ T = Unseen' /\ v = volume
  OBVIOUS
<1>2. T \subseteq S
  BY <1>1 DEF Unseen
<1>3. Total(Volumes(Unseen))' = Total(Volumes(T))
  <2>1. Volumes(Unseen)' = Volumes(T)
    BY <1>1 DEF Volumes
  <2>2. Total(Volumes(Unseen))' = Total(Volumes(Unseen)')
    BY DEF Total
  <2>. QED
    BY <2>1, <2>2
<1>4. v \in Nat /\ v <= Total(Volumes(S))
  BY <1>1 DEF VolumeOK
<1>5. Total(Volumes(S)) \in Nat /\ Total(Volumes(T)) \in Nat
  BY VolumesListed
<1>6. Total(Volumes(S)) <= Total(Volumes(T))
  BY <1>2, VolumesOrdered
<1>7. v <= Total(Volumes(T))
  BY <1>4, <1>5, <1>6
<1>8. volume' = volume => VolumeOK(volume)'
  BY <1>1, <1>3, <1>4, <1>7 DEF VolumeOK
<1>9. ASSUME NEW x \in DOMAIN recentTrades, ~TradeSeen(x), TradeSeen(x)',
             volume' = volume + recentTrades[x].quantity
      PROVE  VolumeOK(volume)'
  <2>1. x \in S \cap DOMAIN recentTrades /\ T \subseteq S \ {x}
    BY <1>1, <1>2, <1>9 DEF Unseen
  <2>2. PICK q : q = recentTrades[x].quantity
    OBVIOUS
  <2>3. q \in Nat /\ Total(Volumes(S)) + q <= Total(Volumes(T))
    BY <2>1, <2>2, VolumeAdded
  <2>4. volume' = v + q
    BY <1>1, <1>9, <2>2
  <2>5. v + q \in Nat /\ v + q <= Total(Volumes(T))
    BY <1>4, <1>5, <2>3
  <2>. QED
    BY <1>3, <2>4, <2>5 DEF VolumeOK
<1>. QED
  BY <1>8, <1>9

\* The list of trades and the volume after a message.
LEMMA TradesRendered ==
  ASSUME ServedInv, TerminalInv, NEW n \in rendered + 1 .. Len(told[Viewer]), rendered' = n,
         NEW m, m = told[Viewer][n], UpdateTrades(m), told' = told, recentTrades' = recentTrades
  PROVE  TradesOK(trades)' /\ VolumeOK(volume)'
<1>1. /\ n \in DOMAIN told[Viewer]
      /\ \A id : TradeSeen(id) => TradeSeen(id)'
      /\ m.type = "TRADE" => TradeSeen(m.id)' /\ ~TradeSeen(m.id)
  BY SeenGrows
<1>2. EngineInvs /\ VolumeOK(volume)
  BY DEF ServedInv, NewsInvs, TerminalInv
<1>3. PICK ids : ids = trades
  OBVIOUS
<1>4. /\ Posts(ids) /\ \A i, j \in DOMAIN ids : ids[i] = ids[j] => i = j
      /\ \A i \in DOMAIN ids : TradeSeen(ids[i])
  BY <1>3 DEF TerminalInv, TradesOK
<1>5. CASE m.type # "TRADE"
  <2>1. trades' = ids /\ volume' = volume
    BY <1>3, <1>5 DEF UpdateTrades
  <2>2. TradesOK(trades)'
    <3>1. \A i \in DOMAIN ids : TradeSeen(ids[i])'
      BY <1>1, <1>4
    <3>. QED
      BY <1>4, <2>1, <3>1 DEF TradesOK, TradeSeen
  <2>. QED
    BY <1>1, <1>2, <2>1, <2>2, VolumeRendered
<1>6. CASE m.type = "TRADE"
  <2>1. PICK x, now : x = m.id /\ now = Slice(<<x>> \o ids, MaxShown)
    OBVIOUS
  <2>2. trades' = now /\ volume' = volume + m.quantity
    BY <1>3, <1>6, <2>1 DEF UpdateTrades
  <2>3. x \in DOMAIN recentTrades /\ m.quantity = recentTrades[x].quantity
    BY <1>1, <1>6, <2>1, ToldFacts
  <2>4. IsPrepended(now, x, ids, MaxShown)
    BY <1>4, <2>1, TerminalAssumption, Prepended
  <2>5. TradeSeen(x)' /\ ~TradeSeen(x)
    BY <1>1, <1>6, <2>1
  <2>6. ASSUME NEW i \in DOMAIN now, NEW j \in DOMAIN now, now[i] = now[j] PROVE i = j
    <3>1. \A k \in DOMAIN now \ {1} : k - 1 \in DOMAIN ids /\ now[k] = ids[k - 1]
      BY <2>4 DEF IsPrepended
    <3>2. \A k \in DOMAIN now \ {1} : now[k] # x
      BY <1>4, <2>5, <3>1
    <3>3. 1 \in DOMAIN now => now[1] = x
      BY <2>4 DEF IsPrepended
    <3>4. CASE i = 1 \/ j = 1
      BY <2>6, <3>2, <3>3, <3>4
    <3>5. CASE i # 1 /\ j # 1
      <4>1. i - 1 = j - 1
        BY <1>4, <2>6, <3>1, <3>5
      <4>2. i \in Int /\ j \in Int
        BY <2>4 DEF IsPrepended
      <4>. QED
        BY <4>1, <4>2
    <3>. QED
      BY <3>4, <3>5
  <2>7. ASSUME NEW i \in DOMAIN now PROVE TradeSeen(now[i])'
    BY <1>1, <1>4, <2>4, <2>5 DEF IsPrepended
  <2>8. TradesOK(trades)'
    <3>1. Posts(now)
      BY <2>4 DEF IsPrepended
    <3>. QED
      BY <2>2, <2>6, <2>7, <3>1 DEF TradesOK, TradeSeen
  <2>. QED
    BY <1>1, <1>2, <2>2, <2>3, <2>5, <2>8, VolumeRendered
<1>. QED
  BY <1>5, <1>6

\* A row stays true while its order fills and messages come.
LEMMA RowsKept ==
  ASSUME ToSet(submitted) \subseteq ToSet(submitted)',
         \A o \in ToSet(submitted) : /\ Unfilled(o) \in Int /\ Unfilled(o)' \in Int
                                     /\ 0 <= Unfilled(o)' /\ Unfilled(o)' <= Unfilled(o),
         \A i \in DOMAIN told[Viewer] : i \in DOMAIN told'[Viewer] /\ told'[Viewer][i] = told[Viewer][i],
         NEW rows, RowsOK(rows)
  PROVE  RowsOK(rows)'
<1>1. ASSUME NEW o, RowHolds(o) PROVE RowHolds(o)'
  <2>1. PICK x \in ToSet(submitted) : /\ x.orderId = o.id /\ o.remaining \in Int
                                      /\ o.remaining >= Unfilled(x)
                                      /\ o.status = "FILLED" => Unfilled(x) = 0
    BY <1>1 DEF RowHolds
  <2>2. PICK l, k : l = Unfilled(x) /\ k = Unfilled(x)'
    OBVIOUS
  <2>3. l \in Int /\ k \in Int /\ 0 <= k /\ k <= l
    BY <2>2
  <2>4. o.remaining >= k /\ (o.status = "FILLED" => k = 0)
    BY <2>1, <2>2, <2>3
  <2>5. x \in ToSet(submitted)'
    OBVIOUS
  <2>. QED
    BY <2>1, <2>2, <2>4, <2>5 DEF RowHolds
<1>2. ASSUME NEW o, RowOK(o) PROVE RowOK(o)'
  BY <1>1, <1>2 DEF RowOK
<1>. QED
  BY <1>2 DEF RowsOK

LEMMA RenderKeeps ==
  ASSUME ServedInv, TerminalInv, Render
  PROVE  TerminalInv' /\ Gone(openOrders, openOrders')
<1>1. PICK n \in rendered + 1 .. Len(told[Viewer]) : rendered' = n /\ Effect(told[Viewer][n])
  BY DEF Render
<1>2. told' = told /\ recentTrades' = recentTrades /\ submitted' = submitted
  BY DEF Render, serverVars, adapterVars, engineVars
<1>3. PICK m : m = told[Viewer][n]
  OBVIOUS
<1>4. UpdateOpenOrders(m) /\ UpdateTrades(m)
  BY <1>1, <1>3 DEF Effect
<1>5. n \in DOMAIN told[Viewer]
  BY <1>1, <1>2, <1>3, SeenGrows
<1>6. PICK rows : rows = openOrders'
  OBVIOUS
<1>7. RowsOK(rows) /\ Gone(openOrders, rows)
  BY <1>3, <1>4, <1>5, <1>6, RowsRendered DEF TerminalInv
<1>8. RowsOK(rows)'
  <2>1. \A o : Unfilled(o)' = Unfilled(o)
    BY <1>2, TradedSame DEF Unfilled
  <2>2. \A o \in ToSet(submitted) : Unfilled(o) \in Int /\ 0 <= Unfilled(o)
    BY UnfilledIs DEF ServedInv, NewsInvs, EngineInvs, ConserveInv, NotOvertraded
  <2>. QED
    BY <1>2, <1>7, <2>1, <2>2, RowsKept
<1>9. RowsOK(openOrders)'
  BY <1>6, <1>8 DEF RowsOK
<1>10. TradesOK(trades)' /\ VolumeOK(volume)'
  BY <1>1, <1>2, <1>3, <1>4, TradesRendered
<1>11. rendered' \in 0 .. Len(told'[Viewer])
  <2>1. Posts(told[Viewer])
    BY TerminalAssumption DEF ServedInv, NewsInvs, HandlersInv
  <2>2. Len(told[Viewer]) \in Nat
    BY <2>1, PostsFacts
  <2>. QED
    BY <1>1, <1>2, <2>2 DEF TerminalInv
<1>. QED
  BY <1>6, <1>7, <1>9, <1>10, <1>11 DEF TerminalInv

-----------------------------------------------------------------------------
(* A step of the server.                                                   *)

\* What was told stays told.
LEMMA ToldGrows ==
  ASSUME NewsInvs, [ServerNext \/ AllAnswered]_serverVars, NEW d \in Client
  PROVE  \A i \in DOMAIN told[d] : i \in DOMAIN told'[d] /\ told'[d][i] = told[d][i]
<1>. USE DEF NewsInvs
<1>1. ASSUME NEW c \in Client, SendOne(c)
      PROVE  \A i \in DOMAIN told[d] : i \in DOMAIN told'[d] /\ told'[d][i] = told[d][i]
  <2>1. PICK t, m : told' = [told EXCEPT ![t] = Append(@, m)]
    BY <1>1 DEF SendOne
  <2>2. Functions /\ Posts(told[d])
    BY DEF HandlersInv
  <2>3. CASE d # t
    BY <2>1, <2>2, <2>3 DEF Functions, IsOn
  <2>4. CASE d = t
    <3>1. PICK ms, ns : ms = told[d] /\ ns = Append(ms, m)
      OBVIOUS
    <3>2. told'[d] = ns
      BY <2>1, <2>2, <2>4, <3>1 DEF Functions, IsOn
    <3>3. \A i \in DOMAIN ms : i \in DOMAIN ns /\ ns[i] = ms[i]
      <4>1. /\ Len(ms) \in Nat /\ DOMAIN ms = 1 .. Len(ms) /\ DOMAIN ns = 1 .. Len(ms) + 1
            /\ \A i \in 1 .. Len(ms) : ns[i] = ms[i]
        BY <2>2, <3>1, PostsAppend
      <4>. QED
        BY <4>1
    <3>. QED
      BY <3>1, <3>2, <3>3
  <2>. QED
    BY <2>3, <2>4
<1>2. ASSUME NEW c \in Client, ClientStep(c), ~SendOne(c) PROVE told' = told
  BY <1>2 DEF ClientStep, Handler, HandlePlaceOrder, HandleCancelOrder, HandleGetMetrics, EngineStep,
     EngineReturns, SetActiveOrders, RecordOrder, RecordTrade, RecordVolume, GetOrderBook, LoadCounter
<1>3. ASSUME UNCHANGED serverVars PROVE told' = told
  BY <1>3 DEF serverVars
<1>. QED
  BY <1>1, <1>2, <1>3 DEF ServerNext, AllAnswered, ClientStep

LeftOver == \A o \in ToSet(submitted) : 0 <= Unfilled(o)

LEMMA NoneOvertraded == EngineInvs => LeftOver
  BY UnfilledIs DEF EngineInvs, ConserveInv, NotOvertraded, LeftOver

LEMMA ServerStepKeeps ==
  ASSUME ServedInv, NewsInvs', TerminalInv, [ServerNext \/ AllAnswered]_serverVars,
         UNCHANGED <<rendered, viewVars>>
  PROVE  TerminalInv'
<1>. USE DEF ServedInv
<1>1. /\ rendered' = rendered /\ openOrders' = openOrders /\ trades' = trades /\ volume' = volume
  BY DEF viewVars
<1>2. Viewer \in Client /\ EngineInvs /\ IdsBelowNext /\ EngineInvs'
  BY TerminalAssumption DEF NewsInvs
<1>3. [AdapterNext]_adapterVars
  BY ServerStepIsAdapterStep DEF NewsInvs
<1>4. /\ ToSet(submitted) \subseteq ToSet(submitted)'
      /\ \A i \in DOMAIN recentTrades : i \in DOMAIN recentTrades' /\ recentTrades'[i] = recentTrades[i]
  BY <1>2, <1>3, NothingForgotten
<1>5. \A i \in DOMAIN told[Viewer] : i \in DOMAIN told'[Viewer] /\ told'[Viewer][i] = told[Viewer][i]
  BY <1>2, ToldGrows
<1>6. PICK ms, ns, k : ms = told[Viewer] /\ ns = told'[Viewer] /\ k = rendered
  OBVIOUS
<1>7. /\ Len(ms) \in Nat /\ DOMAIN ms = 1 .. Len(ms) /\ Len(ns) \in Nat /\ DOMAIN ns = 1 .. Len(ns)
      /\ k \in 0 .. Len(ms)
  <2>1. Posts(ms) /\ Posts(ns)
    BY <1>2, <1>6 DEF NewsInvs, HandlersInv, Posts
  <2>. QED
    BY <1>6, <2>1, PostsFacts DEF TerminalInv
<1>8. k \in 0 .. Len(ns)
  <2>1. Len(ms) # 0 => Len(ms) \in DOMAIN ns
    BY <1>5, <1>6, <1>7
  <2>. QED
    BY <1>7, <2>1
<1>9. \A id : TradeSeen(id)' <=> TradeSeen(id)
  <2>1. \A i \in 1 .. k : ns[i] = ms[i]
    BY <1>5, <1>6, <1>7
  <2>. QED
    BY <1>1, <1>6, <2>1 DEF TradeSeen
<1>10. RowsOK(openOrders)'
  <2>1. PICK rows : rows = openOrders
    OBVIOUS
  <2>2. \A o \in ToSet(submitted) : /\ Unfilled(o) \in Int /\ Unfilled(o)' \in Int
                                    /\ Unfilled(o)' <= Unfilled(o)
    BY <1>2, <1>3, UnfilledFalls
  <2>3. \A o \in ToSet(submitted) : 0 <= Unfilled(o)'
    <3>1. \A o \in ToSet(submitted)' : 0 <= Unfilled(o)'
      <4>1. EngineInvs' => LeftOver'
        BY NoneOvertraded, PTL
      <4>. QED
        BY <1>2, <4>1 DEF LeftOver
    <3>. QED
      BY <1>4, <2>2, <3>1
  <2>4. RowsOK(rows)'
    BY <1>4, <1>5, <2>1, <2>2, <2>3, RowsKept DEF TerminalInv
  <2>. QED
    BY <1>1, <2>1, <2>4 DEF RowsOK
<1>11. TradesOK(trades)'
  <2>1. PICK ids : ids = trades
    OBVIOUS
  <2>2. Posts(ids) /\ (\A i, j \in DOMAIN ids : ids[i] = ids[j] => i = j)
        /\ \A i \in DOMAIN ids : TradeSeen(ids[i])'
    BY <1>9, <2>1 DEF TerminalInv, TradesOK
  <2>. QED
    BY <1>1, <2>1, <2>2 DEF TradesOK, TradeSeen
<1>12. VolumeOK(volume)'
  <2>1. PICK S, T : S = Unseen /\ T = DOMAIN recentTrades' \ DOMAIN recentTrades
    OBVIOUS
  <2>2. S \subseteq DOMAIN recentTrades
    BY <2>1 DEF Unseen
  <2>3. \A id : TradeSeen(id) => id \in DOMAIN recentTrades
    <3>1. ASSUME NEW i \in 1 .. k, ms[i].type = "TRADE" PROVE ms[i].id \in DOMAIN recentTrades
      <4>1. i \in DOMAIN told[Viewer]
        BY <1>6, <1>7
      <4>. QED
        BY <1>6, <3>1, <4>1, ToldFacts
    <3>. QED
      BY <1>6, <3>1 DEF TradeSeen
  <2>4. Unseen' = S \cup T
    <3>1. \A i \in DOMAIN recentTrades' : TradeSeen(i)' <=> TradeSeen(i)
      BY <1>9
    <3>2. Unseen' = {i \in DOMAIN recentTrades' : ~TradeSeen(i)'}
      BY DEF Unseen
    <3>. QED
      BY <1>4, <2>1, <2>3, <3>1, <3>2 DEF Unseen
  <2>5. PICK w : w = [i \in DOMAIN recentTrades' |-> IF i \in S \cup T THEN 0 ELSE recentTrades'[i].quantity]
    OBVIOUS
  <2>6. Volumes(Unseen)' = w
    BY <2>4, <2>5 DEF Volumes
  <2>7. Total(w) = Total(Volumes(S))
    BY <1>2, <1>3, <2>1, <2>2, <2>5, VolumeUntouched
  <2>8. Total(Volumes(Unseen))' = Total(Volumes(Unseen)')
    BY DEF Total
  <2>9. volume \in Nat /\ volume <= Total(Volumes(S))
    BY <2>1 DEF TerminalInv, VolumeOK
  <2>. QED
    BY <1>1, <2>6, <2>7, <2>8, <2>9 DEF VolumeOK
<1>. QED
  BY <1>1, <1>6, <1>8, <1>10, <1>11, <1>12 DEF TerminalInv

LEMMA TerminalInitial ==
  ASSUME TerminalInit, ServedInv
  PROVE  TerminalInv
<1>1. /\ rendered = 0 /\ openOrders = <<>> /\ trades = <<>> /\ volume = 0
  BY DEF TerminalInit
<1>2. Posts(<<>>) /\ DOMAIN <<>> = {} /\ Len(<<>>) = 0
  BY EmptyMail
<1>3. Len(told[Viewer]) \in Nat
  BY TerminalAssumption, PostsFacts DEF ServedInv, NewsInvs, HandlersInv
<1>4. RowsOK(openOrders) /\ TradesOK(trades)
  BY <1>1, <1>2, TerminalAssumption DEF RowsOK, RowsApart, TradesOK
<1>5. VolumeOK(volume)
  <2>1. Total(Volumes(Unseen)) \in Nat
    BY VolumesListed DEF ServedInv, NewsInvs
  <2>. QED
    BY <1>1, <2>1 DEF VolumeOK
<1>. QED
  BY <1>1, <1>3, <1>4, <1>5 DEF TerminalInv

LEMMA TerminalStep ==
  ASSUME ServedInv, ServedInv', TerminalInv, [ServerStep \/ Render]_terminalVars
  PROVE  TerminalInv' /\ (Gone(openOrders, openOrders') \/ openOrders' = openOrders)
<1>1. CASE Render
  BY <1>1, RenderKeeps
<1>2. CASE ServerStep \/ UNCHANGED terminalVars
  <2>1. UNCHANGED <<rendered, viewVars>>
    BY <1>2 DEF ServerStep, terminalVars
  <2>2. openOrders' = openOrders
    BY <2>1 DEF viewVars
  <2>. QED
    BY <2>1, <2>2, ServerStepKeeps, TerminalStepIsServerStep DEF ServedInv
<1>. QED
  BY <1>1, <1>2

\* However the messages come and React batches its renders.
LEMMA TerminalInvariant == TerminalSpec => []TerminalInv
<1>1. TerminalInit /\ ServedInv => TerminalInv
  BY TerminalInitial
<1>2. ServedInv /\ ServedInv' /\ TerminalInv /\ [ServerStep \/ Render]_terminalVars => TerminalInv'
  BY TerminalStep
<1>. QED
  BY <1>1, <1>2, TerminalUsesServer, ServedInvariant, PTL DEF TerminalSpec

-----------------------------------------------------------------------------
(* What the user sees.                                                     *)

LEMMA AcceptedIdsAre ==
  ASSUME NEW c, NEW id
  PROVE  id \in AcceptedIds(c) <=> \E i \in DOMAIN told[c] : Accepts(told[c][i], id)
  BY DEF AcceptedIds, IdsTold, ToldOf, Accepts

\* A row per order.
LEMMA RowsNumber ==
  ASSUME NEW rows, Posts(rows), RowsApart(rows)
  PROVE  Len(rows) = Cardinality({rows[i].id : i \in DOMAIN rows})
<1>1. PICK D, T, n : D = DOMAIN rows /\ T = {rows[i].id : i \in DOMAIN rows} /\ n = Len(rows)
  OBVIOUS
<1>2. n \in Nat /\ D = 1 .. n
  BY <1>1, PostsFacts
<1>3. IsFiniteSet(D) /\ Cardinality(D) = n
  BY <1>2, FS_Interval
<1>4. PICK f : f = [i \in D |-> rows[i].id]
  OBVIOUS
<1>5. f \in [D -> T] /\ (\A y \in T : \E i \in D : f[i] = y)
      /\ \A i, j \in D : f[i] = f[j] => i = j
  BY <1>1, <1>4 DEF RowsApart
<1>6. f \in Surjection(D, T) /\ f \in Injection(D, T)
  BY <1>5 DEF Surjection, Injection, IsInjective
<1>7. Cardinality(T) = Cardinality(D)
  BY <1>3, <1>6, FS_Surjection
<1>. QED
  BY <1>1, <1>3, <1>7

LEMMA OwnOrdersFollow == TerminalInv /\ OwnersInv => OnlyOwnOrders
<1>. SUFFICES ASSUME TerminalInv, OwnersInv PROVE OnlyOwnOrders
  OBVIOUS
<1>1. RowsOK(openOrders)
  BY DEF TerminalInv
<1>2. Len(openOrders) = Cardinality(ListedIds) /\ Len(openOrders) <= MaxListed
  BY <1>1, RowsNumber DEF RowsOK, ListedIds
<1>3. ASSUME NEW id \in ListedIds
      PROVE  /\ id \in AcceptedIds(Viewer)
             /\ \A c \in Client \ {Viewer} : id \notin AcceptedIds(c)
  <2>1. \E i \in DOMAIN told[Viewer] : Accepts(told[Viewer][i], id)
    BY <1>1, <1>3 DEF ListedIds, RowsOK, RowOK
  <2>2. Owns(Viewer, id)
    BY <2>1 DEF Owns
  <2>3. ASSUME NEW c \in Client \ {Viewer} PROVE ~(\E i \in DOMAIN told[c] : Accepts(told[c][i], id))
    <3>1. ~Owns(c, id)
      BY <2>2, TerminalAssumption DEF OwnersInv, Exclusively
    <3>. QED
      BY <3>1 DEF Owns
  <2>. QED
    BY <2>1, <2>3, AcceptedIdsAre
<1>4. ListedIds \subseteq AcceptedIds(Viewer) \ UNION {AcceptedIds(c) : c \in Client \ {Viewer}}
  BY <1>3
<1>. QED
  BY <1>2, <1>4 DEF OnlyOwnOrders

\* The terminal lists an order once, and only if it is the viewer's: the
\* status updates of the others, which it gets all the same, put nothing on
\* the list.
THEOREM ListsOwnOrders == TerminalSpec => []OnlyOwnOrders
  BY TerminalInvariant, TerminalUsesServer, OwnersInvariant, OwnOrdersFollow, PTL

LEMMA RemainingFollows == ServedInv /\ TerminalInv => NeverUnderstates
<1>. SUFFICES ASSUME ServedInv, TerminalInv, NEW i \in DOMAIN openOrders, NEW o, o = openOrders[i]
              PROVE  /\ o.remaining >= Unfilled(Placed(o.id))
                     /\ o.status = "FILLED" => Unfilled(Placed(o.id)) = 0
  BY DEF NeverUnderstates
<1>1. RowHolds(o)
  BY DEF TerminalInv, RowsOK, RowOK
<1>2. PICK x \in ToSet(submitted) : /\ x.orderId = o.id /\ o.remaining >= Unfilled(x)
                                    /\ o.status = "FILLED" => Unfilled(x) = 0
  BY <1>1 DEF RowHolds
<1>3. Placed(o.id) = x
  <2>1. PICK k \in DOMAIN submitted : x = submitted[k]
    BY DEF ToSet
  <2>2. ArrivalOf(o.id) = k
    BY <1>2, <2>1, ArrivalIs DEF ServedInv, NewsInvs, EngineInvs, RefinementInv
  <2>. QED
    BY <2>1, <2>2 DEF Placed
<1>. QED
  BY <1>2, <1>3

\* A list that lags behind the engine errs on one side: an order is shown with
\* at least what it has left, and FILLED only when it is.
THEOREM RemainingNeverUnderstated == TerminalSpec => []NeverUnderstates
  BY TerminalInvariant, TerminalUsesServer, ServedInvariant, RemainingFollows, PTL

LEMMA ShownFollows == ServedInv /\ TerminalInv => TradesShownOnce
<1>. SUFFICES ASSUME ServedInv, TerminalInv PROVE TradesShownOnce
  OBVIOUS
<1>1. IsInjective(trades) /\ \A i \in DOMAIN trades : TradeSeen(trades[i])
  BY DEF TerminalInv, TradesOK, IsInjective
<1>2. ASSUME NEW id, TradeSeen(id) PROVE id \in {recentTrades[i].tradeId : i \in DOMAIN recentTrades}
  <2>1. PICK n \in 1 .. rendered : told[Viewer][n].type = "TRADE" /\ told[Viewer][n].id = id
    BY <1>2 DEF TradeSeen
  <2>2. n \in DOMAIN told[Viewer]
    <3>1. Posts(told[Viewer])
      BY TerminalAssumption DEF ServedInv, NewsInvs, HandlersInv
    <3>2. Len(told[Viewer]) \in Nat /\ DOMAIN told[Viewer] = 1 .. Len(told[Viewer])
      BY <3>1, PostsFacts
    <3>. QED
      BY <3>2 DEF TerminalInv
  <2>3. id \in DOMAIN recentTrades
    BY <2>1, <2>2, ToldFacts
  <2>4. recentTrades[id].tradeId = id
    BY <2>3 DEF ServedInv, NewsInvs, HistoryInv, TradesNumbered
  <2>. QED
    BY <2>3, <2>4
<1>3. ToSet(trades) \subseteq {recentTrades[i].tradeId : i \in DOMAIN recentTrades}
  BY <1>1, <1>2 DEF ToSet
<1>4. volume <= TradedVolume
  <2>1. EngineInvs
    BY DEF ServedInv, NewsInvs
  <2>2. Total(Volumes(Unseen)) <= Total(Volumes({}))
    BY <2>1, VolumesOrdered
  <2>3. Total(Volumes(Unseen)) \in Nat /\ Total(Volumes({})) \in Nat
    BY <2>1, VolumesListed
  <2>4. Total(Volumes({})) = TradedVolume
    BY DEF Volumes, TradedVolume
  <2>. QED
    BY <2>2, <2>3, <2>4 DEF TerminalInv, VolumeOK
<1>. QED
  BY <1>1, <1>3, <1>4 DEF TradesShownOnce

\* A trade is shown once and counted once, whether its message was the last
\* of a render or was passed over, and none is shown that was not made.
THEOREM TradesAreShownOnce == TerminalSpec => []TradesShownOnce
  BY TerminalInvariant, TerminalUsesServer, ServedInvariant, ShownFollows, PTL

\* An order leaves the list when it was cancelled, or when a newer one took
\* its place on a full list: a status, a fill or another client's order never
\* takes it off.
THEOREM GoneWereCancelled == TerminalSpec => GoneMeansCancelled
<1>. DEFINE Why == \/ ListedIds \subseteq ListedIds' \cup cancelled
                   \/ Len(openOrders) = MaxListed /\ ~(ListedIds' \subseteq ListedIds)
<1>1. ServedInv /\ ServedInv' /\ TerminalInv /\ [ServerStep \/ Render]_terminalVars => [Why]_terminalVars
  <2>. SUFFICES ASSUME ServedInv, ServedInv', TerminalInv, [ServerStep \/ Render]_terminalVars
                PROVE  Why
    OBVIOUS
  <2>1. Gone(openOrders, openOrders') \/ openOrders' = openOrders
    BY TerminalStep
  <2>2. CASE openOrders' = openOrders
    <3>1. ListedIds' = ListedIds
      BY <2>2 DEF ListedIds
    <3>. QED
      BY <3>1
  <2>3. CASE Gone(openOrders, openOrders')
    BY <2>3 DEF Gone, ListedIds
  <2>. QED
    BY <2>1, <2>2, <2>3
<1>. QED
  BY <1>1, TerminalInvariant, TerminalUsesServer, ServedInvariant, PTL
     DEF TerminalSpec, GoneMeansCancelled
=============================================================================
