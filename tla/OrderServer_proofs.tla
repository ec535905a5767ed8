------------------------- MODULE OrderServer_proofs -------------------------
(***************************************************************************)
(* Proofs about OrderServer, for any set of clients, finite or not, and    *)
(* any bounds: one engine call at a time, the handlers use the adapter as  *)
(* its specification says, every client hears of what the engine did, each *)
(* thing once, and the counters lie between what was told and what was     *)
(* done, agree with the engine when nobody is counting and cover what a    *)
(* client knew when it asked.                                              *)
(***************************************************************************)
EXTENDS OrderServer, EngineAdapter_proofs

\* What EngineExclusive needs to be inductive: pc is a function on the clients.
ExclusiveInv == pc = [c \in Client |-> pc[c]] /\ EngineExclusive

\* The program counters from which a step leaves the mutex alone.
Outside == {"idle", "recordOrder", "recordTrade", "recordVolume", "book",
            "sending", "loading"}

LEMMA ExclusiveInit == ServerInit => ExclusiveInv
  BY ServerAssumption DEF ServerInit, AdapterInit, EngineInit, ExclusiveInv, EngineExclusive

\* A step of a handler that is outside the engine and stays there keeps the
\* invariant, whatever else it does.
LEMMA StaysOutside ==
  ASSUME ExclusiveInv, NEW c \in Client, NEW l \in Outside,
         pc[c] \in Outside, Goto(c, l), order' = order, engineMutex' = engineMutex
  PROVE  ExclusiveInv'
  BY DEF ExclusiveInv, EngineExclusive, Goto, Outside

\* The mutex is taken for an engine call: l says whether the engine is still
\* at work after this step.
LEMMA Enters ==
  ASSUME ExclusiveInv, NEW c \in Client, NEW l \in {"engine", "returned"},
         pc[c] \in Outside, Goto(c, l), engineMutex = NoClient, engineMutex' = c,
         l = "engine" <=> order' # NoOrder
  PROVE  ExclusiveInv'
<1>1. \A d \in Client : pc[d] \notin {"engine", "returned"}
  BY ServerAssumption DEF ExclusiveInv, EngineExclusive
<1>2. /\ pc'[c] = l /\ \A d \in Client \ {c} : pc'[d] = pc[d]
      /\ pc' = [d \in Client |-> pc'[d]]
  BY DEF ExclusiveInv, Goto
<1>3. \A d \in Client : pc'[d] \in {"engine", "returned"} <=> engineMutex' = d
  BY <1>1, <1>2
<1>4. order' # NoOrder <=> \E d \in Client : pc'[d] = "engine"
  BY <1>1, <1>2
<1>. QED
  BY <1>2, <1>3, <1>4 DEF ExclusiveInv, EngineExclusive

\* The requests that take the mutex.
LEMMA PlaceKeepsExclusive ==
  ASSUME ExclusiveInv, NEW c \in Client, NEW req \in PlaceOrderRequest,
         HandlePlaceOrder(c, req), IdsBelowNext
  PROVE  ExclusiveInv'
<1>1. order' # NoOrder
  <2>1. EngineOrder(req) \in Order /\ order' = EngineOrder(req)
    BY PlacementAllowed DEF HandlePlaceOrder, AdapterPlace, PlaceOrder
  <2>. QED
    BY <2>1, EngineAssumption
<1>2. /\ pc[c] \in Outside /\ Goto(c, "engine")
      /\ engineMutex = NoClient /\ engineMutex' = c
  BY DEF HandlePlaceOrder, Begin, Outside
<1>. QED
  BY <1>1, <1>2, Enters

LEMMA CancelKeepsExclusive ==
  ASSUME ExclusiveInv, NEW c \in Client, NEW id \in OrderIds, HandleCancelOrder(c, id)
  PROVE  ExclusiveInv'
<1>1. order' = NoOrder
  BY DEF HandleCancelOrder, AdapterCancel, EngineCancel
<1>2. /\ pc[c] \in Outside /\ Goto(c, "returned")
      /\ engineMutex = NoClient /\ engineMutex' = c
  BY DEF HandleCancelOrder, Begin, Outside
<1>. QED
  BY <1>1, <1>2, Enters

\* The steps with the mutex held.
LEMMA EngineStepKeepsExclusive ==
  ASSUME ExclusiveInv, NEW c \in Client, EngineStep(c), EngineInv
  PROVE  ExclusiveInv'
<1>1. order # NoOrder /\ pc' = pc /\ engineMutex' = engineMutex
  BY DEF EngineStep, AdapterMatch, Match, handlerVars
<1>2. order' # NoOrder
  BY MatchInv, EngineAssumption DEF EngineStep, AdapterMatch
<1>. QED
  BY <1>1, <1>2 DEF ExclusiveInv, EngineExclusive

\* The engine is at work for one handler at most.
LEMMA EngineReturnsKeepsExclusive ==
  ASSUME ExclusiveInv, NEW c \in Client, EngineReturns(c)
  PROVE  ExclusiveInv'
<1>1. /\ pc[c] = "engine" /\ engineMutex = c /\ engineMutex' = c
      /\ \A d \in Client \ {c} : pc[d] \notin {"engine", "returned"}
  BY DEF EngineReturns, ExclusiveInv, EngineExclusive
<1>2. /\ pc'[c] = "returned" /\ \A d \in Client \ {c} : pc'[d] = pc[d]
      /\ pc' = [d \in Client |-> pc'[d]] /\ order' = NoOrder
  BY DEF ExclusiveInv, EngineReturns, Goto, AdapterReply, Finish
<1>. QED
  BY <1>1, <1>2 DEF ExclusiveInv, EngineExclusive

LEMMA SetActiveKeepsExclusive ==
  ASSUME ExclusiveInv, NEW c \in Client, SetActiveOrders(c)
  PROVE  ExclusiveInv'
<1>1. /\ pc[c] = "returned" /\ engineMutex = c /\ engineMutex' = NoClient
      /\ \A d \in Client \ {c} : pc[d] \notin {"engine", "returned"}
  BY DEF SetActiveOrders, ExclusiveInv, EngineExclusive
<1>2. /\ pc'[c] \in Outside /\ \A d \in Client \ {c} : pc'[d] = pc[d]
      /\ pc' = [d \in Client |-> pc'[d]] /\ order' = order
  <2>1. \E l \in {"recordOrder", "book", "sending"} : Goto(c, l)
    BY DEF SetActiveOrders
  <2>. QED
    BY <2>1 DEF ExclusiveInv, Goto, Outside, SetActiveOrders, adapterVars, engineVars
<1>3. order = NoOrder
  BY <1>1 DEF ExclusiveInv, EngineExclusive
<1>. QED
  BY <1>1, <1>2, <1>3, ServerAssumption DEF ExclusiveInv, EngineExclusive, Outside

\* The handlers outside the mutex.
LEMMA OutsideKeepsExclusive ==
  ASSUME ExclusiveInv, NEW c \in Client,
         \/ RecordOrder(c) \/ RecordTrade(c) \/ RecordVolume(c) \/ GetOrderBook(c)
         \/ SendOne(c) \/ HandleGetMetrics(c) \/ LoadCounter(c)
  PROVE  ExclusiveInv'
<1>1. pc[c] \in Outside /\ engineMutex' = engineMutex /\ order' = order
  BY DEF RecordOrder, RecordTrade, RecordVolume, GetOrderBook, SendOne, HandleGetMetrics,
         LoadCounter, Begin, Outside, adapterVars, engineVars
<1>2. (\E l \in Outside : Goto(c, l)) \/ pc' = pc
  BY DEF RecordOrder, RecordTrade, RecordVolume, GetOrderBook, SendOne, HandleGetMetrics,
         LoadCounter, Begin, Outside
<1>. QED
  BY <1>1, <1>2, StaysOutside DEF ExclusiveInv, EngineExclusive

LEMMA ExclusiveStep ==
  ASSUME ExclusiveInv, EngineInv, IdsBelowNext, [ServerNext \/ AllAnswered]_serverVars
  PROVE  ExclusiveInv'
<1>1. ASSUME NEW c \in Client, NEW req \in PlaceOrderRequest, HandlePlaceOrder(c, req)
      PROVE  ExclusiveInv'
  BY <1>1, PlaceKeepsExclusive
<1>2. ASSUME NEW c \in Client, NEW id \in OrderIds, HandleCancelOrder(c, id)
      PROVE  ExclusiveInv'
  BY <1>2, CancelKeepsExclusive
<1>3. ASSUME NEW c \in Client, HandleGetMetrics(c) \/ Handler(c)
      PROVE  ExclusiveInv'
  BY <1>3, EngineStepKeepsExclusive, EngineReturnsKeepsExclusive,
     SetActiveKeepsExclusive, OutsideKeepsExclusive DEF Handler
<1>4. CASE UNCHANGED serverVars
  BY <1>4 DEF serverVars, handlerVars, adapterVars, engineVars, ExclusiveInv, EngineExclusive
<1>. QED
  BY <1>1, <1>2, <1>3, <1>4 DEF ServerNext, AllAnswered

\* Every step of a handler is a step of the adapter, or leaves it alone.
LEMMA ServerStepIsAdapterStep ==
  ASSUME [ServerNext \/ AllAnswered]_serverVars
  PROVE  [AdapterNext]_adapterVars
<1>1. ASSUME NEW c \in Client, NEW req \in PlaceOrderRequest, HandlePlaceOrder(c, req)
      PROVE  AdapterNext
  BY <1>1 DEF HandlePlaceOrder, AdapterNext
<1>2. ASSUME NEW c \in Client, NEW id \in OrderIds, HandleCancelOrder(c, id)
      PROVE  AdapterNext
  BY <1>2 DEF HandleCancelOrder, AdapterNext
<1>3. ASSUME NEW c \in Client, HandleGetMetrics(c) \/ Handler(c)
      PROVE  AdapterNext \/ UNCHANGED adapterVars
  BY <1>3 DEF HandleGetMetrics, Handler, EngineStep, EngineReturns, SetActiveOrders,
     RecordOrder, RecordTrade, RecordVolume, GetOrderBook, SendOne, LoadCounter, AdapterNext
<1>4. CASE UNCHANGED serverVars
  BY <1>4 DEF serverVars
<1>. QED
  BY <1>1, <1>2, <1>3, <1>4 DEF ServerNext, AllAnswered

-----------------------------------------------------------------------------

\* However the handlers of the clients interleave, what they do with the
\* adapter is what its specification allows: one call after the other.
THEOREM ServerUsesAdapter == ServerSpec => AdapterSpec
<1>1. ServerInit => AdapterInit
  BY DEF ServerInit
<1>. QED
  BY ServerStepIsAdapterStep, <1>1, PTL DEF ServerSpec, AdapterSpec

\* engineMutex_ is held by exactly the handler whose engine call, or whose
\* count of active orders, is under way, and the engine works for nobody else.
THEOREM EngineIsExclusive == ServerSpec => []EngineExclusive
<1>1. AdapterSpec => []IdsBelowNext
  BY IdsInit, AdapterStep, PTL DEF AdapterSpec
<1>2. AdapterSpec => []EngineInv
  BY AdapterUsesEngine, EngineInvariant, PTL DEF UsesEngine
<1>3. ExclusiveInv => EngineExclusive
  BY DEF ExclusiveInv
<1>. QED
  BY <1>1, <1>2, <1>3, ServerUsesAdapter, ExclusiveInit, ExclusiveStep, PTL DEF ServerSpec

\* Whatever any number of clients ask for at once, the book is never crossed,
\* no level is empty, the cancellation index never dangles and no spent order
\* rests.
THEOREM ConcurrentBookSound ==
  ServerSpec => [](NotCrossed /\ NoEmptyLevel /\ IndexConsistent /\ NoSpentOrder)
  BY ServerUsesAdapter, ServerBookSound, PTL

-----------------------------------------------------------------------------
(* What happened in the engine, as history tells it.                       *)

\* Trade ids count the trades, and a cancelled order still had something left.
TradesNumbered == \A i \in DOMAIN recentTrades : recentTrades[i].tradeId = i
CancelledAlive == \A id \in cancelled : Alive(id)

HistoryInv == TradesNumbered /\ CancelledAlive

LEMMA HistoryInit == EngineInit => HistoryInv
  BY DEF EngineInit, HistoryInv, TradesNumbered, CancelledAlive

\* The history of trades and cancellations stays as it is, whatever is submitted.
LEMMA HistoryKept ==
  ASSUME EngineInv, HistoryInv, recentTrades' = recentTrades, cancelled' = cancelled,
         ToSet(submitted) \subseteq ToSet(submitted)'
  PROVE  HistoryInv'
<1>1. \A o : Unfilled(o)' = Unfilled(o)
  BY TradedSame DEF Unfilled
<1>2. \A id : Alive(id) => Alive(id)'
  BY <1>1 DEF Alive
<1>. QED
  BY <1>2 DEF HistoryInv, TradesNumbered, CancelledAlive

LEMMA PlaceOrderHistory ==
  ASSUME EngineInv, HistoryInv, NEW o \in Order, PlaceOrder(o)
  PROVE  HistoryInv'
<1>1. submitted \in Seq(Order)
  BY DEF EngineInv, EngineTypeOK
<1>2. ToSet(submitted) \subseteq ToSet(submitted)'
  BY <1>1, AppendProperties DEF PlaceOrder, ToSet
<1>. QED
  BY <1>2, HistoryKept DEF PlaceOrder

LEMMA MatchHistory ==
  ASSUME EngineInv, RefinementInv, ConserveInv, HistoryInv, Match
  PROVE  HistoryInv'
<1>. DEFINE m == BestOrder(Opposite(order.side))
            q == TradeQuantity(m)
            t == TradeWith(m, q)
<1>1. /\ recentTrades' = Append(recentTrades, t) /\ t \in Trade
      /\ ToSet(submitted)' = ToSet(submitted)
      /\ order.orderId \notin cancelled
      /\ \E om \in ToSet(submitted) : IsRestOf(m, om)
  BY MatchAccounts
<1>2. \A o \in ToSet(submitted) :
         Unfilled(o)' = Unfilled(o) -
            (IF o.orderId = order.orderId \/ o.orderId = m.orderId THEN q ELSE 0)
  BY MatchAccounts
<1>3. t.tradeId = Len(recentTrades) + 1 /\ recentTrades \in Seq(Trade) /\ cancelled' = cancelled
  BY DEF TradeWith, EngineInv, EngineTypeOK, Match
<1>. HIDE DEF m, q, t
<1>4. m.orderId \notin cancelled
  BY <1>1 DEF IsRestOf, SameOrder
<1>5. TradesNumbered'
  <2>1. /\ DOMAIN recentTrades' = 1 .. Len(recentTrades) + 1 /\ Len(recentTrades) \in Nat
        /\ DOMAIN recentTrades = 1 .. Len(recentTrades)
        /\ \A i \in 1 .. Len(recentTrades) : recentTrades'[i] = recentTrades[i]
        /\ recentTrades'[Len(recentTrades) + 1] = t
    BY <1>1, <1>3, AppendProperties
  <2>2. ASSUME NEW i \in 1 .. Len(recentTrades) + 1 PROVE recentTrades'[i].tradeId = i
    <3>1. i \in 1 .. Len(recentTrades) \/ i = Len(recentTrades) + 1
      BY <2>1
    <3>. QED
      BY <1>3, <2>1, <3>1 DEF HistoryInv, TradesNumbered
  <2>. QED
    BY <2>1, <2>2 DEF TradesNumbered
<1>6. CancelledAlive'
  <2>. SUFFICES ASSUME NEW id \in cancelled PROVE Alive(id)'
    BY <1>3 DEF CancelledAlive
  <2>1. PICK o \in ToSet(submitted) : o.orderId = id /\ Unfilled(o) > 0
    BY DEF HistoryInv, CancelledAlive, Alive
  <2>2. o.orderId # order.orderId /\ o.orderId # m.orderId
    BY <1>1, <1>4, <2>1
  <2>3. Unfilled(o)' = Unfilled(o) - 0
    BY <1>2, <2>2
  <2>4. Unfilled(o)' > 0
    BY <2>1, <2>3, UnfilledIs
  <2>. QED
    BY <1>1, <2>1, <2>4 DEF Alive
<1>. QED
  BY <1>5, <1>6 DEF HistoryInv

LEMMA FinishHistory ==
  ASSUME EngineInv, HistoryInv, Finish
  PROVE  HistoryInv'
  BY HistoryKept DEF Finish

\* What rests has something left.
LEMMA RestsAlive ==
  ASSUME EngineInv, ConserveInv, NEW id \in DOMAIN orderLocations
  PROVE  Alive(id) /\ id \notin cancelled
<1>1. BookInv
  BY DEF EngineInv
<1>2. PICK loc : loc = orderLocations[id]
  OBVIOUS
<1>3. loc.side \in Side /\ loc.price \in DOMAIN levels[loc.side]
  BY <1>1, <1>2 DEF BookInv, BookTypeOK, LocationsTypeOK, IndexConsistent, IndexSound
<1>4. PICK i \in DOMAIN levels[loc.side][loc.price] : levels[loc.side][loc.price][i].orderId = id
  BY <1>1, <1>2 DEF BookInv, IndexConsistent, IndexSound
<1>5. PICK x : x = levels[loc.side][loc.price][i]
  OBVIOUS
<1>6. x \in OpenOrders(loc.side) /\ x.remainingQuantity > 0
  BY <1>1, <1>3, <1>4, <1>5, InOpenOrders DEF BookInv, NoSpentOrder
<1>7. PICK o \in ToSet(submitted) : IsRestOf(x, o)
  BY <1>3, <1>6 DEF ConserveInv, NodesAccounted
<1>. QED
  BY <1>4, <1>5, <1>6, <1>7 DEF IsRestOf, SameOrder, Alive

LEMMA CancelHistory ==
  ASSUME EngineInv, ConserveInv, HistoryInv, NEW id \in OrderIds, EngineCancel(id)
  PROVE  HistoryInv'
<1>1. recentTrades' = recentTrades /\ submitted' = submitted
  BY DEF EngineCancel
<1>2. CASE cancelled' = cancelled
  BY <1>1, <1>2, HistoryKept
<1>3. CASE id \in DOMAIN orderLocations /\ cancelled' = cancelled \cup {id}
  <2>1. \A i : Alive(i) => Alive(i)'
    <3>1. \A o : Unfilled(o)' = Unfilled(o)
      BY <1>1, TradedSame DEF Unfilled
    <3>. QED
      BY <1>1, <3>1 DEF Alive
  <2>2. Alive(id)
    BY <1>3, RestsAlive
  <2>. QED
    BY <1>1, <1>3, <2>1, <2>2 DEF HistoryInv, TradesNumbered, CancelledAlive
<1>. QED
  BY <1>2, <1>3 DEF EngineCancel, CancelOrder

-----------------------------------------------------------------------------
(* News: the trades, and how orders ended.                                 *)

News(ts, filled, gone) == {<<"TRADE", i>> : i \in ts} \cup {<<"FILLED", id>> : id \in filled}
                             \cup {<<"CANCELLED", id>> : id \in gone}

LEMMA NewsUnion ==
  ASSUME NEW ts, NEW ids, NEW gone, NEW ts1, NEW ids1, NEW gone1
  PROVE  News(ts \cup ts1, ids \cup ids1, gone \cup gone1) =
            News(ts, ids, gone) \cup News(ts1, ids1, gone1)
  BY DEF News

LEMMA NewsApart ==
  ASSUME NEW ts, NEW ids, NEW gone, NEW ts1, NEW ids1, NEW gone1,
         ts \cap ts1 = {}, ids \cap ids1 = {}, gone \cap gone1 = {}
  PROVE  News(ts, ids, gone) \cap News(ts1, ids1, gone1) = {}
  BY DEF News

SpentIds == {o.orderId : o \in {x \in ToSet(submitted) : Unfilled(x) = 0}}

TradeIds(ts) == {ts[i].tradeId : i \in DOMAIN ts}

\* All there is to tell ...
Happened == News(DOMAIN recentTrades, SpentIds, cancelled)

\* ... and what the call in progress, or the last one, did of it.
CallNews == News(TradeIds(Reports(events)), IdsTraded(Reports(events)) \cap SpentIds, {})

LEMMA InSpentIds == \A id : id \in SpentIds <=> Spent(id)
  BY DEF SpentIds, Spent

LEMMA SpentIdsKept ==
  ASSUME recentTrades' = recentTrades, submitted' = submitted
  PROVE  SpentIds' = SpentIds
  BY NothingTraded DEF SpentIds

\* An order cannot be spent and have something left.
LEMMA AliveNotSpent ==
  ASSUME IdsDistinct, NEW id, Alive(id)
  PROVE  id \notin SpentIds
<1>1. PICK o \in ToSet(submitted) : o.orderId = id /\ Unfilled(o) > 0
  BY DEF Alive
<1>. SUFFICES ASSUME id \in SpentIds PROVE FALSE
  OBVIOUS
<1>2. PICK u \in ToSet(submitted) : u.orderId = id /\ Unfilled(u) = 0
  BY DEF SpentIds
<1>3. o = u
  BY <1>1, <1>2, SameSubmitted
<1>. QED
  BY <1>1, <1>2, <1>3

LEMMA NoTradesNoNews ==
  ASSUME Reports(events) = <<>>
  PROVE  CallNews = {}
<1>1. TradeIds(<<>>) = {} /\ IdsTraded(<<>>) = {}
  BY DEF TradeIds, IdsTraded
<1>. QED
  BY <1>1 DEF CallNews, News

\* The same of the next state.
LEMMA NoNewsNext ==
  ASSUME Reports(events') = <<>>
  PROVE  CallNews' = {}
<1>1. TradeIds(<<>>) = {} /\ IdsTraded(<<>>) = {}
  BY DEF TradeIds, IdsTraded
<1>. QED
  BY <1>1 DEF CallNews, News

LEMMA PlaceNews ==
  ASSUME EngineInv, ConserveInv, NEW o \in Order, PlaceOrder(o), Fresh(o)
  PROVE  Happened' = Happened /\ Reports(events') = <<>> /\ CallNews' = {}
<1>1. /\ submitted' = Append(submitted, o) /\ recentTrades' = recentTrades
      /\ cancelled' = cancelled /\ submitted \in Seq(Order)
      /\ events' = <<OrderEvent("ORDER_ACCEPTED", o.orderId)>>
      /\ o.quantity \in Nat /\ o.quantity > 0 /\ o.orderId \in OrderIds
  BY BookAssumption DEF PlaceOrder, EngineInv, EngineTypeOK, Order, Quantity
<1>2. ToSet(submitted)' = ToSet(submitted) \cup {o}
  <2>1. /\ DOMAIN submitted' = 1 .. Len(submitted) + 1 /\ Len(submitted) \in Nat
        /\ DOMAIN submitted = 1 .. Len(submitted)
        /\ \A i \in 1 .. Len(submitted) : submitted'[i] = submitted[i]
        /\ submitted'[Len(submitted) + 1] = o
    BY <1>1, AppendProperties
  <2>. QED
    BY <2>1 DEF ToSet
<1>3. \A x : Unfilled(x)' = Unfilled(x)
  BY <1>1, TradedSame DEF Unfilled
<1>4. ~Submitted(o.orderId)
  BY DEF Fresh, Submitted, ToSet
<1>5. Traded(o.orderId) = 0
  BY <1>4 DEF ConserveInv, NothingBefore
<1>6. Unfilled(o) # 0
  BY <1>1, <1>5 DEF Unfilled
<1>7. SpentIds' = SpentIds
  BY <1>2, <1>3, <1>6 DEF SpentIds
<1>8. Reports(events') = <<>>
  <2>. DEFINE e == OrderEvent("ORDER_ACCEPTED", o.orderId)
  <2>1. e \in Event /\ e.type = "ORDER_ACCEPTED" /\ events' = Append(<<>>, e)
    BY <1>1, EventKinds DEF EventType
  <2>. HIDE DEF e
  <2>. QED
    BY <2>1, NothingReported, QuietAppend DEF FillTypes
<1>9. CallNews' = {}
  BY <1>8, NoNewsNext
<1>. QED
  BY <1>1, <1>7, <1>8, <1>9 DEF Happened
\* A trade is news, and so is the end of either order; none was told before.
LEMMA MatchNews ==
  ASSUME EngineInvs, HistoryInv, Match
  PROVE  \E new : /\ Happened' = Happened \cup new /\ CallNews' = CallNews \cup new
                  /\ new \cap Happened = {}
<1>. USE DEF EngineInvs
<1>. DEFINE m == BestOrder(Opposite(order.side))
            q == TradeQuantity(m)
            t == TradeWith(m, q)
            two == {order.orderId, m.orderId}
            n == Len(recentTrades) + 1
            ends == SpentIds' \cap two
<1>1. /\ recentTrades' = Append(recentTrades, t) /\ t \in Trade
      /\ {t.buyOrderId, t.sellOrderId} = two
      /\ ToSet(submitted)' = ToSet(submitted) /\ cancelled' = cancelled
      /\ order.remainingQuantity \in Quantity /\ m.remainingQuantity \in Quantity
  BY MatchAccounts DEF Match
<1>2. \A o \in ToSet(submitted) : o.orderId \notin two => Unfilled(o)' = Unfilled(o)
  <2>1. \A o \in ToSet(submitted) :
           Unfilled(o)' = Unfilled(o) -
              (IF o.orderId = order.orderId \/ o.orderId = m.orderId THEN q ELSE 0)
    BY MatchAccounts
  <2>2. ASSUME NEW o \in ToSet(submitted), o.orderId \notin two
        PROVE  Unfilled(o)' = Unfilled(o)
    <3>1. Unfilled(o)' = Unfilled(o) - 0 /\ Unfilled(o) \in Int
      BY <2>1, <2>2, UnfilledIs
    <3>. QED
      BY <3>1
  <2>. QED
    BY <2>2
<1>3. /\ t.tradeId = n /\ recentTrades \in Seq(Trade)
      /\ Reports(events') = Append(Reports(events), t) /\ events \in Seq(Event)
  BY MatchEvents DEF TradeWith, EngineInv, EngineTypeOK
<1>4. Alive(order.orderId) /\ Alive(m.orderId)
  <2>1. \E own \in ToSet(submitted) : SameOrder(order, own) /\ order.remainingQuantity = Unfilled(own)
    BY MatchAccounts
  <2>2. \E om \in ToSet(submitted) : IsRestOf(m, om)
    BY MatchAccounts
  <2>3. order.remainingQuantity > 0 /\ m.remainingQuantity > 0
    BY <1>1, BookAssumption DEF Quantity
  <2>. HIDE DEF m
  <2>. QED
    BY <2>1, <2>2, <2>3 DEF Alive, IsRestOf, SameOrder
<1>. HIDE DEF m, q, t
<1>5. SpentIds \cap two = {}
  BY <1>4, AliveNotSpent DEF RefinementInv
<1>6. SpentIds' = SpentIds \cup ends
  <2>1. ASSUME NEW id, id \notin two PROVE id \in SpentIds' <=> id \in SpentIds
    BY <1>1, <1>2, <2>1 DEF SpentIds
  <2>. HIDE DEF two
  <2>. QED
    BY <1>5, <2>1
<1>. HIDE DEF ends, two
<1>7. DOMAIN recentTrades' = DOMAIN recentTrades \cup {n} /\ n \notin DOMAIN recentTrades
  <2>1. /\ DOMAIN recentTrades' = 1 .. n /\ Len(recentTrades) \in Nat
        /\ DOMAIN recentTrades = 1 .. Len(recentTrades)
    BY <1>1, <1>3, AppendProperties
  <2>. QED
    BY <2>1
<1>8. PICK rs \in Seq(Trade) : rs = Reports(events)
  BY <1>3, ReportsTyped
<1>9. TradeIds(Append(rs, t)) = TradeIds(rs) \cup {n}
  <2>1. /\ DOMAIN Append(rs, t) = 1 .. Len(rs) + 1 /\ Len(rs) \in Nat
        /\ DOMAIN rs = 1 .. Len(rs)
        /\ \A i \in 1 .. Len(rs) : Append(rs, t)[i] = rs[i]
        /\ Append(rs, t)[Len(rs) + 1] = t
    BY <1>1, <1>8, AppendProperties
  <2>. DEFINE us == Append(rs, t)
  <2>. HIDE DEF us, n
  <2>2. \A i \in DOMAIN us : i \in DOMAIN rs \/ i = Len(rs) + 1
    BY <2>1 DEF us
  <2>3. TradeIds(us) \subseteq TradeIds(rs) \cup {n}
    BY <1>3, <2>1, <2>2 DEF TradeIds, us
  <2>4. TradeIds(rs) \cup {n} \subseteq TradeIds(us)
    <3>1. Len(rs) + 1 \in DOMAIN us /\ us[Len(rs) + 1].tradeId = n
      BY <1>3, <2>1 DEF us
    <3>2. \A i \in DOMAIN rs : i \in DOMAIN us /\ us[i] = rs[i]
      BY <2>1 DEF us
    <3>. QED
      BY <3>1, <3>2 DEF TradeIds
  <2>. QED
    BY <2>3, <2>4 DEF us
<1>10. IdsTraded(Append(rs, t)) = IdsTraded(rs) \cup two
  BY <1>1, <1>8, IdsTradedAppend
<1>. DEFINE new == News({n}, ends, {})
<1>11. Happened' = Happened \cup new
  <2>1. PICK ts, ids, gone : ts = DOMAIN recentTrades /\ ids = SpentIds /\ gone = cancelled
    OBVIOUS
  <2>2. News(ts \cup {n}, ids \cup ends, gone \cup {}) = News(ts, ids, gone) \cup new
    BY NewsUnion
  <2>3. gone \cup {} = gone
    OBVIOUS
  <2>4. Happened = News(ts, ids, gone)
    BY <2>1 DEF Happened
  <2>5. Happened' = News(ts \cup {n}, ids \cup ends, gone)
    BY <1>1, <1>6, <1>7, <2>1 DEF Happened
  <2>. QED
    BY <2>2, <2>3, <2>4, <2>5
<1>12. CallNews' = CallNews \cup new
  <2>1. PICK ts, ids, spent : ts = TradeIds(rs) /\ ids = IdsTraded(rs) /\ spent = SpentIds
    OBVIOUS
  <2>2. CallNews = News(ts, ids \cap spent, {})
    BY <1>8, <2>1 DEF CallNews
  <2>3. CallNews' = News(ts \cup {n}, (ids \cup two) \cap (spent \cup ends), {})
    BY <1>3, <1>6, <1>8, <1>9, <1>10, <2>1 DEF CallNews
  <2>4. (ids \cup two) \cap (spent \cup ends) = (ids \cap spent) \cup ends
    BY <1>5, <2>1 DEF ends
  <2>5. News(ts \cup {n}, (ids \cap spent) \cup ends, {} \cup {}) =
           News(ts, ids \cap spent, {}) \cup new
    BY NewsUnion
  <2>6. {} \cup {} = {}
    OBVIOUS
  <2>. QED
    BY <2>2, <2>3, <2>4, <2>5, <2>6
<1>13. new \cap Happened = {}
  <2>1. News({n}, ends, {}) \cap News(DOMAIN recentTrades, SpentIds, cancelled) = {}
    <3>1. PICK ts, ids, gone : ts = DOMAIN recentTrades /\ ids = SpentIds /\ gone = cancelled
      OBVIOUS
    <3>2. {n} \cap ts = {} /\ ends \cap ids = {} /\ {} \cap gone = {}
      BY <1>5, <1>7, <3>1 DEF ends
    <3>3. News({n}, ends, {}) \cap News(ts, ids, gone) = {}
      BY <3>2, NewsApart
    <3>. QED
      BY <3>1, <3>3
  <2>. QED
    BY <2>1 DEF Happened
<1>. QED
  BY <1>11, <1>12, <1>13

\* The return adds nothing,
LEMMA FinishNews ==
  ASSUME EngineInvs, Finish
  PROVE  Happened' = Happened /\ CallNews' = CallNews
<1>1. Reports(events') = Reports(events)
  BY FinishEvents DEF EngineInvs
<1>2. recentTrades' = recentTrades /\ submitted' = submitted /\ cancelled' = cancelled
  BY DEF Finish
<1>3. SpentIds' = SpentIds
  BY <1>2, SpentIdsKept
<1>. QED
  BY <1>1, <1>2, <1>3 DEF Happened, CallNews

\* and a cancellation is news if it succeeds.
LEMMA CancelNews ==
  ASSUME EngineInvs, HistoryInv, NEW id \in OrderIds, AdapterCancel(id)
  PROVE  /\ result'.success => /\ Happened' = Happened \cup {<<"CANCELLED", id>>}
                               /\ <<"CANCELLED", id>> \notin Happened
         /\ ~result'.success => Happened' = Happened
<1>1. recentTrades' = recentTrades /\ submitted' = submitted
  BY DEF AdapterCancel, EngineCancel
<1>2. SpentIds' = SpentIds
  BY <1>1, SpentIdsKept
<1>3. CASE /\ CancelOrder(id) /\ events' = <<OrderEvent("ORDER_CANCELLED", id), BookEvent>>
           /\ cancelled' = cancelled \cup {id}
  <2>1. id \in DOMAIN orderLocations
    BY <1>3 DEF CancelOrder
  <2>2. id \notin cancelled
    BY <2>1, RestsAlive DEF EngineInvs
  <2>3. result'.success
    <3>1. events' # <<>>
      BY <1>3
    <3>2. result' = CancelResult(id, events')
      BY DEF AdapterCancel
    <3>. QED
      BY <3>1, <3>2 DEF CancelResult
  <2>4. Happened' = Happened \cup {<<"CANCELLED", id>>}
    BY <1>1, <1>2, <1>3 DEF Happened, News
  <2>5. <<"CANCELLED", id>> \notin Happened
    BY <2>2 DEF Happened, News
  <2>. QED
    BY <2>3, <2>4, <2>5
<1>4. CASE events' = <<>> /\ UNCHANGED <<bookVars, cancelled>>
  <2>1. ~result'.success
    BY <1>4 DEF AdapterCancel, CancelResult
  <2>. QED
    BY <1>1, <1>2, <1>4, <2>1 DEF Happened
<1>. QED
  BY <1>3, <1>4 DEF AdapterCancel, EngineCancel

-----------------------------------------------------------------------------
(* News as messages tell it.                                               *)

Nothing == <<"NOTHING", 0>>

Item(m) == IF IsTrade(m) THEN <<"TRADE", m.id>>
           ELSE IF IsFilled(m) THEN <<"FILLED", m.id>>
           ELSE IF IsCancelled(m) THEN <<"CANCELLED", m.id>> ELSE Nothing

Items(ms) == {Item(ms[i]) : i \in DOMAIN ms} \ {Nothing}

\* No news is in the messages twice.
NewsOnce(ms) ==
    \A i, j \in DOMAIN ms : Item(ms[i]) = Item(ms[j]) => i = j \/ Item(ms[i]) = Nothing

\* A sequence of whatever messages.
Posts(ms) == \E S : ms \in Seq(S)

LEMMA PostsFacts ==
  ASSUME NEW ms, Posts(ms)
  PROVE  Len(ms) \in Nat /\ DOMAIN ms = 1 .. Len(ms) /\ ms \in Seq({ms[i] : i \in DOMAIN ms})
<1>1. PICK S : ms \in Seq(S)
  BY DEF Posts
<1>2. Len(ms) \in Nat /\ DOMAIN ms = 1 .. Len(ms) /\ ms = [i \in 1 .. Len(ms) |-> ms[i]]
  BY <1>1
<1>3. \A i \in 1 .. Len(ms) : ms[i] \in {ms[j] : j \in DOMAIN ms}
  BY <1>2
<1>. QED
  BY <1>2, <1>3

LEMMA PostsAppend ==
  ASSUME NEW ms, Posts(ms), NEW m
  PROVE  /\ Posts(Append(ms, m)) /\ Len(ms) \in Nat
         /\ DOMAIN ms = 1 .. Len(ms) /\ DOMAIN Append(ms, m) = 1 .. Len(ms) + 1
         /\ \A i \in 1 .. Len(ms) : Append(ms, m)[i] = ms[i]
         /\ Append(ms, m)[Len(ms) + 1] = m
<1>1. PICK S : ms \in Seq(S)
  BY DEF Posts
<1>2. PICK T : T = S \cup {m}
  OBVIOUS
<1>3. ms \in Seq(T) /\ m \in T
  BY <1>1, <1>2
<1>4. Append(ms, m) \in Seq(T)
  BY <1>3
<1>. QED
  BY <1>3, <1>4, AppendProperties DEF Posts

LEMMA PostsConcat ==
  ASSUME NEW a, Posts(a), NEW b, Posts(b)
  PROVE  /\ Posts(a \o b) /\ Len(a) \in Nat /\ Len(b) \in Nat
         /\ DOMAIN a = 1 .. Len(a) /\ DOMAIN b = 1 .. Len(b)
         /\ DOMAIN (a \o b) = 1 .. Len(a) + Len(b)
         /\ \A i \in 1 .. Len(a) : (a \o b)[i] = a[i]
         /\ \A i \in 1 .. Len(b) : (a \o b)[Len(a) + i] = b[i]
<1>1. PICK S : a \in Seq(S)
  BY DEF Posts
<1>2. PICK R : b \in Seq(R)
  BY DEF Posts
<1>3. PICK T : T = S \cup R
  OBVIOUS
<1>4. a \in Seq(T) /\ b \in Seq(T)
  BY <1>1, <1>2, <1>3
<1>5. a \o b \in Seq(T) /\ Len(a \o b) = Len(a) + Len(b)
  BY <1>4, ConcatProperties
<1>6. \A i \in 1 .. Len(a) + Len(b) : (a \o b)[i] = IF i <= Len(a) THEN a[i] ELSE b[i - Len(a)]
  BY <1>4, ConcatProperties
<1>. QED
  BY <1>4, <1>5, <1>6 DEF Posts

LEMMA ConcatNews ==
  ASSUME NEW a, Posts(a), NEW b, Posts(b)
  PROVE  /\ Posts(a \o b) /\ Items(a \o b) = Items(a) \cup Items(b)
         /\ NewsOnce(a) /\ NewsOnce(b) /\ Items(a) \cap Items(b) = {} => NewsOnce(a \o b)
<1>. DEFINE c == a \o b
<1>1. /\ Posts(c) /\ Len(a) \in Nat /\ Len(b) \in Nat
      /\ DOMAIN a = 1 .. Len(a) /\ DOMAIN b = 1 .. Len(b)
      /\ DOMAIN c = 1 .. Len(a) + Len(b)
      /\ \A i \in 1 .. Len(a) : c[i] = a[i]
      /\ \A i \in 1 .. Len(b) : c[Len(a) + i] = b[i]
  BY PostsConcat
<1>. HIDE DEF c
<1>2. \A i \in DOMAIN c : i \in DOMAIN a \/ \E j \in DOMAIN b : i = Len(a) + j
  <2>1. ASSUME NEW i \in DOMAIN c, i \notin DOMAIN a
        PROVE  i - Len(a) \in DOMAIN b /\ i = Len(a) + (i - Len(a))
    BY <1>1, <2>1
  <2>. QED
    BY <2>1
<1>3. /\ \A i \in DOMAIN a : i \in DOMAIN c /\ Item(c[i]) = Item(a[i])
      /\ \A j \in DOMAIN b : Len(a) + j \in DOMAIN c /\ Item(c[Len(a) + j]) = Item(b[j])
  BY <1>1
<1>4. Items(c) = Items(a) \cup Items(b)
  BY <1>2, <1>3 DEF Items
<1>5. ASSUME NewsOnce(a), NewsOnce(b), Items(a) \cap Items(b) = {} PROVE NewsOnce(c)
  <2>. SUFFICES ASSUME NEW i \in DOMAIN c, NEW j \in DOMAIN c, Item(c[i]) = Item(c[j]),
                       Item(c[i]) # Nothing
                PROVE  i = j
    BY DEF NewsOnce
  <2>1. \A k \in DOMAIN a, l \in DOMAIN b : Item(a[k]) = Item(b[l]) => Item(a[k]) = Nothing
    BY <1>5 DEF Items
  <2>2. CASE i \in DOMAIN a /\ j \in DOMAIN a
    BY <1>3, <1>5, <2>2 DEF NewsOnce
  <2>3. CASE i \in DOMAIN a /\ j \notin DOMAIN a
    <3>1. PICK l \in DOMAIN b : j = Len(a) + l
      BY <1>2, <2>3
    <3>2. Item(a[i]) = Item(b[l])
      BY <1>3, <2>3, <3>1
    <3>. QED
      BY <1>3, <2>1, <2>3, <3>2
  <2>4. CASE i \notin DOMAIN a /\ j \in DOMAIN a
    <3>1. PICK l \in DOMAIN b : i = Len(a) + l
      BY <1>2, <2>4
    <3>2. Item(a[j]) = Item(b[l]) /\ Item(a[j]) = Item(c[i])
      BY <1>3, <2>4, <3>1
    <3>. QED
      BY <2>1, <2>4, <3>2
  <2>5. CASE i \notin DOMAIN a /\ j \notin DOMAIN a
    <3>1. PICK k \in DOMAIN b : i = Len(a) + k
      BY <1>2, <2>5
    <3>2. PICK l \in DOMAIN b : j = Len(a) + l
      BY <1>2, <2>5
    <3>3. Item(b[k]) = Item(b[l]) /\ Item(b[k]) # Nothing
      BY <1>3, <3>1, <3>2
    <3>4. k = l
      BY <1>5, <3>3 DEF NewsOnce
    <3>. QED
      BY <3>1, <3>2, <3>4
  <2>. QED
    BY <2>2, <2>3, <2>4, <2>5
<1>. QED
  BY <1>1, <1>4, <1>5 DEF c

LEMMA MessageItems ==
  /\ \A t : Item(TradeMsg(t)) = <<"TRADE", t.tradeId>>
  /\ \A id, left : Item(StatusMsg(id, "FILLED", left)) = <<"FILLED", id>>
  /\ \A id, left : Item(StatusMsg(id, "CANCELLED", left)) = <<"CANCELLED", id>>
  /\ \A id, s, left : s \notin {"FILLED", "CANCELLED"} => Item(StatusMsg(id, s, left)) = Nothing
  /\ Item(BookMsg) = Nothing /\ Item(Rejected) = Nothing
  /\ \A id : Item(Msg("ORDER_ACCEPTED", id)) = Nothing /\ Item(Msg("ORDER_CANCELLED", id)) = Nothing
  /\ \A x : Item([type |-> "METRICS", data |-> x]) = Nothing
  BY DEF Item, IsTrade, IsFilled, IsCancelled, TradeMsg, StatusMsg, BookMsg, Rejected, Msg

\* The messages about trades, each with a number of its own.
LEMMA TradeMsgsNews ==
  ASSUME NEW ts, Posts(ts), \A i, j \in DOMAIN ts : ts[i].tradeId = ts[j].tradeId => i = j
  PROVE  LET ms == [i \in DOMAIN ts |-> TradeMsg(ts[i])]
         IN  Posts(ms) /\ NewsOnce(ms) /\ Items(ms) = News(TradeIds(ts), {}, {})
<1>. DEFINE ms == [i \in DOMAIN ts |-> TradeMsg(ts[i])]
<1>1. Len(ts) \in Nat /\ DOMAIN ts = 1 .. Len(ts)
  BY PostsFacts
<1>2. Posts(ms)
  <2>1. ms \in Seq({TradeMsg(ts[i]) : i \in DOMAIN ts})
    BY <1>1
  <2>. QED
    BY <2>1 DEF Posts
<1>3. DOMAIN ms = DOMAIN ts /\ \A i \in DOMAIN ts : Item(ms[i]) = <<"TRADE", ts[i].tradeId>>
  BY MessageItems
<1>. HIDE DEF ms
<1>4. NewsOnce(ms)
  BY <1>3 DEF NewsOnce
<1>5. Items(ms) = News(TradeIds(ts), {}, {})
  <2>1. \A i : <<"TRADE", i>> # Nothing
    BY DEF Nothing
  <2>. QED
    BY <1>3, <2>1 DEF Items, News, TradeIds
<1>. QED
  BY <1>2, <1>4, <1>5 DEF ms

\* The messages about orders.
LEMMA UpdateMsgsNews ==
  ASSUME NEW us, NEW ids, FillsSent(us, ids)
  PROVE  LET ms == [i \in DOMAIN us |-> StatusMsg(us[i].orderId, us[i].status,
                                                  us[i].remainingQuantity)]
         IN  Posts(ms) /\ NewsOnce(ms) /\ Items(ms) = News({}, ids, {})
<1>. DEFINE ms == [i \in DOMAIN us |-> StatusMsg(us[i].orderId, us[i].status,
                                                 us[i].remainingQuantity)]
<1>1. us \in Seq(Update) /\ SentFills(us) = ids
  BY DEF FillsSent
<1>2. Posts(ms)
  <2>1. ms \in Seq({ms[i] : i \in DOMAIN us})
    BY <1>1
  <2>. QED
    BY <2>1 DEF Posts
<1>3. /\ DOMAIN ms = DOMAIN us
      /\ \A i \in DOMAIN us : Item(ms[i]) = IF us[i].status = "FILLED"
                                            THEN <<"FILLED", us[i].orderId>> ELSE Nothing
  <2>1. \A i \in DOMAIN us : us[i].status \in {"FILLED", "PARTIALLY_FILLED"}
    <3>1. \A i \in DOMAIN us : us[i] \in Update
      BY <1>1
    <3>. QED
      BY <3>1 DEF Update
  <2>2. ASSUME NEW i \in DOMAIN us
        PROVE  Item(ms[i]) = IF us[i].status = "FILLED" THEN <<"FILLED", us[i].orderId>> ELSE Nothing
    <3>1. us[i].status = "FILLED" \/ us[i].status \notin {"FILLED", "CANCELLED"}
      BY <2>1
    <3>. QED
      BY <3>1, MessageItems
  <2>. QED
    BY <2>2
<1>. HIDE DEF ms
<1>4. \A id : <<"FILLED", id>> # Nothing
  BY DEF Nothing
<1>5. NewsOnce(ms)
  BY <1>3, <1>4 DEF NewsOnce, FillsSent
<1>6. Items(ms) = News({}, ids, {})
  BY <1>1, <1>3, <1>4 DEF Items, News, SentFills
<1>. QED
  BY <1>2, <1>5, <1>6 DEF ms

UpdateMsg(u) == StatusMsg(u.orderId, u.status, u.remainingQuantity)

\* The messages are those of the trades ts, of the updates us or the book's.
Announces(ms, ts, us) ==
    \A i \in DOMAIN ms : \/ ms[i].type = "ORDER_BOOK"
                         \/ \E j \in DOMAIN ts : ms[i] = TradeMsg(ts[j])
                         \/ \E j \in DOMAIN us : ms[i] = UpdateMsg(us[j])

LEMMA AnnouncesConcat ==
  ASSUME NEW a, Posts(a), NEW b, Posts(b), NEW ts, NEW us,
         Announces(a, ts, us), Announces(b, ts, us)
  PROVE  Announces(a \o b, ts, us)
<1>1. PICK n \in Nat : n = Len(a)
  BY PostsFacts
<1>2. /\ Len(b) \in Nat /\ DOMAIN a = 1 .. n /\ DOMAIN b = 1 .. Len(b)
      /\ DOMAIN (a \o b) = 1 .. n + Len(b)
      /\ \A i \in 1 .. n : (a \o b)[i] = a[i]
      /\ \A i \in 1 .. Len(b) : (a \o b)[n + i] = b[i]
  BY <1>1, PostsConcat
<1>3. PICK ab : ab = a \o b
  OBVIOUS
<1>4. \A i \in DOMAIN ab : (\E j \in DOMAIN a : ab[i] = a[j]) \/ (\E j \in DOMAIN b : ab[i] = b[j])
  <2>1. ASSUME NEW i \in 1 .. n + Len(b) PROVE i \in 1 .. n \/ (i - n \in 1 .. Len(b) /\ n + (i - n) = i)
    BY <1>2
  <2>. QED
    BY <1>2, <1>3, <2>1
<1>5. Announces(ab, ts, us)
  <2>. SUFFICES ASSUME NEW m, (\E j \in DOMAIN a : m = a[j]) \/ (\E j \in DOMAIN b : m = b[j])
                PROVE  \/ m.type = "ORDER_BOOK"
                       \/ \E j \in DOMAIN ts : m = TradeMsg(ts[j])
                       \/ \E j \in DOMAIN us : m = UpdateMsg(us[j])
    BY <1>4, Zenon DEF Announces
  <2>. QED
    BY DEF Announces
<1>. QED
  BY <1>3, <1>5

\* The broadcasts of a call are what it did, each thing once.
LEMMA ReplyNews ==
  ASSUME EngineInvs, HistoryInv, TranslationInv, AdapterReply
  PROVE  /\ Happened' = Happened /\ CallNews' = CallNews
         /\ result'.kind = "place" /\ result'.orderId = order.orderId
         /\ result'.trades = Rows(Reports(events)) /\ Reports(events) \in Seq(Trade)
         /\ Posts(PlaceBroadcasts(result')) /\ NewsOnce(PlaceBroadcasts(result'))
         /\ Items(PlaceBroadcasts(result')) = CallNews
         /\ Announces(PlaceBroadcasts(result'), result'.trades, Forwarded(result'.orderUpdates))
         /\ ~result'.accepted => Reports(events) = <<>> /\ CallNews = {}
<1>. USE DEF EngineInvs
<1>1. Happened' = Happened /\ CallNews' = CallNews /\ Reports(events') = Reports(events)
  BY FinishNews, FinishEvents DEF AdapterReply
<1>2. /\ recentTrades' = recentTrades /\ submitted' = submitted /\ order' = NoOrder
      /\ events \in Seq(Event) /\ recentTrades \in Seq(Trade)
  BY DEF AdapterReply, Finish, EngineInv, EngineTypeOK
<1>3. PICK r : r = result'
  OBVIOUS
<1>4. PICK rs : rs = Reports(events)
  OBVIOUS
<1>5. rs \in Seq(Trade)
  BY <1>2, <1>4, ReportsTyped
<1>6. /\ r.kind = "place" /\ r.orderId = order.orderId /\ r.trades = Rows(rs)
      /\ ~r.accepted => order.remainingQuantity = order.quantity
  <2>1. r = EngineResult(order, events')
    BY <1>3 DEF AdapterReply
  <2>2. r.kind = "place"
    BY <2>1 DEF EngineResult
  <2>. QED
    BY <1>1, <1>3, <1>4, <2>2, ReplyResult
<1>7. ~r.accepted => rs = <<>>
  BY <1>4, <1>6 DEF AdapterReply, Finish, ReportInv, DuringTheCall, EngineInv, EngineTypeOK,
     Order, Quantity
<1>8. PICK rows : rows = Rows(rs)
  OBVIOUS
<1>9. /\ Posts(rows) /\ DOMAIN rows = DOMAIN rs
      /\ \A i \in DOMAIN rs : rows[i].tradeId = rs[i].tradeId
  <2>1. rows \in Seq({Row(rs[i]) : i \in DOMAIN rs})
    BY <1>5, <1>8 DEF Rows
  <2>. QED
    BY <1>8, <2>1 DEF Posts, Rows, Row
<1>10. TradeIds(rows) = TradeIds(rs)
  BY <1>9 DEF TradeIds
<1>11. \A i, j \in DOMAIN rows : rows[i].tradeId = rows[j].tradeId => i = j
  <2>1. /\ Len(rs) <= Len(recentTrades) /\ Len(rs) \in Nat /\ Len(recentTrades) \in Nat
        /\ \A i \in DOMAIN rs : rs[i] = recentTrades[Len(recentTrades) - Len(rs) + i]
        /\ DOMAIN rs = 1 .. Len(rs) /\ DOMAIN recentTrades = 1 .. Len(recentTrades)
    BY <1>2, <1>4, <1>5 DEF ReportInv, EventsTrue, EndOf
  <2>2. \A i \in DOMAIN rs : rs[i].tradeId = Len(recentTrades) - Len(rs) + i
    BY <2>1 DEF HistoryInv, TradesNumbered
  <2>. QED
    BY <1>9, <2>1, <2>2
<1>12. PICK us, ids : us = Forwarded(r.orderUpdates) /\ ids = IdsOf(events', "ORDER_COMPLETELY_FILLED")
  OBVIOUS
<1>13. FillsSent(us, ids)
  BY <1>3, <1>12, ReplyFills
<1>14. ids = IdsTraded(rs) \cap SpentIds
  <2>1. /\ ReportInv' /\ SpentIds' = SpentIds /\ IdsDistinct'
        /\ \A id : Alive(id)' => Alive(id)
    <3>1. ReportInv'
      BY FinishReports DEF AdapterReply
    <3>2. (\A o : Unfilled(o)' = Unfilled(o)) /\ ToSet(submitted)' = ToSet(submitted)
      BY <1>2, NothingTraded
    <3>. QED
      BY <1>2, <3>1, <3>2, SpentIdsKept DEF Alive, RefinementInv, IdsDistinct
  <2>2. PICK part : part = IdsOf(events', "ORDER_PARTIALLY_FILLED")
    OBVIOUS
  <2>3. IdsTraded(rs) = ids \cup part
    BY <1>1, <1>2, <1>4, <1>12, <2>1, <2>2 DEF ReportInv, AtTheReturn, FillIdsOf
  <2>4. ids \subseteq SpentIds
    <3>1. \A id \in ids : Spent(id)'
      BY <1>12, <2>1 DEF ReportInv, EventsTrue
    <3>2. \A id : Spent(id)' => id \in SpentIds'
      BY DEF Spent, SpentIds
    <3>. QED
      BY <2>1, <3>1, <3>2
  <2>5. part \cap SpentIds = {}
    <3>1. \A id \in part : Alive(id)'
      BY <2>1, <2>2 DEF ReportInv, EventsTrue
    <3>. QED
      BY <2>1, <3>1, AliveNotSpent DEF RefinementInv
  <2>. QED
    BY <2>3, <2>4, <2>5
<1>. DEFINE a == [i \in DOMAIN rows |-> TradeMsg(rows[i])]
            b == [i \in DOMAIN us |-> StatusMsg(us[i].orderId, us[i].status,
                                                us[i].remainingQuantity)]
            c == IF r.bookChanged THEN <<BookMsg>> ELSE <<>>
<1>15. PlaceBroadcasts(r) = (a \o b) \o c
  BY <1>6, <1>8, <1>12 DEF PlaceBroadcasts
<1>16. Posts(a) /\ NewsOnce(a) /\ Items(a) = News(TradeIds(rs), {}, {})
  BY <1>9, <1>10, <1>11, TradeMsgsNews
<1>17. Posts(b) /\ NewsOnce(b) /\ Items(b) = News({}, ids, {})
  BY <1>13, UpdateMsgsNews
<1>18. Posts(c) /\ NewsOnce(c) /\ Items(c) = {}
  <2>1. CASE r.bookChanged
    <3>. DEFINE m == BookMsg
    <3>1. Item(m) = Nothing
      BY MessageItems
    <3>. HIDE DEF m
    <3>2. <<m>> \in Seq({m}) /\ DOMAIN <<m>> = {1} /\ <<m>>[1] = m
      OBVIOUS
    <3>3. c = <<m>>
      BY <2>1 DEF m
    <3>. HIDE DEF c
    <3>4. Posts(c)
      BY <3>2, <3>3 DEF Posts
    <3>5. \A i \in DOMAIN c : Item(c[i]) = Nothing
      BY <3>1, <3>2, <3>3
    <3>. QED
      BY <3>2, <3>3, <3>4, <3>5 DEF NewsOnce, Items
  <2>2. CASE ~r.bookChanged
    <3>1. <<>> \in Seq({BookMsg}) /\ DOMAIN <<>> = {}
      OBVIOUS
    <3>2. c = <<>>
      BY <2>2
    <3>. HIDE DEF c
    <3>. QED
      BY <3>1, <3>2 DEF Posts, NewsOnce, Items
  <2>. QED
    BY <2>1, <2>2
<1>19. Announces(a, rows, us) /\ Announces(b, rows, us) /\ Announces(c, rows, us)
  <2>1. Announces(a, rows, us)
    BY DEF Announces
  <2>2. Announces(b, rows, us)
    <3>1. DOMAIN b = DOMAIN us /\ \A i \in DOMAIN us : b[i] = UpdateMsg(us[i])
      BY DEF UpdateMsg
    <3>. HIDE DEF b
    <3>. QED
      BY <3>1 DEF Announces
  <2>3. \A i \in DOMAIN c : c[i].type = "ORDER_BOOK"
    BY DEF BookMsg
  <2>4. Announces(c, rows, us)
    <3>. HIDE DEF c
    <3>. QED
      BY <2>3 DEF Announces
  <2>. QED
    BY <2>1, <2>2, <2>4
<1>. HIDE DEF a, b, c
<1>20. Announces((a \o b) \o c, rows, us)
  <2>1. Announces(a \o b, rows, us) /\ Posts(a \o b)
    BY <1>16, <1>17, <1>19, AnnouncesConcat, PostsConcat
  <2>. QED
    BY <1>18, <1>19, <2>1, AnnouncesConcat
<1>21. /\ Posts(a \o b) /\ NewsOnce(a \o b) /\ Items(a \o b) = CallNews
  <2>1. Items(a) \cap Items(b) = {} /\ Items(a) \cup Items(b) = News(TradeIds(rs), ids, {})
    BY <1>16, <1>17 DEF News
  <2>2. CallNews = News(TradeIds(rs), ids, {})
    BY <1>4, <1>14 DEF CallNews
  <2>. QED
    BY <1>16, <1>17, <2>1, <2>2, ConcatNews
<1>22. /\ Posts((a \o b) \o c) /\ NewsOnce((a \o b) \o c) /\ Items((a \o b) \o c) = CallNews
  <2>1. Items(a \o b) \cap Items(c) = {} /\ Items(a \o b) \cup Items(c) = Items(a \o b)
    BY <1>18
  <2>. QED
    BY <1>18, <1>21, <2>1, ConcatNews
<1>23. ~r.accepted => CallNews = {}
  BY <1>4, <1>7, NoTradesNoNews
<1>. QED
  BY <1>1, <1>3, <1>4, <1>5, <1>6, <1>7, <1>8, <1>12, <1>15, <1>22, <1>23, <1>20

-----------------------------------------------------------------------------
(* What is yet to be sent.                                                 *)

Parcels(S) == [to : (SUBSET Client) \ {{}}, msg : S]

\* A sequence of whatever messages with those they are for.
Parceled(ps) == \E S : ps \in Seq(Parcels(S))

\* The news that d is going to be told by ps ...
Due(ps, d) == {Item(ps[i].msg) : i \in {j \in DOMAIN ps : d \in ps[j].to}} \ {Nothing}

\* ... which holds no news twice.
ParcelsOnce(ps) ==
    \A i, j \in DOMAIN ps :
        Item(ps[i].msg) = Item(ps[j].msg) => i = j \/ Item(ps[i].msg) = Nothing

LEMMA LeastOfClients ==
  ASSUME NEW S \in SUBSET Client, S # {}
  PROVE  Min(S) \in S
<1>1. S \in SUBSET Nat
  BY ServerAssumption
<1>2. \E n \in S : \A m \in S : n <= m
  BY <1>1, LeastExists
<1>. QED
  BY <1>2 DEF Min

\* A handler's messages: the direct one, which is no news, and the broadcasts.
LEMMA OutgoingDue ==
  ASSUME NEW c \in Client, NEW direct, Item(direct) = Nothing, NEW ms, Posts(ms), NewsOnce(ms)
  PROVE  LET ps == Outgoing(c, direct, ms)
         IN  /\ Parceled(ps) /\ ps # <<>> /\ ParcelsOnce(ps)
             /\ \A d \in Client : Due(ps, d) = Items(ms)
             /\ DOMAIN ps = 1 .. Len(ms) + 1 /\ ps[1].msg = direct
             /\ Len(ms) \in Nat /\ DOMAIN ms = 1 .. Len(ms)
             /\ \A i \in DOMAIN ms : ps[i + 1].msg = ms[i]
<1>. DEFINE S == {direct} \cup {ms[i] : i \in DOMAIN ms}
            head == [to |-> {c}, msg |-> direct]
            rest == [i \in DOMAIN ms |-> [to |-> Client, msg |-> ms[i]]]
            ps == Outgoing(c, direct, ms)
<1>1. Len(ms) \in Nat /\ DOMAIN ms = 1 .. Len(ms)
  BY PostsFacts
<1>2. head \in Parcels(S) /\ rest \in Seq(Parcels(S)) /\ Len(rest) = Len(ms)
  BY <1>1 DEF Parcels
<1>3. /\ ps \in Seq(Parcels(S)) /\ Len(ps) = Len(ms) + 1
      /\ ps[1] = head /\ \A i \in DOMAIN ms : ps[i + 1] = rest[i]
  <2>1. <<head>> \in Seq(Parcels(S)) /\ Len(<<head>>) = 1 /\ <<head>>[1] = head
    BY <1>2
  <2>2. ps = <<head>> \o rest
    BY DEF Outgoing
  <2>. HIDE DEF head, rest, ps, S
  <2>3. /\ ps \in Seq(Parcels(S)) /\ Len(ps) = 1 + Len(rest)
        /\ \A i \in 1 .. 1 + Len(rest) : ps[i] = IF i <= 1 THEN <<head>>[i] ELSE rest[i - 1]
    BY <1>2, <2>1, <2>2, ConcatProperties
  <2>. QED
    BY <1>1, <1>2, <2>1, <2>3
<1>4. /\ DOMAIN ps = 1 .. Len(ms) + 1 /\ ps[1].to = {c} /\ ps[1].msg = direct
      /\ \A i \in DOMAIN ms : i + 1 \in DOMAIN ps /\ ps[i + 1].to = Client /\ ps[i + 1].msg = ms[i]
  <2>1. /\ head.to = {c} /\ head.msg = direct
        /\ \A i \in DOMAIN ms : rest[i].to = Client /\ rest[i].msg = ms[i]
    OBVIOUS
  <2>. HIDE DEF head, rest, ps, S
  <2>2. DOMAIN ps = 1 .. Len(ms) + 1
    BY <1>1, <1>3
  <2>3. \A i \in DOMAIN ms : i + 1 \in DOMAIN ps
    BY <1>1, <2>2
  <2>. QED
    BY <1>3, <2>1, <2>2, <2>3
<1>. HIDE DEF ps
<1>5. \A i \in DOMAIN ps : i = 1 \/ \E j \in DOMAIN ms : i = j + 1
  <2>1. ASSUME NEW i \in DOMAIN ps, i # 1 PROVE i - 1 \in DOMAIN ms /\ i = (i - 1) + 1
    BY <1>1, <1>4, <2>1
  <2>. QED
    BY <2>1
<1>6. ParcelsOnce(ps)
  <2>. SUFFICES ASSUME NEW i \in DOMAIN ps, NEW j \in DOMAIN ps,
                       Item(ps[i].msg) = Item(ps[j].msg), Item(ps[i].msg) # Nothing
                PROVE  i = j
    BY DEF ParcelsOnce
  <2>1. i # 1 /\ j # 1
    BY <1>4
  <2>2. PICK k \in DOMAIN ms : i = k + 1
    BY <1>5, <2>1
  <2>3. PICK l \in DOMAIN ms : j = l + 1
    BY <1>5, <2>1
  <2>4. Item(ms[k]) = Item(ms[l]) /\ Item(ms[k]) # Nothing
    BY <1>4, <2>2, <2>3
  <2>. QED
    BY <2>2, <2>3, <2>4 DEF NewsOnce
<1>7. ASSUME NEW d \in Client PROVE Due(ps, d) = Items(ms)
  <2>1. ASSUME NEW x \in Due(ps, d) PROVE x \in Items(ms)
    <3>1. PICK i \in DOMAIN ps : x = Item(ps[i].msg) /\ x # Nothing
      BY DEF Due
    <3>2. i # 1
      BY <1>4, <3>1
    <3>3. PICK k \in DOMAIN ms : i = k + 1
      BY <1>5, <3>2
    <3>. QED
      BY <1>4, <3>1, <3>3 DEF Items
  <2>2. ASSUME NEW x \in Items(ms) PROVE x \in Due(ps, d)
    <3>1. PICK k \in DOMAIN ms : x = Item(ms[k]) /\ x # Nothing
      BY DEF Items
    <3>. QED
      BY <1>4, <3>1 DEF Due
  <2>. QED
    BY <2>1, <2>2
<1>8. ps # <<>>
  BY <1>3
<1>. QED
  BY <1>1, <1>3, <1>4, <1>6, <1>7, <1>8 DEF Parceled, ps

\* The first message goes to the first it is for.
LEMMA SendFirst ==
  ASSUME NEW ps, Parceled(ps), ps # <<>>, ParcelsOnce(ps)
  PROVE  LET t    == Min(ps[1].to)
             left == ps[1].to \ {t}
             x    == Item(ps[1].msg)
             qs   == IF left = {} THEN Tail(ps) ELSE [ps EXCEPT ![1].to = left]
         IN  /\ t \in Client /\ Parceled(qs) /\ ParcelsOnce(qs)
             /\ x # Nothing => x \in Due(ps, t)
             /\ Due(qs, t) = Due(ps, t) \ {x}
             /\ \A d \in Client \ {t} : Due(qs, d) = Due(ps, d)
             /\ 1 \in DOMAIN ps /\ Head(ps) = ps[1]
             /\ \A j \in DOMAIN qs : \E i \in DOMAIN ps : qs[j].msg = ps[i].msg
<1>. DEFINE t    == Min(ps[1].to)
            left == ps[1].to \ {t}
            x    == Item(ps[1].msg)
            qs   == IF left = {} THEN Tail(ps) ELSE [ps EXCEPT ![1].to = left]
<1>1. PICK S : ps \in Seq(Parcels(S))
  BY DEF Parceled
<1>2. /\ Len(ps) \in Nat /\ DOMAIN ps = 1 .. Len(ps) /\ 1 \in DOMAIN ps /\ Head(ps) = ps[1]
      /\ \A i \in DOMAIN ps : ps[i] \in Parcels(S)
  BY <1>1
<1>3. \A i \in DOMAIN ps : /\ ps[i].to \in SUBSET Client /\ ps[i].to # {} /\ ps[i].msg \in S
                           /\ ps[i] = [to |-> ps[i].to, msg |-> ps[i].msg]
  BY <1>2 DEF Parcels
<1>4. t \in ps[1].to /\ t \in Client
  BY <1>2, <1>3, LeastOfClients
<1>. HIDE DEF t
<1>5. x # Nothing => x \in Due(ps, t)
  BY <1>2, <1>4 DEF Due
\* How the places of what is left correspond to those of what there was.
<1>6. \E k \in {0, 1} :
         /\ k = 1 <=> left = {}
         /\ qs \in Seq(Parcels(S)) /\ DOMAIN qs = 1 .. Len(ps) - k
         /\ \A i \in DOMAIN qs : /\ i + k \in DOMAIN ps /\ qs[i].msg = ps[i + k].msg
                                 /\ qs[i].to = IF i + k = 1 THEN left ELSE ps[i + k].to
  <2>1. CASE left = {}
    <3>1. qs = Tail(ps)
      BY <2>1
    <3>2. /\ Tail(ps) \in Seq(Parcels(S)) /\ Len(Tail(ps)) = Len(ps) - 1
          /\ \A i \in 1 .. Len(ps) - 1 : Tail(ps)[i] = ps[i + 1]
      BY <1>1, <1>2, HeadTailProperties
    <3>3. DOMAIN Tail(ps) = 1 .. Len(ps) - 1
      BY <3>2
    <3>. HIDE DEF qs, left
    <3>4. DOMAIN qs = 1 .. Len(ps) - 1 /\ qs \in Seq(Parcels(S))
      BY <3>1, <3>2, <3>3
    <3>5. \A i \in DOMAIN qs : i + 1 \in DOMAIN ps /\ i + 1 # 1 /\ qs[i] = ps[i + 1]
      BY <1>2, <3>1, <3>2, <3>3
    <3>. QED
      BY <2>1, <3>4, <3>5
  <2>2. CASE left # {}
    <3>1. qs = [ps EXCEPT ![1].to = left]
      BY <2>2
    <3>2. qs[1] = [to |-> left, msg |-> ps[1].msg] /\ qs[1] \in Parcels(S)
      <4>1. left \in (SUBSET Client) \ {{}}
        BY <1>2, <1>3, <2>2
      <4>2. qs[1] = [to |-> left, msg |-> ps[1].msg]
        <5>. HIDE DEF left
        <5>0. ps[1] = [to |-> ps[1].to, msg |-> ps[1].msg]
          BY <1>2, <1>3, Zenon
        <5>. HIDE DEF qs
        <5>1. PICK e : e = ps[1] /\ e = [to |-> e.to, msg |-> e.msg]
          BY <5>0, Zenon
        <5>2. qs[1] = [e EXCEPT !.to = left]
          BY <1>2, <3>1, <5>1
        <5>3. [e EXCEPT !.to = left] = [to |-> left, msg |-> e.msg]
          BY <5>1
        <5>. QED
          BY <5>1, <5>2, <5>3
      <4>. QED
        BY <1>2, <1>3, <4>1, <4>2 DEF Parcels
    <3>3. DOMAIN qs = DOMAIN ps /\ \A i \in DOMAIN ps : i # 1 => qs[i] = ps[i]
      BY <3>1
    <3>4. qs \in Seq(Parcels(S))
      <4>1. qs = [i \in 1 .. Len(ps) |-> qs[i]]
        <5>. HIDE DEF qs
        <5>1. qs = [i \in DOMAIN ps |-> IF i = 1 THEN [ps[1] EXCEPT !.to = left] ELSE ps[i]]
          BY <1>2, <3>1
        <5>2. qs = [i \in DOMAIN ps |-> qs[i]]
          BY <5>1
        <5>. QED
          BY <1>2, <5>2
      <4>2. \A i \in 1 .. Len(ps) : qs[i] \in Parcels(S)
        BY <1>2, <3>2, <3>3
      <4>. HIDE DEF qs
      <4>. QED
        BY <1>2, <4>1, <4>2
    <3>. HIDE DEF qs, left
    <3>5. DOMAIN qs = 1 .. Len(ps) - 0
      BY <1>2, <3>3
    <3>6. \A i \in DOMAIN qs : /\ i + 0 \in DOMAIN ps /\ qs[i].msg = ps[i + 0].msg
                               /\ qs[i].to = IF i + 0 = 1 THEN left ELSE ps[i + 0].to
      BY <1>2, <3>2, <3>3
    <3>. QED
      BY <2>2, <3>4, <3>5, <3>6
  <2>. QED
    BY <2>1, <2>2
<1>7. PICK k \in {0, 1} :
         /\ k = 1 <=> left = {}
         /\ qs \in Seq(Parcels(S)) /\ DOMAIN qs = 1 .. Len(ps) - k
         /\ \A i \in DOMAIN qs : /\ i + k \in DOMAIN ps /\ qs[i].msg = ps[i + k].msg
                                 /\ qs[i].to = IF i + k = 1 THEN left ELSE ps[i + k].to
  BY <1>6
<1>. HIDE DEF qs
<1>8. ParcelsOnce(qs)
  <2>. SUFFICES ASSUME NEW i \in DOMAIN qs, NEW j \in DOMAIN qs,
                       Item(qs[i].msg) = Item(qs[j].msg), Item(qs[i].msg) # Nothing
                PROVE  i = j
    BY DEF ParcelsOnce
  <2>1. i + k = j + k
    BY <1>7 DEF ParcelsOnce
  <2>. QED
    BY <1>2, <1>7, <2>1
<1>9. \A i \in DOMAIN ps : i # 1 => i - k \in DOMAIN qs /\ i = (i - k) + k
  BY <1>2, <1>7
<1>10. left # {} => 1 \in DOMAIN qs /\ k = 0
  BY <1>2, <1>7
<1>11. \A i \in DOMAIN ps : Item(ps[i].msg) = x => i = 1 \/ x = Nothing
  BY <1>2 DEF ParcelsOnce
<1>12. ASSUME NEW d \in Client \ {t} PROVE Due(qs, d) = Due(ps, d)
  <2>1. ASSUME NEW y \in Due(qs, d) PROVE y \in Due(ps, d)
    <3>1. PICK i \in DOMAIN qs : d \in qs[i].to /\ y = Item(qs[i].msg) /\ y # Nothing
      BY DEF Due
    <3>2. i + k \in DOMAIN ps /\ d \in ps[i + k].to /\ y = Item(ps[i + k].msg)
      BY <1>7, <3>1
    <3>. QED
      BY <3>1, <3>2 DEF Due
  <2>2. ASSUME NEW y \in Due(ps, d) PROVE y \in Due(qs, d)
    <3>1. PICK i \in DOMAIN ps : d \in ps[i].to /\ y = Item(ps[i].msg) /\ y # Nothing
      BY DEF Due
    <3>2. CASE i = 1
      <4>1. d \in left
        BY <1>12, <3>1, <3>2
      <4>2. 1 \in DOMAIN qs /\ k = 0
        BY <1>10, <4>1
      <4>3. qs[1].msg = ps[1].msg /\ qs[1].to = left
        BY <1>7, <4>2
      <4>. QED
        BY <3>1, <3>2, <4>1, <4>2, <4>3 DEF Due
    <3>3. CASE i # 1
      <4>1. PICK j : j = i - k
        OBVIOUS
      <4>2. j \in DOMAIN qs /\ j + k = i
        BY <1>9, <3>3, <4>1
      <4>3. qs[j].msg = ps[i].msg /\ qs[j].to = ps[i].to
        BY <1>7, <3>3, <4>2
      <4>. QED
        BY <3>1, <4>2, <4>3 DEF Due
    <3>. QED
      BY <3>2, <3>3
  <2>. QED
    BY <2>1, <2>2
<1>13. Due(qs, t) = Due(ps, t) \ {x}
  <2>1. ASSUME NEW y \in Due(qs, t) PROVE y \in Due(ps, t) /\ y # x
    <3>1. PICK i \in DOMAIN qs : t \in qs[i].to /\ y = Item(qs[i].msg) /\ y # Nothing
      BY DEF Due
    <3>2. i + k # 1
      BY <1>7, <3>1
    <3>3. i + k \in DOMAIN ps /\ t \in ps[i + k].to /\ y = Item(ps[i + k].msg)
      BY <1>7, <3>1, <3>2
    <3>. QED
      BY <1>11, <3>1, <3>2, <3>3 DEF Due
  <2>2. ASSUME NEW y \in Due(ps, t), y # x PROVE y \in Due(qs, t)
    <3>1. PICK i \in DOMAIN ps : t \in ps[i].to /\ y = Item(ps[i].msg) /\ y # Nothing
      BY DEF Due
    <3>2. i # 1
      BY <2>2, <3>1
    <3>3. PICK j : j = i - k
      OBVIOUS
    <3>4. j \in DOMAIN qs /\ j + k = i
      BY <1>9, <3>2, <3>3
    <3>5. qs[j].msg = ps[i].msg /\ qs[j].to = ps[i].to
      BY <1>7, <3>2, <3>4
    <3>. QED
      BY <3>1, <3>4, <3>5 DEF Due
  <2>. QED
    BY <2>1, <2>2
<1>14. Parceled(qs)
  BY <1>7 DEF Parceled
<1>15. \A j \in DOMAIN qs : \E i \in DOMAIN ps : qs[j].msg = ps[i].msg
  BY <1>7
<1>. QED
  BY <1>2, <1>4, <1>5, <1>8, <1>12, <1>13, <1>14, <1>15 DEF t, qs

-----------------------------------------------------------------------------
(* A step is one handler's, and leaves the others' variables alone.        *)

IsOn(f) == f = [c \in Client |-> f[c]]

Functions == /\ IsOn(pc) /\ IsOn(call) /\ IsOn(counted) /\ IsOn(loaded)
             /\ IsOn(outbox) /\ IsOn(told) /\ IsOn(asked)
             /\ metrics = [n \in Counter |-> metrics[n]]

ClientStep(c) == \/ \E req \in PlaceOrderRequest : HandlePlaceOrder(c, req)
                 \/ \E id \in OrderIds : HandleCancelOrder(c, id)
                 \/ HandleGetMetrics(c)
                 \/ Handler(c)

\* The handler of d is where it was, with what it had.
Idles(d) == /\ pc'[d] = pc[d] /\ call'[d] = call[d] /\ outbox'[d] = outbox[d]
            /\ counted'[d] = counted[d] /\ loaded'[d] = loaded[d] /\ asked'[d] = asked[d]

LEMMA OnlyOne ==
  ASSUME NEW f, NEW g, IsOn(f), NEW c \in Client, \E e : g = [f EXCEPT ![c] = e]
  PROVE  IsOn(g) /\ \A d \in Client \ {c} : g[d] = f[d]
  BY DEF IsOn

LEMMA OneAtATime ==
  ASSUME Functions, NEW c \in Client, ClientStep(c)
  PROVE  Functions' /\ \A d \in Client \ {c} : Idles(d)
<1>. DEFINE Changes(f, g) == g = f \/ \E e : g = [f EXCEPT ![c] = e]
            Local == /\ Changes(pc, pc') /\ Changes(call, call') /\ Changes(counted, counted')
                     /\ Changes(loaded, loaded') /\ Changes(outbox, outbox')
                     /\ Changes(asked, asked')
                     /\ told' = told \/ \E d : \E e : told' = [told EXCEPT ![d] = e]
                     /\ \/ metrics' = metrics
                        \/ \E n \in Counter : \E e : metrics' = [metrics EXCEPT ![n] = e]
<1>. SUFFICES Local
  <2>1. ASSUME NEW f, NEW g, IsOn(f), Changes(f, g)
        PROVE  IsOn(g) /\ \A d \in Client \ {c} : g[d] = f[d]
    BY <2>1, OnlyOne
  <2>2. IsOn(told')
    <3>1. ASSUME NEW d, NEW e, told' = [told EXCEPT ![d] = e] PROVE IsOn(told')
      BY <3>1 DEF Functions, IsOn
    <3>. QED
      BY <3>1 DEF Functions, IsOn
  <2>3. metrics' = [n \in Counter |-> metrics'[n]]
    <3>1. ASSUME NEW n \in Counter, NEW e, metrics' = [metrics EXCEPT ![n] = e]
          PROVE  metrics' = [k \in Counter |-> metrics'[k]]
      BY <3>1 DEF Functions
    <3>. QED
      BY <3>1 DEF Functions
  <2>. HIDE DEF Changes
  <2>. QED
    BY <2>1, <2>2, <2>3 DEF Functions, Idles
<1>1. ASSUME NEW req \in PlaceOrderRequest, HandlePlaceOrder(c, req) PROVE Local
  BY <1>1 DEF HandlePlaceOrder, Begin, Goto
<1>2. ASSUME NEW id \in OrderIds, HandleCancelOrder(c, id) PROVE Local
  BY <1>2 DEF HandleCancelOrder, Begin, Goto
<1>3. CASE HandleGetMetrics(c)
  BY <1>3 DEF HandleGetMetrics, Begin, Goto
<1>4. CASE EngineStep(c)
  BY <1>4 DEF EngineStep, handlerVars
<1>5. CASE EngineReturns(c)
  BY <1>5 DEF EngineReturns, Goto
<1>6. CASE SetActiveOrders(c)
  BY <1>6 DEF SetActiveOrders, Goto, Counter
<1>7. CASE RecordOrder(c)
  BY <1>7 DEF RecordOrder, Goto, Counter
<1>8. CASE RecordTrade(c)
  BY <1>8 DEF RecordTrade, Goto, Counter
<1>9. CASE RecordVolume(c)
  BY <1>9 DEF RecordVolume, Goto, Counter
<1>10. CASE GetOrderBook(c)
  BY <1>10 DEF GetOrderBook, Goto
<1>11. CASE SendOne(c)
  <2>1. \E t : \E e : told' = [told EXCEPT ![t] = e]
    <3>1. \E t : told' = [told EXCEPT ![t] = Append(@, Head(outbox[c]).msg)]
      BY <1>11 DEF SendOne
    <3>. QED
      BY <3>1
  <2>2. \E e : outbox' = [outbox EXCEPT ![c] = e]
    BY <1>11 DEF SendOne
  <2>3. /\ Changes(pc, pc') /\ Changes(call, call') /\ Changes(counted, counted')
        /\ Changes(loaded, loaded') /\ Changes(asked, asked') /\ metrics' = metrics
    BY <1>11 DEF SendOne, Goto
  <2>. QED
    BY <2>1, <2>2, <2>3
<1>12. CASE LoadCounter(c)
  BY <1>12 DEF LoadCounter, Goto
<1>. HIDE DEF Local
<1>. QED
  BY <1>1, <1>2, <1>3, <1>4, <1>5, <1>6, <1>7, <1>8, <1>9, <1>10, <1>11, <1>12
     DEF ClientStep, Handler

-----------------------------------------------------------------------------
(* What a handler holds.                                                   *)

\* The engine call is under way, or what it returned is not announced yet.
AfterCall == {"returned", "recordOrder", "recordTrade", "recordVolume", "book"}

Broadcasts(r) == IF r.kind = "place" THEN PlaceBroadcasts(r)
                 ELSE <<StatusMsg(r.orderId, "CANCELLED", 0), BookMsg>>

HandlerOK(c) ==
    /\ Parceled(outbox[c]) /\ ParcelsOnce(outbox[c])
    /\ pc[c] = "sending" <=> outbox[c] # <<>>
    /\ pc[c] \in AfterCall =>
          /\ call[c].kind \in {"place", "cancel"}
          /\ Succeeded(call[c]) => Posts(Broadcasts(call[c])) /\ NewsOnce(Broadcasts(call[c]))
          /\ pc[c] = "returned" \/ Succeeded(call[c])

HandlersInv == Functions /\ \A c \in Client : HandlerOK(c) /\ Posts(told[c])

\* The news the handler of c holds for everybody, and what it owes to d.
Held(c) == IF pc[c] = "engine" THEN CallNews
           ELSE IF pc[c] \in AfterCall /\ Succeeded(call[c]) THEN Items(Broadcasts(call[c]))
           ELSE {}

Owes(c, d) == Held(c) \cup Due(outbox[c], d)

\* All that happened was told to d or is owed to d by one handler.
Flow(happened, said, owed) ==
    /\ happened = said \cup UNION {owed[c] : c \in Client}
    /\ \A c \in Client : said \cap owed[c] = {}
    /\ \A c, e \in Client : c # e => owed[c] \cap owed[e] = {}

OwedTo(d) == [c \in Client |-> Owes(c, d)]

NewsInv == \A d \in Client : NewsOnce(told[d]) /\ Flow(Happened, Items(told[d]), OwedTo(d))

\* News arises at one handler ...
LEMMA FlowGrows ==
  ASSUME NEW h, NEW s, NEW f, NEW g, Flow(h, s, f), NEW c \in Client, NEW new,
         new \cap h = {}, g[c] = f[c] \cup new, \A e \in Client \ {c} : g[e] = f[e]
  PROVE  Flow(h \cup new, s, g)
<1>1. \A e \in Client : f[e] \subseteq h
  BY DEF Flow
<1>2. s \subseteq h
  BY DEF Flow
<1>3. h \cup new = s \cup UNION {g[e] : e \in Client}
  <2>1. UNION {g[e] : e \in Client} = (UNION {f[e] : e \in Client}) \cup new
    <3>1. ASSUME NEW x PROVE (\E e \in Client : x \in g[e]) <=> (\E e \in Client : x \in f[e]) \/ x \in new
      OBVIOUS
    <3>. QED
      BY <3>1
  <2>. QED
    BY <2>1 DEF Flow
<1>4. \A e \in Client : s \cap g[e] = {}
  BY <1>2 DEF Flow
<1>5. ASSUME NEW d \in Client, NEW e \in Client, d # e PROVE g[d] \cap g[e] = {}
  <2>1. f[d] \cap f[e] = {} /\ f[d] \cap new = {} /\ f[e] \cap new = {}
    BY <1>1, <1>5 DEF Flow
  <2>2. \/ g[d] = f[d] /\ g[e] = f[e]
        \/ g[d] = f[d] \cup new /\ g[e] = f[e]
        \/ g[d] = f[d] /\ g[e] = f[e] \cup new
    BY <1>5
  <2>. QED
    BY <2>1, <2>2
<1>. QED
  BY <1>3, <1>4, <1>5 DEF Flow

\* ... and is told by it.
LEMMA FlowSends ==
  ASSUME NEW h, NEW s, NEW f, NEW g, Flow(h, s, f), NEW c \in Client, NEW x,
         x \subseteq f[c], g[c] = f[c] \ x, \A e \in Client \ {c} : g[e] = f[e]
  PROVE  Flow(h, s \cup x, g)
<1>1. h = (s \cup x) \cup UNION {g[e] : e \in Client}
  <2>1. (UNION {g[e] : e \in Client}) \cup x = UNION {f[e] : e \in Client}
    <3>1. ASSUME NEW y PROVE (\E e \in Client : y \in g[e]) \/ y \in x <=> (\E e \in Client : y \in f[e])
      OBVIOUS
    <3>. QED
      BY <3>1
  <2>. QED
    BY <2>1 DEF Flow
<1>2. ASSUME NEW e \in Client PROVE (s \cup x) \cap g[e] = {}
  <2>1. CASE e = c
    BY <2>1 DEF Flow
  <2>2. CASE e # c
    BY <2>2 DEF Flow
  <2>. QED
    BY <2>1, <2>2
<1>3. ASSUME NEW d \in Client, NEW e \in Client, d # e PROVE g[d] \cap g[e] = {}
  <2>1. g[d] \subseteq f[d] /\ g[e] \subseteq f[e] /\ f[d] \cap f[e] = {}
    BY <1>3 DEF Flow
  <2>. QED
    BY <2>1
<1>. QED
  BY <1>1, <1>2, <1>3 DEF Flow

\* While the engine call of e is under way nobody else touches the adapter.
LEMMA NotTheirCall ==
  ASSUME ExclusiveInv, NEW c \in Client, ClientStep(c), NEW e \in Client \ {c},
         pc[e] \in {"engine", "returned"}
  PROVE  UNCHANGED adapterVars
<1>1. engineMutex = e /\ engineMutex # c /\ engineMutex # NoClient
  BY ServerAssumption DEF ExclusiveInv, EngineExclusive
<1>2. pc[c] \notin {"engine", "returned"}
  BY <1>1 DEF ExclusiveInv, EngineExclusive
<1>. QED
  BY <1>1, <1>2 DEF ClientStep, Handler, HandlePlaceOrder, HandleCancelOrder, HandleGetMetrics,
     EngineStep, EngineReturns, SetActiveOrders, RecordOrder, RecordTrade, RecordVolume,
     GetOrderBook, SendOne, LoadCounter

\* Nobody else's engine call is touched.
LEMMA OthersHold ==
  ASSUME ExclusiveInv, Functions, NEW c \in Client, ClientStep(c), NEW e \in Client \ {c}
  PROVE  Held(e)' = Held(e) /\ \A d \in Client : Owes(e, d)' = Owes(e, d)
<1>1. pc'[e] = pc[e] /\ call'[e] = call[e] /\ outbox'[e] = outbox[e]
  BY OneAtATime DEF Idles
<1>2. ASSUME pc[e] = "engine" PROVE CallNews' = CallNews
  <2>1. events' = events /\ recentTrades' = recentTrades /\ submitted' = submitted
    BY <1>2, NotTheirCall DEF adapterVars, engineVars
  <2>. QED
    BY <2>1, SpentIdsKept DEF CallNews
<1>3. Held(e)' = Held(e)
  BY <1>1, <1>2 DEF Held
<1>. QED
  BY <1>1, <1>3 DEF Owes

\* A step that makes no news and tells none,
LEMMA QuietStep ==
  ASSUME NewsInv, ExclusiveInv, Functions, NEW c \in Client, ClientStep(c),
         Happened' = Happened, told' = told,
         \A d \in Client : Owes(c, d)' = Owes(c, d)
  PROVE  NewsInv'
<1>1. ASSUME NEW d \in Client PROVE OwedTo(d)' = OwedTo(d)
  BY OthersHold DEF OwedTo
<1>. QED
  BY <1>1 DEF NewsInv

\* one that makes news,
LEMMA NewsStep ==
  ASSUME NewsInv, ExclusiveInv, Functions, NEW c \in Client, ClientStep(c),
         NEW new, new \cap Happened = {}, Happened' = Happened \cup new, told' = told,
         \A d \in Client : Owes(c, d)' = Owes(c, d) \cup new
  PROVE  NewsInv'
<1>. SUFFICES ASSUME NEW d \in Client
              PROVE  NewsOnce(told[d])' /\ Flow(Happened, Items(told[d]), OwedTo(d))'
  BY DEF NewsInv
<1>1. PICK h, s, f : h = Happened /\ s = Items(told[d]) /\ f = OwedTo(d)
  OBVIOUS
<1>2. PICK g : g = OwedTo(d)'
  OBVIOUS
<1>3. g[c] = f[c] \cup new /\ \A e \in Client \ {c} : g[e] = f[e]
  BY <1>1, <1>2, OthersHold DEF OwedTo
<1>4. Flow(h, s, f)
  BY <1>1 DEF NewsInv
<1>5. Flow(h \cup new, s, g)
  BY <1>1, <1>3, <1>4, FlowGrows
<1>6. Items(told[d])' = s
  BY <1>1
<1>. QED
  BY <1>1, <1>2, <1>5, <1>6 DEF NewsInv

\* and one that tells some to t.
LEMMA TellStep ==
  ASSUME NewsInv, HandlersInv, ExclusiveInv, NEW c \in Client, ClientStep(c),
         Happened' = Happened, NEW t \in Client, NEW m,
         told' = [told EXCEPT ![t] = Append(told[t], m)],
         Item(m) # Nothing => Item(m) \in Owes(c, t),
         Owes(c, t)' = Owes(c, t) \ {Item(m)},
         \A d \in Client \ {t} : Owes(c, d)' = Owes(c, d)
  PROVE  NewsInv'
<1>1. \A d \in Client \ {t} : told'[d] = told[d]
  BY DEF HandlersInv, Functions, IsOn
<1>2. told'[t] = Append(told[t], m) /\ Posts(told[t])
  BY DEF HandlersInv, Functions, IsOn
<1>3. ASSUME NEW d \in Client \ {t}
      PROVE  NewsOnce(told[d])' /\ Flow(Happened, Items(told[d]), OwedTo(d))'
  <2>1. OwedTo(d)' = OwedTo(d)
    BY OthersHold DEF OwedTo, HandlersInv
  <2>. QED
    BY <1>1, <2>1 DEF NewsInv
<1>4. NewsOnce(told[t])' /\ Flow(Happened, Items(told[t]), OwedTo(t))'
  <2>1. PICK h, ms, f : h = Happened /\ ms = told[t] /\ f = OwedTo(t)
    OBVIOUS
  <2>2. PICK ns, g : ns = told'[t] /\ g = OwedTo(t)'
    OBVIOUS
  <2>3. Flow(h, Items(ms), f) /\ NewsOnce(ms) /\ Posts(ms) /\ ns = Append(ms, m)
    BY <1>2, <2>1, <2>2 DEF NewsInv
  <2>. DEFINE x == {Item(m)} \ {Nothing}
  <2>5. /\ Len(ms) \in Nat /\ DOMAIN ms = 1 .. Len(ms) /\ DOMAIN ns = 1 .. Len(ms) + 1
        /\ \A i \in 1 .. Len(ms) : ns[i] = ms[i]
        /\ ns[Len(ms) + 1] = m
    BY <2>3, PostsAppend
  <2>6. \A i \in DOMAIN ns : i \in DOMAIN ms \/ i = Len(ms) + 1
    BY <2>5
  <2>7. Items(ns) = Items(ms) \cup x
    <3>1. Items(ns) \subseteq Items(ms) \cup x
      BY <2>5, <2>6 DEF Items
    <3>2. Items(ms) \subseteq Items(ns)
      <4>1. \A i \in DOMAIN ms : i \in DOMAIN ns /\ ns[i] = ms[i]
        BY <2>5
      <4>. QED
        BY <4>1 DEF Items
    <3>3. x \subseteq Items(ns)
      <4>1. Len(ms) + 1 \in DOMAIN ns
        BY <2>5
      <4>. QED
        BY <2>5, <4>1 DEF Items
    <3>. QED
      BY <3>1, <3>2, <3>3
  <2>8. x \subseteq f[c] /\ g[c] = f[c] \ x /\ \A e \in Client \ {c} : g[e] = f[e]
    <3>1. f[c] = Owes(c, t) /\ g[c] = Owes(c, t)'
      BY <2>1, <2>2 DEF OwedTo
    <3>2. Nothing \notin Owes(c, t)
      <4>1. Nothing \notin Due(outbox[c], t) /\ \A ms1 : Nothing \notin Items(ms1)
        BY DEF Due, Items
      <4>2. Nothing \notin CallNews
        BY DEF CallNews, News, Nothing
      <4>. QED
        BY <4>1, <4>2 DEF Owes, Held
    <3>3. \A e \in Client \ {c} : g[e] = f[e]
      BY <2>1, <2>2, OthersHold DEF OwedTo, HandlersInv
    <3>. QED
      BY <3>1, <3>2, <3>3
  <2>9. Flow(h, Items(ms) \cup x, g)
    BY <2>3, <2>8, FlowSends
  <2>10. NewsOnce(ns)
    <3>1. Items(ms) \cap x = {}
      BY <2>3, <2>8 DEF Flow
    <3>2. \A i \in DOMAIN ms : Item(ms[i]) = Item(m) => Item(m) = Nothing
      BY <3>1 DEF Items
    <3>. SUFFICES ASSUME NEW i \in DOMAIN ns, NEW j \in DOMAIN ns, Item(ns[i]) = Item(ns[j]),
                         Item(ns[i]) # Nothing
                  PROVE  i = j
      BY DEF NewsOnce
    <3>3. CASE i \in DOMAIN ms /\ j \in DOMAIN ms
      BY <2>3, <2>5, <3>3 DEF NewsOnce
    <3>4. CASE i \in DOMAIN ms /\ j = Len(ms) + 1
      BY <2>5, <3>2, <3>4
    <3>5. CASE i = Len(ms) + 1 /\ j \in DOMAIN ms
      BY <2>5, <3>2, <3>5
    <3>. QED
      BY <2>6, <3>3, <3>4, <3>5
  <2>. QED
    BY <2>1, <2>2, <2>7, <2>9, <2>10
<1>. QED
  BY <1>3, <1>4 DEF NewsInv

-----------------------------------------------------------------------------
(* The steps of the handlers.                                              *)

LEMMA EmptyMail ==
  /\ Parceled(<<>>) /\ ParcelsOnce(<<>>) /\ \A d : Due(<<>>, d) = {}
  /\ Posts(<<>>) /\ NewsOnce(<<>>) /\ Items(<<>>) = {}
<1>1. <<>> \in Seq(Parcels({})) /\ <<>> \in Seq({}) /\ DOMAIN <<>> = {}
  OBVIOUS
<1>. QED
  BY <1>1 DEF Parceled, ParcelsOnce, Due, Posts, NewsOnce, Items

\* The broadcasts of a cancellation.
LEMMA CancelBroadcasts ==
  ASSUME NEW id
  PROVE  LET ms == <<StatusMsg(id, "CANCELLED", 0), BookMsg>>
         IN  Posts(ms) /\ NewsOnce(ms) /\ Items(ms) = {<<"CANCELLED", id>>}
<1>. DEFINE a == StatusMsg(id, "CANCELLED", 0)
            b == BookMsg
            ms == <<a, b>>
<1>1. Item(a) = <<"CANCELLED", id>> /\ Item(b) = Nothing /\ <<"CANCELLED", id>> # Nothing
  BY MessageItems DEF Nothing
<1>. HIDE DEF a, b
<1>2. ms \in Seq({a, b}) /\ DOMAIN ms = {1, 2} /\ ms[1] = a /\ ms[2] = b
  OBVIOUS
<1>. HIDE DEF ms
<1>3. Posts(ms)
  BY <1>2 DEF Posts
<1>4. NewsOnce(ms)
  BY <1>1, <1>2 DEF NewsOnce
<1>5. Items(ms) = {<<"CANCELLED", id>>}
  BY <1>1, <1>2 DEF Items
<1>. QED
  BY <1>3, <1>4, <1>5 DEF ms, a, b

\* What is true of the server in every state.
NewsInvs == /\ EngineInvs /\ IdsBelowNext /\ AdapterInv /\ ExclusiveInv
            /\ HistoryInv /\ HandlersInv /\ NewsInv

LEMMA HandlersKept ==
  ASSUME HandlersInv, NEW c \in Client, ClientStep(c), HandlerOK(c)',
         \A d \in Client : Posts(told[d])'
  PROVE  HandlersInv'
<1>1. Functions' /\ \A d \in Client \ {c} : Idles(d)
  BY OneAtATime DEF HandlersInv
<1>2. ASSUME NEW d \in Client \ {c} PROVE HandlerOK(d)'
  <2>1. HandlerOK(d) /\ pc'[d] = pc[d] /\ call'[d] = call[d] /\ outbox'[d] = outbox[d]
    BY <1>1 DEF Idles, HandlersInv
  <2>. QED
    BY <2>1 DEF HandlerOK
<1>. QED
  BY <1>1, <1>2 DEF HandlersInv

LEMMA PlaceTold ==
  ASSUME NewsInvs, NEW c \in Client, NEW req \in PlaceOrderRequest, HandlePlaceOrder(c, req)
  PROVE  HandlersInv' /\ NewsInv'
<1>. USE DEF NewsInvs
<1>1. ClientStep(c) /\ Functions /\ HandlerOK(c)
  BY DEF ClientStep, HandlersInv
<1>2. /\ pc[c] = "idle" /\ pc'[c] = "engine" /\ call' = call /\ outbox' = outbox
      /\ told' = told
  BY <1>1 DEF HandlePlaceOrder, Begin, Goto, Functions, IsOn
<1>3. Happened' = Happened /\ CallNews' = {}
  <2>1. EngineOrder(req) \in Order /\ Fresh(EngineOrder(req)) /\ PlaceOrder(EngineOrder(req))
    BY PlacementAllowed DEF HandlePlaceOrder, AdapterPlace
  <2>2. PICK o \in Order : o = EngineOrder(req)
    BY <2>1
  <2>. QED
    BY <2>1, <2>2, PlaceNews DEF EngineInvs
<1>4. HandlersInv'
  <2>1. HandlerOK(c)'
    BY <1>1, <1>2 DEF HandlerOK, AfterCall
  <2>. QED
    BY <1>1, <1>2, <2>1, HandlersKept DEF HandlersInv
<1>5. \A d \in Client : Owes(c, d)' = Owes(c, d)
  BY <1>2, <1>3 DEF Owes, Held, AfterCall
<1>. QED
  BY <1>1, <1>2, <1>3, <1>4, <1>5, QuietStep

LEMMA EngineStepTold ==
  ASSUME NewsInvs, NEW c \in Client, EngineStep(c)
  PROVE  HandlersInv' /\ NewsInv'
<1>. USE DEF NewsInvs
<1>1. ClientStep(c) /\ Functions /\ HandlerOK(c)
  BY DEF ClientStep, HandlersInv, Handler
<1>2. /\ pc[c] = "engine" /\ pc' = pc /\ call' = call /\ outbox' = outbox
      /\ told' = told /\ Match
  BY DEF EngineStep, handlerVars, AdapterMatch
<1>3. PICK new : /\ Happened' = Happened \cup new /\ CallNews' = CallNews \cup new
                 /\ new \cap Happened = {}
  BY <1>2, MatchNews
<1>4. HandlersInv'
  <2>1. HandlerOK(c)'
    BY <1>1, <1>2 DEF HandlerOK
  <2>. QED
    BY <1>1, <1>2, <2>1, HandlersKept DEF HandlersInv
<1>5. \A d \in Client : Owes(c, d)' = Owes(c, d) \cup new
  BY <1>2, <1>3 DEF Owes, Held
<1>. QED
  BY <1>1, <1>2, <1>3, <1>4, <1>5, NewsStep

LEMMA EngineReturnsTold ==
  ASSUME NewsInvs, NEW c \in Client, EngineReturns(c)
  PROVE  HandlersInv' /\ NewsInv'
<1>. USE DEF NewsInvs
<1>1. ClientStep(c) /\ Functions /\ HandlerOK(c)
  BY DEF ClientStep, HandlersInv, Handler
<1>2. PICK r : r = result'
  OBVIOUS
<1>3. /\ pc[c] = "engine" /\ pc'[c] = "returned" /\ call'[c] = r /\ outbox' = outbox
      /\ told' = told /\ AdapterReply
  BY <1>1, <1>2 DEF EngineReturns, Goto, Functions, IsOn
<1>4. /\ Happened' = Happened /\ r.kind = "place"
      /\ Posts(PlaceBroadcasts(r)) /\ NewsOnce(PlaceBroadcasts(r))
      /\ Items(PlaceBroadcasts(r)) = CallNews
      /\ ~r.accepted => CallNews = {}
  BY <1>2, <1>3, ReplyNews DEF AdapterInv
<1>5. Broadcasts(r) = PlaceBroadcasts(r) /\ (Succeeded(r) <=> r.accepted)
  BY <1>4 DEF Broadcasts, Succeeded
<1>6. HandlersInv'
  <2>1. HandlerOK(c)'
    BY <1>1, <1>3, <1>4, <1>5 DEF HandlerOK, AfterCall
  <2>. QED
    BY <1>1, <1>3, <2>1, HandlersKept DEF HandlersInv
<1>7. Held(c)' = Held(c)
  BY <1>3, <1>4, <1>5 DEF Held, AfterCall
<1>8. \A d \in Client : Owes(c, d)' = Owes(c, d)
  BY <1>3, <1>7 DEF Owes
<1>. QED
  BY <1>1, <1>3, <1>4, <1>6, <1>8, QuietStep

LEMMA CancelTold ==
  ASSUME NewsInvs, NEW c \in Client, NEW id \in OrderIds, HandleCancelOrder(c, id)
  PROVE  HandlersInv' /\ NewsInv'
<1>. USE DEF NewsInvs
<1>1. ClientStep(c) /\ Functions /\ HandlerOK(c)
  BY DEF ClientStep, HandlersInv
<1>2. PICK r : r = result'
  OBVIOUS
<1>3. /\ pc[c] = "idle" /\ pc'[c] = "returned" /\ call'[c] = r /\ outbox' = outbox
      /\ told' = told /\ AdapterCancel(id)
  BY <1>1, <1>2 DEF HandleCancelOrder, Begin, Goto, Functions, IsOn
<1>4. r.kind = "cancel" /\ r.orderId = id
  BY <1>2, <1>3 DEF AdapterCancel, CancelResult
<1>5. Broadcasts(r) = <<StatusMsg(id, "CANCELLED", 0), BookMsg>> /\ (Succeeded(r) <=> r.success)
  BY <1>4 DEF Broadcasts, Succeeded
<1>6. Posts(Broadcasts(r)) /\ NewsOnce(Broadcasts(r)) /\ Items(Broadcasts(r)) = {<<"CANCELLED", id>>}
  BY <1>5, CancelBroadcasts
<1>7. HandlersInv'
  <2>1. HandlerOK(c)'
    BY <1>1, <1>3, <1>4, <1>6 DEF HandlerOK, AfterCall
  <2>. QED
    BY <1>1, <1>3, <2>1, HandlersKept DEF HandlersInv
<1>8. Held(c) = {} /\ Held(c)' = IF r.success THEN {<<"CANCELLED", id>>} ELSE {}
  BY <1>3, <1>5, <1>6 DEF Held, AfterCall
<1>9. CASE r.success
  <2>1. PICK new : new = {<<"CANCELLED", id>>}
    OBVIOUS
  <2>2. Happened' = Happened \cup new /\ new \cap Happened = {}
    BY <1>2, <1>3, <1>9, <2>1, CancelNews
  <2>3. \A d \in Client : Owes(c, d)' = Owes(c, d) \cup new
    BY <1>3, <1>8, <1>9, <2>1 DEF Owes
  <2>. QED
    BY <1>1, <1>3, <1>7, <2>2, <2>3, NewsStep
<1>10. CASE ~r.success
  <2>1. Happened' = Happened
    BY <1>2, <1>3, <1>10, CancelNews
  <2>2. \A d \in Client : Owes(c, d)' = Owes(c, d)
    BY <1>3, <1>8, <1>10 DEF Owes
  <2>. QED
    BY <1>1, <1>3, <1>7, <2>1, <2>2, QuietStep
<1>. QED
  BY <1>9, <1>10

\* What happened stays as it is when the adapter does.
LEMMA HappenedSame ==
  ASSUME UNCHANGED adapterVars
  PROVE  Happened' = Happened /\ CallNews' = CallNews
<1>1. /\ recentTrades' = recentTrades /\ submitted' = submitted /\ cancelled' = cancelled
      /\ events' = events
  BY DEF adapterVars, engineVars
<1>2. SpentIds' = SpentIds
  BY <1>1, SpentIdsKept
<1>. QED
  BY <1>1, <1>2 DEF Happened, CallNews

LEMMA SetActiveTold ==
  ASSUME NewsInvs, NEW c \in Client, SetActiveOrders(c)
  PROVE  HandlersInv' /\ NewsInv'
<1>. USE DEF NewsInvs
<1>1. ClientStep(c) /\ Functions /\ HandlerOK(c)
  BY DEF ClientStep, HandlersInv, Handler
<1>2. /\ pc[c] = "returned" /\ call' = call /\ told' = told /\ UNCHANGED adapterVars
  BY DEF SetActiveOrders
<1>3. Happened' = Happened
  BY <1>2, HappenedSame
<1>4. CASE Succeeded(call[c])
  <2>1. pc'[c] \in {"recordOrder", "book"} /\ outbox' = outbox
    BY <1>1, <1>4 DEF SetActiveOrders, Goto, Functions, IsOn
  <2>2. HandlersInv'
    <3>1. HandlerOK(c)'
      BY <1>1, <1>2, <1>4, <2>1 DEF HandlerOK, AfterCall
    <3>. QED
      BY <1>1, <1>2, <3>1, HandlersKept DEF HandlersInv
  <2>3. \A d \in Client : Owes(c, d)' = Owes(c, d)
    BY <1>2, <1>4, <2>1 DEF Owes, Held, AfterCall
  <2>. QED
    BY <1>1, <1>2, <1>3, <2>2, <2>3, QuietStep
<1>5. CASE ~Succeeded(call[c])
  <2>1. pc'[c] = "sending" /\ outbox'[c] = Outgoing(c, Rejected, <<>>)
    BY <1>1, <1>5 DEF SetActiveOrders, Goto, Functions, IsOn
  <2>2. PICK ps : ps = outbox'[c]
    OBVIOUS
  <2>3. Parceled(ps) /\ ps # <<>> /\ ParcelsOnce(ps) /\ \A d \in Client : Due(ps, d) = {}
    BY <2>1, <2>2, EmptyMail, MessageItems, OutgoingDue
  <2>4. HandlersInv'
    <3>1. HandlerOK(c)'
      BY <2>1, <2>2, <2>3 DEF HandlerOK, AfterCall
    <3>. QED
      BY <1>1, <1>2, <3>1, HandlersKept DEF HandlersInv
  <2>5. outbox[c] = <<>>
    BY <1>1, <1>2 DEF HandlerOK
  <2>6. \A d \in Client : Owes(c, d)' = Owes(c, d)
    BY <1>2, <1>5, <2>1, <2>2, <2>3, <2>5, EmptyMail DEF Owes, Held, AfterCall
  <2>. QED
    BY <1>1, <1>2, <1>3, <2>4, <2>6, QuietStep
<1>. QED
  BY <1>4, <1>5

\* Counting and asking tell nobody anything.
LEMMA CountingTold ==
  ASSUME NewsInvs, NEW c \in Client,
         RecordOrder(c) \/ RecordTrade(c) \/ RecordVolume(c) \/ HandleGetMetrics(c)
  PROVE  HandlersInv' /\ NewsInv'
<1>. USE DEF NewsInvs
<1>1. ClientStep(c) /\ Functions /\ HandlerOK(c)
  BY DEF ClientStep, HandlersInv, Handler
<1>2. call' = call /\ told' = told /\ outbox' = outbox /\ UNCHANGED adapterVars
  BY DEF RecordOrder, RecordTrade, RecordVolume, HandleGetMetrics
<1>3. \/ /\ pc[c] \in {"recordOrder", "recordTrade", "recordVolume"}
         /\ pc'[c] \in {"recordTrade", "recordVolume", "book"}
      \/ pc[c] = "idle" /\ pc'[c] = "loading"
  BY <1>1 DEF RecordOrder, RecordTrade, RecordVolume, HandleGetMetrics, Begin, Goto,
     Functions, IsOn
<1>4. Happened' = Happened
  BY <1>2, HappenedSame
<1>5. HandlersInv'
  <2>1. HandlerOK(c)'
    BY <1>1, <1>2, <1>3 DEF HandlerOK, AfterCall
  <2>. QED
    BY <1>1, <1>2, <2>1, HandlersKept DEF HandlersInv
<1>6. Held(c)' = Held(c)
  BY <1>2, <1>3 DEF Held, AfterCall
<1>7. \A d \in Client : Owes(c, d)' = Owes(c, d)
  BY <1>2, <1>6 DEF Owes
<1>. QED
  BY <1>1, <1>2, <1>4, <1>5, <1>7, QuietStep

LEMMA GetBookTold ==
  ASSUME NewsInvs, NEW c \in Client, GetOrderBook(c)
  PROVE  HandlersInv' /\ NewsInv'
<1>. USE DEF NewsInvs
<1>1. ClientStep(c) /\ Functions /\ HandlerOK(c)
  BY DEF ClientStep, HandlersInv, Handler
<1>2. /\ pc[c] = "book" /\ pc'[c] = "sending" /\ call' = call /\ told' = told
      /\ UNCHANGED adapterVars /\ outbox'[c] = HandleResult(c)
  BY <1>1 DEF GetOrderBook, Goto, Functions, IsOn
<1>3. PICK r : r = call[c]
  OBVIOUS
<1>4. r.kind \in {"place", "cancel"} /\ Succeeded(r) /\ Posts(Broadcasts(r)) /\ NewsOnce(Broadcasts(r))
      /\ outbox[c] = <<>>
  BY <1>1, <1>2, <1>3 DEF HandlerOK, AfterCall
<1>5. \E direct : Item(direct) = Nothing /\ HandleResult(c) = Outgoing(c, direct, Broadcasts(r))
  BY <1>3, MessageItems DEF HandleResult, Broadcasts
<1>6. PICK direct : Item(direct) = Nothing /\ HandleResult(c) = Outgoing(c, direct, Broadcasts(r))
  BY <1>5
<1>7. PICK ps, ms : ps = outbox'[c] /\ ms = Broadcasts(r)
  OBVIOUS
<1>8. Parceled(ps) /\ ps # <<>> /\ ParcelsOnce(ps) /\ \A d \in Client : Due(ps, d) = Items(ms)
  BY <1>2, <1>4, <1>6, <1>7, OutgoingDue
<1>9. HandlersInv'
  <2>1. HandlerOK(c)'
    BY <1>2, <1>7, <1>8 DEF HandlerOK, AfterCall
  <2>. QED
    BY <1>1, <1>2, <2>1, HandlersKept DEF HandlersInv
<1>10. Held(c) = Items(ms) /\ Held(c)' = {}
  BY <1>2, <1>3, <1>4, <1>7 DEF Held, AfterCall
<1>11. \A d \in Client : Owes(c, d)' = Owes(c, d)
  BY <1>4, <1>7, <1>8, <1>10, EmptyMail DEF Owes
<1>12. Happened' = Happened
  BY <1>2, HappenedSame
<1>. QED
  BY <1>1, <1>2, <1>9, <1>11, <1>12, QuietStep

\* A load leaves some to be made or is the last, and then the reply is prepared.
LEMMA LoadedOrSent ==
  ASSUME Functions, NEW c \in Client, LoadCounter(c)
  PROVE  \/ pc'[c] = "loading" /\ outbox'[c] = outbox[c]
         \/ pc'[c] = "sending"
            /\ \E x : outbox'[c] = Outgoing(c, [type |-> "METRICS", data |-> x], <<>>)
<1>1. CASE DOMAIN loaded'[c] = Counter
  <2>1. PICK x : x = loaded'[c]
    OBVIOUS
  <2>2. outbox' = [outbox EXCEPT ![c] = Outgoing(c, [type |-> "METRICS", data |-> x], <<>>)]
        /\ pc' = [pc EXCEPT ![c] = "sending"]
    BY <1>1, <2>1 DEF LoadCounter, Goto
  <2>3. outbox'[c] = Outgoing(c, [type |-> "METRICS", data |-> x], <<>>)
    BY <2>2 DEF Functions, IsOn
  <2>4. pc'[c] = "sending"
    BY <2>2 DEF Functions, IsOn
  <2>. QED
    BY <2>3, <2>4
<1>2. CASE DOMAIN loaded'[c] # Counter
  <2>1. pc[c] = "loading" /\ outbox' = outbox /\ pc' = pc
    BY <1>2 DEF LoadCounter
  <2>. QED
    BY <2>1
<1>. QED
  BY <1>1, <1>2

LEMMA LoadTold ==
  ASSUME NewsInvs, NEW c \in Client, LoadCounter(c)
  PROVE  HandlersInv' /\ NewsInv'
<1>. USE DEF NewsInvs
<1>1. ClientStep(c) /\ Functions /\ HandlerOK(c)
  BY DEF ClientStep, HandlersInv, Handler
<1>2. pc[c] = "loading" /\ call' = call /\ told' = told /\ UNCHANGED adapterVars
  BY DEF LoadCounter
<1>3. \/ pc'[c] = "loading" /\ outbox'[c] = outbox[c]
      \/ pc'[c] = "sending" /\ \E x : outbox'[c] = Outgoing(c, [type |-> "METRICS", data |-> x], <<>>)
  BY <1>1, LoadedOrSent
<1>4. outbox[c] = <<>>
  BY <1>1, <1>2 DEF HandlerOK
<1>5. PICK ps : ps = outbox'[c]
  OBVIOUS
<1>6. /\ Parceled(ps) /\ ParcelsOnce(ps) /\ \A d \in Client : Due(ps, d) = {}
      /\ pc'[c] = "sending" <=> ps # <<>>
  <2>1. CASE pc'[c] = "loading" /\ outbox'[c] = outbox[c]
    BY <1>4, <1>5, <2>1, EmptyMail
  <2>2. CASE pc'[c] = "sending" /\ \E x : outbox'[c] = Outgoing(c, [type |-> "METRICS", data |-> x], <<>>)
    <3>1. PICK x : outbox'[c] = Outgoing(c, [type |-> "METRICS", data |-> x], <<>>)
      BY <2>2
    <3>2. PICK direct : direct = [type |-> "METRICS", data |-> x]
      OBVIOUS
    <3>3. Item(direct) = Nothing
      BY <3>2, MessageItems
    <3>. QED
      BY <1>5, <2>2, <3>1, <3>2, <3>3, EmptyMail, OutgoingDue
  <2>. QED
    BY <1>3, <2>1, <2>2
<1>7. HandlersInv'
  <2>1. HandlerOK(c)'
    BY <1>3, <1>5, <1>6 DEF HandlerOK, AfterCall
  <2>. QED
    BY <1>1, <1>2, <2>1, HandlersKept DEF HandlersInv
<1>8. \A d \in Client : Owes(c, d)' = Owes(c, d)
  BY <1>2, <1>3, <1>4, <1>5, <1>6, EmptyMail DEF Owes, Held, AfterCall
<1>9. Happened' = Happened
  BY <1>2, HappenedSame
<1>. QED
  BY <1>1, <1>2, <1>7, <1>8, <1>9, QuietStep

LEMMA SendTold ==
  ASSUME NewsInvs, NEW c \in Client, SendOne(c)
  PROVE  HandlersInv' /\ NewsInv'
<1>. USE DEF NewsInvs
<1>1. ClientStep(c) /\ Functions /\ HandlerOK(c)
  BY DEF ClientStep, HandlersInv, Handler
<1>2. PICK ps : ps = outbox[c]
  OBVIOUS
<1>3. pc[c] = "sending" /\ Parceled(ps) /\ ParcelsOnce(ps) /\ ps # <<>> /\ UNCHANGED adapterVars
  BY <1>1, <1>2 DEF HandlerOK, SendOne
<1>. DEFINE t    == Min(ps[1].to)
            left == ps[1].to \ {t}
            m    == ps[1].msg
            qs   == IF left = {} THEN Tail(ps) ELSE [ps EXCEPT ![1].to = left]
<1>4. /\ t \in Client /\ Parceled(qs) /\ ParcelsOnce(qs)
      /\ Item(m) # Nothing => Item(m) \in Due(ps, t)
      /\ Due(qs, t) = Due(ps, t) \ {Item(m)}
      /\ \A d \in Client \ {t} : Due(qs, d) = Due(ps, d)
      /\ Head(ps) = ps[1]
  BY <1>3, SendFirst
<1>5. outbox'[c] = qs /\ told' = [told EXCEPT ![t] = Append(told[t], m)]
  BY <1>1, <1>2, <1>4 DEF SendOne, Functions, IsOn
<1>6. PICK q : q = qs
  OBVIOUS
<1>7. /\ outbox'[c] = q /\ Parceled(q) /\ ParcelsOnce(q)
      /\ Due(q, t) = Due(ps, t) \ {Item(m)} /\ \A d \in Client \ {t} : Due(q, d) = Due(ps, d)
  BY <1>4, <1>5, <1>6
<1>8. pc'[c] = IF q = <<>> THEN "idle" ELSE "sending"
  BY <1>1, <1>3, <1>7 DEF SendOne, Goto, Functions, IsOn
<1>. HIDE DEF t, m, qs
<1>9. \A d \in Client : Posts(told[d])'
  <2>1. Posts(told'[t])
    <3>1. told'[t] = Append(told[t], m) /\ Posts(told[t])
      BY <1>4, <1>5 DEF HandlersInv, Functions, IsOn
    <3>. QED
      BY <3>1, PostsAppend
  <2>2. \A d \in Client \ {t} : told'[d] = told[d]
    BY <1>4, <1>5 DEF HandlersInv, Functions, IsOn
  <2>. QED
    BY <2>1, <2>2 DEF HandlersInv
<1>10. HandlersInv'
  <2>1. HandlerOK(c)'
    BY <1>7, <1>8 DEF HandlerOK, AfterCall
  <2>. QED
    BY <1>1, <1>9, <2>1, HandlersKept
<1>11. /\ Held(c) = {} /\ Held(c)' = {}
  BY <1>3, <1>8 DEF Held, AfterCall
<1>12. /\ \A d \in Client : Owes(c, d) = Due(ps, d) /\ Owes(c, d)' = Due(q, d)
  BY <1>2, <1>7, <1>11 DEF Owes
<1>13. /\ Item(m) # Nothing => Item(m) \in Owes(c, t)
       /\ Owes(c, t)' = Owes(c, t) \ {Item(m)}
       /\ \A d \in Client \ {t} : Owes(c, d)' = Owes(c, d)
  BY <1>4, <1>7, <1>12
<1>14. Happened' = Happened
  BY <1>3, HappenedSame
<1>. QED
  BY <1>1, <1>4, <1>5, <1>10, <1>13, <1>14, TellStep

LEMMA NewsKept ==
  ASSUME NewsInvs, [ServerNext \/ AllAnswered]_serverVars
  PROVE  HandlersInv' /\ NewsInv'
<1>1. ASSUME NEW c \in Client, NEW req \in PlaceOrderRequest, HandlePlaceOrder(c, req)
      PROVE  HandlersInv' /\ NewsInv'
  BY <1>1, PlaceTold
<1>2. ASSUME NEW c \in Client, NEW id \in OrderIds, HandleCancelOrder(c, id)
      PROVE  HandlersInv' /\ NewsInv'
  BY <1>2, CancelTold
<1>3. ASSUME NEW c \in Client, HandleGetMetrics(c) \/ Handler(c)
      PROVE  HandlersInv' /\ NewsInv'
  BY <1>3, EngineStepTold, EngineReturnsTold, SetActiveTold, CountingTold, GetBookTold,
     SendTold, LoadTold DEF Handler
<1>4. CASE UNCHANGED serverVars
  <2>1. /\ pc' = pc /\ call' = call /\ counted' = counted /\ loaded' = loaded /\ outbox' = outbox
        /\ told' = told /\ asked' = asked /\ metrics' = metrics /\ UNCHANGED adapterVars
    BY <1>4 DEF serverVars, handlerVars
  <2>2. Happened' = Happened /\ CallNews' = CallNews
    BY <2>1, HappenedSame
  <2>3. HandlersInv'
    BY <2>1 DEF NewsInvs, HandlersInv, Functions, HandlerOK
  <2>4. ASSUME NEW d \in Client PROVE OwedTo(d)' = OwedTo(d)
    BY <2>1, <2>2 DEF OwedTo, Owes, Held
  <2>5. NewsInv'
    BY <2>1, <2>2, <2>4 DEF NewsInvs, NewsInv
  <2>. QED
    BY <2>3, <2>5
<1>. QED
  BY <1>1, <1>2, <1>3, <1>4 DEF ServerNext, AllAnswered

LEMMA HistoryStep ==
  ASSUME EngineInvs, IdsBelowNext, HistoryInv, [AdapterNext]_adapterVars
  PROVE  HistoryInv'
<1>. USE DEF EngineInvs
<1>1. ASSUME NEW req \in PlaceOrderRequest, AdapterPlace(req) PROVE HistoryInv'
  <2>1. EngineOrder(req) \in Order /\ PlaceOrder(EngineOrder(req))
    BY <1>1, PlacementAllowed DEF AdapterPlace
  <2>. QED
    BY <2>1, PlaceOrderHistory
<1>2. CASE AdapterMatch
  BY <1>2, MatchHistory DEF AdapterMatch
<1>3. CASE AdapterReply
  BY <1>3, FinishHistory DEF AdapterReply
<1>4. ASSUME NEW id \in OrderIds, AdapterCancel(id) PROVE HistoryInv'
  BY <1>4, CancelHistory DEF AdapterCancel
<1>5. CASE UNCHANGED adapterVars
  <2>1. recentTrades' = recentTrades /\ submitted' = submitted /\ cancelled' = cancelled
    BY <1>5 DEF adapterVars, engineVars
  <2>. QED
    BY <2>1, HistoryKept
<1>. QED
  BY <1>1, <1>2, <1>3, <1>4, <1>5 DEF AdapterNext

LEMMA NewsInit == ServerInit => HistoryInv /\ HandlersInv /\ NewsInv
<1>. SUFFICES ASSUME ServerInit PROVE HistoryInv /\ HandlersInv /\ NewsInv
  OBVIOUS
<1>1. HistoryInv
  BY HistoryInit DEF ServerInit, AdapterInit
<1>2. /\ \A c \in Client : pc[c] = "idle" /\ outbox[c] = <<>> /\ told[c] = <<>>
      /\ Functions
  BY DEF ServerInit, Functions, IsOn
<1>3. HandlersInv
  BY <1>2, EmptyMail DEF HandlersInv, HandlerOK, AfterCall
<1>4. Happened = {}
  <2>1. recentTrades = <<>> /\ submitted = <<>> /\ cancelled = {}
    BY DEF ServerInit, AdapterInit, EngineInit
  <2>2. DOMAIN recentTrades = {} /\ SpentIds = {}
    BY <2>1 DEF SpentIds, ToSet
  <2>. QED
    BY <2>1, <2>2 DEF Happened, News
<1>5. \A c, d \in Client : Owes(c, d) = {}
  BY <1>2, EmptyMail DEF Owes, Held, AfterCall
<1>6. \A d \in Client : Items(told[d]) = {} /\ NewsOnce(told[d])
  BY <1>2, EmptyMail
<1>7. NewsInv
  BY <1>4, <1>5, <1>6 DEF NewsInv, Flow, OwedTo
<1>. QED
  BY <1>1, <1>3, <1>7

\* The invariant of the server.
LEMMA NewsInvariant == ServerSpec => []NewsInvs
<1>1. AdapterSpec => [](EngineInvs /\ IdsBelowNext /\ AdapterInv)
  BY AdapterInvariant
<1>2. EngineInvs => EngineInv
  BY DEF EngineInvs
<1>3. ServerSpec => []ExclusiveInv
  BY <1>1, <1>2, ServerUsesAdapter, ExclusiveInit, ExclusiveStep, PTL DEF ServerSpec
<1>4. ServerSpec => []HistoryInv
  <2>1. ServerInit => HistoryInv
    BY NewsInit
  <2>2. EngineInvs /\ IdsBelowNext /\ HistoryInv /\ [AdapterNext]_adapterVars => HistoryInv'
    BY HistoryStep
  <2>. QED
    BY <1>1, <2>1, <2>2, ServerUsesAdapter, PTL DEF ServerSpec, AdapterSpec
<1>5. ServerInit => HandlersInv /\ NewsInv
  BY NewsInit
<1>6. /\ EngineInvs /\ IdsBelowNext /\ AdapterInv /\ ExclusiveInv /\ HistoryInv
      /\ HandlersInv /\ NewsInv /\ [ServerNext \/ AllAnswered]_serverVars
      => HandlersInv' /\ NewsInv'
  BY NewsKept DEF NewsInvs
<1>7. /\ EngineInvs /\ IdsBelowNext /\ AdapterInv /\ ExclusiveInv /\ HistoryInv
      /\ HandlersInv /\ NewsInv
      => NewsInvs
  BY DEF NewsInvs
<1>. QED
  BY <1>1, <1>3, <1>4, <1>5, <1>6, <1>7, ServerUsesAdapter, PTL DEF ServerSpec

LEMMA OutcomeFollows == NewsInvs => OutcomeTold
<1>. SUFFICES ASSUME NewsInvs, NEW c \in Client
              PROVE  /\ ToldOnce(c, IsTrade) /\ ToldOnce(c, IsEnding)
                     /\ AllIdle =>
                          /\ IdsTold(c, IsTrade) =
                                {recentTrades[i].tradeId : i \in DOMAIN recentTrades}
                          /\ IdsTold(c, IsCancelled) = cancelled
                          /\ IdsTold(c, IsFilled) =
                                {o.orderId : o \in {x \in ToSet(submitted) : Unfilled(x) = 0}}
  BY DEF OutcomeTold
<1>1. PICK ms : ms = told[c]
  OBVIOUS
<1>2. NewsOnce(ms) /\ Items(ms) \subseteq Happened
  BY <1>1 DEF NewsInvs, NewsInv, Flow
<1>3. \A i \in DOMAIN ms :
         /\ IsTrade(ms[i]) <=> Item(ms[i]) = <<"TRADE", ms[i].id>>
         /\ IsFilled(ms[i]) <=> Item(ms[i]) = <<"FILLED", ms[i].id>>
         /\ IsCancelled(ms[i]) <=> Item(ms[i]) = <<"CANCELLED", ms[i].id>>
  BY DEF Item, IsTrade, IsFilled, IsCancelled, Nothing
<1>4. \A s, id : s \in {"TRADE", "FILLED", "CANCELLED"} => <<s, id>> # Nothing
  BY DEF Nothing
<1>5. \A i \in DOMAIN ms : Item(ms[i]) # Nothing => Item(ms[i]) \in Items(ms)
  BY DEF Items
<1>6. ToldOnce(c, IsTrade)
  <2>1. ASSUME NEW i \in DOMAIN ms, NEW j \in DOMAIN ms, IsTrade(ms[i]), IsTrade(ms[j]),
               ms[i].id = ms[j].id
        PROVE  i = j
    BY <1>2, <1>3, <1>4, <2>1 DEF NewsOnce
  <2>. QED
    BY <1>1, <2>1 DEF ToldOnce, ToldOf
<1>7. \A id : ~(<<"FILLED", id>> \in Items(ms) /\ <<"CANCELLED", id>> \in Items(ms))
  <2>. SUFFICES ASSUME NEW id, <<"FILLED", id>> \in Happened, <<"CANCELLED", id>> \in Happened
                PROVE  FALSE
    BY <1>2
  <2>1. id \in SpentIds /\ id \in cancelled
    BY DEF Happened, News
  <2>. QED
    BY <2>1, AliveNotSpent DEF NewsInvs, HistoryInv, CancelledAlive, EngineInvs, RefinementInv
<1>8. ToldOnce(c, IsEnding)
  <2>. SUFFICES ASSUME NEW i \in DOMAIN ms, NEW j \in DOMAIN ms, IsEnding(ms[i]), IsEnding(ms[j]),
                       ms[i].id = ms[j].id
                PROVE  i = j
    BY <1>1 DEF ToldOnce, ToldOf
  <2>1. Item(ms[i]) # Nothing /\ Item(ms[j]) # Nothing
    BY <1>3, <1>4 DEF IsEnding
  <2>2. Item(ms[i]) = Item(ms[j])
    BY <1>3, <1>5, <1>7, <2>1 DEF IsEnding
  <2>. QED
    BY <1>2, <2>1, <2>2 DEF NewsOnce
<1>9. ASSUME AllIdle PROVE Items(ms) = Happened
  <2>1. \A e \in Client : Owes(e, c) = {}
    <3>1. \A e \in Client : pc[e] = "idle" /\ outbox[e] = <<>>
      BY <1>9 DEF AllIdle, NewsInvs, HandlersInv, HandlerOK
    <3>. QED
      BY <3>1, EmptyMail DEF Owes, Held, AfterCall
  <2>2. Flow(Happened, Items(ms), OwedTo(c))
    BY <1>1 DEF NewsInvs, NewsInv
  <2>3. Happened = Items(ms) \cup (UNION {OwedTo(c)[e] : e \in Client})
    BY <2>2, Zenon DEF Flow
  <2>4. \A e \in Client : OwedTo(c)[e] = {}
    BY <2>1, Zenon DEF OwedTo
  <2>5. UNION {OwedTo(c)[e] : e \in Client} = {}
    BY <2>4
  <2>. QED
    BY <2>3, <2>5
<1>10. /\ IdsTold(c, IsTrade) = {x \in {ms[i].id : i \in DOMAIN ms} : <<"TRADE", x>> \in Items(ms)}
       /\ IdsTold(c, IsFilled) = {x \in {ms[i].id : i \in DOMAIN ms} : <<"FILLED", x>> \in Items(ms)}
       /\ IdsTold(c, IsCancelled) =
             {x \in {ms[i].id : i \in DOMAIN ms} : <<"CANCELLED", x>> \in Items(ms)}
  <2>1. \A x : \A i \in DOMAIN ms :
           /\ Item(ms[i]) = <<"TRADE", x>> <=> IsTrade(ms[i]) /\ ms[i].id = x
           /\ Item(ms[i]) = <<"FILLED", x>> <=> IsFilled(ms[i]) /\ ms[i].id = x
           /\ Item(ms[i]) = <<"CANCELLED", x>> <=> IsCancelled(ms[i]) /\ ms[i].id = x
    BY <1>3 DEF Item, Nothing
  <2>2. \A y : y \in Items(ms) <=> y # Nothing /\ \E i \in DOMAIN ms : Item(ms[i]) = y
    BY DEF Items
  <2>3. IdsTold(c, IsTrade) = {x \in {ms[i].id : i \in DOMAIN ms} : <<"TRADE", x>> \in Items(ms)}
    <3>1. \A x : <<"TRADE", x>> \in Items(ms) <=> \E i \in DOMAIN ms : Item(ms[i]) = <<"TRADE", x>>
      BY <1>4, <2>2
    <3>2. \A x : <<"TRADE", x>> \in Items(ms) <=> \E i \in DOMAIN ms : IsTrade(ms[i]) /\ ms[i].id = x
      BY <2>1, <3>1, Zenon
    <3>. QED
      BY <1>1, <3>2 DEF IdsTold, ToldOf
  <2>4. IdsTold(c, IsFilled) = {x \in {ms[i].id : i \in DOMAIN ms} : <<"FILLED", x>> \in Items(ms)}
    <3>1. \A x : <<"FILLED", x>> \in Items(ms) <=> \E i \in DOMAIN ms : Item(ms[i]) = <<"FILLED", x>>
      BY <1>4, <2>2
    <3>2. \A x : <<"FILLED", x>> \in Items(ms) <=> \E i \in DOMAIN ms : IsFilled(ms[i]) /\ ms[i].id = x
      BY <2>1, <3>1, Zenon
    <3>. QED
      BY <1>1, <3>2 DEF IdsTold, ToldOf
  <2>5. IdsTold(c, IsCancelled) = {x \in {ms[i].id : i \in DOMAIN ms} : <<"CANCELLED", x>> \in Items(ms)}
    <3>1. \A x : <<"CANCELLED", x>> \in Items(ms) <=> \E i \in DOMAIN ms : Item(ms[i]) = <<"CANCELLED", x>>
      BY <1>4, <2>2
    <3>2. \A x : <<"CANCELLED", x>> \in Items(ms) <=> \E i \in DOMAIN ms : IsCancelled(ms[i]) /\ ms[i].id = x
      BY <2>1, <3>1, Zenon
    <3>. QED
      BY <1>1, <3>2 DEF IdsTold, ToldOf
  <2>. QED
    BY <2>3, <2>4, <2>5
<1>11. \A s, id : <<s, id>> \in Items(ms) =>
                     s \in {"TRADE", "FILLED", "CANCELLED"} /\ \E i \in DOMAIN ms : ms[i].id = id
  BY DEF Items, Item, Nothing
<1>12. {recentTrades[i].tradeId : i \in DOMAIN recentTrades} = DOMAIN recentTrades
  BY DEF NewsInvs, HistoryInv, TradesNumbered
<1>13. \A id : /\ <<"TRADE", id>> \in Happened <=> id \in DOMAIN recentTrades
               /\ <<"FILLED", id>> \in Happened <=> id \in SpentIds
               /\ <<"CANCELLED", id>> \in Happened <=> id \in cancelled
  BY DEF Happened, News
<1>14. ASSUME AllIdle
       PROVE  /\ IdsTold(c, IsTrade) = DOMAIN recentTrades
              /\ IdsTold(c, IsCancelled) = cancelled
              /\ IdsTold(c, IsFilled) = SpentIds
  BY <1>9, <1>10, <1>11, <1>13, <1>14
<1>. QED
  BY <1>6, <1>8, <1>12, <1>14 DEF SpentIds

\* However the requests of the clients race, every one of them hears of each
\* trade once and of the end of each order once, filled or cancelled as the
\* engine decided, and when the handlers are done of all of them.
THEOREM OutcomesAreTold == ServerSpec => []OutcomeTold
  BY NewsInvariant, OutcomeFollows, PTL

-----------------------------------------------------------------------------
(* Sums that are compared.                                                 *)

LEMMA SumsOrdered ==
  ASSUME NEW m \in Nat, NEW ns, NEW f, IsSum(f, m, ns), NEW ms, NEW g, IsSum(g, m, ms),
         \A n \in 1 .. m : ns[n] \in Nat /\ ms[n] \in Nat /\ ns[n] <= ms[n]
  PROVE  f[m] <= g[m]
<1>. DEFINE Odd == {n \in 0 .. m : ~(f[n] \in Nat /\ g[n] \in Nat /\ f[n] <= g[n])}
<1>. SUFFICES ASSUME Odd # {} PROVE FALSE
  OBVIOUS
<1>1. PICK n \in Odd : \A l \in Odd : n <= l
  <2>1. Odd \in SUBSET Nat
    OBVIOUS
  <2>. HIDE DEF Odd
  <2>. QED
    BY <2>1, LeastExists
<1>2. n # 0
  BY <1>1, SumFacts
<1>3. n - 1 \in 0 .. m /\ n - 1 \notin Odd /\ n \in 1 .. m
  BY <1>1, <1>2
<1>4. f[n] = f[n - 1] + ns[n] /\ g[n] = g[n - 1] + ms[n]
  BY <1>3, SumFacts
<1>. QED
  BY <1>3, <1>4

LEMMA TotalOrdered ==
  ASSUME NEW ns \in Seq(Nat), NEW ms \in Seq(Nat), Len(ms) = Len(ns),
         \A n \in 1 .. Len(ns) : ns[n] <= ms[n]
  PROVE  Total(ns) <= Total(ms)
<1>1. PICK f : IsSum(f, Len(ns), ns) /\ Total(ns) = f[Len(ns)]
  BY TotalIs
<1>2. PICK g : IsSum(g, Len(ms), ms) /\ Total(ms) = g[Len(ms)]
  BY TotalIs
<1>3. \A n \in 1 .. Len(ns) : ns[n] \in Nat /\ ms[n] \in Nat
  OBVIOUS
<1>4. Len(ns) \in Nat
  OBVIOUS
<1>5. f[Len(ns)] <= g[Len(ns)]
  BY <1>1, <1>2, <1>3, <1>4, SumsOrdered
<1>. QED
  BY <1>1, <1>2, <1>5

\* Sequences that differ in one place.
MoreBy(x, a, b) == b = a + x

LEMMA SumsDiffer ==
  ASSUME NEW m \in Nat, NEW ns, NEW f, IsSum(f, m, ns), NEW ms, NEW g, IsSum(g, m, ms),
         \A n \in 1 .. m : ns[n] \in Nat /\ ms[n] \in Nat,
         NEW k \in 1 .. m, \A n \in 1 .. m : n # k => ns[n] = ms[n],
         NEW x \in Int, MoreBy(x, ns[k], ms[k])
  PROVE  MoreBy(x, f[m], g[m])
<1>. DEFINE by(n) == IF n < k THEN 0 ELSE x
            Odd == {n \in 0 .. m : ~(f[n] \in Nat /\ g[n] \in Nat /\ g[n] = f[n] + by(n))}
<1>. SUFFICES ASSUME Odd # {} PROVE FALSE
  <2>1. m \notin Odd /\ m \in 0 .. m /\ ~(m < k)
    OBVIOUS
  <2>. QED
    BY <2>1 DEF MoreBy
<1>1. PICK n \in Odd : \A l \in Odd : n <= l
  <2>1. Odd \in SUBSET Nat
    OBVIOUS
  <2>. HIDE DEF Odd
  <2>. QED
    BY <2>1, LeastExists
<1>2. n # 0
  <2>1. f[0] = 0 /\ g[0] = 0 /\ 0 < k
    BY SumFacts
  <2>. QED
    BY <1>1, <2>1
<1>3. n - 1 \in 0 .. m /\ n - 1 \notin Odd /\ n \in 1 .. m
  BY <1>1, <1>2
<1>4. f[n] = f[n - 1] + ns[n] /\ g[n] = g[n - 1] + ms[n]
  BY <1>3, SumFacts
<1>0. ms[k] = ns[k] + x
  BY DEF MoreBy
<1>5. /\ f[n - 1] \in Nat /\ g[n - 1] \in Nat /\ g[n - 1] = f[n - 1] + by(n - 1)
      /\ ns[n] \in Nat /\ ms[n] \in Nat
  BY <1>3
<1>6. CASE n = k
  <2>1. by(n - 1) = 0 /\ by(n) = x
    BY <1>3, <1>6
  <2>. HIDE DEF by
  <2>. QED
    BY <1>1, <1>3, <1>4, <1>5, <1>6, <1>0, <2>1
<1>7. CASE n # k
  <2>1. by(n - 1) = by(n) /\ ns[n] = ms[n] /\ by(n) \in Int
    <3>1. n - 1 < k <=> n < k
      BY <1>3, <1>7
    <3>. QED
      BY <1>3, <1>7, <3>1
  <2>. HIDE DEF by
  <2>. QED
    BY <1>1, <1>3, <1>4, <1>5, <2>1
<1>. QED
  BY <1>6, <1>7

LEMMA TotalChanged ==
  ASSUME NEW ns, NEW ms, NEW m \in Nat, Len(ns) = m, Len(ms) = m,
         \A n \in 1 .. m : ns[n] \in Nat /\ ms[n] \in Nat,
         NEW k \in 1 .. m, \A n \in 1 .. m : n # k => ns[n] = ms[n],
         NEW x \in Int, MoreBy(x, ns[k], ms[k])
  PROVE  MoreBy(x, Total(ns), Total(ms))
<1>1. PICK f : IsSum(f, m, ns) /\ Total(ns) = f[m]
  BY TotalIs
<1>2. PICK g : IsSum(g, m, ms) /\ Total(ms) = g[m]
  BY TotalIs
<1>3. MoreBy(x, f[m], g[m])
  BY <1>1, <1>2, SumsDiffer
<1>. QED
  BY <1>1, <1>2, <1>3

-----------------------------------------------------------------------------
(* What a handler has not counted yet.                                     *)

\* The trades of the call of c.
CallTrades(c) ==
    IF pc[c] = "engine" THEN Rows(Reports(events))
    ELSE IF pc[c] \in AfterCall /\ call[c].kind = "place" THEN call[c].trades ELSE <<>>

\* The trades of ts after the first n.
IdsAfter(ts, n) == {ts[i].tradeId : i \in {j \in DOMAIN ts : j > n}}

\* Those the handler of c has not counted, and whose volume it has not added.
UncountedBy(c) ==
    IdsAfter(CallTrades(c), IF pc[c] = "recordVolume" THEN counted[c] + 1 ELSE counted[c])
UnaddedBy(c) == IdsAfter(CallTrades(c), counted[c])

Uncounted == UNION {UncountedBy(c) : c \in Client}
Unadded   == UNION {UnaddedBy(c) : c \in Client}

\* The quantities of the trades, without those in S.
Volumes(S) == [i \in DOMAIN recentTrades |-> IF i \in S THEN 0 ELSE recentTrades[i].quantity]

CountInv == /\ metrics.tradesExecuted = Cardinality(DOMAIN recentTrades \ Uncounted)
            /\ metrics.totalVolume = Total(Volumes(Unadded))

RealTrade(t) == t.tradeId \in DOMAIN recentTrades /\ t.quantity = recentTrades[t.tradeId].quantity

Real(ts)     == \A i \in DOMAIN ts : RealTrade(ts[i])
Numbered(ts) == \A i, j \in DOMAIN ts : ts[i].tradeId = ts[j].tradeId => i = j

CountingOK(c) ==
    /\ Posts(CallTrades(c)) /\ Real(CallTrades(c)) /\ Numbered(CallTrades(c))
    /\ counted[c] \in Nat
    /\ pc[c] \in {"idle", "loading", "engine", "returned", "recordOrder"} => counted[c] = 0
    /\ pc[c] \in {"recordOrder", "recordTrade", "recordVolume"} => call[c].kind = "place"
    /\ pc[c] \in {"recordTrade", "recordVolume"} => counted[c] < Len(CallTrades(c))
    /\ pc[c] = "book" => counted[c] = Len(CallTrades(c))
    /\ pc[c] = "returned" /\ call[c].kind = "place" /\ ~call[c].accepted => call[c].trades = <<>>
    /\ pc[c] \in AfterCall /\ call[c].kind = "place" /\ call[c].accepted =>
          {<<"TRADE", id>> : id \in TradeIds(call[c].trades)} \subseteq
             Items(PlaceBroadcasts(call[c]))

CountingInv == \A c \in Client : CountingOK(c)

\* Nobody else is told of a trade its handler has not counted.
LEMMA TradesHeld ==
  ASSUME NEW c \in Client, HandlersInv, CountingOK(c), NEW id \in TradeIds(CallTrades(c))
  PROVE  <<"TRADE", id>> \in Held(c)
<1>1. CASE pc[c] = "engine"
  <2>1. CallTrades(c) = Rows(Reports(events))
    BY <1>1 DEF CallTrades
  <2>2. TradeIds(Rows(Reports(events))) = TradeIds(Reports(events))
    <3>1. PICK rs : rs = Reports(events)
      OBVIOUS
    <3>2. TradeIds(Rows(rs)) = TradeIds(rs)
      BY DEF TradeIds, Rows, Row
    <3>. QED
      BY <3>1, <3>2
  <2>3. <<"TRADE", id>> \in CallNews
    BY <2>1, <2>2 DEF CallNews, News
  <2>. QED
    BY <1>1, <2>3 DEF Held
<1>2. CASE pc[c] \in AfterCall /\ call[c].kind = "place"
  <2>1. CallTrades(c) = call[c].trades
    BY <1>2 DEF CallTrades, AfterCall
  <2>2. call[c].trades # <<>>
    <3>1. TradeIds(<<>>) = {}
      BY DEF TradeIds
    <3>. QED
      BY <2>1, <3>1
  <2>3. call[c].accepted
    BY <1>2, <2>2 DEF CountingOK, HandlersInv, HandlerOK, Succeeded, AfterCall
  <2>4. <<"TRADE", id>> \in Items(PlaceBroadcasts(call[c]))
    BY <1>2, <2>1, <2>3 DEF CountingOK
  <2>. QED
    BY <1>2, <2>3, <2>4 DEF Held, Broadcasts, Succeeded, AfterCall
<1>3. CASE CallTrades(c) = <<>>
  BY <1>3 DEF TradeIds
<1>. QED
  BY <1>1, <1>2, <1>3 DEF CallTrades

LEMMA LeftAreTrades ==
  ASSUME NEW c
  PROVE  UncountedBy(c) \subseteq TradeIds(CallTrades(c)) /\ UnaddedBy(c) \subseteq TradeIds(CallTrades(c))
  BY DEF UncountedBy, UnaddedBy, IdsAfter, TradeIds

\* So no two handlers have the same trade to count, and nobody was told of it.
LEMMA TradesApart ==
  ASSUME HandlersInv, CountingInv, NewsInv, NEW c \in Client
  PROVE  /\ \A e \in Client \ {c} : TradeIds(CallTrades(c)) \cap TradeIds(CallTrades(e)) = {}
         /\ \A d \in Client, id \in TradeIds(CallTrades(c)) : <<"TRADE", id>> \notin Items(told[d])
         /\ TradeIds(CallTrades(c)) \subseteq DOMAIN recentTrades
<1>1. \A e \in Client : \A id : id \in TradeIds(CallTrades(e)) => <<"TRADE", id>> \in Held(e)
  BY TradesHeld DEF CountingInv
<1>2. ASSUME NEW e \in Client \ {c} PROVE Held(c) \cap Held(e) = {}
  <2>1. OwedTo(c)[c] \cap OwedTo(c)[e] = {}
    BY DEF NewsInv, Flow
  <2>. QED
    BY <2>1 DEF OwedTo, Owes
<1>3. \A d \in Client : Items(told[d]) \cap Held(c) = {}
  BY DEF NewsInv, Flow, OwedTo, Owes
<1>4. TradeIds(CallTrades(c)) \subseteq DOMAIN recentTrades
  BY DEF CountingInv, CountingOK, Real, RealTrade, TradeIds
<1>. QED
  BY <1>1, <1>2, <1>3, <1>4

\* What the engine's loop adds to the trades, and to those of its call.
Made(t) ==
    /\ t \in Trade
    /\ t.tradeId = Len(recentTrades) + 1 /\ t.quantity \in Nat
    /\ recentTrades' = Append(recentTrades, t)
    /\ Len(recentTrades) \in Nat /\ DOMAIN recentTrades = 1 .. Len(recentTrades)
    /\ DOMAIN recentTrades' = 1 .. Len(recentTrades) + 1
    /\ \A i \in 1 .. Len(recentTrades) : recentTrades'[i] = recentTrades[i]
    /\ recentTrades'[Len(recentTrades) + 1] = t
    /\ Reports(events) \in Seq(Trade) /\ Reports(events') = Append(Reports(events), t)

LEMMA MatchMakes ==
  ASSUME EngineInvs, Match
  PROVE  \E t : Made(t)
<1>. USE DEF EngineInvs
<1>. DEFINE m == BestOrder(Opposite(order.side))
            q == TradeQuantity(m)
            t == TradeWith(m, q)
<1>1. recentTrades' = Append(recentTrades, t) /\ t \in Trade
  BY MatchAccounts
<1>2. /\ t.tradeId = nextTradeId
      /\ Reports(events') = Append(Reports(events), t) /\ events \in Seq(Event)
  BY MatchEvents DEF TradeWith
<1>3. recentTrades \in Seq(Trade) /\ nextTradeId = Len(recentTrades) + 1
  BY DEF EngineInv, EngineTypeOK
<1>. HIDE DEF t
<1>4. t.quantity \in Nat
  BY <1>1, BookAssumption DEF Trade, Quantity
<1>5. Reports(events) \in Seq(Trade)
  BY <1>2, ReportsTyped
<1>6. /\ Len(recentTrades) \in Nat /\ DOMAIN recentTrades = 1 .. Len(recentTrades)
      /\ DOMAIN recentTrades' = 1 .. Len(recentTrades) + 1
      /\ \A i \in 1 .. Len(recentTrades) : recentTrades'[i] = recentTrades[i]
      /\ recentTrades'[Len(recentTrades) + 1] = t
  BY <1>1, <1>3, AppendProperties
<1>7. Made(t)
  BY <1>1, <1>2, <1>3, <1>4, <1>5, <1>6 DEF Made
<1>. QED
  BY <1>1, <1>7

\* Trades and orders are never forgotten.
LEMMA NothingForgotten ==
  ASSUME EngineInvs, IdsBelowNext, [AdapterNext]_adapterVars
  PROVE  /\ \A i \in DOMAIN recentTrades : /\ i \in DOMAIN recentTrades'
                                           /\ recentTrades'[i] = recentTrades[i]
         /\ ToSet(submitted) \subseteq ToSet(submitted)'
<1>1. ASSUME NEW req \in PlaceOrderRequest, AdapterPlace(req)
      PROVE  recentTrades' = recentTrades /\ ToSet(submitted) \subseteq ToSet(submitted)'
  <2>1. PICK o : o = EngineOrder(req)
    OBVIOUS
  <2>2. o \in Order /\ submitted \in Seq(Order) /\ submitted' = Append(submitted, o)
        /\ recentTrades' = recentTrades
    BY <1>1, <2>1, PlacementAllowed DEF AdapterPlace, PlaceOrder, IdsBelowNext
  <2>. QED
    BY <2>2, AppendProperties DEF ToSet
<1>2. ASSUME AdapterMatch
      PROVE  /\ \A i \in DOMAIN recentTrades : /\ i \in DOMAIN recentTrades'
                                               /\ recentTrades'[i] = recentTrades[i]
             /\ submitted' = submitted
  <2>1. PICK t : Made(t)
    BY <1>2, MatchMakes DEF AdapterMatch
  <2>2. submitted' = submitted
    BY <1>2 DEF AdapterMatch, Match
  <2>. QED
    BY <2>1, <2>2 DEF Made
<1>3. ASSUME AdapterReply \/ (\E id \in OrderIds : AdapterCancel(id)) \/ UNCHANGED adapterVars
      PROVE  recentTrades' = recentTrades /\ submitted' = submitted
  BY <1>3 DEF AdapterReply, Finish, AdapterCancel, EngineCancel, adapterVars, engineVars
<1>4. submitted' = submitted => ToSet(submitted) \subseteq ToSet(submitted)'
  OBVIOUS
<1>. QED
  BY <1>1, <1>2, <1>3, <1>4 DEF AdapterNext

LEMMA StillReal ==
  ASSUME NEW ts, Real(ts),
         \A i \in DOMAIN recentTrades : i \in DOMAIN recentTrades' /\ recentTrades'[i] = recentTrades[i]
  PROVE  Real(ts)'
  BY DEF Real, RealTrade

\* The others' counting is not touched.
LEMMA OthersCount ==
  ASSUME NewsInvs, CountingInv, NEW c \in Client, ClientStep(c), NEW e \in Client \ {c},
         [AdapterNext]_adapterVars
  PROVE  /\ CallTrades(e)' = CallTrades(e) /\ CountingOK(e)'
         /\ UncountedBy(e)' = UncountedBy(e) /\ UnaddedBy(e)' = UnaddedBy(e)
<1>1. pc'[e] = pc[e] /\ call'[e] = call[e] /\ counted'[e] = counted[e]
  BY OneAtATime DEF Idles, NewsInvs, HandlersInv
<1>2. ASSUME pc[e] = "engine" PROVE events' = events
  BY <1>2, NotTheirCall DEF NewsInvs, adapterVars, engineVars
<1>3. CallTrades(e)' = CallTrades(e)
  BY <1>1, <1>2 DEF CallTrades
<1>4. UncountedBy(e)' = UncountedBy(e) /\ UnaddedBy(e)' = UnaddedBy(e)
  BY <1>1, <1>3 DEF UncountedBy, UnaddedBy
<1>5. CountingOK(e)'
  <2>1. CountingOK(e)
    BY DEF CountingInv
  <2>2. PICK ts : ts = CallTrades(e)
    OBVIOUS
  <2>3. Real(ts)'
    BY <2>1, <2>2, StillReal, NothingForgotten DEF CountingOK, NewsInvs
  <2>4. Real(CallTrades(e))'
    BY <1>3, <2>2, <2>3 DEF Real, RealTrade
  <2>. QED
    BY <1>1, <1>3, <2>1, <2>4 DEF CountingOK, Numbered
<1>. QED
  BY <1>3, <1>4, <1>5

\* So what is left to count changes as the handler's own share does.
Share(c, U, V) ==
    /\ Uncounted = UncountedBy(c) \cup U /\ Uncounted' = UncountedBy(c)' \cup U
    /\ Unadded = UnaddedBy(c) \cup V /\ Unadded' = UnaddedBy(c)' \cup V
    /\ U \cap TradeIds(CallTrades(c)) = {} /\ V \cap TradeIds(CallTrades(c)) = {}
    /\ U \subseteq DOMAIN recentTrades /\ V \subseteq DOMAIN recentTrades

LEMMA OwnShare ==
  ASSUME NewsInvs, CountingInv, NEW c \in Client, ClientStep(c), [AdapterNext]_adapterVars
  PROVE  \E U, V : Share(c, U, V)
<1>. DEFINE U == UNION {UncountedBy(e) : e \in Client \ {c}}
            V == UNION {UnaddedBy(e) : e \in Client \ {c}}
<1>1. \A e \in Client \ {c} : UncountedBy(e)' = UncountedBy(e) /\ UnaddedBy(e)' = UnaddedBy(e)
  BY OthersCount
<1>2. Uncounted = UncountedBy(c) \cup U /\ Unadded = UnaddedBy(c) \cup V
  BY DEF Uncounted, Unadded
<1>3. Uncounted' = UncountedBy(c)' \cup U /\ Unadded' = UnaddedBy(c)' \cup V
  <2>1. Uncounted' = UNION {UncountedBy(e)' : e \in Client} /\ Unadded' = UNION {UnaddedBy(e)' : e \in Client}
    BY DEF Uncounted, Unadded
  <2>. QED
    BY <1>1, <2>1
<1>4. \A e \in Client : /\ UncountedBy(e) \subseteq TradeIds(CallTrades(e))
                        /\ UnaddedBy(e) \subseteq TradeIds(CallTrades(e))
                        /\ TradeIds(CallTrades(e)) \subseteq DOMAIN recentTrades
  BY LeftAreTrades, TradesApart DEF NewsInvs
<1>5. \A e \in Client \ {c} : TradeIds(CallTrades(c)) \cap TradeIds(CallTrades(e)) = {}
  BY TradesApart DEF NewsInvs
<1>6. U \cap TradeIds(CallTrades(c)) = {} /\ V \cap TradeIds(CallTrades(c)) = {}
  BY <1>4, <1>5
<1>7. U \subseteq DOMAIN recentTrades /\ V \subseteq DOMAIN recentTrades
  BY <1>4
<1>8. Share(c, U, V)
  BY <1>2, <1>3, <1>6, <1>7 DEF Share
<1>. QED
  BY <1>8

\* A step that leaves the trades and what is to be counted as they are.
LEMMA CountsSame ==
  ASSUME NewsInvs, CountingInv, CountInv, NEW c \in Client, ClientStep(c),
         [AdapterNext]_adapterVars, recentTrades' = recentTrades,
         UncountedBy(c)' = UncountedBy(c), UnaddedBy(c)' = UnaddedBy(c),
         metrics'.tradesExecuted = metrics.tradesExecuted,
         metrics'.totalVolume = metrics.totalVolume
  PROVE  CountInv'
<1>1. Uncounted' = Uncounted /\ Unadded' = Unadded
  BY OwnShare DEF Share
<1>2. Volumes(Unadded)' = Volumes(Unadded)
  BY <1>1 DEF Volumes
<1>. QED
  BY <1>1, <1>2 DEF CountInv

\* A new trade is to be counted and added by its handler.
LEMMA CountsMatch ==
  ASSUME NewsInvs, CountingInv, CountInv, NEW c \in Client, EngineStep(c)
  PROVE  CountingOK(c)' /\ CountInv'
<1>. USE DEF NewsInvs
<1>0. ClientStep(c) /\ Functions /\ [AdapterNext]_adapterVars /\ CountingOK(c) /\ EngineInvs /\ Match
  BY DEF ClientStep, Handler, HandlersInv, EngineStep, AdapterNext, CountingInv, AdapterMatch
<1>1. /\ pc[c] = "engine" /\ pc' = pc /\ call' = call /\ counted' = counted /\ metrics' = metrics
      /\ counted[c] = 0
  BY <1>0 DEF EngineStep, handlerVars, CountingOK
<1>2. PICK t : Made(t)
  BY <1>0, MatchMakes
<1>. USE DEF Made
<1>3. PICK ts, r : ts = CallTrades(c) /\ r = Row(t)
  OBVIOUS
<1>4. CallTrades(c)' = Append(ts, r) /\ r.tradeId = Len(recentTrades) + 1 /\ r.quantity = t.quantity
  <2>1. PICK rs \in Seq(Trade) : rs = Reports(events)
    BY <1>2
  <2>2. Rows(Append(rs, t)) = Append(Rows(rs), Row(t))
    BY <1>2, RowsAppend
  <2>3. CallTrades(c)' = Rows(Append(rs, t)) /\ ts = Rows(rs)
    BY <1>1, <1>2, <1>3, <2>1 DEF CallTrades
  <2>. QED
    BY <1>2, <1>3, <2>2, <2>3 DEF Row
<1>5. Posts(ts) /\ Real(ts) /\ Numbered(ts)
  BY <1>0, <1>3 DEF CountingOK
<1>6. PICK us, n : us = Append(ts, r) /\ n = Len(recentTrades) + 1
  OBVIOUS
<1>7. /\ Posts(us) /\ Len(ts) \in Nat
      /\ DOMAIN ts = 1 .. Len(ts) /\ DOMAIN us = 1 .. Len(ts) + 1
      /\ \A i \in 1 .. Len(ts) : us[i] = ts[i]
      /\ us[Len(ts) + 1] = r
  BY <1>5, <1>6, PostsAppend
<1>8. Real(us)'
  <2>1. Real(ts)'
    BY <1>0, <1>5, StillReal, NothingForgotten
  <2>2. RealTrade(r)'
    BY <1>2, <1>4 DEF RealTrade
  <2>3. \A i \in DOMAIN us : i \in DOMAIN ts \/ i = Len(ts) + 1
    BY <1>7
  <2>. QED
    BY <1>7, <2>1, <2>2, <2>3 DEF Real, RealTrade
<1>9. Numbered(us)
  <2>1. \A i \in DOMAIN ts : ts[i].tradeId # n
    BY <1>2, <1>5, <1>6 DEF Real, RealTrade
  <2>2. \A i \in DOMAIN us : i \in DOMAIN ts \/ i = Len(ts) + 1
    BY <1>7
  <2>. QED
    BY <1>4, <1>5, <1>6, <1>7, <2>1, <2>2 DEF Numbered
<1>10. CountingOK(c)'
  BY <1>0, <1>1, <1>4, <1>6, <1>7, <1>8, <1>9 DEF CountingOK, AfterCall, Real, RealTrade, Numbered
<1>11. IdsAfter(us, 0) = IdsAfter(ts, 0) \cup {n}
  <2>1. \A i \in DOMAIN us : i \in DOMAIN ts \/ i = Len(ts) + 1
    BY <1>7
  <2>2. \A i \in DOMAIN ts : i > 0 /\ i \in DOMAIN us /\ us[i] = ts[i]
    BY <1>7
  <2>3. Len(ts) + 1 \in DOMAIN us /\ Len(ts) + 1 > 0 /\ us[Len(ts) + 1].tradeId = n
    BY <1>4, <1>6, <1>7
  <2>4. \A i \in DOMAIN us : i > 0
    BY <1>7
  <2>. QED
    BY <2>1, <2>2, <2>3, <2>4 DEF IdsAfter
<1>12. /\ UncountedBy(c)' = UncountedBy(c) \cup {n} /\ UnaddedBy(c)' = UnaddedBy(c) \cup {n}
  <2>1. UncountedBy(c) = IdsAfter(ts, 0) /\ UnaddedBy(c) = IdsAfter(ts, 0)
    BY <1>1, <1>3 DEF UncountedBy, UnaddedBy
  <2>2. UncountedBy(c)' = IdsAfter(us, 0) /\ UnaddedBy(c)' = IdsAfter(us, 0)
    BY <1>1, <1>4, <1>6 DEF UncountedBy, UnaddedBy
  <2>. QED
    BY <1>11, <2>1, <2>2
<1>13. Uncounted' = Uncounted \cup {n} /\ Unadded' = Unadded \cup {n}
  BY <1>0, <1>12, OwnShare DEF Share
<1>14. DOMAIN recentTrades' \ Uncounted' = DOMAIN recentTrades \ Uncounted
  <2>1. DOMAIN recentTrades' = DOMAIN recentTrades \cup {n} /\ n \notin DOMAIN recentTrades
    BY <1>2, <1>6
  <2>. QED
    BY <1>13, <2>1
<1>15. Total(Volumes(Unadded)') = Total(Volumes(Unadded))
  <2>1. PICK v, w : v = Volumes(Unadded) /\ w = Volumes(Unadded)'
    OBVIOUS
  <2>2. /\ v = [i \in 1 .. Len(recentTrades) |-> IF i \in Unadded THEN 0 ELSE recentTrades[i].quantity]
        /\ w = [i \in 1 .. n |-> IF i \in Unadded \cup {n} THEN 0 ELSE recentTrades'[i].quantity]
    BY <1>2, <1>6, <1>13, <2>1 DEF Volumes
  <2>3. Len(v) = Len(recentTrades) /\ Len(w) = n /\ w[n] = 0
    BY <1>2, <1>6, <2>2
  <2>4. \A i \in 1 .. Len(v) : w[i] = v[i]
    <3>1. ASSUME NEW i \in 1 .. Len(recentTrades) PROVE w[i] = v[i]
      <4>1. i # n /\ i \in 1 .. n /\ recentTrades'[i] = recentTrades[i]
        BY <1>2, <1>6
      <4>. QED
        BY <2>2, <4>1
    <3>. QED
      BY <2>3, <3>1
  <2>5. Total(w) = Total(v) + w[Len(w)]
    <3>1. Len(v) \in Nat /\ Len(w) = Len(v) + 1
      BY <1>2, <1>6, <2>3
    <3>. QED
      BY <2>4, <3>1, TotalAppend
  <2>6. Total(v) \in Nat
    <3>1. \A i \in 1 .. Len(recentTrades) : v[i] \in Nat
      <4>1. \A i \in DOMAIN recentTrades : recentTrades[i] \in Trade
        BY <1>0 DEF EngineInvs, EngineInv, EngineTypeOK
      <4>2. \A i \in DOMAIN recentTrades : recentTrades[i].quantity \in Nat
        BY <4>1, BookAssumption DEF Trade, Quantity
      <4>. QED
        BY <1>2, <2>2, <4>2
    <3>2. v \in Seq(Nat)
      BY <1>2, <2>2, <3>1
    <3>. QED
      BY <3>2, TotalNat
  <2>. QED
    BY <2>1, <2>3, <2>5, <2>6
<1>16. CountInv'
  <2>1. Total(Volumes(Unadded))' = Total(Volumes(Unadded)')
    BY DEF Total
  <2>. QED
    BY <1>1, <1>14, <1>15, <2>1 DEF CountInv
<1>. QED
  BY <1>10, <1>16

LEMMA NothingLeft ==
  ASSUME NEW c, CallTrades(c) = <<>>
  PROVE  UncountedBy(c) = {} /\ UnaddedBy(c) = {}
  BY DEF UncountedBy, UnaddedBy, IdsAfter

\* A handler that has counted everything.
LEMMA AllCounted ==
  ASSUME NEW ts, Posts(ts)
  PROVE  IdsAfter(ts, Len(ts)) = {}
<1>1. Len(ts) \in Nat /\ DOMAIN ts = 1 .. Len(ts)
  BY PostsFacts
<1>2. \A j \in DOMAIN ts : ~(j > Len(ts))
  BY <1>1
<1>. QED
  BY <1>2 DEF IdsAfter

\* The next trade to count.
LEMMA NextLeft ==
  ASSUME NEW ts, Posts(ts), Numbered(ts), NEW n \in Nat, n < Len(ts)
  PROVE  /\ n + 1 \in DOMAIN ts
         /\ ts[n + 1].tradeId \notin IdsAfter(ts, n + 1)
         /\ IdsAfter(ts, n) = IdsAfter(ts, n + 1) \cup {ts[n + 1].tradeId}
<1>1. Len(ts) \in Nat /\ DOMAIN ts = 1 .. Len(ts)
  BY PostsFacts
<1>2. n + 1 \in DOMAIN ts
  BY <1>1
<1>3. \A j \in DOMAIN ts : j > n <=> j > n + 1 \/ j = n + 1
  BY <1>1
<1>4. IdsAfter(ts, n) = IdsAfter(ts, n + 1) \cup {ts[n + 1].tradeId}
  BY <1>2, <1>3 DEF IdsAfter
<1>5. ts[n + 1].tradeId \notin IdsAfter(ts, n + 1)
  <2>1. \A j \in DOMAIN ts : j > n + 1 => j # n + 1
    BY <1>1
  <2>. QED
    BY <1>2, <2>1 DEF IdsAfter, Numbered
<1>. QED
  BY <1>2, <1>4, <1>5

LEMMA TradesListed ==
  ASSUME EngineInvs
  PROVE  /\ Len(recentTrades) \in Nat /\ DOMAIN recentTrades = 1 .. Len(recentTrades)
         /\ \A i \in DOMAIN recentTrades : recentTrades[i].quantity \in Nat
<1>1. recentTrades \in Seq(Trade)
  BY DEF EngineInvs, EngineInv, EngineTypeOK
<1>2. DOMAIN recentTrades = 1 .. Len(recentTrades) /\ \A i \in DOMAIN recentTrades : recentTrades[i] \in Trade
  BY <1>1
<1>3. \A t \in Trade : t.quantity \in Nat
  BY BookAssumption DEF Trade, Quantity
<1>. QED
  BY <1>1, <1>2, <1>3

\* The number of trades: one more is counted.
LEMMA CountsTrade ==
  ASSUME NewsInvs, CountingInv, CountInv, NEW c \in Client, RecordTrade(c)
  PROVE  CountingOK(c)' /\ CountInv'
<1>. USE DEF NewsInvs
<1>1. ClientStep(c) /\ Functions /\ [AdapterNext]_adapterVars /\ CountingOK(c) /\ EngineInvs
  BY DEF ClientStep, Handler, HandlersInv, RecordTrade, CountingInv
<1>2. /\ pc[c] = "recordTrade" /\ pc'[c] = "recordVolume" /\ call' = call /\ counted' = counted
      /\ recentTrades' = recentTrades
      /\ metrics'.tradesExecuted = metrics.tradesExecuted + 1
      /\ metrics'.totalVolume = metrics.totalVolume
  BY <1>1 DEF RecordTrade, Goto, Functions, IsOn, Counter, adapterVars, engineVars
<1>3. PICK ts, n : ts = CallTrades(c) /\ n = counted[c]
  OBVIOUS
<1>4. CallTrades(c)' = ts /\ counted'[c] = n
  BY <1>2, <1>3 DEF CallTrades, AfterCall
<1>5. Posts(ts) /\ Real(ts) /\ Numbered(ts) /\ n \in Nat /\ n < Len(ts)
  BY <1>1, <1>2, <1>3 DEF CountingOK
<1>6. CountingOK(c)'
  <2>1. Real(ts)'
    BY <1>1, <1>5, StillReal, NothingForgotten
  <2>. QED
    BY <1>1, <1>2, <1>3, <1>4, <2>1 DEF CountingOK, AfterCall, Real, RealTrade, Numbered
<1>7. PICK x : x = ts[n + 1].tradeId
  OBVIOUS
<1>8. x \in TradeIds(ts) /\ x \in DOMAIN recentTrades
  BY <1>5, <1>7, NextLeft DEF TradeIds, Real, RealTrade
<1>9. /\ UncountedBy(c) = UncountedBy(c)' \cup {x} /\ x \notin UncountedBy(c)'
      /\ UnaddedBy(c)' = UnaddedBy(c)
  <2>1. UncountedBy(c) = IdsAfter(ts, n) /\ UncountedBy(c)' = IdsAfter(ts, n + 1)
    BY <1>2, <1>3, <1>4 DEF UncountedBy
  <2>2. UnaddedBy(c)' = UnaddedBy(c)
    BY <1>3, <1>4 DEF UnaddedBy
  <2>. QED
    BY <1>5, <1>7, <2>1, <2>2, NextLeft
<1>10. Uncounted = Uncounted' \cup {x} /\ x \notin Uncounted' /\ Unadded' = Unadded
  <2>1. PICK U, V : Share(c, U, V)
    BY <1>1, OwnShare
  <2>. QED
    BY <1>3, <1>8, <1>9, <2>1 DEF Share
<1>11. Cardinality(DOMAIN recentTrades \ Uncounted') = Cardinality(DOMAIN recentTrades \ Uncounted) + 1
  <2>1. IsFiniteSet(DOMAIN recentTrades)
    BY <1>1, TradesListed, FS_Interval
  <2>2. PICK S : S = DOMAIN recentTrades \ Uncounted
    OBVIOUS
  <2>3. IsFiniteSet(S) /\ x \notin S /\ DOMAIN recentTrades \ Uncounted' = S \cup {x}
    BY <1>8, <1>10, <2>1, <2>2, FS_Subset
  <2>. QED
    BY <2>2, <2>3, FS_AddElement
<1>12. Volumes(Unadded)' = Volumes(Unadded)
  BY <1>2, <1>10 DEF Volumes
<1>. QED
  BY <1>2, <1>6, <1>11, <1>12 DEF CountInv

\* The volume: that of one more trade is added.
LEMMA CountsVolume ==
  ASSUME NewsInvs, CountingInv, CountInv, NEW c \in Client, RecordVolume(c)
  PROVE  CountingOK(c)' /\ CountInv'
<1>. USE DEF NewsInvs
<1>1. ClientStep(c) /\ Functions /\ [AdapterNext]_adapterVars /\ CountingOK(c) /\ EngineInvs
  BY DEF ClientStep, Handler, HandlersInv, RecordVolume, CountingInv
<1>3. PICK ts, n : ts = CallTrades(c) /\ n = counted[c]
  OBVIOUS
<1>2. /\ pc[c] = "recordVolume" /\ call' = call /\ counted'[c] = n + 1
      /\ recentTrades' = recentTrades
      /\ metrics'.tradesExecuted = metrics.tradesExecuted
      /\ metrics'.totalVolume = metrics.totalVolume + call[c].trades[n + 1].quantity
      /\ pc'[c] = IF n + 1 < Len(call[c].trades) THEN "recordTrade" ELSE "book"
  BY <1>1, <1>3 DEF RecordVolume, Goto, MoreTrades, Functions, IsOn, Counter, adapterVars, engineVars
<1>0. call[c].kind = "place"
  BY <1>1, <1>2 DEF CountingOK
<1>4. ts = call[c].trades /\ CallTrades(c)' = ts
  BY <1>0, <1>2, <1>3 DEF CallTrades, AfterCall
<1>5. Posts(ts) /\ Real(ts) /\ Numbered(ts) /\ n \in Nat /\ n < Len(ts) /\ Len(ts) \in Nat
  BY <1>1, <1>2, <1>3, PostsFacts DEF CountingOK
<1>6. CountingOK(c)'
  <2>1. Real(ts)'
    BY <1>1, <1>5, StillReal, NothingForgotten
  <2>2. n + 1 \in Nat /\ (~(n + 1 < Len(ts)) => n + 1 = Len(ts))
    BY <1>5
  <2>. QED
    BY <1>0, <1>1, <1>2, <1>3, <1>4, <2>1, <2>2 DEF CountingOK, AfterCall, Real, RealTrade, Numbered
<1>7. PICK x, q : x = ts[n + 1].tradeId /\ q = ts[n + 1].quantity
  OBVIOUS
<1>8. /\ x \in TradeIds(ts) /\ x \in DOMAIN recentTrades
      /\ q = recentTrades[x].quantity /\ q \in Nat
  BY <1>1, <1>5, <1>7, NextLeft, TradesListed DEF TradeIds, Real, RealTrade
<1>9. /\ UnaddedBy(c) = UnaddedBy(c)' \cup {x} /\ x \notin UnaddedBy(c)'
      /\ UncountedBy(c)' = UncountedBy(c)
  <2>1. UnaddedBy(c) = IdsAfter(ts, n) /\ UnaddedBy(c)' = IdsAfter(ts, n + 1)
    BY <1>2, <1>3, <1>4 DEF UnaddedBy
  <2>2. UncountedBy(c) = IdsAfter(ts, n + 1) /\ UncountedBy(c)' = IdsAfter(ts, n + 1)
    BY <1>2, <1>3, <1>4 DEF UncountedBy
  <2>. QED
    BY <1>5, <1>7, <2>1, <2>2, NextLeft
<1>10. Unadded = Unadded' \cup {x} /\ x \notin Unadded' /\ Uncounted' = Uncounted
  <2>1. PICK U, V : Share(c, U, V)
    BY <1>1, OwnShare
  <2>. QED
    BY <1>3, <1>8, <1>9, <2>1 DEF Share
<1>11. MoreBy(q, Total(Volumes(Unadded)), Total(Volumes(Unadded)'))
  <2>1. PICK v, w : v = Volumes(Unadded) /\ w = Volumes(Unadded)'
    OBVIOUS
  <2>2. PICK m : m = Len(recentTrades)
    OBVIOUS
  <2>3. m \in Nat /\ DOMAIN recentTrades = 1 .. m /\ \A i \in 1 .. m : recentTrades[i].quantity \in Nat
    BY <1>1, <2>2, TradesListed
  <2>4. /\ v = [i \in 1 .. m |-> IF i \in Unadded THEN 0 ELSE recentTrades[i].quantity]
        /\ w = [i \in 1 .. m |-> IF i \in Unadded' THEN 0 ELSE recentTrades[i].quantity]
    BY <1>2, <2>1, <2>3 DEF Volumes
  <2>5. Len(v) = m /\ Len(w) = m /\ \A i \in 1 .. m : v[i] \in Nat /\ w[i] \in Nat
    BY <2>3, <2>4
  <2>6. \A i \in 1 .. m : i # x => v[i] = w[i]
    BY <1>10, <2>4
  <2>7. x \in 1 .. m /\ v[x] = 0 /\ w[x] = q
    BY <1>8, <1>10, <2>3, <2>4
  <2>8. MoreBy(q, v[x], w[x])
    BY <1>8, <2>7 DEF MoreBy
  <2>9. q \in Int
    BY <1>8
  <2>. QED
    BY <2>1, <2>3, <2>5, <2>6, <2>7, <2>8, <2>9, TotalChanged
<1>12. Total(Volumes(Unadded))' = Total(Volumes(Unadded)')
  BY DEF Total
<1>13. DOMAIN recentTrades' \ Uncounted' = DOMAIN recentTrades \ Uncounted
  BY <1>2, <1>10
<1>. QED
  BY <1>2, <1>4, <1>6, <1>7, <1>11, <1>12, <1>13 DEF CountInv, MoreBy

LEMMA EmptyCount == Posts(<<>>) /\ Real(<<>>) /\ Numbered(<<>>) /\ Len(<<>>) = 0
<1>1. DOMAIN <<>> = {} /\ Len(<<>>) = 0
  OBVIOUS
<1>. QED
  BY <1>1, EmptyMail DEF Real, Numbered

\* A handler that is outside its call has nothing to count.
LEMMA OutsideCounts ==
  ASSUME NEW c, pc'[c] \in {"idle", "loading", "sending"}, counted'[c] \in Nat,
         pc'[c] = "sending" \/ counted'[c] = 0
  PROVE  CountingOK(c)' /\ CallTrades(c)' = <<>>
<1>1. CallTrades(c)' = <<>>
  BY DEF CallTrades, AfterCall
<1>2. PICK ts : ts = <<>>
  OBVIOUS
<1>3. Posts(ts) /\ Real(ts)' /\ Numbered(ts)
  BY <1>2, EmptyCount DEF Real
<1>. QED
  BY <1>1, <1>2, <1>3 DEF CountingOK, AfterCall, Real, RealTrade, Numbered

\* The steps into and out of a call.
LEMMA CountsPlace ==
  ASSUME NewsInvs, CountingInv, CountInv, NEW c \in Client,
         NEW req \in PlaceOrderRequest, HandlePlaceOrder(c, req)
  PROVE  CountingOK(c)' /\ CountInv'
<1>. USE DEF NewsInvs
<1>1. ClientStep(c) /\ Functions /\ [AdapterNext]_adapterVars /\ CountingOK(c) /\ EngineInvs
  BY DEF ClientStep, HandlersInv, HandlePlaceOrder, CountingInv, AdapterNext
<1>2. /\ pc[c] = "idle" /\ pc'[c] = "engine" /\ call' = call /\ counted' = counted
      /\ metrics' = metrics /\ AdapterPlace(req)
  BY <1>1 DEF HandlePlaceOrder, Begin, Goto, Functions, IsOn
<1>3. recentTrades' = recentTrades /\ Reports(events') = <<>>
  <2>1. EngineOrder(req) \in Order /\ Fresh(EngineOrder(req)) /\ PlaceOrder(EngineOrder(req))
    BY <1>2, PlacementAllowed DEF AdapterPlace
  <2>2. PICK o \in Order : o = EngineOrder(req)
    BY <2>1
  <2>. QED
    BY <2>1, <2>2, PlaceNews DEF EngineInvs, PlaceOrder
<1>4. counted[c] = 0
  BY <1>1, <1>2 DEF CountingOK
<1>5. CallTrades(c) = <<>> /\ CallTrades(c)' = <<>>
  <2>1. CallTrades(c)' = Rows(<<>>)
    BY <1>2, <1>3 DEF CallTrades
  <2>. QED
    BY <1>2, <2>1, RowsEmpty DEF CallTrades, AfterCall
<1>6. CountingOK(c)'
  <2>1. PICK ts : ts = <<>>
    OBVIOUS
  <2>2. Posts(ts) /\ Real(ts)' /\ Numbered(ts)
    BY <2>1, EmptyCount DEF Real
  <2>. QED
    BY <1>2, <1>4, <1>5, <2>1, <2>2 DEF CountingOK, AfterCall, Real, RealTrade, Numbered
<1>7. UncountedBy(c)' = UncountedBy(c) /\ UnaddedBy(c)' = UnaddedBy(c)
  BY <1>5 DEF UncountedBy, UnaddedBy, IdsAfter
<1>. QED
  BY <1>1, <1>2, <1>3, <1>6, <1>7, CountsSame

LEMMA CountsReturn ==
  ASSUME NewsInvs, CountingInv, CountInv, NEW c \in Client, EngineReturns(c)
  PROVE  CountingOK(c)' /\ CountInv'
<1>. USE DEF NewsInvs
<1>1. ClientStep(c) /\ Functions /\ [AdapterNext]_adapterVars /\ CountingOK(c) /\ EngineInvs
  BY DEF ClientStep, Handler, HandlersInv, EngineReturns, CountingInv, AdapterNext
<1>2. PICK r : r = result'
  OBVIOUS
<1>3. /\ pc[c] = "engine" /\ pc'[c] = "returned" /\ call'[c] = r /\ counted' = counted
      /\ metrics' = metrics /\ AdapterReply /\ recentTrades' = recentTrades
  BY <1>1, <1>2 DEF EngineReturns, Goto, Functions, IsOn, AdapterReply, Finish
<1>4. /\ r.kind = "place" /\ r.trades = Rows(Reports(events))
      /\ Items(PlaceBroadcasts(r)) = CallNews
      /\ ~r.accepted => Reports(events) = <<>>
  BY <1>2, <1>3, ReplyNews DEF AdapterInv
<1>5. PICK ts : ts = CallTrades(c)
  OBVIOUS
<1>6. ts = r.trades /\ CallTrades(c)' = ts /\ counted[c] = 0
  BY <1>1, <1>3, <1>4, <1>5 DEF CallTrades, AfterCall, CountingOK
<1>7. Posts(ts) /\ Real(ts)' /\ Numbered(ts)
  BY <1>1, <1>3, <1>5 DEF CountingOK, Real, RealTrade
<1>8. ~r.accepted => ts = <<>>
  BY <1>4, <1>6, RowsEmpty
<1>9. {<<"TRADE", id>> : id \in TradeIds(ts)} \subseteq Items(PlaceBroadcasts(r))
  <2>1. PICK rs : rs = Reports(events)
    OBVIOUS
  <2>2. TradeIds(ts) = TradeIds(rs)
    BY <1>4, <1>6, <2>1 DEF TradeIds, Rows, Row
  <2>. QED
    BY <1>4, <2>1, <2>2 DEF CallNews, News
<1>10. CountingOK(c)'
  BY <1>3, <1>4, <1>6, <1>7, <1>8, <1>9 DEF CountingOK, AfterCall, Real, RealTrade, Numbered
<1>11. UncountedBy(c)' = UncountedBy(c) /\ UnaddedBy(c)' = UnaddedBy(c)
  BY <1>3, <1>5, <1>6 DEF UncountedBy, UnaddedBy
<1>. QED
  BY <1>1, <1>3, <1>10, <1>11, CountsSame

LEMMA CountsCancel ==
  ASSUME NewsInvs, CountingInv, CountInv, NEW c \in Client, NEW id \in OrderIds,
         HandleCancelOrder(c, id)
  PROVE  CountingOK(c)' /\ CountInv'
<1>. USE DEF NewsInvs
<1>1. ClientStep(c) /\ Functions /\ [AdapterNext]_adapterVars /\ CountingOK(c) /\ EngineInvs
  BY DEF ClientStep, HandlersInv, HandleCancelOrder, CountingInv, AdapterNext
<1>2. /\ pc[c] = "idle" /\ pc'[c] = "returned" /\ call'[c] = result' /\ counted' = counted
      /\ metrics' = metrics /\ recentTrades' = recentTrades /\ AdapterCancel(id)
  BY <1>1 DEF HandleCancelOrder, Begin, Goto, Functions, IsOn, AdapterCancel, EngineCancel
<1>3. result'.kind = "cancel"
  BY <1>2 DEF AdapterCancel, CancelResult
<1>4. counted[c] = 0
  BY <1>1, <1>2 DEF CountingOK
<1>5. CallTrades(c) = <<>> /\ CallTrades(c)' = <<>>
  BY <1>2, <1>3 DEF CallTrades, AfterCall
<1>6. CountingOK(c)'
  <2>1. PICK ts : ts = <<>>
    OBVIOUS
  <2>2. Posts(ts) /\ Real(ts)' /\ Numbered(ts)
    BY <2>1, EmptyCount DEF Real
  <2>. QED
    BY <1>2, <1>3, <1>4, <1>5, <2>1, <2>2 DEF CountingOK, AfterCall, Real, RealTrade, Numbered
<1>7. UncountedBy(c)' = UncountedBy(c) /\ UnaddedBy(c)' = UnaddedBy(c)
  BY <1>5 DEF UncountedBy, UnaddedBy, IdsAfter
<1>. QED
  BY <1>1, <1>2, <1>6, <1>7, CountsSame

LEMMA CountsSetActive ==
  ASSUME NewsInvs, CountingInv, CountInv, NEW c \in Client, SetActiveOrders(c)
  PROVE  CountingOK(c)' /\ CountInv'
<1>. USE DEF NewsInvs
<1>1. ClientStep(c) /\ Functions /\ [AdapterNext]_adapterVars /\ CountingOK(c) /\ EngineInvs
  BY DEF ClientStep, Handler, HandlersInv, SetActiveOrders, CountingInv
<1>2. /\ pc[c] = "returned" /\ call' = call /\ counted' = counted
      /\ metrics'.tradesExecuted = metrics.tradesExecuted
      /\ metrics'.totalVolume = metrics.totalVolume /\ recentTrades' = recentTrades
      /\ counted[c] = 0
  BY <1>1 DEF SetActiveOrders, Functions, Counter, adapterVars, engineVars, CountingOK
<1>3. PICK ts : ts = CallTrades(c)
  OBVIOUS
<1>4. Posts(ts) /\ Real(ts)' /\ Numbered(ts)
  BY <1>1, <1>2, <1>3 DEF CountingOK, Real, RealTrade
<1>5. CASE Succeeded(call[c])
  <2>1. pc'[c] = IF call[c].kind = "place" THEN "recordOrder" ELSE "book"
    BY <1>1, <1>5 DEF SetActiveOrders, Goto, Functions, IsOn
  <2>2. CallTrades(c)' = ts /\ (call[c].kind # "place" => ts = <<>>)
    BY <1>2, <1>3, <2>1 DEF CallTrades, AfterCall
  <2>3. CountingOK(c)'
    BY <1>1, <1>2, <1>3, <1>4, <2>1, <2>2, EmptyCount DEF CountingOK, AfterCall, Real, RealTrade, Numbered
  <2>4. UncountedBy(c)' = UncountedBy(c) /\ UnaddedBy(c)' = UnaddedBy(c)
    BY <1>2, <1>3, <2>1, <2>2 DEF UncountedBy, UnaddedBy
  <2>. QED
    BY <1>1, <1>2, <2>3, <2>4, CountsSame
<1>6. CASE ~Succeeded(call[c])
  <2>1. pc'[c] = "sending"
    BY <1>1, <1>6 DEF SetActiveOrders, Goto, Functions, IsOn
  <2>2. CallTrades(c) = <<>>
    BY <1>1, <1>2, <1>6 DEF CallTrades, AfterCall, CountingOK, Succeeded
  <2>3. CountingOK(c)' /\ CallTrades(c)' = <<>>
    BY <1>2, <2>1, OutsideCounts
  <2>4. UncountedBy(c)' = UncountedBy(c) /\ UnaddedBy(c)' = UnaddedBy(c)
    BY <2>2, <2>3 DEF UncountedBy, UnaddedBy, IdsAfter
  <2>. QED
    BY <1>1, <1>2, <2>3, <2>4, CountsSame
<1>. QED
  BY <1>5, <1>6

LEMMA CountsOrder ==
  ASSUME NewsInvs, CountingInv, CountInv, NEW c \in Client, RecordOrder(c)
  PROVE  CountingOK(c)' /\ CountInv'
<1>. USE DEF NewsInvs
<1>1. ClientStep(c) /\ Functions /\ [AdapterNext]_adapterVars /\ CountingOK(c) /\ EngineInvs
  BY DEF ClientStep, Handler, HandlersInv, RecordOrder, CountingInv
<1>2. /\ pc[c] = "recordOrder" /\ call' = call /\ counted' = counted
      /\ metrics'.tradesExecuted = metrics.tradesExecuted
      /\ metrics'.totalVolume = metrics.totalVolume /\ recentTrades' = recentTrades
      /\ counted[c] = 0 /\ call[c].kind = "place"
  BY <1>1 DEF RecordOrder, Functions, Counter, adapterVars, engineVars, CountingOK
<1>3. PICK ts : ts = CallTrades(c)
  OBVIOUS
<1>4. Posts(ts) /\ Real(ts)' /\ Numbered(ts) /\ Len(ts) \in Nat
  BY <1>1, <1>2, <1>3, PostsFacts DEF CountingOK, Real, RealTrade
<1>5. ts = call[c].trades /\ pc'[c] = IF 0 < Len(ts) THEN "recordTrade" ELSE "book"
  BY <1>1, <1>2, <1>3 DEF RecordOrder, MoreTrades, Goto, Functions, IsOn, CallTrades, AfterCall
<1>6. CallTrades(c)' = ts
  BY <1>2, <1>5 DEF CallTrades, AfterCall
<1>7. CountingOK(c)'
  BY <1>1, <1>2, <1>3, <1>4, <1>5, <1>6 DEF CountingOK, AfterCall, Real, RealTrade, Numbered
<1>8. UncountedBy(c)' = UncountedBy(c) /\ UnaddedBy(c)' = UnaddedBy(c)
  BY <1>2, <1>3, <1>5, <1>6 DEF UncountedBy, UnaddedBy
<1>. QED
  BY <1>1, <1>2, <1>7, <1>8, CountsSame

\* The rest: before the messages are sent everything is counted.
LEMMA CountsRest ==
  ASSUME NewsInvs, CountingInv, CountInv, NEW c \in Client,
         HandleGetMetrics(c) \/ LoadCounter(c) \/ GetOrderBook(c) \/ SendOne(c)
  PROVE  CountingOK(c)' /\ CountInv'
<1>. USE DEF NewsInvs
<1>1. ClientStep(c) /\ Functions /\ [AdapterNext]_adapterVars /\ CountingOK(c) /\ EngineInvs
  BY DEF ClientStep, Handler, HandlersInv, HandleGetMetrics, LoadCounter, GetOrderBook, SendOne,
     CountingInv
<1>2. /\ pc[c] \in {"idle", "loading", "book", "sending"}
      /\ pc'[c] \in {"idle", "loading", "sending"}
      /\ metrics' = metrics /\ recentTrades' = recentTrades
      /\ counted'[c] \in {counted[c], 0}
      /\ pc'[c] = "sending" \/ counted'[c] = 0
  <2>1. counted[c] \in Nat /\ (pc[c] \in {"idle", "loading"} => counted[c] = 0)
    BY <1>1 DEF CountingOK
  <2>2. CASE HandleGetMetrics(c) \/ LoadCounter(c)
    BY <1>1, <2>1, <2>2 DEF HandleGetMetrics, LoadCounter, Begin, Goto, Functions, IsOn,
       adapterVars, engineVars
  <2>3. CASE GetOrderBook(c)
    BY <1>1, <2>1, <2>3 DEF GetOrderBook, Goto, Functions, IsOn, adapterVars, engineVars
  <2>4. CASE SendOne(c)
    <3>1. /\ pc[c] = "sending" /\ metrics' = metrics /\ recentTrades' = recentTrades
          /\ \/ Goto(c, "idle") /\ counted' = [counted EXCEPT ![c] = 0]
             \/ pc' = pc /\ counted' = counted
      BY <2>4 DEF SendOne, adapterVars, engineVars
    <3>. QED
      BY <1>1, <2>1, <3>1 DEF Goto, Functions, IsOn
  <2>. QED
    BY <2>2, <2>3, <2>4
<1>3. counted[c] \in Nat /\ counted'[c] \in Nat
  BY <1>1, <1>2 DEF CountingOK
<1>4. CountingOK(c)' /\ CallTrades(c)' = <<>>
  BY <1>2, <1>3, OutsideCounts
<1>5. UncountedBy(c) = {} /\ UnaddedBy(c) = {}
  <2>1. CASE pc[c] = "book"
    <3>1. PICK ts : ts = CallTrades(c)
      OBVIOUS
    <3>2. counted[c] = Len(ts) /\ Posts(ts)
      BY <1>1, <2>1, <3>1 DEF CountingOK
    <3>. QED
      BY <2>1, <3>1, <3>2, AllCounted DEF UncountedBy, UnaddedBy
  <2>2. CASE pc[c] # "book"
    <3>1. CallTrades(c) = <<>>
      BY <1>2, <2>2 DEF CallTrades, AfterCall
    <3>. QED
      BY <3>1, NothingLeft
  <2>. QED
    BY <2>1, <2>2
<1>6. UncountedBy(c)' = {} /\ UnaddedBy(c)' = {}
  BY <1>4 DEF UncountedBy, UnaddedBy, IdsAfter
<1>. QED
  BY <1>1, <1>2, <1>4, <1>5, <1>6, CountsSame

LEMMA CountsKept ==
  ASSUME NewsInvs, CountingInv, CountInv, [ServerNext \/ AllAnswered]_serverVars
  PROVE  CountingInv' /\ CountInv'
<1>1. ASSUME NEW c \in Client, ClientStep(c) PROVE CountingOK(c)' /\ CountInv'
  BY <1>1, CountsPlace, CountsCancel, CountsMatch, CountsReturn, CountsSetActive, CountsOrder,
     CountsTrade, CountsVolume, CountsRest DEF ClientStep, Handler
<1>2. ASSUME NEW c \in Client, ClientStep(c) PROVE CountingInv' /\ CountInv'
  <2>1. \A e \in Client \ {c} : CountingOK(e)'
    BY <1>2, OthersCount, ServerStepIsAdapterStep
  <2>. QED
    BY <1>1, <1>2, <2>1 DEF CountingInv
<1>3. CASE UNCHANGED serverVars
  <2>1. /\ pc' = pc /\ call' = call /\ counted' = counted /\ metrics' = metrics
        /\ recentTrades' = recentTrades /\ events' = events
    BY <1>3 DEF serverVars, handlerVars, adapterVars, engineVars
  <2>2. \A c : CallTrades(c)' = CallTrades(c)
    BY <2>1 DEF CallTrades
  <2>3. \A c : UncountedBy(c)' = UncountedBy(c) /\ UnaddedBy(c)' = UnaddedBy(c)
    BY <2>1, <2>2 DEF UncountedBy, UnaddedBy
  <2>4. Uncounted' = Uncounted /\ Unadded' = Unadded
    BY <2>3 DEF Uncounted, Unadded
  <2>5. Volumes(Unadded)' = Volumes(Unadded)
    BY <2>1, <2>4 DEF Volumes
  <2>6. CountInv'
    BY <2>1, <2>4, <2>5 DEF CountInv
  <2>7. \A c \in Client : CountingOK(c) => CountingOK(c)'
    BY <2>1, <2>2 DEF CountingOK, Real, RealTrade, Numbered
  <2>. QED
    BY <2>6, <2>7 DEF CountingInv
<1>. QED
  BY <1>2, <1>3 DEF ServerNext, AllAnswered, ClientStep

-----------------------------------------------------------------------------
(* The number of orders.                                                   *)

SubmittedIds == {o.orderId : o \in ToSet(submitted)}

IsServed(id) == \E o \in ServedOrders : o.orderId = id

\* The handler of c has the order id at work, or has not counted it yet.
WaitsFor(c, id) ==
    \/ pc[c] = "engine" /\ id = order.orderId
    \/ pc[c] \in {"returned", "recordOrder"} /\ call[c].kind = "place" /\ id = call[c].orderId

Processed == {o \in ServedOrders : \A c \in Client : ~WaitsFor(c, o.orderId)}

OrdersOK(c) ==
    /\ \A id : WaitsFor(c, id) =>
          id \in SubmittedIds /\ \A e \in Client \ {c} : ~WaitsFor(e, id)
    /\ pc[c] = "returned" /\ call[c].kind = "place" => (call[c].accepted <=> IsServed(call[c].orderId))
    /\ pc[c] = "recordOrder" => call[c].kind = "place" /\ IsServed(call[c].orderId)
    /\ pc[c] \in {"recordTrade", "recordVolume", "book"} /\ call[c].kind = "place" =>
          \E o \in Processed : o.orderId = call[c].orderId

OrdersInv == /\ metrics.ordersProcessed = Cardinality(Processed)
             /\ \A c \in Client : OrdersOK(c)

\* An order that starts to count is the one at work.
LEMMA ServedGrows ==
  ASSUME EngineInvs, IdsBelowNext, [AdapterNext]_adapterVars
  PROVE  /\ ServedOrders \subseteq ServedOrders' /\ SubmittedIds \subseteq SubmittedIds'
         /\ \A o \in ServedOrders' : o \in ServedOrders \/ (order' # NoOrder /\ o.orderId = order'.orderId)
<1>. USE DEF EngineInvs
<1>1. ToSet(submitted) \subseteq ToSet(submitted)'
  BY NothingForgotten DEF EngineInvs
<1>2. SubmittedIds \subseteq SubmittedIds'
  BY <1>1 DEF SubmittedIds
<1>3. ASSUME recentTrades' = recentTrades, submitted' = submitted PROVE ServedOrders' = ServedOrders
  <2>1. ToSet(submitted)' = ToSet(submitted)
    BY <1>3 DEF ToSet
  <2>. QED
    BY <1>3, <2>1, TradedSame DEF ServedOrders
<1>4. ASSUME NEW req \in PlaceOrderRequest, AdapterPlace(req)
      PROVE  /\ ServedOrders \subseteq ServedOrders'
             /\ \A o \in ServedOrders' : o \in ServedOrders \/ (order' # NoOrder /\ o.orderId = order'.orderId)
  <2>1. PICK o : o = EngineOrder(req)
    OBVIOUS
  <2>2. /\ o \in Order /\ submitted \in Seq(Order) /\ submitted' = Append(submitted, o)
        /\ recentTrades' = recentTrades /\ order' = o
    BY <1>4, <2>1, PlacementAllowed DEF AdapterPlace, PlaceOrder, IdsBelowNext
  <2>3. ToSet(submitted)' = ToSet(submitted) \cup {o}
    BY <2>2, AppendProperties DEF ToSet
  <2>4. \A id : Traded(id)' = Traded(id)
    BY <2>2, TradedSame
  <2>. QED
    BY <2>2, <2>3, <2>4, EngineAssumption DEF ServedOrders
<1>5. ASSUME AdapterMatch
      PROVE  /\ ServedOrders \subseteq ServedOrders'
             /\ \A o \in ServedOrders' : o \in ServedOrders \/ (order' # NoOrder /\ o.orderId = order'.orderId)
  <2>1. PICK m, q : /\ m = BestOrder(Opposite(order.side)) /\ q = TradeQuantity(m)
    OBVIOUS
  <2>2. /\ order # NoOrder /\ order \in Order /\ order' = [order EXCEPT !.remainingQuantity = @ - q]
        /\ q \in Nat /\ ToSet(submitted)' = ToSet(submitted)
        /\ \A id : Traded(id)' = Traded(id) +
                      (IF id = order.orderId \/ id = m.orderId THEN q ELSE 0)
        /\ \E om \in ToSet(submitted) : IsRestOf(m, om)
    BY <1>5, <2>1, MatchAccounts DEF AdapterMatch, Match, EngineInv, EngineTypeOK
  <2>3. PICK e : e = order
    OBVIOUS
  <2>4. PICK e1 : e1 = order'
    OBVIOUS
  <2>5. e1 = [e EXCEPT !.remainingQuantity = @ - q] /\ e \in Order
    BY <2>2, <2>3, <2>4
  <2>6. e1.orderId = e.orderId
    BY <2>5 DEF Order
  <2>7. order' # NoOrder
    BY <1>5, MatchInv, EngineAssumption DEF AdapterMatch
  <2>8. \A o \in ToSet(submitted) : Traded(o.orderId) \in Nat
    BY UnfilledIs
  <2>9. \A o \in ToSet(submitted) : o.orderId = m.orderId => o.orderType = "LIMIT"
    <3>1. PICK om \in ToSet(submitted) : IsRestOf(m, om)
      BY <2>2
    <3>. QED
      BY <3>1, SameSubmitted DEF RefinementInv, IsRestOf, SameOrder
  <2>10. \A o \in ToSet(submitted) : Traded(o.orderId) > 0 => Traded(o.orderId)' > 0
    BY <2>2, <2>8
  <2>11. \A o \in ToSet(submitted) :
            Traded(o.orderId)' > 0 => \/ Traded(o.orderId) > 0 \/ o.orderType = "LIMIT"
                                      \/ o.orderId = order.orderId
    BY <2>2, <2>8, <2>9
  <2>. QED
    BY <2>2, <2>3, <2>4, <2>6, <2>7, <2>10, <2>11 DEF ServedOrders
<1>6. ASSUME AdapterReply \/ (\E id \in OrderIds : AdapterCancel(id)) \/ UNCHANGED adapterVars
      PROVE  ServedOrders' = ServedOrders
  BY <1>3, <1>6 DEF AdapterReply, Finish, AdapterCancel, EngineCancel, adapterVars, engineVars
<1>. QED
  BY <1>2, <1>4, <1>5, <1>6 DEF AdapterNext

\* The others wait for what they waited for.
LEMMA OthersWait ==
  ASSUME NewsInvs, NEW c \in Client, ClientStep(c), NEW e \in Client \ {c}
  PROVE  \A id : WaitsFor(e, id)' <=> WaitsFor(e, id)
<1>1. pc'[e] = pc[e] /\ call'[e] = call[e]
  BY OneAtATime DEF Idles, NewsInvs, HandlersInv
<1>2. ASSUME pc[e] = "engine" PROVE order' = order
  BY <1>2, NotTheirCall DEF NewsInvs, adapterVars, engineVars
<1>. QED
  BY <1>1, <1>2 DEF WaitsFor

\* c only begins to wait for an order it has just handed in.
NewWait(c) == \A id : WaitsFor(c, id)' => WaitsFor(c, id) \/ id \notin SubmittedIds

\* The orders c has done with.
Released(c) == {o \in ServedOrders : WaitsFor(c, o.orderId) /\ ~WaitsFor(c, o.orderId)'}

LEMMA ProcessedStep ==
  ASSUME NewsInvs, ExclusiveInv', NEW c \in Client, ClientStep(c), OrdersInv, NewWait(c),
         [AdapterNext]_adapterVars
  PROVE  Processed' = Processed \cup Released(c)
<1>. USE DEF NewsInvs
<1>1. \A e \in Client \ {c} : \A id : WaitsFor(e, id)' <=> WaitsFor(e, id)
  BY OthersWait
<1>2. /\ ServedOrders \subseteq ServedOrders' /\ ServedOrders \subseteq ToSet(submitted)
      /\ \A o \in ServedOrders' : o \in ServedOrders \/ (order' # NoOrder /\ o.orderId = order'.orderId)
  BY ServedGrows DEF ServedOrders
<1>3. ASSUME order' # NoOrder, NEW id, id = order'.orderId
      PROVE  \E e \in Client : WaitsFor(e, id)'
  <2>1. \E e \in Client : pc'[e] = "engine"
    BY <1>3 DEF ExclusiveInv, EngineExclusive
  <2>. QED
    BY <1>3, <2>1 DEF WaitsFor
<1>4. Processed' = {o \in ServedOrders' : \A e \in Client : ~WaitsFor(e, o.orderId)'}
  BY DEF Processed
<1>5. \A o \in ServedOrders : o.orderId \in SubmittedIds
  BY <1>2 DEF SubmittedIds
<1>6. \A id : WaitsFor(c, id) => \A e \in Client \ {c} : ~WaitsFor(e, id)
  BY DEF OrdersInv, OrdersOK
<1>7. ASSUME NEW o \in Processed' PROVE o \in Processed \cup Released(c)
  <2>1. o \in ServedOrders /\ \A e \in Client : ~WaitsFor(e, o.orderId)'
    BY <1>2, <1>3, <1>4
  <2>2. \A e \in Client \ {c} : ~WaitsFor(e, o.orderId)
    BY <1>1, <2>1
  <2>. QED
    BY <2>1, <2>2 DEF Processed, Released
<1>8. ASSUME NEW o \in Processed PROVE o \in Processed'
  <2>1. o \in ServedOrders' /\ \A e \in Client : ~WaitsFor(e, o.orderId)
    BY <1>2 DEF Processed
  <2>2. ~WaitsFor(c, o.orderId)'
    BY <1>5, <2>1 DEF NewWait, Processed
  <2>. QED
    BY <1>1, <1>4, <2>1, <2>2
<1>9. ASSUME NEW o \in Released(c) PROVE o \in Processed'
  <2>1. o \in ServedOrders' /\ WaitsFor(c, o.orderId) /\ ~WaitsFor(c, o.orderId)'
    BY <1>2 DEF Released
  <2>. QED
    BY <1>1, <1>4, <1>6, <2>1
<1>. QED
  BY <1>7, <1>8, <1>9

LEMMA OthersOrders ==
  ASSUME NewsInvs, ExclusiveInv', NEW c \in Client, ClientStep(c), OrdersInv, NewWait(c),
         [AdapterNext]_adapterVars, NEW e \in Client \ {c}
  PROVE  OrdersOK(e)'
<1>. USE DEF NewsInvs
<1>1. pc'[e] = pc[e] /\ call'[e] = call[e] /\ OrdersOK(e)
  BY OneAtATime DEF Idles, HandlersInv, OrdersInv
<1>2. SubmittedIds \subseteq SubmittedIds' /\ ServedOrders \subseteq ServedOrders'
  BY ServedGrows
<1>3. Processed \subseteq Processed'
  BY ProcessedStep
<1>4. ASSUME pc[e] = "returned" PROVE \A id : IsServed(id)' <=> IsServed(id)
  <2>1. recentTrades' = recentTrades /\ submitted' = submitted
    BY <1>4, NotTheirCall DEF adapterVars, engineVars
  <2>2. ToSet(submitted)' = ToSet(submitted)
    BY <2>1 DEF ToSet
  <2>3. ServedOrders' = ServedOrders
    BY <2>1, <2>2, TradedSame DEF ServedOrders
  <2>. QED
    BY <2>3 DEF IsServed
<1>5. \A id : IsServed(id) => IsServed(id)'
  BY <1>2 DEF IsServed
<1>6. ASSUME NEW id, WaitsFor(e, id)' PROVE id \in SubmittedIds' /\ \A f \in Client \ {e} : ~WaitsFor(f, id)'
  <2>1. WaitsFor(e, id) /\ id \in SubmittedIds /\ \A f \in Client \ {e} : ~WaitsFor(f, id)
    BY <1>1, <1>6, OthersWait DEF OrdersOK
  <2>2. ~WaitsFor(c, id)'
    BY <2>1 DEF NewWait
  <2>3. \A f \in Client \ {c} : WaitsFor(f, id)' <=> WaitsFor(f, id)
    BY OthersWait
  <2>. QED
    BY <1>2, <2>1, <2>2, <2>3
<1>. QED
  BY <1>1, <1>3, <1>4, <1>5, <1>6 DEF OrdersOK

\* What is left to show of a step that releases no order.
LEMMA OrdersQuiet ==
  ASSUME NewsInvs, ExclusiveInv', NEW c \in Client, ClientStep(c), OrdersInv, NewWait(c),
         [AdapterNext]_adapterVars, Released(c) = {}, OrdersOK(c)',
         metrics'.ordersProcessed = metrics.ordersProcessed
  PROVE  OrdersInv' /\ Processed \subseteq Processed'
<1>1. Processed' = Processed
  BY ProcessedStep
<1>2. \A e \in Client : OrdersOK(e)'
  BY OthersOrders
<1>. QED
  BY <1>1, <1>2 DEF OrdersInv

\* The waits of the others are not c's.
LEMMA OwnWaits ==
  ASSUME NewsInvs, NEW c \in Client, ClientStep(c), OrdersInv, [AdapterNext]_adapterVars,
         \A id : WaitsFor(c, id)' => WaitsFor(c, id)
  PROVE  /\ NewWait(c)
         /\ \A id : WaitsFor(c, id)' => id \in SubmittedIds' /\ \A e \in Client \ {c} : ~WaitsFor(e, id)'
<1>1. SubmittedIds \subseteq SubmittedIds'
  BY ServedGrows DEF NewsInvs
<1>. QED
  BY <1>1, OthersWait DEF NewWait, OrdersInv, OrdersOK

LEMMA OrdersPlace ==
  ASSUME NewsInvs, ExclusiveInv', OrdersInv, NEW c \in Client, NEW req \in PlaceOrderRequest,
         HandlePlaceOrder(c, req)
  PROVE  OrdersInv' /\ Processed \subseteq Processed'
<1>. USE DEF NewsInvs
<1>1. ClientStep(c) /\ Functions /\ [AdapterNext]_adapterVars
  BY DEF ClientStep, HandlersInv, HandlePlaceOrder, AdapterNext
<1>2. /\ pc[c] = "idle" /\ pc'[c] = "engine" /\ metrics' = metrics /\ AdapterPlace(req)
  BY <1>1 DEF HandlePlaceOrder, Begin, Goto, Functions, IsOn
<1>3. PICK o : o = EngineOrder(req)
  OBVIOUS
<1>4. /\ o \in Order /\ submitted \in Seq(Order) /\ submitted' = Append(submitted, o)
      /\ order' = o /\ o.orderId \notin SubmittedIds
  BY <1>2, <1>3, PlacementAllowed DEF AdapterPlace, PlaceOrder, IdsBelowNext, Fresh, SubmittedIds
<1>5. o.orderId \in SubmittedIds'
  <2>1. o \in ToSet(submitted)'
    BY <1>4, AppendProperties DEF ToSet
  <2>. QED
    BY <2>1 DEF SubmittedIds
<1>6. \A id : ~WaitsFor(c, id) /\ (WaitsFor(c, id)' <=> id = o.orderId)
  BY <1>2, <1>4 DEF WaitsFor
<1>7. NewWait(c) /\ Released(c) = {}
  BY <1>4, <1>6 DEF NewWait, Released
<1>8. \A e \in Client \ {c} : ~WaitsFor(e, o.orderId)
  BY <1>4 DEF OrdersInv, OrdersOK
<1>9. OrdersOK(c)'
  <2>1. \A e \in Client \ {c} : \A id : id = o.orderId => ~WaitsFor(e, id)'
    BY <1>1, <1>8, OthersWait
  <2>. QED
    BY <1>2, <1>5, <1>6, <2>1 DEF OrdersOK
<1>. QED
  BY <1>1, <1>2, <1>7, <1>9, OrdersQuiet

LEMMA OrdersEngineStep ==
  ASSUME NewsInvs, ExclusiveInv', OrdersInv, NEW c \in Client, EngineStep(c)
  PROVE  OrdersInv' /\ Processed \subseteq Processed'
<1>. USE DEF NewsInvs
<1>1. ClientStep(c) /\ Functions /\ [AdapterNext]_adapterVars /\ Match
  BY DEF ClientStep, Handler, HandlersInv, EngineStep, AdapterMatch, AdapterNext
<1>2. pc[c] = "engine" /\ pc' = pc /\ metrics' = metrics
  BY DEF EngineStep, handlerVars
<1>3. order'.orderId = order.orderId
  <2>1. PICK m, q : m = BestOrder(Opposite(order.side)) /\ q = TradeQuantity(m)
    OBVIOUS
  <2>2. order \in Order /\ order' = [order EXCEPT !.remainingQuantity = @ - q]
    BY <1>1, <2>1, MatchAccounts DEF EngineInvs
  <2>3. PICK e, e1 : e = order /\ e1 = order'
    OBVIOUS
  <2>4. e1.orderId = e.orderId
    BY <2>2, <2>3 DEF Order
  <2>. QED
    BY <2>3, <2>4
<1>4. \A id : WaitsFor(c, id)' <=> WaitsFor(c, id)
  BY <1>2, <1>3 DEF WaitsFor
<1>5. Released(c) = {}
  BY <1>4 DEF Released
<1>6. OrdersOK(c)' /\ NewWait(c)
  BY <1>1, <1>2, <1>4, OwnWaits DEF OrdersOK
<1>. QED
  BY <1>1, <1>2, <1>5, <1>6, OrdersQuiet

\* Whether a returned placement was accepted is whether its order counts.
LEMMA ReplyServed ==
  ASSUME EngineInvs, TranslationInv, AdapterReply
  PROVE  /\ result'.kind = "place" /\ result'.orderId = order.orderId
         /\ result'.accepted <=> IsServed(order.orderId)
         /\ ServedOrders' = ServedOrders
<1>. USE DEF EngineInvs
<1>1. /\ order # NoOrder /\ recentTrades' = recentTrades /\ submitted' = submitted
      /\ result' = EngineResult(order, events')
  BY DEF AdapterReply, Finish
<1>2. PICK o \in ToSet(submitted) : SameOrder(order, o) /\ order.remainingQuantity = Unfilled(o)
  BY <1>1 DEF ConserveInv, TakerAccounted
<1>3. /\ o.quantity \in Nat /\ Traded(o.orderId) \in Nat
      /\ Unfilled(o) = o.quantity - Traded(o.orderId) /\ o.orderType \in {"LIMIT", "MARKET"}
  BY UnfilledIs DEF Order, OrderType
<1>4. order.remainingQuantity = order.quantity <=> Traded(o.orderId) = 0
  BY <1>2, <1>3 DEF SameOrder
<1>5. o \in ServedOrders <=> ~(order.orderType = "MARKET" /\ order.remainingQuantity = order.quantity)
  BY <1>2, <1>3, <1>4 DEF SameOrder, ServedOrders
<1>6. IsServed(order.orderId) <=> o \in ServedOrders
  <2>1. ASSUME NEW u \in ServedOrders, u.orderId = order.orderId PROVE u = o
    BY <1>2, <2>1, SameSubmitted DEF ServedOrders, SameOrder, RefinementInv
  <2>. QED
    BY <1>2, <2>1 DEF IsServed, SameOrder
<1>7. result'.kind = "place"
  BY <1>1 DEF EngineResult
<1>8. /\ result'.orderId = order.orderId
      /\ result'.accepted <=> ~(order.orderType = "MARKET" /\ order.remainingQuantity = order.quantity)
  BY ReplyResult
<1>9. ServedOrders' = ServedOrders
  BY <1>1, TradedSame DEF ServedOrders, ToSet
<1>. QED
  BY <1>5, <1>6, <1>7, <1>8, <1>9

LEMMA OrdersReturn ==
  ASSUME NewsInvs, ExclusiveInv', OrdersInv, NEW c \in Client, EngineReturns(c)
  PROVE  OrdersInv' /\ Processed \subseteq Processed'
<1>. USE DEF NewsInvs
<1>1. ClientStep(c) /\ Functions /\ [AdapterNext]_adapterVars
  BY DEF ClientStep, Handler, HandlersInv, EngineReturns, AdapterNext
<1>2. PICK r : r = result'
  OBVIOUS
<1>3. /\ pc[c] = "engine" /\ pc'[c] = "returned" /\ call'[c] = r /\ metrics' = metrics
      /\ AdapterReply
  BY <1>1, <1>2 DEF EngineReturns, Goto, Functions, IsOn
<1>4. r.kind = "place" /\ r.orderId = order.orderId /\ ServedOrders' = ServedOrders
      /\ (r.accepted <=> IsServed(r.orderId))
  BY <1>2, <1>3, ReplyServed DEF AdapterInv
<1>5. \A id : WaitsFor(c, id)' <=> WaitsFor(c, id)
  BY <1>3, <1>4 DEF WaitsFor
<1>6. Released(c) = {}
  BY <1>5 DEF Released
<1>7. IsServed(r.orderId)' <=> IsServed(r.orderId)
  BY <1>4 DEF IsServed
<1>8. NewWait(c) /\ \A id : WaitsFor(c, id)' => id \in SubmittedIds' /\ \A e \in Client \ {c} : ~WaitsFor(e, id)'
  BY <1>1, <1>5, OwnWaits
<1>9. OrdersOK(c)'
  BY <1>3, <1>4, <1>7, <1>8 DEF OrdersOK
<1>. QED
  BY <1>1, <1>3, <1>6, <1>8, <1>9, OrdersQuiet

\* What a step without the engine at work leaves.
LEMMA OrdersCancel ==
  ASSUME NewsInvs, ExclusiveInv', OrdersInv, NEW c \in Client, NEW id \in OrderIds,
         HandleCancelOrder(c, id)
  PROVE  OrdersInv' /\ Processed \subseteq Processed'
<1>. USE DEF NewsInvs
<1>1. ClientStep(c) /\ Functions /\ [AdapterNext]_adapterVars
  BY DEF ClientStep, HandlersInv, HandleCancelOrder, AdapterNext
<1>2. /\ pc[c] = "idle" /\ pc'[c] = "returned" /\ call'[c] = result' /\ metrics' = metrics
      /\ result'.kind = "cancel"
  BY <1>1 DEF HandleCancelOrder, Begin, Goto, Functions, IsOn, AdapterCancel, CancelResult
<1>3. \A i : ~WaitsFor(c, i) /\ ~WaitsFor(c, i)'
  BY <1>2 DEF WaitsFor
<1>4. NewWait(c) /\ Released(c) = {}
  BY <1>3 DEF NewWait, Released
<1>5. OrdersOK(c)'
  BY <1>2, <1>3 DEF OrdersOK
<1>. QED
  BY <1>1, <1>2, <1>4, <1>5, OrdersQuiet

LEMMA ServedSame ==
  ASSUME UNCHANGED adapterVars
  PROVE  ServedOrders' = ServedOrders /\ SubmittedIds' = SubmittedIds
         /\ \A id : IsServed(id)' <=> IsServed(id)
<1>1. recentTrades' = recentTrades /\ submitted' = submitted
  BY DEF adapterVars, engineVars
<1>2. ToSet(submitted)' = ToSet(submitted)
  BY <1>1 DEF ToSet
<1>3. ServedOrders' = ServedOrders
  BY <1>1, <1>2, TradedSame DEF ServedOrders
<1>. QED
  BY <1>2, <1>3 DEF SubmittedIds, IsServed

LEMMA OrdersSetActive ==
  ASSUME NewsInvs, ExclusiveInv', OrdersInv, NEW c \in Client, SetActiveOrders(c)
  PROVE  OrdersInv' /\ Processed \subseteq Processed'
<1>. USE DEF NewsInvs
<1>1. /\ ClientStep(c) /\ Functions /\ UNCHANGED adapterVars /\ [AdapterNext]_adapterVars
      /\ OrdersOK(c) /\ HandlerOK(c)
  BY DEF ClientStep, Handler, HandlersInv, SetActiveOrders, OrdersInv
<1>2. /\ pc[c] = "returned" /\ call' = call
      /\ metrics'.ordersProcessed = metrics.ordersProcessed
      /\ pc'[c] = IF Succeeded(call[c])
                  THEN IF call[c].kind = "place" THEN "recordOrder" ELSE "book" ELSE "sending"
  BY <1>1 DEF SetActiveOrders, Goto, Functions, IsOn, Counter
<1>3. \A id : WaitsFor(c, id)' => WaitsFor(c, id)
  BY <1>2 DEF WaitsFor
<1>4. NewWait(c) /\ \A id : WaitsFor(c, id)' => id \in SubmittedIds' /\ \A e \in Client \ {c} : ~WaitsFor(e, id)'
  BY <1>1, <1>3, OwnWaits
<1>5. Released(c) = {}
  <2>. SUFFICES ASSUME NEW o \in ServedOrders, WaitsFor(c, o.orderId), ~WaitsFor(c, o.orderId)'
                PROVE  FALSE
    BY DEF Released
  <2>1. call[c].kind = "place" /\ o.orderId = call[c].orderId
    BY <1>2 DEF WaitsFor
  <2>2. ~call[c].accepted
    BY <1>2, <2>1 DEF WaitsFor, Succeeded
  <2>. QED
    BY <1>1, <1>2, <2>1, <2>2 DEF OrdersOK, IsServed
<1>6. OrdersOK(c)'
  <2>1. pc'[c] = "recordOrder" => call[c].kind = "place" /\ call[c].accepted /\ IsServed(call[c].orderId)
    BY <1>1, <1>2 DEF OrdersOK, Succeeded
  <2>2. \A id : IsServed(id)' <=> IsServed(id)
    BY <1>1, ServedSame
  <2>. QED
    BY <1>2, <1>4, <2>1, <2>2 DEF OrdersOK
<1>. QED
  BY <1>1, <1>2, <1>4, <1>5, <1>6, OrdersQuiet

LEMMA FiniteProcessed ==
  ASSUME EngineInvs
  PROVE  IsFiniteSet(ServedOrders) /\ IsFiniteSet(Processed)
<1>1. submitted \in Seq(Order)
  BY DEF EngineInvs, EngineInv, EngineTypeOK
<1>2. PICK S, T : S = 1 .. Len(submitted) /\ T = ToSet(submitted)
  OBVIOUS
<1>3. IsFiniteSet(S)
  BY <1>1, <1>2, FS_Interval
<1>4. [i \in S |-> submitted[i]] \in Surjection(S, T)
  BY <1>1, <1>2 DEF Surjection, ToSet
<1>5. IsFiniteSet(T)
  BY <1>3, <1>4, FS_Surjection
<1>6. ServedOrders \subseteq T /\ Processed \subseteq T
  BY <1>2 DEF Processed, ServedOrders
<1>. QED
  BY <1>5, <1>6, FS_Subset

\* recordOrder: one more order is counted.
LEMMA OrdersRecord ==
  ASSUME NewsInvs, ExclusiveInv', OrdersInv, NEW c \in Client, RecordOrder(c)
  PROVE  OrdersInv' /\ Processed \subseteq Processed'
<1>. USE DEF NewsInvs
<1>1. /\ ClientStep(c) /\ Functions /\ UNCHANGED adapterVars /\ [AdapterNext]_adapterVars
      /\ OrdersOK(c)
  BY DEF ClientStep, Handler, HandlersInv, RecordOrder, OrdersInv
<1>2. /\ pc[c] = "recordOrder" /\ call' = call
      /\ metrics'.ordersProcessed = metrics.ordersProcessed + 1
      /\ pc'[c] \in {"recordTrade", "book"}
  BY <1>1 DEF RecordOrder, Goto, Functions, IsOn, Counter
<1>3. PICK o \in ServedOrders : o.orderId = call[c].orderId
  BY <1>1, <1>2 DEF OrdersOK, IsServed
<1>4. \A id : (WaitsFor(c, id) <=> id = o.orderId) /\ ~WaitsFor(c, id)'
  BY <1>1, <1>2, <1>3 DEF WaitsFor, OrdersOK
<1>5. NewWait(c)
  BY <1>4 DEF NewWait
<1>6. Released(c) = {o}
  <2>1. ASSUME NEW u \in ServedOrders, u.orderId = o.orderId PROVE u = o
    BY <2>1, SameSubmitted DEF ServedOrders, RefinementInv, EngineInvs
  <2>. QED
    BY <1>3, <1>4, <2>1 DEF Released
<1>7. Processed' = Processed \cup {o} /\ o \notin Processed
  <2>1. Processed' = Processed \cup Released(c)
    BY <1>1, <1>5, ProcessedStep
  <2>2. o \notin Processed
    BY <1>4 DEF Processed
  <2>. QED
    BY <1>6, <2>1, <2>2
<1>8. Cardinality(Processed') = Cardinality(Processed) + 1
  BY <1>7, FiniteProcessed, FS_AddElement
<1>9. OrdersOK(c)'
  <2>1. \E u \in Processed' : u.orderId = call'[c].orderId
    BY <1>2, <1>3, <1>7
  <2>2. (\E u \in Processed : u.orderId = call[c].orderId)'
    BY <2>1
  <2>. QED
    BY <1>2, <1>4, <2>2 DEF OrdersOK
<1>10. \A e \in Client : OrdersOK(e)'
  BY <1>1, <1>5, <1>9, OthersOrders
<1>. QED
  BY <1>2, <1>7, <1>8, <1>10 DEF OrdersInv

\* The rest has nothing to do with it.
LEMMA OrdersRest ==
  ASSUME NewsInvs, ExclusiveInv', OrdersInv, NEW c \in Client,
         \/ RecordTrade(c) \/ RecordVolume(c) \/ GetOrderBook(c) \/ SendOne(c)
         \/ HandleGetMetrics(c) \/ LoadCounter(c)
  PROVE  OrdersInv' /\ Processed \subseteq Processed'
<1>1. /\ ClientStep(c) /\ Functions /\ UNCHANGED adapterVars /\ [AdapterNext]_adapterVars
      /\ OrdersOK(c)
  BY DEF ClientStep, Handler, HandlersInv, RecordTrade, RecordVolume, GetOrderBook, SendOne,
     HandleGetMetrics, LoadCounter, OrdersInv, NewsInvs
<1>2. /\ pc[c] \notin {"engine", "returned", "recordOrder"}
      /\ pc'[c] \notin {"engine", "returned", "recordOrder"}
      /\ metrics'.ordersProcessed = metrics.ordersProcessed
      /\ pc'[c] \in {"recordTrade", "recordVolume", "book"} =>
            pc[c] \in {"recordTrade", "recordVolume", "book"} /\ call'[c] = call[c]
  <2>1. CASE RecordTrade(c)
    BY <1>1, <2>1 DEF RecordTrade, Goto, Functions, IsOn, Counter
  <2>2. CASE RecordVolume(c)
    BY <1>1, <2>2 DEF RecordVolume, Goto, Functions, IsOn, Counter
  <2>3. CASE GetOrderBook(c)
    BY <1>1, <2>3 DEF GetOrderBook, Goto, Functions, IsOn
  <2>4. CASE SendOne(c)
    <3>1. pc[c] = "sending" /\ metrics' = metrics /\ (Goto(c, "idle") \/ pc' = pc)
      BY <2>4 DEF SendOne
    <3>. QED
      BY <1>1, <3>1 DEF Goto, Functions, IsOn
  <2>5. CASE HandleGetMetrics(c) \/ LoadCounter(c)
    BY <1>1, <2>5 DEF HandleGetMetrics, LoadCounter, Begin, Goto, Functions, IsOn
  <2>. QED
    BY <2>1, <2>2, <2>3, <2>4, <2>5
<1>3. \A id : ~WaitsFor(c, id) /\ ~WaitsFor(c, id)'
  BY <1>2 DEF WaitsFor
<1>4. NewWait(c) /\ Released(c) = {}
  BY <1>3 DEF NewWait, Released
<1>5. Processed' = Processed
  BY <1>1, <1>4, ProcessedStep
<1>6. OrdersOK(c)'
  BY <1>1, <1>2, <1>3, <1>5 DEF OrdersOK
<1>. QED
  <2>1. metrics'.ordersProcessed = metrics.ordersProcessed
    BY <1>2
  <2>2. ClientStep(c) /\ [AdapterNext]_adapterVars
    BY <1>1
  <2>. QED
    BY <1>4, <1>6, <2>1, <2>2, OrdersQuiet, Zenon

LEMMA OrdersKept ==
  ASSUME NewsInvs, ExclusiveInv', OrdersInv, [ServerNext \/ AllAnswered]_serverVars
  PROVE  OrdersInv' /\ Processed \subseteq Processed'
<1>1. ASSUME NEW c \in Client, ClientStep(c)
      PROVE  OrdersInv' /\ Processed \subseteq Processed'
  BY <1>1, OrdersPlace, OrdersCancel, OrdersEngineStep, OrdersReturn, OrdersSetActive,
     OrdersRecord, OrdersRest DEF ClientStep, Handler
<1>2. CASE UNCHANGED serverVars
  <2>1. /\ pc' = pc /\ call' = call /\ metrics' = metrics /\ UNCHANGED adapterVars
        /\ order' = order
    BY <1>2 DEF serverVars, handlerVars, adapterVars, engineVars
  <2>2. \A c, id : WaitsFor(c, id)' <=> WaitsFor(c, id)
    BY <2>1 DEF WaitsFor
  <2>3. /\ ServedOrders' = ServedOrders /\ SubmittedIds' = SubmittedIds
        /\ \A id : IsServed(id)' <=> IsServed(id)
    BY <2>1, ServedSame
  <2>4. Processed' = Processed
    BY <2>2, <2>3 DEF Processed
  <2>5. \A c \in Client : OrdersOK(c) => OrdersOK(c)'
    BY <2>1, <2>2, <2>3, <2>4 DEF OrdersOK
  <2>. QED
    BY <2>1, <2>4, <2>5 DEF OrdersInv
<1>. QED
  BY <1>1, <1>2 DEF ServerNext, AllAnswered, ClientStep

-----------------------------------------------------------------------------
(* The counters agree with the engine.                                     *)

ActiveInv == engineMutex = NoClient => metrics.activeOrders = ActiveOrderCount

LEMMA ActiveKept ==
  ASSUME NewsInvs, ActiveInv, [ServerNext \/ AllAnswered]_serverVars
  PROVE  ActiveInv'
<1>1. ASSUME levels' = levels PROVE ActiveOrderCount' = ActiveOrderCount
  BY <1>1 DEF ActiveOrderCount, OpenOrders
<1>2. ASSUME NEW c \in Client, ClientStep(c) PROVE ActiveInv'
  <2>0. Functions
    BY DEF HandlersInv, NewsInvs
  <2>1. CASE (\E req \in PlaceOrderRequest : HandlePlaceOrder(c, req))
             \/ \E id \in OrderIds : HandleCancelOrder(c, id)
    <3>1. engineMutex' = c
      BY <2>1 DEF HandlePlaceOrder, HandleCancelOrder
    <3>. QED
      BY <3>1, ServerAssumption DEF ActiveInv
  <2>2. CASE EngineStep(c) \/ EngineReturns(c)
    <3>1. engineMutex = c /\ engineMutex' = engineMutex
      BY <2>2 DEF EngineStep, EngineReturns, NewsInvs, ExclusiveInv, EngineExclusive
    <3>. QED
      BY <3>1, ServerAssumption DEF ActiveInv
  <2>3. CASE SetActiveOrders(c)
    <3>1. metrics'.activeOrders = ActiveOrderCount /\ levels' = levels
      BY <2>0, <2>3 DEF SetActiveOrders, Functions, Counter, adapterVars, engineVars, bookVars
    <3>. QED
      BY <1>1, <3>1 DEF ActiveInv
  <2>4. CASE \/ RecordOrder(c) \/ RecordTrade(c) \/ RecordVolume(c) \/ GetOrderBook(c)
             \/ SendOne(c) \/ HandleGetMetrics(c) \/ LoadCounter(c)
    <3>1. /\ metrics'.activeOrders = metrics.activeOrders /\ UNCHANGED adapterVars
          /\ engineMutex' = engineMutex
      BY <2>0, <2>4 DEF RecordOrder, RecordTrade, RecordVolume, GetOrderBook, SendOne,
         HandleGetMetrics, LoadCounter, Functions, Counter
    <3>2. levels' = levels
      BY <3>1 DEF adapterVars, engineVars, bookVars
    <3>3. ActiveOrderCount' = ActiveOrderCount
      BY <1>1, <3>2
    <3>. QED
      BY <3>1, <3>3 DEF ActiveInv
  <2>. QED
    BY <1>2, <2>1, <2>2, <2>3, <2>4 DEF ClientStep, Handler
<1>3. CASE UNCHANGED serverVars
  <2>1. levels' = levels /\ metrics' = metrics /\ engineMutex' = engineMutex
    BY <1>3 DEF serverVars, adapterVars, engineVars, bookVars
  <2>. QED
    BY <1>1, <2>1 DEF ActiveInv
<1>. QED
  BY <1>2, <1>3 DEF ServerNext, AllAnswered, ClientStep

\* The counters in every state: each has what is left to be counted out of
\* what the engine has done, and nothing else.
CountersInv == CountingInv /\ CountInv /\ OrdersInv /\ ActiveInv

LEMMA CountersInit == ServerInit => CountersInv
<1>. SUFFICES ASSUME ServerInit PROVE CountersInv
  OBVIOUS
<1>1. /\ recentTrades = <<>> /\ submitted = <<>> /\ events = <<>>
      /\ \A s \in Side : levels[s] = <<>>
  BY DEF ServerInit, AdapterInit, EngineInit, BookInit, Side
<1>2. /\ \A c \in Client : pc[c] = "idle" /\ counted[c] = 0
      /\ \A n \in Counter : metrics[n] = 0
      /\ {"ordersProcessed", "tradesExecuted", "activeOrders", "totalVolume"} \subseteq Counter
  BY DEF ServerInit, Counter
<1>3. \A c \in Client : CallTrades(c) = <<>>
  BY <1>2 DEF CallTrades, AfterCall
<1>4. CountingInv
  <2>1. ASSUME NEW c \in Client PROVE CountingOK(c)
    <3>1. PICK ts : ts = CallTrades(c)
      OBVIOUS
    <3>2. Posts(ts) /\ Real(ts) /\ Numbered(ts)
      BY <1>3, <3>1, EmptyCount
    <3>. QED
      BY <1>2, <3>1, <3>2 DEF CountingOK, AfterCall
  <2>. QED
    BY <2>1 DEF CountingInv
<1>5. CountInv
  <2>1. DOMAIN recentTrades = {}
    BY <1>1
  <2>2. Total(Volumes(Unadded)) = 0
    <3>1. PICK v : v = Volumes(Unadded)
      OBVIOUS
    <3>2. v = <<>>
      BY <2>1, <3>1 DEF Volumes
    <3>. QED
      BY <3>1, <3>2, TotalEmpty
  <2>3. Cardinality(DOMAIN recentTrades \ Uncounted) = 0
    BY <2>1, FS_EmptySet
  <2>. QED
    BY <1>2, <2>2, <2>3 DEF CountInv
<1>6. OrdersInv
  <2>1. Processed = {}
    BY <1>1 DEF Processed, ServedOrders, ToSet
  <2>2. \A c \in Client : OrdersOK(c)
    BY <1>2 DEF OrdersOK, WaitsFor
  <2>. QED
    BY <1>2, <2>1, <2>2, FS_EmptySet DEF OrdersInv
<1>7. ActiveInv
  <2>1. OpenOrders("BUY") = {} /\ OpenOrders("SELL") = {}
    BY <1>1 DEF OpenOrders, Side
  <2>. QED
    BY <1>2, <2>1, FS_EmptySet DEF ActiveInv, ActiveOrderCount
<1>. QED
  BY <1>4, <1>5, <1>6, <1>7 DEF CountersInv

LEMMA CountersInvariant == ServerSpec => []CountersInv
<1>1. NewsInvs /\ NewsInvs' /\ CountersInv /\ [ServerNext \/ AllAnswered]_serverVars => CountersInv'
  BY CountsKept, OrdersKept, ActiveKept DEF CountersInv, NewsInvs
<1>. QED
  BY <1>1, CountersInit, NewsInvariant, PTL DEF ServerSpec

LEMMA CancelsFinite ==
  ASSUME EngineInvs
  PROVE  Cardinality(cancelled) \in Nat
<1>1. cancelled \subseteq 1 .. MaxOrders /\ MaxOrders \in Nat
  BY AdapterAssumption DEF EngineInvs, EngineInv, EngineTypeOK
<1>2. IsFiniteSet(1 .. MaxOrders)
  BY <1>1, FS_Interval
<1>. QED
  BY <1>1, <1>2, FS_Subset, FS_CardinalityType

LEMMA CountersFollow == NewsInvs /\ CountersInv => MetricsAgree
<1>. SUFFICES ASSUME NewsInvs, CountersInv, Settled
              PROVE  /\ metrics.ordersProcessed = Cardinality(ServedOrders)
                     /\ metrics.tradesExecuted = Len(recentTrades)
                     /\ metrics.totalVolume = TradedVolume
  <2>1. NewsInvs => /\ Cardinality(ServedOrders) \in Nat
                    /\ Cardinality(cancelled) \in Nat
    BY FiniteProcessed, CancelsFinite, FS_CardinalityType DEF NewsInvs
  <2>. QED
    BY <2>1 DEF CountersInv, ActiveInv, MetricsAgree, OrdersAndCancels
<1>. USE DEF NewsInvs, CountersInv
<1>1. Processed = ServedOrders
  BY DEF Processed, WaitsFor, Settled
<1>2. Uncounted = {} /\ Unadded = {}
  <2>1. ASSUME NEW c \in Client PROVE UncountedBy(c) = {} /\ UnaddedBy(c) = {}
    <3>1. CASE pc[c] = "book"
      <4>1. PICK ts : ts = CallTrades(c)
        OBVIOUS
      <4>2. counted[c] = Len(ts) /\ Posts(ts)
        BY <3>1, <4>1 DEF CountingInv, CountingOK
      <4>. QED
        BY <3>1, <4>1, <4>2, AllCounted DEF UncountedBy, UnaddedBy
    <3>2. CASE pc[c] # "book"
      <4>1. CallTrades(c) = <<>>
        BY <3>2 DEF CallTrades, AfterCall, Settled
      <4>. QED
        BY <4>1, NothingLeft
    <3>. QED
      BY <3>1, <3>2
  <2>. QED
    BY <2>1 DEF Uncounted, Unadded
<1>3. Cardinality(DOMAIN recentTrades \ Uncounted) = Len(recentTrades)
  <2>1. DOMAIN recentTrades = 1 .. Len(recentTrades) /\ Len(recentTrades) \in Nat
    BY TradesListed
  <2>2. DOMAIN recentTrades \ Uncounted = 1 .. Len(recentTrades)
    BY <1>2, <2>1
  <2>3. \A n \in Nat : Cardinality(1 .. n) = n
    BY FS_Interval
  <2>. QED
    BY <2>1, <2>2, <2>3
<1>4. Total(Volumes(Unadded)) = TradedVolume
  <2>1. Volumes(Unadded) = [i \in DOMAIN recentTrades |-> recentTrades[i].quantity]
    BY <1>2 DEF Volumes
  <2>. QED
    BY <2>1 DEF TradedVolume
<1>. QED
  BY <1>1, <1>3, <1>4 DEF CountInv, OrdersInv

\* Whenever no handler is between its engine call and its last counter, the
\* counters say how many trades there were and how much was traded, every
\* order served is counted, and nothing is but orders and cancellations; and
\* the number of active orders is right whenever the engine's mutex is free.
THEOREM CountersAgree == ServerSpec => []MetricsAgree
  BY NewsInvariant, CountersInvariant, CountersFollow, PTL

-----------------------------------------------------------------------------
(* What is announced is so.                                                *)

\* A trade that was made, an order that was counted, one that was cancelled,
\* and one that has no more left than the message says.
StatusHolds(m) ==
    \E o \in ToSet(submitted) : /\ o.orderId = m.id
                                /\ m.remaining \in Int /\ m.remaining >= Unfilled(o)

TrueMsg(m) ==
    /\ m.type = "TRADE" => \E i \in DOMAIN recentTrades : m = TradeMsg(recentTrades[i])
    /\ m.type = "ORDER_ACCEPTED" => \E o \in Processed : m = Msg("ORDER_ACCEPTED", o.orderId)
    /\ m.type = "ORDER_CANCELLED" => m.id \in cancelled
    /\ m.type = "ORDER_STATUS" /\ m.status # "CANCELLED" => StatusHolds(m)

TrueMsgs(ms)    == \A i \in DOMAIN ms : TrueMsg(ms[i])
TrueParcels(ps) == \A i \in DOMAIN ps : TrueMsg(ps[i].msg)

\* The local result of a handler, which it has yet to announce.
TrueReply(r) == /\ r.kind = "place" => TrueMsgs(PlaceBroadcasts(r))
                /\ r.kind = "cancel" /\ r.success => r.orderId \in cancelled

AnnouncedOK(c) == /\ TrueMsgs(told[c]) /\ TrueParcels(outbox[c])
                  /\ pc[c] \in AfterCall => TrueReply(call[c])

AnnouncedInv == \A c \in Client : AnnouncedOK(c)

\* Nothing is undone: no order is uncounted or brought back, none has more left.
Progress ==
    /\ Processed \subseteq Processed' /\ cancelled \subseteq cancelled'
    /\ \A o \in ToSet(submitted) : /\ Unfilled(o) \in Int /\ Unfilled(o)' \in Int
                                   /\ Unfilled(o)' <= Unfilled(o)

LEMMA UnfilledFalls ==
  ASSUME EngineInvs, IdsBelowNext, [AdapterNext]_adapterVars
  PROVE  /\ cancelled \subseteq cancelled'
         /\ \A o \in ToSet(submitted) : /\ Unfilled(o) \in Int /\ Unfilled(o)' \in Int
                                        /\ Unfilled(o)' <= Unfilled(o)
<1>. USE DEF EngineInvs
<1>1. \A o \in ToSet(submitted) : Unfilled(o) \in Int
  BY UnfilledIs
<1>2. ASSUME recentTrades' = recentTrades PROVE \A o : Unfilled(o)' = Unfilled(o)
  BY <1>2, TradedSame DEF Unfilled
<1>3. CASE AdapterMatch
  <2>1. PICK m, q : m = BestOrder(Opposite(order.side)) /\ q = TradeQuantity(m)
    OBVIOUS
  <2>2. /\ q \in Nat
        /\ \A o \in ToSet(submitted) :
              Unfilled(o)' = Unfilled(o) -
                 (IF o.orderId = order.orderId \/ o.orderId = m.orderId THEN q ELSE 0)
    BY <1>3, <2>1, MatchAccounts DEF AdapterMatch
  <2>3. cancelled' = cancelled
    BY <1>3 DEF AdapterMatch, Match
  <2>. QED
    BY <1>1, <2>2, <2>3
<1>4. CASE \/ AdapterReply \/ (\E id \in OrderIds : AdapterCancel(id)) \/ UNCHANGED adapterVars
           \/ \E req \in PlaceOrderRequest : AdapterPlace(req)
  <2>1. recentTrades' = recentTrades /\ cancelled \subseteq cancelled'
    BY <1>4 DEF AdapterReply, Finish, AdapterCancel, EngineCancel, AdapterPlace, PlaceOrder,
       adapterVars, engineVars
  <2>. QED
    BY <1>1, <1>2, <2>1
<1>. QED
  BY <1>3, <1>4 DEF AdapterNext

\* What was so stays so,
LEMMA StaysTrue ==
  ASSUME Progress, ToSet(submitted) \subseteq ToSet(submitted)',
         \A i \in DOMAIN recentTrades : i \in DOMAIN recentTrades' /\ recentTrades'[i] = recentTrades[i]
  PROVE  /\ \A ms : TrueMsgs(ms) => TrueMsgs(ms)'
         /\ \A ps : TrueParcels(ps) => TrueParcels(ps)'
         /\ \A r : TrueReply(r) => TrueReply(r)'
<1>1. ASSUME NEW m, StatusHolds(m) PROVE StatusHolds(m)'
  BY <1>1 DEF StatusHolds, Progress
<1>2. ASSUME NEW m, TrueMsg(m) PROVE TrueMsg(m)'
  BY <1>1, <1>2 DEF TrueMsg, Progress
<1>3. ASSUME NEW ms, TrueMsgs(ms) PROVE TrueMsgs(ms)'
  BY <1>2, <1>3 DEF TrueMsgs
<1>4. ASSUME NEW r, TrueReply(r) PROVE TrueReply(r)'
  <2>1. PICK ms : ms = PlaceBroadcasts(r)
    OBVIOUS
  <2>2. TrueMsgs(PlaceBroadcasts(r))' <=> TrueMsgs(ms)'
    BY <2>1 DEF TrueMsgs, TrueMsg, StatusHolds
  <2>. QED
    BY <1>3, <1>4, <2>1, <2>2 DEF TrueReply, Progress
<1>. QED
  BY <1>2, <1>3, <1>4 DEF TrueParcels

\* other messages announce nothing of it,
LEMMA OthersTrue ==
  ASSUME NEW m, m.type \notin {"TRADE", "ORDER_ACCEPTED", "ORDER_CANCELLED", "ORDER_STATUS"}
  PROVE  TrueMsg(m)
  BY DEF TrueMsg

\* and what a handler sends is what it says and its broadcasts.
LEMMA OutgoingTrue ==
  ASSUME NEW c \in Client, NEW direct, Item(direct) = Nothing, NEW ms, Posts(ms), NewsOnce(ms),
         TrueMsg(direct), TrueMsgs(ms)
  PROVE  TrueParcels(Outgoing(c, direct, ms))
<1>1. PICK ps : ps = Outgoing(c, direct, ms)
  OBVIOUS
<1>2. /\ DOMAIN ps = 1 .. Len(ms) + 1 /\ ps[1].msg = direct
      /\ Len(ms) \in Nat /\ DOMAIN ms = 1 .. Len(ms)
      /\ \A i \in DOMAIN ms : ps[i + 1].msg = ms[i]
  BY <1>1, OutgoingDue
<1>3. ASSUME NEW i \in DOMAIN ps PROVE TrueMsg(ps[i].msg)
  <2>1. CASE i = 1
    BY <1>2, <2>1
  <2>2. CASE i # 1
    <3>1. i - 1 \in DOMAIN ms /\ (i - 1) + 1 = i
      BY <1>2, <2>2
    <3>2. PICK j \in DOMAIN ms : j = i - 1
      BY <3>1
    <3>3. ps[i].msg = ms[j]
      BY <1>2, <3>1, <3>2
    <3>. QED
      BY <3>3 DEF TrueMsgs
  <2>. QED
    BY <2>1, <2>2
<1>. QED
  BY <1>1, <1>3 DEF TrueParcels

LEMMA AnnouncedStep ==
  ASSUME NewsInvs, AnnouncedInv, NEW c \in Client, ClientStep(c), [AdapterNext]_adapterVars,
         Progress,
         \A d \in Client : TrueMsgs(told'[d]),
         TrueParcels(outbox'[c]),
         pc'[c] \in AfterCall => TrueReply(call'[c]) \/ TrueReply(call[c])'
  PROVE  AnnouncedInv'
<1>1. /\ \A ms : TrueMsgs(ms) => TrueMsgs(ms)'
      /\ \A ps : TrueParcels(ps) => TrueParcels(ps)'
      /\ \A r : TrueReply(r) => TrueReply(r)'
  BY StaysTrue, NothingForgotten DEF NewsInvs
<1>2. ASSUME NEW d \in Client
      PROVE  /\ TrueMsgs(told'[d]) /\ TrueParcels(outbox'[d])
             /\ pc'[d] \in AfterCall => TrueReply(call'[d]) \/ TrueReply(call[d])'
  <2>1. CASE d = c
    BY <2>1
  <2>2. CASE d # c
    <3>1. pc'[d] = pc[d] /\ call'[d] = call[d] /\ outbox'[d] = outbox[d]
      BY <2>2, OneAtATime DEF Idles, NewsInvs, HandlersInv
    <3>. QED
      BY <3>1 DEF AnnouncedInv, AnnouncedOK
  <2>. QED
    BY <2>1, <2>2
<1>3. ASSUME NEW d \in Client PROVE AnnouncedOK(d)'
  <2>1. PICK ms, ps, r : ms = told'[d] /\ ps = outbox'[d] /\ r = call'[d]
    OBVIOUS
  <2>2. /\ TrueMsgs(ms)' /\ TrueParcels(ps)'
        /\ pc'[d] \in AfterCall => TrueReply(r)' \/ TrueReply(call[d])'
    BY <1>1, <1>2, <2>1
  <2>3. /\ TrueMsgs(told[d])' <=> TrueMsgs(ms)'
        /\ TrueParcels(outbox[d])' <=> TrueParcels(ps)'
        /\ TrueReply(call[d])' <=> TrueReply(r)'
    <3>1. TrueMsgs(told[d])' <=> TrueMsgs(ms)'
      BY <2>1 DEF TrueMsgs, TrueMsg, StatusHolds
    <3>2. TrueParcels(outbox[d])' <=> TrueParcels(ps)'
      BY <2>1 DEF TrueParcels, TrueMsg, StatusHolds
    <3>3. TrueReply(call[d])' <=> TrueReply(r)'
      BY <2>1 DEF TrueReply, TrueMsgs, TrueMsg, StatusHolds
    <3>. QED
      BY <3>1, <3>2, <3>3
  <2>. QED
    BY <2>2, <2>3 DEF AnnouncedOK
<1>. QED
  BY <1>3 DEF AnnouncedInv

\* The steps that announce nothing and send nothing.
LEMMA AnnouncedQuiet ==
  ASSUME NewsInvs, AnnouncedInv, NEW c \in Client, ClientStep(c), [AdapterNext]_adapterVars,
         Progress, told' = told, outbox'[c] = outbox[c],
         pc'[c] \in AfterCall => pc[c] \in AfterCall /\ call'[c] = call[c]
  PROVE  AnnouncedInv'
<1>1. /\ \A d \in Client : TrueMsgs(told'[d])
      /\ TrueParcels(outbox'[c])
      /\ pc'[c] \in AfterCall => TrueReply(call'[c])
  BY DEF AnnouncedInv, AnnouncedOK
<1>. QED
  BY <1>1, AnnouncedStep

\* The broadcasts of a call are about its trades.
LEMMA CallAnnounces ==
  ASSUME NewsInvs, CountingInv, NEW c \in Client, EngineReturns(c)
  PROVE  TrueReply(result')
<1>. USE DEF NewsInvs
<1>1. pc[c] = "engine" /\ AdapterReply /\ CountingOK(c)
  BY DEF EngineReturns, CountingInv
<1>2. PICK r : r = result'
  OBVIOUS
<1>3. /\ r.kind = "place" /\ r.trades = Rows(Reports(events))
      /\ Announces(PlaceBroadcasts(r), r.trades, Forwarded(r.orderUpdates))
  BY <1>1, <1>2, ReplyNews DEF AdapterInv
<1>4. PICK ts, us, bs : ts = r.trades /\ us = Forwarded(r.orderUpdates) /\ bs = PlaceBroadcasts(r)
  OBVIOUS
<1>5. Real(ts)
  BY <1>1, <1>3, <1>4 DEF CountingOK, CallTrades
<1>6. ASSUME NEW j \in DOMAIN ts
      PROVE  TrueMsg(TradeMsg(ts[j]))
  <2>1. PICK i \in DOMAIN recentTrades : ts[j].tradeId = i /\ ts[j].quantity = recentTrades[i].quantity
    BY <1>5 DEF Real, RealTrade
  <2>2. recentTrades[i].tradeId = i
    BY DEF HistoryInv, TradesNumbered
  <2>3. TradeMsg(ts[j]) = TradeMsg(recentTrades[i])
    BY <2>1, <2>2 DEF TradeMsg
  <2>. QED
    BY <2>3 DEF TrueMsg, TradeMsg
<1>8. ASSUME NEW j \in DOMAIN us PROVE TrueMsg(UpdateMsg(us[j]))
  <2>1. AdapterInv' /\ PlaceReturned' /\ recentTrades' = recentTrades /\ submitted' = submitted
    BY <1>1, <1>2, <1>3, AdapterInvStep DEF AdapterNext, PlaceReturned, AdapterReply, Finish
  <2>2. /\ r.orderUpdates \in Seq(Update)
        /\ \A u \in ToSet(r.orderUpdates) : u.remainingQuantity = -1 \/ TrueUpdate(u)'
    BY <1>2, <2>1 DEF AdapterInv, ResultInv
  <2>3. PICK k \in DOMAIN r.orderUpdates :
           us[j] = r.orderUpdates[k] /\ r.orderUpdates[k].remainingQuantity >= 0
    BY <1>4, <2>2, ForwardedIn
  <2>4. PICK u : u = us[j]
    OBVIOUS
  <2>5. TrueUpdate(u)'
    BY <2>2, <2>3, <2>4 DEF ToSet
  <2>6. PICK o \in ToSet(submitted) : u.orderId = o.orderId /\ u.remainingQuantity = Unfilled(o)
    <3>1. \A o : Unfilled(o)' = Unfilled(o)
      BY <2>1, TradedSame DEF Unfilled
    <3>2. ToSet(submitted)' = ToSet(submitted)
      BY <2>1 DEF ToSet
    <3>. QED
      BY <2>5, <3>1, <3>2 DEF TrueUpdate, UpdateOf
  <2>7. Unfilled(o) \in Int
    BY UnfilledIs DEF EngineInvs
  <2>8. PICK m : m = UpdateMsg(u)
    OBVIOUS
  <2>9. m.type = "ORDER_STATUS" /\ m.id = u.orderId /\ m.remaining = u.remainingQuantity
    BY <2>8 DEF UpdateMsg, StatusMsg
  <2>10. StatusHolds(m)
    BY <2>6, <2>7, <2>9 DEF StatusHolds
  <2>. QED
    BY <2>4, <2>8, <2>9, <2>10 DEF TrueMsg
<1>7. ASSUME NEW i \in DOMAIN bs PROVE TrueMsg(bs[i])
  <2>1. \/ bs[i].type = "ORDER_BOOK" \/ \E j \in DOMAIN ts : bs[i] = TradeMsg(ts[j])
        \/ \E j \in DOMAIN us : bs[i] = UpdateMsg(us[j])
    BY <1>3, <1>4 DEF Announces
  <2>. QED
    BY <1>6, <1>8, <2>1, OthersTrue
<1>. QED
  BY <1>2, <1>3, <1>4, <1>7 DEF TrueMsgs, TrueReply

LEMMA AnnouncedReturn ==
  ASSUME NewsInvs, CountingInv, AnnouncedInv, NEW c \in Client, EngineReturns(c),
         Progress
  PROVE  AnnouncedInv'
<1>1. ClientStep(c) /\ Functions /\ [AdapterNext]_adapterVars
  BY DEF ClientStep, Handler, NewsInvs, HandlersInv, EngineReturns, AdapterNext
<1>2. call'[c] = result' /\ outbox' = outbox /\ told' = told
  BY <1>1 DEF EngineReturns, Functions, IsOn
<1>3. /\ \A d \in Client : TrueMsgs(told'[d])
      /\ TrueParcels(outbox'[c])
  BY <1>2 DEF AnnouncedInv, AnnouncedOK
<1>4. TrueReply(call'[c])
  BY <1>2, CallAnnounces
<1>. QED
  BY <1>1, <1>3, <1>4, AnnouncedStep

\* What the handlers prepare to send.
LEMMA AnnouncedPrepared ==
  ASSUME NewsInvs, AnnouncedInv, NEW c \in Client, ClientStep(c), [AdapterNext]_adapterVars,
         Progress, told' = told, pc'[c] = "sending",
         NEW direct, Item(direct) = Nothing, TrueMsg(direct),
         NEW ms, Posts(ms), NewsOnce(ms), TrueMsgs(ms),
         outbox'[c] = Outgoing(c, direct, ms)
  PROVE  AnnouncedInv'
<1>1. TrueParcels(outbox'[c])
  BY OutgoingTrue
<1>2. \A d \in Client : TrueMsgs(told'[d])
  BY DEF AnnouncedInv, AnnouncedOK
<1>. QED
  BY <1>1, <1>2, AnnouncedStep DEF AfterCall

\* The steps of the handlers that announce nothing.
LEMMA AnnouncedCalls ==
  ASSUME NewsInvs, AnnouncedInv, Progress, NEW c \in Client,
         \/ \E req \in PlaceOrderRequest : HandlePlaceOrder(c, req)
         \/ HandleGetMetrics(c) \/ EngineStep(c) \/ RecordOrder(c) \/ RecordTrade(c)
         \/ RecordVolume(c)
  PROVE  AnnouncedInv'
<1>. USE DEF NewsInvs
<1>1. ClientStep(c) /\ Functions /\ [AdapterNext]_adapterVars
  <2>1. ClientStep(c) /\ Functions
    BY DEF ClientStep, Handler, HandlersInv
  <2>2. AdapterNext \/ UNCHANGED adapterVars
    BY DEF HandlePlaceOrder, HandleGetMetrics, EngineStep, RecordOrder,
       RecordTrade, RecordVolume, AdapterNext
  <2>. QED
    BY <2>1, <2>2
<1>2. told' = told /\ outbox' = outbox
  BY DEF HandlePlaceOrder, HandleGetMetrics, EngineStep, RecordOrder, RecordTrade,
     RecordVolume, handlerVars
<1>3. pc'[c] \in AfterCall => pc[c] \in AfterCall /\ call'[c] = call[c]
  <2>1. ASSUME NEW req \in PlaceOrderRequest, HandlePlaceOrder(c, req)
        PROVE  pc'[c] = "engine"
    BY <1>1, <2>1 DEF HandlePlaceOrder, Begin, Goto, Functions, IsOn
  <2>3. CASE HandleGetMetrics(c)
    BY <1>1, <2>3 DEF HandleGetMetrics, Begin, Goto, Functions, IsOn, AfterCall
  <2>4. CASE EngineStep(c)
    BY <2>4 DEF EngineStep, handlerVars
  <2>5. CASE RecordOrder(c) \/ RecordTrade(c) \/ RecordVolume(c)
    BY <2>5 DEF RecordOrder, RecordTrade, RecordVolume, AfterCall
  <2>. QED
    BY <2>1, <2>3, <2>4, <2>5 DEF AfterCall
<1>. QED
  BY <1>1, <1>2, <1>3, AnnouncedQuiet

LEMMA AnnouncedCancel ==
  ASSUME NewsInvs, AnnouncedInv, Progress, NEW c \in Client, NEW id \in OrderIds,
         HandleCancelOrder(c, id)
  PROVE  AnnouncedInv'
<1>. USE DEF NewsInvs
<1>1. ClientStep(c) /\ Functions /\ [AdapterNext]_adapterVars
  BY DEF ClientStep, HandlersInv, HandleCancelOrder, AdapterNext
<1>2. call'[c] = result' /\ outbox' = outbox /\ told' = told
  BY <1>1 DEF HandleCancelOrder, Functions, IsOn
<1>3. /\ \A d \in Client : TrueMsgs(told'[d])
      /\ TrueParcels(outbox'[c])
  BY <1>2 DEF AnnouncedInv, AnnouncedOK
<1>4. PICK r : r = result'
  OBVIOUS
<1>5. r.kind = "cancel" /\ (r.success => r.orderId \in cancelled')
  <2>1. r = CancelResult(id, events') /\ EngineCancel(id)
    BY <1>4 DEF HandleCancelOrder, AdapterCancel
  <2>2. r.kind = "cancel" /\ r.orderId = id /\ (r.success => events' # <<>>)
    BY <2>1 DEF CancelResult
  <2>3. events' # <<>> => cancelled' = cancelled \cup {id}
    BY <2>1 DEF EngineCancel
  <2>. QED
    BY <2>2, <2>3
<1>6. TrueReply(call[c])'
  BY <1>2, <1>4, <1>5 DEF TrueReply
<1>. QED
  BY <1>1, <1>3, <1>6, AnnouncedStep

LEMMA AnnouncedSetActive ==
  ASSUME NewsInvs, AnnouncedInv, Progress, NEW c \in Client,
         SetActiveOrders(c)
  PROVE  AnnouncedInv'
<1>. USE DEF NewsInvs
<1>1. ClientStep(c) /\ Functions /\ [AdapterNext]_adapterVars
  BY DEF ClientStep, Handler, HandlersInv, SetActiveOrders
<1>2. pc[c] = "returned" /\ told' = told /\ call' = call
  BY DEF SetActiveOrders
<1>3. CASE Succeeded(call[c])
  <2>1. outbox' = outbox
    BY <1>3 DEF SetActiveOrders
  <2>. QED
    BY <1>1, <1>2, <2>1, AnnouncedQuiet DEF AfterCall
<1>4. CASE ~Succeeded(call[c])
  <2>1. pc'[c] = "sending" /\ outbox'[c] = Outgoing(c, Rejected, <<>>)
    BY <1>1, <1>4 DEF SetActiveOrders, Goto, Functions, IsOn
  <2>2. PICK direct, ms : direct = Rejected /\ ms = <<>>
    OBVIOUS
  <2>3. Item(direct) = Nothing /\ Posts(ms) /\ NewsOnce(ms)
    BY <2>2, EmptyMail, MessageItems
  <2>4. TrueMsg(direct) /\ TrueMsgs(ms)
    <3>1. direct.type = "ORDER_REJECTED" /\ DOMAIN ms = {}
      BY <2>2 DEF Rejected
    <3>. QED
      BY <3>1, OthersTrue DEF TrueMsgs
  <2>5. outbox'[c] = Outgoing(c, direct, ms)
    BY <2>1, <2>2
  <2>. QED
    BY <1>1, <1>2, <2>1, <2>3, <2>4, <2>5, AnnouncedPrepared
<1>. QED
  BY <1>3, <1>4

LEMMA AnnouncedLoad ==
  ASSUME NewsInvs, AnnouncedInv, Progress, NEW c \in Client,
         LoadCounter(c)
  PROVE  AnnouncedInv'
<1>. USE DEF NewsInvs
<1>1. ClientStep(c) /\ Functions /\ [AdapterNext]_adapterVars
  BY DEF ClientStep, Handler, HandlersInv, LoadCounter
<1>2. told' = told
  BY DEF LoadCounter
<1>3. \/ pc'[c] = "loading" /\ outbox'[c] = outbox[c]
      \/ pc'[c] = "sending" /\ \E x : outbox'[c] = Outgoing(c, [type |-> "METRICS", data |-> x], <<>>)
  BY <1>1, LoadedOrSent
<1>4. CASE pc'[c] = "loading" /\ outbox'[c] = outbox[c]
  BY <1>1, <1>2, <1>4, AnnouncedQuiet DEF AfterCall
<1>5. CASE pc'[c] = "sending" /\ \E x : outbox'[c] = Outgoing(c, [type |-> "METRICS", data |-> x], <<>>)
  <2>1. PICK x : outbox'[c] = Outgoing(c, [type |-> "METRICS", data |-> x], <<>>)
    BY <1>5
  <2>2. PICK direct, ms : direct = [type |-> "METRICS", data |-> x] /\ ms = <<>>
    OBVIOUS
  <2>3. Item(direct) = Nothing /\ Posts(ms) /\ NewsOnce(ms)
    BY <2>2, EmptyMail, MessageItems
  <2>4. TrueMsg(direct) /\ TrueMsgs(ms)
    <3>1. direct.type = "METRICS" /\ DOMAIN ms = {}
      BY <2>2
    <3>. QED
      BY <3>1, OthersTrue DEF TrueMsgs
  <2>5. outbox'[c] = Outgoing(c, direct, ms)
    BY <2>1, <2>2
  <2>. QED
    BY <1>1, <1>2, <1>5, <2>3, <2>4, <2>5, AnnouncedPrepared
<1>. QED
  BY <1>3, <1>4, <1>5

LEMMA AnnouncedGetBook ==
  ASSUME NewsInvs, OrdersInv, AnnouncedInv, Progress, NEW c \in Client,
         GetOrderBook(c)
  PROVE  AnnouncedInv'
<1>. USE DEF NewsInvs
<1>1. ClientStep(c) /\ Functions /\ [AdapterNext]_adapterVars /\ HandlerOK(c) /\ OrdersOK(c)
      /\ AnnouncedOK(c)
  BY DEF ClientStep, Handler, HandlersInv, GetOrderBook, OrdersInv, AnnouncedInv
<1>2. /\ pc[c] = "book" /\ pc'[c] = "sending" /\ told' = told /\ outbox'[c] = HandleResult(c)
  BY <1>1 DEF GetOrderBook, Goto, Functions, IsOn
<1>3. PICK r, ms : r = call[c] /\ ms = Broadcasts(r)
  OBVIOUS
<1>4. r.kind \in {"place", "cancel"} /\ Posts(ms) /\ NewsOnce(ms)
  BY <1>1, <1>2, <1>3 DEF HandlerOK, AfterCall
<1>5. CASE r.kind = "place"
  <2>1. PICK direct : direct = Msg("ORDER_ACCEPTED", r.orderId)
    OBVIOUS
  <2>2. outbox'[c] = Outgoing(c, direct, ms) /\ Item(direct) = Nothing
    BY <1>2, <1>3, <1>5, <2>1, MessageItems DEF HandleResult, Broadcasts
  <2>3. PICK o \in Processed : o.orderId = r.orderId
    BY <1>1, <1>2, <1>3, <1>5 DEF OrdersOK
  <2>4. TrueMsg(direct)
    <3>1. direct = Msg("ORDER_ACCEPTED", o.orderId) /\ direct.type = "ORDER_ACCEPTED"
      BY <2>1, <2>3 DEF Msg
    <3>. QED
      BY <3>1 DEF TrueMsg
  <2>5. TrueMsgs(ms)
    BY <1>1, <1>2, <1>3, <1>5 DEF AnnouncedOK, AfterCall, Broadcasts, TrueReply
  <2>. QED
    BY <1>1, <1>2, <1>4, <2>2, <2>4, <2>5, AnnouncedPrepared
<1>6. CASE r.kind = "cancel"
  <2>1. PICK direct : direct = Msg("ORDER_CANCELLED", r.orderId)
    OBVIOUS
  <2>2. outbox'[c] = Outgoing(c, direct, ms) /\ Item(direct) = Nothing
    BY <1>2, <1>3, <1>6, <2>1, MessageItems DEF HandleResult, Broadcasts
  <2>3. TrueMsg(direct)
    <3>1. r.orderId \in cancelled
      BY <1>1, <1>2, <1>3, <1>6 DEF AnnouncedOK, AfterCall, TrueReply, HandlerOK, Succeeded
    <3>2. direct.type = "ORDER_CANCELLED" /\ direct.id = r.orderId
      BY <2>1 DEF Msg
    <3>. QED
      BY <3>1, <3>2 DEF TrueMsg
  <2>4. TrueMsgs(ms)
    <3>1. PICK a, b : a = StatusMsg(r.orderId, "CANCELLED", 0) /\ b = BookMsg
      OBVIOUS
    <3>2. a.type = "ORDER_STATUS" /\ a.status = "CANCELLED" /\ b.type = "ORDER_BOOK"
      BY <3>1 DEF StatusMsg, BookMsg
    <3>3. ms = <<a, b>>
      BY <1>3, <1>6, <3>1 DEF Broadcasts
    <3>4. DOMAIN ms = {1, 2} /\ ms[1] = a /\ ms[2] = b
      BY <3>3
    <3>5. TrueMsg(a)
      BY <3>2 DEF TrueMsg
    <3>. QED
      BY <3>2, <3>4, <3>5, OthersTrue DEF TrueMsgs
  <2>. QED
    BY <1>1, <1>2, <1>4, <2>2, <2>3, <2>4, AnnouncedPrepared
<1>. QED
  BY <1>4, <1>5, <1>6

LEMMA AnnouncedSend ==
  ASSUME NewsInvs, AnnouncedInv, Progress, NEW c \in Client, SendOne(c)
  PROVE  AnnouncedInv'
<1>. USE DEF NewsInvs
<1>1. ClientStep(c) /\ Functions /\ [AdapterNext]_adapterVars /\ HandlerOK(c) /\ AnnouncedOK(c)
  BY DEF ClientStep, Handler, HandlersInv, SendOne, AnnouncedInv
<1>2. PICK ps : ps = outbox[c]
  OBVIOUS
<1>3. pc[c] = "sending" /\ Parceled(ps) /\ ParcelsOnce(ps) /\ ps # <<>> /\ TrueParcels(ps)
  BY <1>1, <1>2 DEF HandlerOK, SendOne, AnnouncedOK
<1>. DEFINE t    == Min(ps[1].to)
            left == ps[1].to \ {t}
            m    == ps[1].msg
            qs   == IF left = {} THEN Tail(ps) ELSE [ps EXCEPT ![1].to = left]
<1>4. /\ t \in Client /\ 1 \in DOMAIN ps /\ Head(ps) = ps[1]
      /\ \A j \in DOMAIN qs : \E i \in DOMAIN ps : qs[j].msg = ps[i].msg
  BY <1>3, SendFirst
<1>5. outbox'[c] = qs /\ told' = [told EXCEPT ![t] = Append(told[t], m)]
  BY <1>1, <1>2, <1>4 DEF SendOne, Functions, IsOn
<1>6. TrueParcels(outbox'[c])
  BY <1>3, <1>4, <1>5 DEF TrueParcels
<1>7. TrueMsg(m)
  BY <1>3, <1>4 DEF TrueParcels
<1>8. pc'[c] \in {"idle", "sending"}
  BY <1>1, <1>3 DEF SendOne, Goto, Functions, IsOn
<1>. HIDE DEF t, m, qs
<1>9. ASSUME NEW d \in Client PROVE TrueMsgs(told'[d])
  <2>1. TrueMsgs(told[d]) /\ Posts(told[d])
    BY DEF AnnouncedInv, AnnouncedOK, HandlersInv
  <2>2. CASE d # t
    <3>1. told'[d] = told[d]
      BY <1>1, <1>5, <2>2 DEF Functions, IsOn
    <3>. QED
      BY <2>1, <3>1
  <2>3. CASE d = t
    <3>1. PICK ms, ns : ms = told[d] /\ ns = Append(ms, m)
      OBVIOUS
    <3>2. told'[d] = ns
      BY <1>1, <1>5, <2>3, <3>1 DEF Functions, IsOn
    <3>3. /\ Len(ms) \in Nat /\ DOMAIN ms = 1 .. Len(ms) /\ DOMAIN ns = 1 .. Len(ms) + 1
          /\ \A i \in 1 .. Len(ms) : ns[i] = ms[i]
          /\ ns[Len(ms) + 1] = m
      BY <2>1, <3>1, PostsAppend
    <3>4. \A i \in DOMAIN ns : i \in DOMAIN ms \/ i = Len(ms) + 1
      BY <3>3
    <3>. QED
      BY <1>7, <2>1, <3>1, <3>2, <3>3, <3>4 DEF TrueMsgs
  <2>. QED
    BY <2>2, <2>3
<1>. QED
  BY <1>1, <1>6, <1>8, <1>9, AnnouncedStep DEF AfterCall

LEMMA AnnouncedKept ==
  ASSUME NewsInvs, CountingInv, OrdersInv, AnnouncedInv, Progress,
         [ServerNext \/ AllAnswered]_serverVars
  PROVE  AnnouncedInv'
<1>1. ASSUME NEW c \in Client, ClientStep(c) PROVE AnnouncedInv'
  BY <1>1, AnnouncedCalls, AnnouncedCancel, AnnouncedReturn, AnnouncedSetActive, AnnouncedLoad,
     AnnouncedGetBook, AnnouncedSend DEF ClientStep, Handler
<1>2. CASE UNCHANGED serverVars
  <2>1. /\ told' = told /\ outbox' = outbox /\ pc' = pc /\ call' = call
        /\ recentTrades' = recentTrades /\ submitted' = submitted
    BY <1>2 DEF serverVars, handlerVars, adapterVars, engineVars
  <2>2. /\ \A ms : TrueMsgs(ms) => TrueMsgs(ms)'
        /\ \A ps : TrueParcels(ps) => TrueParcels(ps)'
        /\ \A r : TrueReply(r) => TrueReply(r)'
    BY <2>1, StaysTrue
  <2>3. ASSUME NEW c \in Client PROVE AnnouncedOK(c)'
    <3>1. PICK ms, ps, r : ms = told[c] /\ ps = outbox[c] /\ r = call[c]
      OBVIOUS
    <3>2. TrueMsgs(ms)' /\ TrueParcels(ps)' /\ (pc[c] \in AfterCall => TrueReply(r)')
      BY <2>2, <3>1 DEF AnnouncedInv, AnnouncedOK
    <3>3. /\ TrueMsgs(told[c])' <=> TrueMsgs(ms)'
          /\ TrueParcels(outbox[c])' <=> TrueParcels(ps)'
      BY <2>1, <3>1 DEF TrueMsgs, TrueParcels, TrueMsg, StatusHolds
    <3>4. TrueReply(call[c])' <=> TrueReply(r)'
      BY <2>1, <3>1 DEF TrueReply, TrueMsgs, TrueMsg, StatusHolds
    <3>. QED
      BY <2>1, <3>2, <3>3, <3>4 DEF AnnouncedOK
  <2>. QED
    BY <2>3 DEF AnnouncedInv
<1>. QED
  BY <1>1, <1>2 DEF ServerNext, AllAnswered, ClientStep

LEMMA AnnouncedInit == ServerInit => AnnouncedInv
<1>. SUFFICES ASSUME ServerInit PROVE AnnouncedInv
  OBVIOUS
<1>1. \A c \in Client : pc[c] = "idle" /\ outbox[c] = <<>> /\ told[c] = <<>>
  BY DEF ServerInit
<1>2. TrueMsgs(<<>>) /\ TrueParcels(<<>>)
  BY DEF TrueMsgs, TrueParcels
<1>. QED
  BY <1>1, <1>2 DEF AnnouncedInv, AnnouncedOK, AfterCall

LEMMA AnnouncedInvariant == ServerSpec => []AnnouncedInv
<1>1. ASSUME NewsInvs, NewsInvs', CountersInv, AnnouncedInv, [ServerNext \/ AllAnswered]_serverVars
      PROVE  AnnouncedInv'
  <2>1. Processed \subseteq Processed'
    BY <1>1, OrdersKept DEF CountersInv, NewsInvs
  <2>2. [AdapterNext]_adapterVars
    BY <1>1, ServerStepIsAdapterStep DEF NewsInvs
  <2>3. Progress
    BY <1>1, <2>1, <2>2, UnfilledFalls DEF NewsInvs, Progress
  <2>. QED
    BY <1>1, <2>3, AnnouncedKept DEF CountersInv
<1>. QED
  BY <1>1, AnnouncedInit, NewsInvariant, CountersInvariant, PTL DEF ServerSpec

-----------------------------------------------------------------------------
(* What a METRICS reply covers.                                            *)

\* The trades told to c, counted or not, are among those that were counted.
LEMMA ToldAreCounted ==
  ASSUME NewsInvs, CountingInv, CountInv, NEW c \in Client
  PROVE  /\ IsFiniteSet(TradesTold(c))
         /\ Cardinality(TradesTold(c)) \in Nat /\ metrics.tradesExecuted \in Nat
         /\ Cardinality(TradesTold(c)) <= metrics.tradesExecuted
<1>. USE DEF NewsInvs
<1>1. PICK S, T, ms : S = TradesTold(c) /\ T = DOMAIN recentTrades \ Uncounted /\ ms = told[c]
  OBVIOUS
<1>2. IsFiniteSet(T)
  <2>1. DOMAIN recentTrades = 1 .. Len(recentTrades) /\ Len(recentTrades) \in Nat
    BY TradesListed
  <2>2. \A n \in Nat : IsFiniteSet(1 .. n)
    BY FS_Interval
  <2>3. IsFiniteSet(DOMAIN recentTrades)
    BY <2>1, <2>2
  <2>. QED
    BY <1>1, <2>3, FS_Subset
<1>3. /\ S = {i \in DOMAIN ms : ms[i].type = "TRADE"}
      /\ NewsOnce(ms) /\ Items(ms) \subseteq Happened
  BY <1>1 DEF TradesTold, NewsInv, Flow
<1>4. ASSUME NEW i \in S PROVE Item(ms[i]) = <<"TRADE", ms[i].id>> /\ Item(ms[i]) # Nothing
  BY <1>3, <1>4 DEF Item, IsTrade, Nothing
<1>5. ASSUME NEW i \in S PROVE ms[i].id \in T
  <2>1. <<"TRADE", ms[i].id>> \in Items(ms)
    BY <1>3, <1>4 DEF Items
  <2>2. ms[i].id \in DOMAIN recentTrades
    BY <1>3, <2>1 DEF Happened, News
  <2>3. ASSUME NEW e \in Client PROVE ms[i].id \notin UncountedBy(e)
    BY <1>1, <2>1, TradesApart, LeftAreTrades
  <2>. QED
    BY <1>1, <2>2, <2>3 DEF Uncounted
<1>6. ASSUME NEW i \in S, NEW j \in S, ms[i].id = ms[j].id PROVE i = j
  BY <1>3, <1>4, <1>6 DEF NewsOnce
<1>7. [i \in S |-> ms[i].id] \in Injection(S, T)
  BY <1>5, <1>6 DEF Injection, IsInjective
<1>8. IsFiniteSet(S) /\ Cardinality(S) <= Cardinality(T)
  BY <1>2, <1>7, FS_Injection
<1>. QED
  BY <1>1, <1>2, <1>8, FS_CardinalityType DEF CountInv

ReplyOK(c) ==
    /\ asked[c] \in Nat
    /\ pc[c] = "loading" => asked[c] <= metrics.tradesExecuted
    /\ "tradesExecuted" \in DOMAIN loaded[c] => asked[c] <= loaded[c]["tradesExecuted"]
    /\ pc[c] \notin {"loading", "sending"} => loaded[c] = <<>>

ReplyInv == \A c \in Client : ReplyOK(c)

\* The number of trades only grows.
LEMMA TradesCounted ==
  ASSUME Functions, NEW c \in Client, ClientStep(c)
  PROVE  metrics'.tradesExecuted \in {metrics.tradesExecuted, metrics.tradesExecuted + 1}
<1>1. \/ metrics' = metrics
      \/ \E n \in Counter \ {"tradesExecuted"} : \E v : metrics' = [metrics EXCEPT ![n] = v]
      \/ metrics' = [metrics EXCEPT !.tradesExecuted = @ + 1]
  BY DEF ClientStep, Handler, HandlePlaceOrder, HandleCancelOrder, HandleGetMetrics, EngineStep,
     EngineReturns, SetActiveOrders, RecordOrder, RecordTrade, RecordVolume, GetOrderBook,
     SendOne, LoadCounter, Counter
<1>. QED
  BY <1>1 DEF Functions, Counter

LEMMA ReplyStep ==
  ASSUME NewsInvs, CountingInv, CountInv, ReplyInv, NEW c \in Client, ClientStep(c), ReplyOK(c)'
  PROVE  ReplyInv'
<1>. USE DEF NewsInvs
<1>1. /\ metrics.tradesExecuted \in Nat
      /\ metrics'.tradesExecuted \in {metrics.tradesExecuted, metrics.tradesExecuted + 1}
  BY ToldAreCounted, TradesCounted DEF HandlersInv
<1>2. ASSUME NEW d \in Client \ {c} PROVE ReplyOK(d)'
  <2>1. /\ pc'[d] = pc[d] /\ loaded'[d] = loaded[d] /\ asked'[d] = asked[d]
        /\ ReplyOK(d)
    BY OneAtATime DEF Idles, HandlersInv, ReplyInv
  <2>. QED
    BY <1>1, <2>1 DEF ReplyOK
<1>. QED
  BY <1>2 DEF ReplyInv

LEMMA ReplyGetMetrics ==
  ASSUME NewsInvs, CountingInv, CountInv, ReplyInv, NEW c \in Client, HandleGetMetrics(c)
  PROVE  ReplyInv'
<1>. USE DEF NewsInvs
<1>1. ClientStep(c) /\ Functions /\ ReplyOK(c)
  BY DEF ClientStep, HandlersInv, ReplyInv
<1>2. /\ pc[c] = "idle" /\ pc'[c] = "loading" /\ loaded' = loaded /\ metrics' = metrics
      /\ asked'[c] = Cardinality(TradesTold(c))
  BY <1>1 DEF HandleGetMetrics, Begin, Goto, Functions, IsOn
<1>3. "tradesExecuted" \notin DOMAIN loaded[c]
  <2>1. loaded[c] = <<>> /\ DOMAIN <<>> = {}
    BY <1>1, <1>2 DEF ReplyOK
  <2>. QED
    BY <2>1
<1>4. ReplyOK(c)'
  BY <1>2, <1>3, ToldAreCounted DEF ReplyOK
<1>. QED
  BY <1>1, <1>4, ReplyStep

LEMMA ReplyLoad ==
  ASSUME NewsInvs, CountingInv, CountInv, ReplyInv, NEW c \in Client, LoadCounter(c)
  PROVE  ReplyInv'
<1>. USE DEF NewsInvs
<1>1. ClientStep(c) /\ Functions /\ ReplyOK(c)
  BY DEF ClientStep, Handler, HandlersInv, ReplyInv
<1>2. pc[c] = "loading" /\ metrics' = metrics /\ asked' = asked
  BY DEF LoadCounter
<1>3. pc'[c] \in {"loading", "sending"}
  BY <1>1, <1>2 DEF LoadCounter, Goto, Functions, IsOn
<1>4. PICK n \in Counter :
         loaded'[c] = [k \in DOMAIN loaded[c] \cup {n} |->
                          IF k = n THEN metrics[k] ELSE loaded[c][k]]
  BY <1>1 DEF LoadCounter, Functions, IsOn
<1>5. PICK l, k, v : l = loaded[c] /\ k = loaded'[c] /\ v = metrics[n]
  OBVIOUS
<1>6. k = [x \in DOMAIN l \cup {n} |-> IF x = n THEN v ELSE l[x]]
  BY <1>4, <1>5
<1>7. "tradesExecuted" \in DOMAIN k => asked[c] <= k["tradesExecuted"]
  <2>1. CASE n = "tradesExecuted"
    <3>1. k["tradesExecuted"] = metrics.tradesExecuted
      BY <1>5, <1>6, <2>1
    <3>. QED
      BY <1>1, <1>2, <3>1 DEF ReplyOK
  <2>2. CASE n # "tradesExecuted"
    <3>1. "tradesExecuted" \in DOMAIN k => "tradesExecuted" \in DOMAIN l /\ k["tradesExecuted"] = l["tradesExecuted"]
      BY <1>6, <2>2
    <3>. QED
      BY <1>1, <1>5, <3>1 DEF ReplyOK
  <2>. QED
    BY <2>1, <2>2
<1>8. ReplyOK(c)'
  BY <1>1, <1>2, <1>3, <1>5, <1>7 DEF ReplyOK
<1>. QED
  BY <1>1, <1>8, ReplyStep

LEMMA ReplyRest ==
  ASSUME NewsInvs, CountingInv, CountInv, ReplyInv, NEW c \in Client,
         \/ \E req \in PlaceOrderRequest : HandlePlaceOrder(c, req)
         \/ \E id \in OrderIds : HandleCancelOrder(c, id)
         \/ EngineStep(c) \/ EngineReturns(c) \/ SetActiveOrders(c) \/ RecordOrder(c)
         \/ RecordTrade(c) \/ RecordVolume(c) \/ GetOrderBook(c)
  PROVE  ReplyInv'
<1>. USE DEF NewsInvs
<1>1. ClientStep(c) /\ Functions /\ ReplyOK(c)
  BY DEF ClientStep, Handler, HandlersInv, ReplyInv
<1>2. loaded' = loaded /\ asked' = asked
  BY DEF HandlePlaceOrder, HandleCancelOrder, EngineStep, EngineReturns, SetActiveOrders,
     RecordOrder, RecordTrade, RecordVolume, GetOrderBook, handlerVars
<1>3. pc[c] \notin {"loading", "sending"} /\ pc'[c] # "loading"
  BY <1>1 DEF HandlePlaceOrder, HandleCancelOrder, EngineStep, EngineReturns, SetActiveOrders,
     RecordOrder, RecordTrade, RecordVolume, GetOrderBook, handlerVars, Begin, Goto, Functions, IsOn
<1>4. ReplyOK(c)'
  BY <1>1, <1>2, <1>3 DEF ReplyOK
<1>. QED
  BY <1>1, <1>4, ReplyStep

LEMMA ReplySend ==
  ASSUME NewsInvs, CountingInv, CountInv, ReplyInv, NEW c \in Client, SendOne(c)
  PROVE  ReplyInv'
<1>. USE DEF NewsInvs
<1>1. ClientStep(c) /\ Functions /\ ReplyOK(c)
  BY DEF ClientStep, Handler, HandlersInv, ReplyInv
<1>2. pc[c] = "sending"
  BY DEF SendOne
<1>3. CASE UNCHANGED <<pc, loaded, asked>>
  <2>1. ReplyOK(c)'
    BY <1>1, <1>2, <1>3 DEF ReplyOK
  <2>. QED
    BY <1>1, <2>1, ReplyStep
<1>4. CASE Goto(c, "idle") /\ loaded' = [loaded EXCEPT ![c] = <<>>] /\ asked' = [asked EXCEPT ![c] = 0]
  <2>1. pc'[c] = "idle" /\ loaded'[c] = <<>> /\ asked'[c] = 0 /\ DOMAIN <<>> = {}
    BY <1>1, <1>4 DEF Goto, Functions, IsOn
  <2>2. ReplyOK(c)'
    BY <2>1 DEF ReplyOK
  <2>. QED
    BY <1>1, <2>2, ReplyStep
<1>. QED
  BY <1>3, <1>4 DEF SendOne

LEMMA ReplyKept ==
  ASSUME NewsInvs, CountingInv, CountInv, ReplyInv, [ServerNext \/ AllAnswered]_serverVars
  PROVE  ReplyInv'
<1>1. ASSUME NEW c \in Client, ClientStep(c) PROVE ReplyInv'
  BY <1>1, ReplyGetMetrics, ReplyLoad, ReplyRest, ReplySend DEF ClientStep, Handler
<1>2. CASE UNCHANGED serverVars
  <2>1. pc' = pc /\ loaded' = loaded /\ asked' = asked /\ metrics' = metrics
    BY <1>2 DEF serverVars, handlerVars
  <2>. QED
    BY <2>1 DEF ReplyInv, ReplyOK
<1>. QED
  BY <1>1, <1>2 DEF ServerNext, AllAnswered, ClientStep

LEMMA ReplyInit == ServerInit => ReplyInv
<1>. SUFFICES ASSUME ServerInit PROVE ReplyInv
  OBVIOUS
<1>1. \A c \in Client : pc[c] = "idle" /\ loaded[c] = <<>> /\ asked[c] = 0
  BY DEF ServerInit
<1>2. DOMAIN <<>> = {}
  OBVIOUS
<1>. QED
  BY <1>1, <1>2 DEF ReplyInv, ReplyOK

\* A METRICS reply counts at least the trades its client had been told of
\* when it asked, in whatever order the counters are read and whoever updates
\* them meanwhile.
THEOREM RepliesCover == ServerSpec => []MetricsReplyCovers
<1>1. NewsInvs /\ CountersInv /\ ReplyInv /\ [ServerNext \/ AllAnswered]_serverVars => ReplyInv'
  BY ReplyKept DEF CountersInv
<1>2. ReplyInv => MetricsReplyCovers
  BY DEF ReplyInv, ReplyOK, MetricsReplyCovers, Counter
<1>. QED
  BY <1>1, <1>2, ReplyInit, NewsInvariant, CountersInvariant, PTL DEF ServerSpec

-----------------------------------------------------------------------------
(* The counters lie between what was told and what was done.               *)

\* The trade a message is about was made, counted and added.
LEMMA ToldTradeCounted ==
  ASSUME NewsInvs, CountingInv, AnnouncedInv, NEW m \in Told("TRADE")
  PROVE  \E i \in DOMAIN recentTrades : /\ m = TradeMsg(recentTrades[i]) /\ m.id = i
                                        /\ i \notin Uncounted /\ i \notin Unadded
<1>. USE DEF NewsInvs
<1>1. PICK d \in Client : m \in ToSet(told[d]) /\ m.type = "TRADE"
  BY DEF Told
<1>2. PICK k \in DOMAIN told[d] : m = told[d][k]
  BY <1>1 DEF ToSet
<1>3. TrueMsg(m)
  BY <1>2 DEF AnnouncedInv, AnnouncedOK, TrueMsgs
<1>4. PICK i \in DOMAIN recentTrades : m = TradeMsg(recentTrades[i])
  BY <1>1, <1>3 DEF TrueMsg
<1>5. m.id = i
  BY <1>4 DEF TradeMsg, HistoryInv, TradesNumbered
<1>6. Item(m) = <<"TRADE", i>> /\ Item(m) # Nothing
  BY <1>1, <1>5 DEF Item, IsTrade, Nothing
<1>7. <<"TRADE", i>> \in Items(told[d])
  BY <1>2, <1>6 DEF Items
<1>8. ASSUME NEW e \in Client PROVE i \notin UncountedBy(e) /\ i \notin UnaddedBy(e)
  BY <1>7, TradesApart, LeftAreTrades
<1>. QED
  BY <1>4, <1>5, <1>8 DEF Uncounted, Unadded

LEMMA OrdersBetween ==
  ASSUME NewsInvs, OrdersInv, AnnouncedInv
  PROVE  metrics.ordersProcessed \in Cardinality(Told("ORDER_ACCEPTED")) .. OrdersAndCancels
<1>. USE DEF NewsInvs
<1>1. PICK S, A, M : /\ S = Processed /\ A = Told("ORDER_ACCEPTED")
                     /\ M = {Msg("ORDER_ACCEPTED", o.orderId) : o \in Processed}
  OBVIOUS
<1>2. A \subseteq M
  <2>1. ASSUME NEW m \in A PROVE m \in M
    <3>1. PICK d \in Client : m \in ToSet(told[d]) /\ m.type = "ORDER_ACCEPTED"
      BY <1>1 DEF Told
    <3>2. PICK k \in DOMAIN told[d] : m = told[d][k]
      BY <3>1 DEF ToSet
    <3>3. TrueMsg(m)
      BY <3>2 DEF AnnouncedInv, AnnouncedOK, TrueMsgs
    <3>. QED
      BY <1>1, <3>1, <3>3 DEF TrueMsg
  <2>. QED
    BY <2>1
<1>3. IsFiniteSet(S) /\ IsFiniteSet(ServedOrders) /\ S \subseteq ServedOrders
  BY <1>1, FiniteProcessed DEF Processed
<1>4. [o \in S |-> Msg("ORDER_ACCEPTED", o.orderId)] \in Surjection(S, M)
  BY <1>1 DEF Surjection
<1>5. IsFiniteSet(M) /\ Cardinality(M) <= Cardinality(S)
  BY <1>3, <1>4, FS_Surjection
<1>6. IsFiniteSet(A) /\ Cardinality(A) <= Cardinality(M)
  BY <1>2, <1>5, FS_Subset
<1>7. Cardinality(S) <= Cardinality(ServedOrders)
  BY <1>3, FS_Subset
<1>8. /\ Cardinality(S) \in Nat /\ Cardinality(M) \in Nat /\ Cardinality(A) \in Nat
      /\ Cardinality(ServedOrders) \in Nat
  BY <1>3, <1>5, <1>6, FS_CardinalityType
<1>9. Cardinality(cancelled) \in Nat
  BY CancelsFinite
<1>. QED
  BY <1>1, <1>5, <1>6, <1>7, <1>8, <1>9 DEF OrdersInv, OrdersAndCancels

LEMMA TradesBetween ==
  ASSUME NewsInvs, CountingInv, CountInv, AnnouncedInv
  PROVE  metrics.tradesExecuted \in Cardinality(Told("TRADE")) .. Len(recentTrades)
<1>. USE DEF NewsInvs
<1>1. PICK D, T, B, M : /\ D = DOMAIN recentTrades /\ T = D \ Uncounted /\ B = Told("TRADE")
                        /\ M = {TradeMsg(recentTrades[i]) : i \in T}
  OBVIOUS
<1>2. B \subseteq M
  BY <1>1, ToldTradeCounted
<1>3. IsFiniteSet(D) /\ Cardinality(D) = Len(recentTrades)
  <2>1. D = 1 .. Len(recentTrades) /\ Len(recentTrades) \in Nat
    BY <1>1, TradesListed
  <2>2. \A n \in Nat : IsFiniteSet(1 .. n) /\ Cardinality(1 .. n) = n
    BY FS_Interval
  <2>. QED
    BY <2>1, <2>2
<1>4. IsFiniteSet(T) /\ Cardinality(T) <= Cardinality(D)
  BY <1>1, <1>3, FS_Subset
<1>5. [i \in T |-> TradeMsg(recentTrades[i])] \in Surjection(T, M)
  BY <1>1 DEF Surjection
<1>6. IsFiniteSet(M) /\ Cardinality(M) <= Cardinality(T)
  BY <1>4, <1>5, FS_Surjection
<1>7. IsFiniteSet(B) /\ Cardinality(B) <= Cardinality(M)
  BY <1>2, <1>6, FS_Subset
<1>8. /\ Cardinality(D) \in Nat /\ Cardinality(T) \in Nat /\ Cardinality(M) \in Nat
      /\ Cardinality(B) \in Nat
  BY <1>3, <1>4, <1>6, <1>7, FS_CardinalityType
<1>. QED
  BY <1>1, <1>3, <1>4, <1>6, <1>7, <1>8 DEF CountInv

LEMMA VolumeBetween ==
  ASSUME NewsInvs, CountingInv, CountInv, AnnouncedInv
  PROVE  metrics.totalVolume \in VolumeIn(Told("TRADE")) .. TradedVolume
<1>. USE DEF NewsInvs
<1>1. PICK B, n : B = Told("TRADE") /\ n = Len(recentTrades)
  OBVIOUS
<1>2. PICK lo, v, hi :
         /\ lo = [i \in DOMAIN recentTrades |->
                     IF TradeMsg(recentTrades[i]) \in B THEN recentTrades[i].quantity ELSE 0]
         /\ v = Volumes(Unadded)
         /\ hi = [i \in DOMAIN recentTrades |-> recentTrades[i].quantity]
  OBVIOUS
<1>3. /\ n \in Nat /\ DOMAIN recentTrades = 1 .. n
      /\ \A i \in 1 .. n : recentTrades[i].quantity \in Nat
  BY <1>1, TradesListed
<1>4. ASSUME NEW i \in 1 .. n, TradeMsg(recentTrades[i]) \in B PROVE i \notin Unadded
  <2>1. PICK m : m = TradeMsg(recentTrades[i])
    OBVIOUS
  <2>2. m.id = i
    BY <1>3, <2>1 DEF TradeMsg, HistoryInv, TradesNumbered
  <2>. QED
    BY <1>1, <1>4, <2>1, <2>2, ToldTradeCounted
<1>5. /\ lo \in Seq(Nat) /\ v \in Seq(Nat) /\ hi \in Seq(Nat)
      /\ Len(lo) = n /\ Len(v) = n /\ Len(hi) = n
  <2>1. /\ \A i \in 1 .. n : lo[i] \in Nat /\ v[i] \in Nat /\ hi[i] \in Nat
        /\ DOMAIN lo = 1 .. n /\ DOMAIN v = 1 .. n /\ DOMAIN hi = 1 .. n
    BY <1>2, <1>3 DEF Volumes
  <2>2. /\ lo = [i \in 1 .. n |-> lo[i]] /\ v = [i \in 1 .. n |-> v[i]]
        /\ hi = [i \in 1 .. n |-> hi[i]]
    BY <1>2, <1>3 DEF Volumes
  <2>3. \A f : f = [i \in 1 .. n |-> f[i]] /\ (\A i \in 1 .. n : f[i] \in Nat) => f \in Seq(Nat) /\ Len(f) = n
    BY <1>3
  <2>. QED
    BY <2>1, <2>2, <2>3
<1>6. \A i \in 1 .. n : lo[i] <= v[i] /\ v[i] <= hi[i]
  BY <1>2, <1>3, <1>4 DEF Volumes
<1>7. Total(lo) <= Total(v) /\ Total(v) <= Total(hi)
  BY <1>5, <1>6, TotalOrdered
<1>8. Total(lo) \in Nat /\ Total(v) \in Nat /\ Total(hi) \in Nat
  BY <1>5, TotalNat
<1>9. VolumeIn(Told("TRADE")) = Total(lo) /\ TradedVolume = Total(hi) /\ metrics.totalVolume = Total(v)
  BY <1>1, <1>2 DEF VolumeIn, TradedVolume, CountInv
<1>. QED
  BY <1>7, <1>8, <1>9

\* In every state each counter lies between what the clients have been told
\* and what the engine has done: nothing is announced that is not counted
\* yet, nothing is counted that did not happen, and no trade is announced
\* that was not made.
THEOREM CountersBetween == ServerSpec => []MetricsBetween
<1>1. NewsInvs /\ CountersInv /\ AnnouncedInv => MetricsBetween
  <2>. SUFFICES ASSUME NewsInvs, CountersInv, AnnouncedInv PROVE MetricsBetween
    OBVIOUS
  <2>1. CountingInv /\ CountInv /\ OrdersInv
    BY DEF CountersInv
  <2>2. Told("TRADE") \subseteq {TradeMsg(recentTrades[i]) : i \in DOMAIN recentTrades}
    BY <2>1, ToldTradeCounted
  <2>. QED
    BY <2>1, <2>2, OrdersBetween, TradesBetween, VolumeBetween DEF MetricsBetween
<1>. QED
  BY <1>1, AnnouncedInvariant, NewsInvariant, CountersInvariant, PTL
=============================================================================
