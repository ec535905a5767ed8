------------------------ MODULE MatchingEngine_proofs ------------------------
(***************************************************************************)
(* Proofs about MatchingEngine, for every set of order ids, every price    *)
(* range and every quantity bound: types, the book invariants of           *)
(* OrderBook_proofs under the engine's use of the book, and that the book  *)
(* is never crossed.                                                       *)
(***************************************************************************)
EXTENDS MatchingEngine, OrderBook_proofs, FiniteSetTheorems

Submitted(id) == \E k \in DOMAIN submitted : submitted[k].orderId = id

\* The order being matched is not in the book, and can be put there.
CallOK ==
    order # NoOrder =>
        /\ order.orderId \notin DOMAIN orderLocations
        /\ Submitted(order.orderId)
        /\ order.orderType = "LIMIT" => order.price \in Price

\* Every id of the index was submitted: so a fresh order's id is not in it.
IndexSubmitted == \A id \in DOMAIN orderLocations : Submitted(id)

\* The inductive invariant.  CallOK and IndexSubmitted are what lets the book
\* lemmas be applied when the rest of an order is added; NotCrossed needs
\* NoEmptyLevel, because Finish stops at a best level that is empty.
EngineInv == /\ EngineTypeOK /\ BookInv /\ NotCrossed
             /\ CallOK /\ IndexSubmitted

-----------------------------------------------------------------------------

LEMMA MinOfTwo ==
  ASSUME NEW a \in Nat, NEW b \in Nat
  PROVE  /\ Min({a, b}) \in {a, b}
         /\ Min({a, b}) <= a /\ Min({a, b}) <= b
<1>1. \E x \in {a, b} : \A y \in {a, b} : x <= y
  OBVIOUS
<1>. QED
  BY <1>1 DEF Min

\* The best order of a side that has one.
LEMMA BestOrderFacts ==
  ASSUME BookInv, NEW s \in Side, HasBest(s)
  PROVE  /\ BestOrder(s) \in Order
         /\ BestOrder(s).price = BestPrice(s)
         /\ BestOrder(s).price \in Price
         /\ BestOrder(s).remainingQuantity > 0
<1>1. BestPrice(s) \in DOMAIN levels[s] /\ levels[s][BestPrice(s)] # <<>>
  BY BestPriceIsBest DEF BookInv, HasBest
<1>2. levels[s][BestPrice(s)] \in Seq(Order) /\ BestPrice(s) \in Price
  BY <1>1 DEF BookInv, BookTypeOK, LevelsTypeOK
<1>3. /\ 1 \in DOMAIN levels[s][BestPrice(s)]
      /\ BestOrder(s) = levels[s][BestPrice(s)][1]
      /\ BestOrder(s) \in Order
  BY <1>1, <1>2 DEF BestOrder
<1>4. levels[s][BestPrice(s)][1].remainingQuantity > 0
  BY <1>1, <1>3 DEF BookInv, NoSpentOrder
<1>5. levels[s][BestPrice(s)][1].price = BestPrice(s)
  <2>1. \A p \in DOMAIN levels[s] : \A i \in DOMAIN levels[s][p] :
           LET o == levels[s][p][i]
           IN  /\ o.side = s /\ o.price = p
               /\ o.orderId \in DOMAIN orderLocations
               /\ orderLocations[o.orderId] = [side |-> s, price |-> p]
    BY DEF BookInv, IndexConsistent, IndexComplete
  <2>2. \A p \in DOMAIN levels[s] : \A i \in DOMAIN levels[s][p] :
           levels[s][p][i].price = p
    BY <2>1
  <2>. QED
    BY <2>2, <1>1, <1>3
<1>. QED
  BY <1>2, <1>3, <1>4, <1>5

\* When the incoming order can trade no more, no price of the other side
\* crosses it: the best one does not, and it is the first to do so.
LEMMA NothingCrosses ==
  ASSUME EngineInv, order # NoOrder, ~CanMatch, Rests
  PROVE  \A p \in DOMAIN levels[Opposite(order.side)] :
            /\ order.side = "BUY"  => order.price < p
            /\ order.side = "SELL" => p < order.price
<1>. DEFINE s == Opposite(order.side)
<1>0. order \in Order /\ order.side \in Side /\ s \in Side /\ order.price \in Price
  BY DEF EngineInv, EngineTypeOK, Order, Opposite, Side, Rests, CallOK
<1>. SUFFICES ASSUME NEW p \in DOMAIN levels[s]
              PROVE  /\ order.side = "BUY"  => order.price < p
                     /\ order.side = "SELL" => p < order.price
  OBVIOUS
<1>1. DOMAIN levels[s] \subseteq Price /\ BookTypeOK
  BY <1>0 DEF EngineInv, BookInv, BookTypeOK, LevelsTypeOK
<1>2. /\ BestPrice(s) \in DOMAIN levels[s]
      /\ \A q \in DOMAIN levels[s] \ {BestPrice(s)} : Better(s, BestPrice(s), q)
  BY <1>0, <1>1, BestPriceIsBest
<1>3. HasBest(s)
  BY <1>0, <1>2 DEF HasBest, EngineInv, BookInv, NoEmptyLevel
<1>4. ~Crosses(order, BestPrice(s))
  BY <1>0, <1>3, BestOrderFacts DEF EngineInv, CanMatch, Rests
<1>5. /\ p \in Nat /\ BestPrice(s) \in Nat /\ order.price \in Nat
      /\ p = BestPrice(s) \/ Better(s, BestPrice(s), p)
  BY <1>0, <1>1, <1>2 DEF Price
<1>. QED
  BY <1>0, <1>4, <1>5 DEF Crosses, Better, Opposite, Side, Rests

\* A book that has gained no price is still not crossed.
LEMMA StillNotCrossed ==
  ASSUME NotCrossed, \A t \in Side : DOMAIN levels'[t] \subseteq DOMAIN levels[t]
  PROVE  NotCrossed'
BY DEF NotCrossed, Side

-----------------------------------------------------------------------------
(* The actions.                                                            *)

LEMMA PlaceOrderInv ==
  ASSUME EngineInv, NEW o \in Order, Fresh(o), PlaceOrder(o)
  PROVE  EngineInv'
<1>1. /\ levels' = levels /\ orderLocations' = orderLocations /\ UNCHANGED bookVars
      /\ order' = o /\ submitted' = Append(submitted, o)
      /\ submitted \in Seq(Order)
      /\ o.orderId \in OrderIds
  BY DEF PlaceOrder, bookVars, EngineInv, EngineTypeOK, Order
<1>2. BookInv'
  BY <1>1, BookUnchangedInv DEF EngineInv
<1>3. NotCrossed'
  BY <1>1, StillNotCrossed DEF EngineInv
<1>4. EngineTypeOK'
  <2>1. events' \in Seq(Event)
    BY <1>1 DEF PlaceOrder, Event, OrderEvent, EventType
  <2>2. submitted' \in Seq(Order)
    BY <1>1
  <2>. QED
    BY <1>1, <1>2, <2>1, <2>2 DEF PlaceOrder, EngineInv, EngineTypeOK, BookInv
<1>5. \A id : Submitted(id) => Submitted(id)'
  BY <1>1 DEF Submitted
<1>6. Submitted(o.orderId)'
  <2>1. Len(submitted) + 1 \in DOMAIN submitted' /\ submitted'[Len(submitted) + 1] = o
    BY <1>1
  <2>. QED
    BY <2>1 DEF Submitted
<1>7. IndexSubmitted'
  BY <1>1, <1>5 DEF EngineInv, IndexSubmitted
<1>8. o.orderId \notin DOMAIN orderLocations
  BY DEF EngineInv, IndexSubmitted, Submitted, Fresh, ToSet
<1>9. o.orderType = "LIMIT" => o.price \in Price
  BY DEF Fresh, Order
<1>10. CallOK'
  BY <1>1, <1>6, <1>8, <1>9 DEF CallOK
<1>. QED
  BY <1>2, <1>3, <1>4, <1>7, <1>10 DEF EngineInv

LEMMA MatchInv ==
  ASSUME EngineInv, Match
  PROVE  EngineInv' /\ order' \in Order
<1>. DEFINE s        == Opposite(order.side)
            maker    == BestOrder(s)
            quantity == TradeQuantity(maker)
            trade    == TradeWith(maker, quantity)
<1>0. /\ order \in Order /\ order.orderId \in OrderIds /\ order.side \in Side
      /\ s \in Side /\ HasBest(s)
      /\ order.remainingQuantity \in Quantity
  BY DEF EngineInv, EngineTypeOK, Order, Opposite, Side, Match, CanMatch, Quantity
<1>1. /\ maker \in Order /\ maker.orderId \in OrderIds /\ maker.price \in Price
      /\ maker.remainingQuantity \in Quantity
  BY <1>0, BestOrderFacts DEF EngineInv, Order, Quantity
<1>2. /\ quantity \in Quantity
      /\ quantity <= order.remainingQuantity /\ quantity <= maker.remainingQuantity
  BY <1>0, <1>1, MinOfTwo DEF TradeQuantity, Quantity
<1>3. trade \in Trade
  BY <1>0, <1>1, <1>2 DEF TradeWith, Trade, EngineInv, EngineTypeOK
<1>. HIDE DEF maker, quantity, trade
<1>4. /\ IF Fills(maker, quantity) THEN RemoveBest(s) ELSE ReduceBest(s, quantity)
      /\ order' = [order EXCEPT !.remainingQuantity = @ - quantity]
      /\ recentTrades' = Append(recentTrades, trade)
      /\ events' = events \o
           <<TradeEvent(trade),
             OrderEvent(IF Fills(maker, quantity) THEN "ORDER_COMPLETELY_FILLED"
                                                  ELSE "ORDER_PARTIALLY_FILLED",
                        maker.orderId)>>
      /\ nextTradeId' = nextTradeId + 1 /\ nextTimestamp' = nextTimestamp + 1
      /\ submitted' = submitted /\ cancelled' = cancelled
  BY DEF Match, maker, quantity, trade
<1>5. /\ BookInv' /\ \A t \in Side : DOMAIN levels'[t] \subseteq DOMAIN levels[t]
      /\ DOMAIN orderLocations' \subseteq DOMAIN orderLocations
  <2>1. CASE Fills(maker, quantity)
    <3>1. RemoveBest(s)
      BY <1>4, <2>1
    <3>. QED
      BY <3>1, <1>0, RemoveBestInv DEF EngineInv, NodesKept, RemoveBest, ForgetLocation
  <2>2. CASE ~Fills(maker, quantity)
    <3>1. ReduceBest(s, quantity)
      BY <1>4, <2>2
    <3>2. quantity \in Nat /\ quantity < BestOrder(s).remainingQuantity
      BY <2>2, <1>1, <1>2 DEF Fills, Quantity, maker
    <3>. QED
      BY <3>1, <3>2, <1>0, ReduceBestInv DEF EngineInv, ReduceBest
  <2>. QED
    BY <2>1, <2>2
<1>6. NotCrossed'
  BY <1>5, StillNotCrossed DEF EngineInv
<1>7. /\ order' \in Order /\ order'.orderId = order.orderId
      /\ order'.orderType = order.orderType /\ order'.price = order.price
  <2>1. order.remainingQuantity - quantity \in Quantity \cup {0}
    BY <1>0, <1>2, BookAssumption DEF Quantity
  <2>. QED
    BY <1>0, <1>4, <2>1 DEF Order
<1>8. EngineTypeOK'
  <2>1. events' \in Seq(Event)
    <3>1. TradeEvent(trade) \in Event
      BY <1>3 DEF Event, TradeEvent
    <3>2. \A type \in EventType : OrderEvent(type, maker.orderId) \in Event
      BY <1>1 DEF Event, OrderEvent
    <3>. QED
      BY <1>4, <3>1, <3>2 DEF EventType, EngineInv, EngineTypeOK
  <2>2. /\ recentTrades' \in Seq(Trade)
        /\ nextTradeId' = Len(recentTrades') + 1
        /\ nextTimestamp' = Len(recentTrades') + 1
    BY <1>3, <1>4 DEF EngineInv, EngineTypeOK
  <2>. QED
    BY <1>4, <1>5, <1>7, <2>1, <2>2 DEF EngineInv, EngineTypeOK, BookInv
<1>9. IndexSubmitted' /\ CallOK'
  <2>1. order # NoOrder
    BY DEF Match
  <2>. QED
    BY <2>1, <1>4, <1>5, <1>7 DEF EngineInv, IndexSubmitted, CallOK, Submitted
<1>. QED
  BY <1>5, <1>6, <1>7, <1>8, <1>9 DEF EngineInv

LEMMA FinishInv ==
  ASSUME EngineInv, Finish
  PROVE  EngineInv'
<1>0. /\ order # NoOrder /\ ~CanMatch /\ order \in Order /\ order.orderId \in OrderIds
      /\ order.side \in Side /\ order' = NoOrder
      /\ submitted' = submitted /\ cancelled' = cancelled
  BY DEF Finish, EngineInv, EngineTypeOK, Order
<1>1. events' \in Seq(Event)
  <2>1. \A type \in EventType : OrderEvent(type, order.orderId) \in Event
    BY <1>0 DEF Event, OrderEvent
  <2>2. OwnFillEvents \in Seq(Event)
    BY <2>1 DEF OwnFillEvents, EventType
  <2>3. <<BookEvent>> \in Seq(Event)
    BY DEF Event
  <2>4. events \in Seq(Event)
    BY DEF EngineInv, EngineTypeOK
  <2>. QED
    BY <2>2, <2>3, <2>4, ConcatProperties DEF Finish
<1>2. CASE Rests
  <2>1. CanRest(order) /\ AddOrder(order)
    BY <1>0, <1>2 DEF Finish, CanRest, Rests, EngineInv, CallOK
  <2>2. BookInv' /\ PricesGained(order)
    BY <2>1, AddOrderInv DEF EngineInv
  <2>3. NotCrossed'
    <3>. SUFFICES ASSUME NEW p \in DOMAIN levels'["BUY"], NEW q \in DOMAIN levels'["SELL"]
                  PROVE  p < q
      BY DEF NotCrossed
    <3>1. "BUY" \in Side /\ "SELL" \in Side
      BY DEF Side
    <3>2. /\ p \in DOMAIN levels["BUY"] \/ (order.side = "BUY" /\ p = order.price)
          /\ q \in DOMAIN levels["SELL"] \/ (order.side = "SELL" /\ q = order.price)
      BY <2>2, <3>1 DEF PricesGained
    <3>3. CASE p \in DOMAIN levels["BUY"] /\ q \in DOMAIN levels["SELL"]
      BY <3>3 DEF EngineInv, NotCrossed
    <3>4. CASE order.side = "BUY" /\ p = order.price /\ q \in DOMAIN levels["SELL"]
      BY <3>4, <1>0, <1>2, NothingCrosses DEF Opposite
    <3>5. CASE order.side = "SELL" /\ q = order.price /\ p \in DOMAIN levels["BUY"]
      BY <3>5, <1>0, <1>2, NothingCrosses DEF Opposite
    <3>. QED
      BY <3>2, <3>3, <3>4, <3>5
  <2>4. DOMAIN orderLocations' = DOMAIN orderLocations \cup {order.orderId}
    BY <2>1 DEF AddOrder
  <2>5. IndexSubmitted'
    BY <1>0, <2>4 DEF EngineInv, IndexSubmitted, CallOK, Submitted
  <2>. QED
    BY <1>0, <1>1, <2>2, <2>3, <2>5 DEF EngineInv, EngineTypeOK, BookInv, CallOK, Finish
<1>3. CASE ~Rests
  <2>1. UNCHANGED bookVars /\ levels' = levels /\ orderLocations' = orderLocations
    BY <1>3 DEF Finish, bookVars
  <2>2. BookInv'
    BY <2>1, BookUnchangedInv DEF EngineInv
  <2>3. NotCrossed'
    BY <2>1, StillNotCrossed DEF EngineInv
  <2>4. IndexSubmitted'
    BY <1>0, <2>1 DEF EngineInv, IndexSubmitted, Submitted
  <2>. QED
    BY <1>0, <1>1, <2>2, <2>3, <2>4 DEF EngineInv, EngineTypeOK, BookInv, CallOK, Finish
<1>. QED
  BY <1>2, <1>3

LEMMA EngineCancelInv ==
  ASSUME EngineInv, NEW id \in OrderIds, EngineCancel(id)
  PROVE  EngineInv'
<1>0. /\ order = NoOrder /\ order' = order /\ submitted' = submitted
      /\ recentTrades' = recentTrades /\ nextTradeId' = nextTradeId
      /\ nextTimestamp' = nextTimestamp
  BY DEF EngineCancel
<1>1. CASE CancelOrder(id) /\ cancelled' = cancelled \cup {id}
                           /\ events' = <<OrderEvent("ORDER_CANCELLED", id), BookEvent>>
  <2>1. BookInv' /\ NodesKept
    BY <1>1, CancelOrderInv DEF EngineInv
  <2>2. DOMAIN orderLocations' \subseteq DOMAIN orderLocations
    BY <1>1 DEF CancelOrder, ForgetLocation
  <2>3. NotCrossed'
    BY <2>1, StillNotCrossed DEF EngineInv, NodesKept
  <2>4. events' \in Seq(Event) /\ cancelled' \subseteq OrderIds
    BY <1>1 DEF Event, OrderEvent, EventType, EngineInv, EngineTypeOK
  <2>5. IndexSubmitted' /\ CallOK'
    BY <1>0, <2>2 DEF EngineInv, IndexSubmitted, CallOK, Submitted
  <2>. QED
    BY <1>0, <2>1, <2>3, <2>4, <2>5 DEF EngineInv, EngineTypeOK, BookInv
<1>2. CASE UNCHANGED <<bookVars, cancelled>> /\ events' = <<>>
  <2>1. UNCHANGED bookVars /\ levels' = levels /\ orderLocations' = orderLocations
        /\ cancelled' = cancelled
    BY <1>2 DEF bookVars
  <2>2. BookInv'
    BY <2>1, BookUnchangedInv DEF EngineInv
  <2>3. NotCrossed'
    BY <2>1, StillNotCrossed DEF EngineInv
  <2>4. events' \in Seq(Event)
    BY <1>2
  <2>5. IndexSubmitted' /\ CallOK'
    BY <1>0, <2>1 DEF EngineInv, IndexSubmitted, CallOK, Submitted
  <2>. QED
    BY <1>0, <2>1, <2>2, <2>3, <2>4, <2>5 DEF EngineInv, EngineTypeOK, BookInv
<1>. QED
  BY <1>1, <1>2 DEF EngineCancel

LEMMA EngineStutterInv ==
  ASSUME EngineInv, UNCHANGED engineVars
  PROVE  EngineInv'
<1>1. /\ UNCHANGED bookVars /\ levels' = levels /\ orderLocations' = orderLocations
      /\ order' = order /\ events' = events /\ recentTrades' = recentTrades
      /\ nextTradeId' = nextTradeId /\ nextTimestamp' = nextTimestamp
      /\ submitted' = submitted /\ cancelled' = cancelled
  BY DEF engineVars, bookVars
<1>2. BookInv'
  BY <1>1, BookUnchangedInv DEF EngineInv
<1>3. NotCrossed'
  BY <1>1, StillNotCrossed DEF EngineInv
<1>4. IndexSubmitted' /\ CallOK'
  BY <1>1 DEF EngineInv, IndexSubmitted, CallOK, Submitted
<1>. QED
  BY <1>1, <1>2, <1>3, <1>4 DEF EngineInv, EngineTypeOK, BookInv

LEMMA EngineInitInv == EngineInit => EngineInv
<1>. SUFFICES ASSUME EngineInit PROVE EngineInv
  OBVIOUS
<1>1. BookInv
  BY BookInitInv DEF EngineInit
<1>2. levels = [s \in Side |-> <<>>] /\ DOMAIN orderLocations = {}
  BY DEF EngineInit, BookInit
<1>. QED
  BY <1>1, <1>2 DEF EngineInit, EngineInv, EngineTypeOK, BookInv, NotCrossed, Side,
                    CallOK, IndexSubmitted

LEMMA EngineStepInv == EngineInv /\ [EngineNext]_engineVars => EngineInv'
<1>. SUFFICES ASSUME EngineInv, [EngineNext]_engineVars
              PROVE  EngineInv'
  OBVIOUS
<1>1. ASSUME NEW o \in Order, Fresh(o), PlaceOrder(o)
      PROVE  EngineInv'
  BY <1>1, PlaceOrderInv
<1>2. CASE Match
  BY <1>2, MatchInv
<1>3. CASE Finish
  BY <1>3, FinishInv
<1>4. ASSUME NEW id \in OrderIds, EngineCancel(id)
      PROVE  EngineInv'
  BY <1>4, EngineCancelInv
<1>5. CASE UNCHANGED engineVars
  BY <1>5, EngineStutterInv
<1>. QED
  BY <1>1, <1>2, <1>3, <1>4, <1>5 DEF EngineNext

-----------------------------------------------------------------------------
(* The theorems.                                                           *)

LEMMA EngineInvariant == EngineSpec => []EngineInv
  BY EngineInitInv, EngineStepInv, PTL DEF EngineSpec

\* Every variable of the engine keeps its type, no order's remaining quantity
\* ever goes below zero, and trade ids and timestamps count the trades.
THEOREM EngineTypeCorrect == EngineSpec => []EngineTypeOK
<1>1. EngineInv => EngineTypeOK
  BY DEF EngineInv
<1>. QED
  BY EngineInvariant, <1>1, PTL

\* Between calls and between any two fills of a call, the highest bid is
\* below the lowest ask.
THEOREM EngineNeverCrossed == EngineSpec => []NotCrossed
<1>1. EngineInv => NotCrossed
  BY DEF EngineInv
<1>. QED
  BY EngineInvariant, <1>1, PTL

\* The engine uses the book as the book expects: a price level never stands
\* empty and the cancellation index never dangles, at any step of matching.
THEOREM EngineKeepsIndex == EngineSpec => [](NoEmptyLevel /\ IndexConsistent)
<1>1. EngineInv => NoEmptyLevel /\ IndexConsistent
  BY DEF EngineInv, BookInv
<1>. QED
  BY EngineInvariant, <1>1, PTL

\* No order rests with nothing left, so every iteration of the matching loop
\* trades a positive quantity.
THEOREM EngineKeepsNoSpentOrder == EngineSpec => []NoSpentOrder
<1>1. EngineInv => NoSpentOrder
  BY DEF EngineInv, BookInv
<1>. QED
  BY EngineInvariant, <1>1, PTL

-----------------------------------------------------------------------------
(* The engine implements the abstract price-time book.                     *)

\* Every order was submitted once,
IdsDistinct ==
    \A i, j \in DOMAIN submitted : submitted[i].orderId = submitted[j].orderId => i = j

\* the one being matched last,
TakerIsLast ==
    order # NoOrder => /\ submitted # <<>>
                       /\ submitted[Len(submitted)].orderId = order.orderId

\* and a list of the book is in the order of arrival.
QueueInArrivalOrder == \A a, b : Ahead(a, b) => ArrivalOf(a) < ArrivalOf(b)

\* What the refinement needs beyond the engine's own invariant: the book knows
\* no arrivals, so that the front of a list is the order that arrived first is a
\* fact about the whole history of the list.
RefinementInv == IdsDistinct /\ TakerIsLast /\ QueueInArrivalOrder

LEMMA ArrivalFacts ==
  ASSUME NEW id, Submitted(id)
  PROVE  ArrivalOf(id) \in DOMAIN submitted /\ submitted[ArrivalOf(id)].orderId = id
BY DEF Submitted, ArrivalOf

LEMMA ArrivalIs ==
  ASSUME IdsDistinct, NEW i \in DOMAIN submitted
  PROVE  ArrivalOf(submitted[i].orderId) = i
BY ArrivalFacts DEF IdsDistinct, Submitted

\* The nodes of a queue are different orders, and indexed.
QueuesIndexed ==
    \A a, b : Ahead(a, b) => /\ a \in DOMAIN orderLocations
                             /\ b \in DOMAIN orderLocations
                             /\ a # b

LEMMA AheadIndexed == BookInv => QueuesIndexed
<1>. SUFFICES ASSUME BookInv, NEW a, NEW b, Ahead(a, b)
              PROVE  a \in DOMAIN orderLocations /\ b \in DOMAIN orderLocations /\ a # b
  BY DEF QueuesIndexed
<1>1. PICK t \in Side : \E q \in DOMAIN levels[t] : \E j, l \in DOMAIN levels[t][q] :
         j < l /\ levels[t][q][j].orderId = a /\ levels[t][q][l].orderId = b
  BY DEF Ahead
<1>2. PICK q \in DOMAIN levels[t] : \E j, l \in DOMAIN levels[t][q] :
         j < l /\ levels[t][q][j].orderId = a /\ levels[t][q][l].orderId = b
  BY <1>1
<1>3. PICK j \in DOMAIN levels[t][q], l \in DOMAIN levels[t][q] :
         j < l /\ levels[t][q][j].orderId = a /\ levels[t][q][l].orderId = b
  BY <1>2
<1>4. /\ levels[t][q][j].orderId \in DOMAIN orderLocations
      /\ levels[t][q][l].orderId \in DOMAIN orderLocations
  BY DEF BookInv, IndexConsistent, IndexComplete
<1>5. levels[t][q] \in Seq(Order)
  BY DEF BookInv, BookTypeOK, LevelsTypeOK
<1>6. j # l
  BY <1>3, <1>5
<1>7. a # b
  BY <1>3, <1>6 DEF BookInv, IndexConsistent, NodesDistinct
<1>. QED
  BY <1>3, <1>4, <1>7

\* A step that submits nothing and adds nothing to the book.
LEMMA QueueStaysInOrder ==
  ASSUME QueueInArrivalOrder, BookInv', QueueKept, submitted' = submitted,
         DOMAIN orderLocations' \subseteq DOMAIN orderLocations
  PROVE  QueueInArrivalOrder'
<1>1. \A id : ArrivalOf(id)' = ArrivalOf(id)
  BY DEF ArrivalOf
<1>2. BookInv' => QueuesIndexed'
  BY AheadIndexed, PTL
<1>3. \A a, b : Ahead(a, b)' => Ahead(a, b)
  BY <1>2 DEF QueueKept, QueuesIndexed
<1>. QED
  BY <1>1, <1>3 DEF QueueInArrivalOrder

LEMMA QueueUnchanged ==
  ASSUME QueueInArrivalOrder, submitted' = submitted, levels' = levels
  PROVE  QueueInArrivalOrder'
<1>1. \A id : ArrivalOf(id)' = ArrivalOf(id)
  BY DEF ArrivalOf
<1>2. \A a, b : Ahead(a, b)' = Ahead(a, b)
  BY DEF Ahead
<1>. QED
  BY <1>1, <1>2 DEF QueueInArrivalOrder

\* An order that is submitted leaves the arrivals of the others alone.
LEMMA ArrivalKept ==
  ASSUME submitted \in Seq(Order), IdsDistinct, NEW o \in Order, ~Submitted(o.orderId),
         submitted' = Append(submitted, o)
  PROVE  /\ IdsDistinct'
         /\ \A id : Submitted(id) => ArrivalOf(id)' = ArrivalOf(id)
         /\ ArrivalOf(o.orderId)' = Len(submitted) + 1
<1>1. /\ Len(submitted) \in Nat /\ DOMAIN submitted = 1 .. Len(submitted)
      /\ DOMAIN submitted' = 1 .. Len(submitted) + 1
      /\ \A i \in 1 .. Len(submitted) : submitted'[i] = submitted[i]
      /\ submitted'[Len(submitted) + 1] = o
  BY AppendProperties
<1>2. \A i \in DOMAIN submitted : submitted[i].orderId # o.orderId
  BY DEF Submitted
<1>3. IdsDistinct'
  <2>. SUFFICES ASSUME NEW i \in DOMAIN submitted', NEW j \in DOMAIN submitted',
                       submitted'[i].orderId = submitted'[j].orderId
                PROVE  i = j
    BY DEF IdsDistinct
  <2>1. CASE i \in 1 .. Len(submitted) /\ j \in 1 .. Len(submitted)
    BY <1>1, <2>1 DEF IdsDistinct
  <2>2. CASE i = Len(submitted) + 1 \/ j = Len(submitted) + 1
    BY <1>1, <1>2, <2>2
  <2>. QED
    BY <1>1, <2>1, <2>2
<1>4. ASSUME NEW i \in DOMAIN submitted', NEW id, submitted'[i].orderId = id
      PROVE  ArrivalOf(id)' = i
  <2>1. \A k \in DOMAIN submitted' : submitted'[k].orderId = id => k = i
    BY <1>3, <1>4 DEF IdsDistinct
  <2>. QED
    BY <1>4, <2>1 DEF ArrivalOf
<1>5. ASSUME NEW id, Submitted(id)
      PROVE  ArrivalOf(id)' = ArrivalOf(id)
  <2>1. PICK i \in DOMAIN submitted : submitted[i].orderId = id
    BY <1>5 DEF Submitted
  <2>2. ArrivalOf(id) = i
    BY <2>1, ArrivalIs
  <2>3. i \in DOMAIN submitted' /\ submitted'[i].orderId = id
    BY <1>1, <2>1
  <2>. QED
    BY <1>4, <2>2, <2>3
<1>6. ArrivalOf(o.orderId)' = Len(submitted) + 1
  BY <1>1, <1>4
<1>. QED
  BY <1>3, <1>5, <1>6

LEMMA PlaceOrderArrival ==
  ASSUME EngineInv, RefinementInv, NEW o \in Order, Fresh(o), PlaceOrder(o)
  PROVE  /\ RefinementInv' /\ ~Submitted(o.orderId)
         /\ \A id : Submitted(id) => ArrivalOf(id)' = ArrivalOf(id)
         /\ ArrivalOf(o.orderId)' = Len(submitted) + 1
<1>1. /\ submitted \in Seq(Order) /\ submitted' = Append(submitted, o) /\ order' = o
      /\ levels' = levels
  BY DEF EngineInv, EngineTypeOK, PlaceOrder, bookVars
<1>2. ~Submitted(o.orderId)
  BY DEF Submitted, Fresh, ToSet
<1>3. /\ IdsDistinct'
      /\ \A id : Submitted(id) => ArrivalOf(id)' = ArrivalOf(id)
      /\ ArrivalOf(o.orderId)' = Len(submitted) + 1
  BY <1>1, <1>2, ArrivalKept DEF RefinementInv
<1>4. TakerIsLast'
  <2>1. /\ submitted' # <<>> /\ Len(submitted') = Len(submitted) + 1
        /\ submitted'[Len(submitted) + 1] = o
    BY <1>1, AppendProperties
  <2>. QED
    BY <1>1, <2>1 DEF TakerIsLast
<1>5. QueueInArrivalOrder'
  <2>1. \A a, b : Ahead(a, b)' = Ahead(a, b)
    BY <1>1 DEF Ahead
  <2>2. \A a, b : Ahead(a, b) => Submitted(a) /\ Submitted(b)
    BY AheadIndexed DEF QueuesIndexed, EngineInv, IndexSubmitted
  <2>. QED
    BY <1>3, <2>1, <2>2 DEF RefinementInv, QueueInArrivalOrder
<1>. QED
  BY <1>2, <1>3, <1>4, <1>5 DEF RefinementInv

\* What a step of the matching loop does to the book: the best order of the
\* other side is gone if the trade filled it, and has less if not.
LEMMA MatchBook ==
  ASSUME EngineInv, Match
  PROVE  LET s == Opposite(order.side)
             m == BestOrder(s)
             q == TradeQuantity(m)
         IN  /\ s \in Side
             /\ BestPrice(s) \in DOMAIN levels[s] /\ 1 \in DOMAIN levels[s][BestPrice(s)]
             /\ m = levels[s][BestPrice(s)][1]
             /\ Fills(m, q) => NodeGone(s, BestPrice(s), 1)
             /\ ~Fills(m, q) => NodeReduced(s, q)
             /\ QueueKept /\ DOMAIN orderLocations' \subseteq DOMAIN orderLocations
<1>. DEFINE s == Opposite(order.side)
            m == BestOrder(s)
            q == TradeQuantity(m)
<1>1. s \in Side /\ BookInv /\ BookInv'
  BY MatchInv DEF EngineInv, Opposite, Side
<1>2. IF Fills(m, q) THEN RemoveBest(s) ELSE ReduceBest(s, q)
  BY DEF Match
<1>. HIDE DEF m, q, s
<1>3. CASE Fills(m, q)
  <2>1. RemoveBest(s)
    BY <1>2, <1>3
  <2>2. /\ NodeGone(s, BestPrice(s), 1)
        /\ BestPrice(s) \in DOMAIN levels[s] /\ 1 \in DOMAIN levels[s][BestPrice(s)]
        /\ BestOrder(s) = levels[s][BestPrice(s)][1]
    BY <1>1, <2>1, RemoveBestExact
  <2>3. QueueKept
    BY <1>1, <2>2, GoneKeeps
  <2>4. DOMAIN orderLocations' \subseteq DOMAIN orderLocations
    BY <2>1 DEF RemoveBest, ForgetLocation
  <2>. QED
    BY <1>1, <1>3, <2>2, <2>3, <2>4 DEF m, q, s
<1>4. CASE ~Fills(m, q)
  <2>1. ReduceBest(s, q)
    BY <1>2, <1>4
  <2>2. /\ NodeReduced(s, q)
        /\ BestPrice(s) \in DOMAIN levels[s] /\ 1 \in DOMAIN levels[s][BestPrice(s)]
        /\ BestOrder(s) = levels[s][BestPrice(s)][1]
    BY <1>1, <2>1, ReduceBestExact
  <2>3. QueueKept
    BY <1>1, <2>2, ReducedKeeps
  <2>4. DOMAIN orderLocations' \subseteq DOMAIN orderLocations
    BY <2>1 DEF ReduceBest
  <2>. QED
    BY <1>1, <1>4, <2>2, <2>3, <2>4 DEF m, q, s
<1>. QED
  BY <1>3, <1>4

LEMMA MatchArrival ==
  ASSUME EngineInv, RefinementInv, Match
  PROVE  RefinementInv'
<1>1. submitted' = submitted /\ order # NoOrder /\ order \in Order
      /\ order' = [order EXCEPT !.remainingQuantity = @ - TradeQuantity(BestOrder(Opposite(order.side)))]
  BY DEF Match, EngineInv, EngineTypeOK
<1>2. order'.orderId = order.orderId
  BY <1>1 DEF Order
<1>3. BookInv'
  BY MatchInv DEF EngineInv
<1>4. QueueInArrivalOrder'
  BY <1>1, <1>3, MatchBook, QueueStaysInOrder DEF RefinementInv
<1>. QED
  BY <1>1, <1>2, <1>4 DEF RefinementInv, IdsDistinct, TakerIsLast

LEMMA FinishArrival ==
  ASSUME EngineInv, RefinementInv, Finish
  PROVE  RefinementInv'
<1>1. /\ submitted' = submitted /\ order # NoOrder /\ order' = NoOrder /\ order \in Order
      /\ submitted \in Seq(Order) /\ BookInv
  BY DEF Finish, EngineInv, EngineTypeOK
<1>2. BookInv'
  BY FinishInv DEF EngineInv
<1>3. CASE Rests
  <2>1. CanRest(order) /\ AddOrder(order)
    BY <1>1, <1>3 DEF Finish, CanRest, Rests, EngineInv, CallOK
  <2>2. QueueKept
    BY <1>1, <1>2, <2>1, AddOrderExact, AddedKeeps
  <2>3. DOMAIN orderLocations' = DOMAIN orderLocations \cup {order.orderId}
    BY <2>1 DEF AddOrder
  <2>4. QueuesIndexed'
    <3>1. BookInv' => QueuesIndexed'
      BY AheadIndexed, PTL
    <3>. QED
      BY <1>2, <3>1
  <2>5. \A id : ArrivalOf(id)' = ArrivalOf(id)
    BY <1>1 DEF ArrivalOf
  <2>6. ArrivalOf(order.orderId) = Len(submitted)
    <3>1. Len(submitted) \in DOMAIN submitted
      BY <1>1 DEF RefinementInv, TakerIsLast
    <3>. QED
      BY <1>1, <3>1, ArrivalIs DEF RefinementInv, TakerIsLast
  <2>7. ASSUME NEW a \in DOMAIN orderLocations
        PROVE  ArrivalOf(a) < Len(submitted)
    <3>1. ArrivalOf(a) \in DOMAIN submitted /\ submitted[ArrivalOf(a)].orderId = a
      BY ArrivalFacts DEF EngineInv, IndexSubmitted
    <3>2. a # order.orderId
      BY <1>1 DEF EngineInv, CallOK
    <3>3. ArrivalOf(a) # Len(submitted)
      BY <1>1, <3>1, <3>2 DEF RefinementInv, TakerIsLast
    <3>. QED
      BY <1>1, <3>1, <3>3
  <2>8. ASSUME NEW a, NEW b, Ahead(a, b)'
        PROVE  ArrivalOf(a) < ArrivalOf(b)
    <3>1. a \in DOMAIN orderLocations' /\ b \in DOMAIN orderLocations' /\ a # b
      BY <2>4, <2>8 DEF QueuesIndexed
    <3>2. CASE Ahead(a, b)
      BY <3>2 DEF RefinementInv, QueueInArrivalOrder
    <3>3. CASE b \notin DOMAIN orderLocations
      BY <2>3, <2>6, <2>7, <3>1, <3>3
    <3>. QED
      BY <2>2, <2>8, <3>1, <3>2, <3>3 DEF QueueKept
  <2>9. QueueInArrivalOrder'
    BY <2>5, <2>8 DEF QueueInArrivalOrder
  <2>. QED
    BY <1>1, <2>9 DEF RefinementInv, IdsDistinct, TakerIsLast
<1>4. CASE ~Rests
  <2>1. levels' = levels
    BY <1>4 DEF Finish, bookVars
  <2>2. QueueInArrivalOrder'
    BY <1>1, <2>1, QueueUnchanged DEF RefinementInv
  <2>. QED
    BY <1>1, <2>2 DEF RefinementInv, IdsDistinct, TakerIsLast
<1>. QED
  BY <1>3, <1>4

LEMMA CancelArrival ==
  ASSUME EngineInv, RefinementInv, NEW id \in OrderIds, EngineCancel(id)
  PROVE  RefinementInv'
<1>1. submitted' = submitted /\ order = NoOrder /\ order' = NoOrder /\ BookInv
  BY DEF EngineCancel, EngineInv
<1>2. BookInv'
  BY EngineCancelInv DEF EngineInv
<1>3. QueueInArrivalOrder'
  <2>1. CASE CancelOrder(id)
    <3>1. QueueKept
      BY <1>1, <1>2, <2>1, CancelOrderExact, GoneKeeps
    <3>2. DOMAIN orderLocations' \subseteq DOMAIN orderLocations
      BY <2>1 DEF CancelOrder, ForgetLocation
    <3>. QED
      BY <1>1, <1>2, <3>1, <3>2, QueueStaysInOrder DEF RefinementInv
  <2>2. CASE UNCHANGED bookVars
    <3>1. levels' = levels
      BY <2>2 DEF bookVars
    <3>. QED
      BY <1>1, <3>1, QueueUnchanged DEF RefinementInv
  <2>. QED
    BY <2>1, <2>2 DEF EngineCancel
<1>. QED
  BY <1>1, <1>3 DEF RefinementInv, IdsDistinct, TakerIsLast

-----------------------------------------------------------------------------
(* The abstract state.                                                     *)

LEMMA AbstractFields ==
  \A o : /\ Abstract(o).orderId = o.orderId /\ Abstract(o).side = o.side
         /\ Abstract(o).orderType = o.orderType /\ Abstract(o).price = o.price
         /\ Abstract(o).remaining = o.remainingQuantity
         /\ Abstract(o).arrival = ArrivalOf(o.orderId)
  BY DEF Abstract

LEMMA AbstractTyped ==
  ASSUME submitted \in Seq(Order), NEW o \in Order, Submitted(o.orderId)
  PROVE  Abstract(o) \in AbstractOrder /\ Abstract(o) # NoOrder
<1>1. ArrivalOf(o.orderId) \in Nat
  BY ArrivalFacts
<1>2. Abstract(o) \in AbstractOrder
  BY <1>1 DEF Abstract, AbstractOrder, Order
<1>. QED
  BY <1>2, AbstractionAssumption

LEMMA InResting ==
  \A x : x \in Resting <=> \E s \in Side : \E o \in OpenOrders(s) : x = Abstract(o)
  BY DEF Resting, Side

LEMMA AbstractKept ==
  ASSUME NEW o, ArrivalOf(o.orderId)' = ArrivalOf(o.orderId)
  PROVE  Abstract(o)' = Abstract(o)
BY DEF Abstract

\* Two resting orders are never the same abstract order.
LEMMA AbstractInjective ==
  ASSUME BookInv, NEW s \in Side, NEW t \in Side,
         NEW x \in OpenOrders(s), NEW y \in OpenOrders(t), Abstract(x) = Abstract(y)
  PROVE  x = y
<1>1. x.orderId = y.orderId
  BY AbstractFields
<1>. QED
  BY <1>1, SameId

LEMMA RestingNext ==
  ASSUME submitted' = submitted
  PROVE  \A x : x \in Resting' <=> \E s \in Side : \E o \in OpenOrders(s)' : x = Abstract(o)
<1>1. \A o : Abstract(o)' = Abstract(o)
  BY DEF Abstract, ArrivalOf
<1>. QED
  BY <1>1 DEF Resting, Side

LEMMA RestingGone ==
  ASSUME BookInv, NEW s \in Side, NEW m \in OpenOrders(s), submitted' = submitted,
         \A t \in Side : OpenOrders(t)' = OpenOrders(t) \ {m}
  PROVE  Resting' = Resting \ {Abstract(m)}
<1>. SUFFICES ASSUME NEW x
              PROVE  x \in Resting' <=> x \in Resting /\ x # Abstract(m)
  OBVIOUS
<1>1. ASSUME x \in Resting'
      PROVE  x \in Resting /\ x # Abstract(m)
  <2>1. PICK t \in Side : \E o \in OpenOrders(t)' : x = Abstract(o)
    BY <1>1, RestingNext
  <2>2. PICK o \in OpenOrders(t)' : x = Abstract(o)
    BY <2>1
  <2>3. o \in OpenOrders(t) /\ o # m
    OBVIOUS
  <2>. QED
    BY <2>2, <2>3, InResting, AbstractInjective
<1>2. ASSUME x \in Resting, x # Abstract(m)
      PROVE  x \in Resting'
  <2>1. PICK t \in Side : \E o \in OpenOrders(t) : x = Abstract(o)
    BY <1>2, InResting
  <2>2. PICK o \in OpenOrders(t) : x = Abstract(o)
    BY <2>1
  <2>3. o \in OpenOrders(t)'
    BY <1>2, <2>2
  <2>. QED
    BY <2>2, <2>3, RestingNext
<1>. QED
  BY <1>1, <1>2

LEMMA RestingReduced ==
  ASSUME BookInv, NEW s \in Side, NEW m \in OpenOrders(s), NEW new, submitted' = submitted,
         \A t \in Side : OpenOrders(t)' = IF t = s THEN (OpenOrders(t) \ {m}) \cup {new}
                                                   ELSE OpenOrders(t)
  PROVE  Resting' = (Resting \ {Abstract(m)}) \cup {Abstract(new)}
<1>. SUFFICES ASSUME NEW x
              PROVE  x \in Resting' <=> (x \in Resting /\ x # Abstract(m)) \/ x = Abstract(new)
  OBVIOUS
<1>1. ASSUME x \in Resting'
      PROVE  (x \in Resting /\ x # Abstract(m)) \/ x = Abstract(new)
  <2>1. PICK t \in Side : \E o \in OpenOrders(t)' : x = Abstract(o)
    BY <1>1, RestingNext
  <2>2. PICK o \in OpenOrders(t)' : x = Abstract(o)
    BY <2>1
  <2>3. CASE o \in OpenOrders(t) /\ (t = s => o # m)
    <3>1. o # m
      BY <2>3, SameId
    <3>. QED
      BY <2>2, <2>3, <3>1, InResting, AbstractInjective
  <2>4. CASE o = new
    BY <2>2, <2>4
  <2>. QED
    BY <2>3, <2>4
<1>2. ASSUME x \in Resting, x # Abstract(m)
      PROVE  x \in Resting'
  <2>1. PICK t \in Side : \E o \in OpenOrders(t) : x = Abstract(o)
    BY <1>2, InResting
  <2>2. PICK o \in OpenOrders(t) : x = Abstract(o)
    BY <2>1
  <2>3. o \in OpenOrders(t)'
    BY <1>2, <2>2
  <2>. QED
    BY <2>2, <2>3, RestingNext
<1>3. Abstract(new) \in Resting'
  <2>1. new \in OpenOrders(s)'
    OBVIOUS
  <2>. QED
    BY <2>1, RestingNext
<1>. QED
  BY <1>1, <1>2, <1>3

LEMMA RestingAdded ==
  ASSUME NEW new, new.side \in Side, submitted' = submitted,
         \A t \in Side : OpenOrders(t)' = IF t = new.side THEN OpenOrders(t) \cup {new}
                                                          ELSE OpenOrders(t)
  PROVE  Resting' = Resting \cup {Abstract(new)}
<1>. SUFFICES ASSUME NEW x
              PROVE  x \in Resting' <=> x \in Resting \/ x = Abstract(new)
  OBVIOUS
<1>1. ASSUME x \in Resting'
      PROVE  x \in Resting \/ x = Abstract(new)
  <2>1. PICK t \in Side : \E o \in OpenOrders(t)' : x = Abstract(o)
    BY <1>1, RestingNext
  <2>. QED
    BY <2>1, InResting
<1>2. ASSUME x \in Resting
      PROVE  x \in Resting'
  <2>1. PICK t \in Side : \E o \in OpenOrders(t) : x = Abstract(o)
    BY <1>2, InResting
  <2>. QED
    BY <2>1, RestingNext
<1>3. Abstract(new) \in Resting'
  <2>1. new \in OpenOrders(new.side)'
    OBVIOUS
  <2>. QED
    BY <2>1, RestingNext
<1>. QED
  BY <1>1, <1>2, <1>3

LEMMA RestingUnchanged ==
  ASSUME submitted' = submitted, levels' = levels
  PROVE  Resting' = Resting
<1>1. \A s : OpenOrders(s)' = OpenOrders(s)
  BY DEF OpenOrders
<1>. QED
  BY <1>1, RestingNext, InResting

\* A trade that is recorded is appended to the abstract trades.
LEMMA TradesAppend ==
  ASSUME recentTrades \in Seq(Trade), NEW t \in Trade, recentTrades' = Append(recentTrades, t)
  PROVE  Trades' = Append(Trades, AbstractTrade(t))
<1>. DEFINE T == [buyOrderId : OrderIds, sellOrderId : OrderIds, price : Price, quantity : Quantity]
<1>1. /\ Len(recentTrades) \in Nat /\ DOMAIN recentTrades = 1 .. Len(recentTrades)
      /\ DOMAIN recentTrades' = 1 .. Len(recentTrades) + 1
      /\ \A i \in 1 .. Len(recentTrades) : recentTrades'[i] = recentTrades[i]
      /\ recentTrades'[Len(recentTrades) + 1] = t
  BY AppendProperties
<1>2. AbstractTrade(t) \in T /\ \A i \in DOMAIN recentTrades : AbstractTrade(recentTrades[i]) \in T
  <2>1. \A u \in Trade : AbstractTrade(u) \in T
    BY DEF AbstractTrade, Trade
  <2>2. \A i \in DOMAIN recentTrades : recentTrades[i] \in Trade
    OBVIOUS
  <2>. QED
    BY <2>1, <2>2
<1>. DEFINE n == Len(recentTrades)
<1>3. Trades = [i \in 1 .. n |-> AbstractTrade(recentTrades[i])] /\ Trades \in Seq(T) /\ Len(Trades) = n
  BY <1>1, <1>2 DEF Trades
<1>4. Trades' = [i \in 1 .. n + 1 |-> AbstractTrade(recentTrades'[i])]
  BY <1>1 DEF Trades
<1>5. /\ Append(Trades, AbstractTrade(t)) \in Seq(T)
      /\ DOMAIN Append(Trades, AbstractTrade(t)) = 1 .. n + 1
      /\ \A i \in 1 .. n : Append(Trades, AbstractTrade(t))[i] = Trades[i]
      /\ Append(Trades, AbstractTrade(t))[n + 1] = AbstractTrade(t)
  BY <1>2, <1>3, AppendProperties
<1>6. \A i \in 1 .. n + 1 : Trades'[i] = Append(Trades, AbstractTrade(t))[i]
  <2>. SUFFICES ASSUME NEW i \in 1 .. n + 1
                PROVE  Trades'[i] = Append(Trades, AbstractTrade(t))[i]
    OBVIOUS
  <2>1. CASE i \in 1 .. n
    BY <1>1, <1>3, <1>4, <1>5, <2>1
  <2>2. CASE i = n + 1
    BY <1>1, <1>4, <1>5, <2>2
  <2>3. i \in 1 .. n \/ i = n + 1
    BY <1>1
  <2>. QED
    BY <2>1, <2>2, <2>3
<1>. DEFINE A == Append(Trades, AbstractTrade(t))
<1>7. A = [i \in 1 .. n + 1 |-> A[i]]
  <2>1. A \in Seq(T) /\ DOMAIN A = 1 .. n + 1
    BY <1>5
  <2>. HIDE DEF A, n, T
  <2>. QED
    BY <2>1
<1>. HIDE DEF A, n
<1>. QED
  BY <1>4, <1>6, <1>7 DEF A

-----------------------------------------------------------------------------
(* Every step of the engine is a step of the abstract book.                *)

LEMMA PlaceOrderArrives ==
  ASSUME EngineInv, RefinementInv, NEW o \in Order, Fresh(o), PlaceOrder(o)
  PROVE  PTB!Arrive
<1>1. /\ submitted \in Seq(Order) /\ submitted' = Append(submitted, o) /\ order' = o
      /\ order = NoOrder /\ levels' = levels /\ recentTrades' = recentTrades
  BY DEF EngineInv, EngineTypeOK, PlaceOrder, bookVars
<1>2. /\ \A id : Submitted(id) => ArrivalOf(id)' = ArrivalOf(id)
      /\ ArrivalOf(o.orderId)' = Len(submitted) + 1
  BY PlaceOrderArrival
<1>3. Len(submitted)' = Len(submitted) + 1 /\ Len(submitted) \in Nat
  BY <1>1, AppendProperties
<1>4. Resting' = Resting
  <2>1. \A s : OpenOrders(s)' = OpenOrders(s)
    BY <1>1 DEF OpenOrders
  <2>2. ASSUME NEW s \in Side, NEW x \in OpenOrders(s)
        PROVE  Abstract(x)' = Abstract(x)
    <3>1. Submitted(x.orderId)
      BY OpenOrderIds DEF EngineInv, IndexSubmitted
    <3>. QED
      BY <1>2, <3>1, AbstractKept
  <2>. QED
    BY <2>1, <2>2 DEF Resting, Side
<1>5. Trades' = Trades
  BY <1>1 DEF Trades
<1>6. Taker = NoOrder
  BY <1>1 DEF Taker
<1>7. /\ Taker' = Abstract(o)'
      /\ Abstract(o)' = [orderId |-> o.orderId, side |-> o.side, orderType |-> o.orderType,
                         price |-> o.price, remaining |-> o.remainingQuantity,
                         arrival |-> Len(submitted) + 1]
  <2>1. o # NoOrder
    BY EngineAssumption
  <2>. QED
    BY <1>1, <1>2, <2>1 DEF Taker, Abstract
<1>8. Taker' \in PTB!Arrival /\ Taker'.arrival = Len(submitted) + 1
  <2>1. o.price \in 0 .. MaxPrice /\ o.remainingQuantity \in 1 .. MaxQuantity
    BY BookAssumption DEF Order, Price, Quantity, Fresh
  <2>2. o.orderId \in OrderIds /\ o.side \in Side /\ o.orderType \in OrderType
    BY DEF Order
  <2>. QED
    BY <1>3, <1>7, <2>1, <2>2 DEF PTB!Arrival, Side, OrderType
<1>. QED
  BY <1>3, <1>4, <1>5, <1>6, <1>8 DEF PTB!Arrive

LEMMA MinIs ==
  ASSUME NEW a \in Nat, NEW b \in Nat
  PROVE  Min({a, b}) = IF a < b THEN a ELSE b
BY MinOfTwo

\* A node lies where the fields of its order say.
LEMMA NodeFields ==
  ASSUME BookInv
  PROVE  \A t \in Side : \A q \in DOMAIN levels[t] : \A j \in DOMAIN levels[t][q] :
            levels[t][q][j].side = t /\ levels[t][q][j].price = q
<1>. SUFFICES ASSUME NEW t \in Side
              PROVE  \A q \in DOMAIN levels[t] : \A j \in DOMAIN levels[t][q] :
                        levels[t][q][j].side = t /\ levels[t][q][j].price = q
  OBVIOUS
<1>1. \A q \in DOMAIN levels[t] : \A j \in DOMAIN levels[t][q] :
         LET o == levels[t][q][j]
         IN  /\ o.side = t /\ o.price = q
             /\ o.orderId \in DOMAIN orderLocations
             /\ orderLocations[o.orderId] = [side |-> t, price |-> q]
  BY DEF BookInv, IndexConsistent, IndexComplete
<1>. QED
  BY <1>1

\* The engine's maker is the order that price-time priority selects.
LEMMA MakerIsFirst ==
  ASSUME EngineInv, RefinementInv, NEW s \in Side, HasBest(s)
  PROVE  PTB!First(Abstract(BestOrder(s)))
<1>. DEFINE p == BestPrice(s)
            m == BestOrder(s)
<1>1. /\ p \in DOMAIN levels[s] /\ levels[s][p] # <<>>
      /\ \A q \in DOMAIN levels[s] \ {p} : Better(s, p, q)
  BY BestPriceIsBest DEF EngineInv, BookInv, HasBest
<1>2. levels[s][p] \in Seq(Order)
  BY <1>1 DEF EngineInv, BookInv, BookTypeOK, LevelsTypeOK
<1>3. 1 \in DOMAIN levels[s][p] /\ m = levels[s][p][1]
  BY <1>1, <1>2 DEF BestOrder
<1>4. m.side = s /\ m.price = p
  <2>1. levels[s][p][1].side = s /\ levels[s][p][1].price = p
    BY <1>1, <1>3, NodeFields DEF EngineInv
  <2>. QED
    BY <1>3, <2>1
<1>. SUFFICES ASSUME NEW n \in Resting \ {Abstract(m)}, n.side = Abstract(m).side
              PROVE  PTB!Before(Abstract(m), n)
  BY DEF PTB!First
<1>5. PICK t \in Side : \E o \in OpenOrders(t) : n = Abstract(o)
  BY InResting
<1>6. PICK o \in OpenOrders(t) : n = Abstract(o)
  BY <1>5
<1>7. PICK q \in DOMAIN levels[t] : \E j \in DOMAIN levels[t][q] : o = levels[t][q][j]
  BY InOpenOrders
<1>8. PICK j \in DOMAIN levels[t][q] : o = levels[t][q][j]
  BY <1>7
<1>9. o.side = t /\ o.price = q
  <2>1. levels[t][q][j].side = t /\ levels[t][q][j].price = q
    BY <1>8, NodeFields DEF EngineInv
  <2>. QED
    BY <1>8, <2>1
<1>10. t = s
  BY <1>4, <1>6, <1>9, AbstractFields
<1>11. CASE q # p
  <2>1. Better(s, p, q)
    BY <1>1, <1>10, <1>11
  <2>. QED
    BY <2>1, <1>4, <1>6, <1>9, <1>10, AbstractFields DEF Better, PTB!Before, Side
<1>12. CASE q = p
  <2>1. j # 1
    BY <1>3, <1>6, <1>8, <1>10, <1>12
  <2>2. j \in Nat /\ 1 < j
    BY <1>2, <1>10, <1>12, <2>1
  <2>3. Ahead(m.orderId, o.orderId)
    BY <1>1, <1>3, <1>8, <1>10, <1>12, <2>2 DEF Ahead
  <2>4. ArrivalOf(m.orderId) < ArrivalOf(o.orderId)
    BY <2>3 DEF RefinementInv, QueueInArrivalOrder
  <2>. QED
    BY <2>4, <1>4, <1>6, <1>9, <1>12, AbstractFields DEF PTB!Before
<1>. QED
  BY <1>11, <1>12

LEMMA MatchTrades ==
  ASSUME EngineInv, RefinementInv, Match
  PROVE  PTB!TradeFirst
<1>. DEFINE s == Opposite(order.side)
            m == BestOrder(s)
            q == TradeQuantity(m)
            t == TradeWith(m, q)
<1>1. /\ order # NoOrder /\ order \in Order /\ order.side \in Side /\ s \in Side
      /\ HasBest(s) /\ order.remainingQuantity \in Quantity /\ Crosses(order, m.price)
      /\ submitted \in Seq(Order)
  BY DEF EngineInv, EngineTypeOK, Order, Opposite, Side, Match, CanMatch, Quantity
<1>2. /\ m \in Order /\ m.orderId \in OrderIds /\ m.price \in Price
      /\ m.remainingQuantity \in Quantity
  BY <1>1, BestOrderFacts DEF EngineInv, Order, Quantity
<1>3. /\ q = IF order.remainingQuantity < m.remainingQuantity
             THEN order.remainingQuantity ELSE m.remainingQuantity
      /\ q \in Quantity
  BY <1>1, <1>2, MinIs DEF TradeQuantity, Quantity
<1>. HIDE DEF m, q
<1>4. t \in Trade
  <2>1. order.orderId \in OrderIds /\ nextTradeId \in Nat /\ nextTimestamp \in Nat
    BY <1>1 DEF Order, EngineInv, EngineTypeOK
  <2>. QED
    BY <1>2, <1>3, <2>1 DEF TradeWith, Trade
<1>. USE DEF m, q
<1>5. /\ order' = [order EXCEPT !.remainingQuantity = @ - q]
      /\ recentTrades' = Append(recentTrades, t)
      /\ submitted' = submitted
  BY DEF Match
<1>6. /\ BestPrice(s) \in DOMAIN levels[s] /\ 1 \in DOMAIN levels[s][BestPrice(s)]
      /\ m = levels[s][BestPrice(s)][1]
      /\ Fills(m, q) => NodeGone(s, BestPrice(s), 1)
      /\ ~Fills(m, q) => NodeReduced(s, q)
  BY MatchBook
<1>7. m \in OpenOrders(s) /\ m.side = s
  <2>1. levels[s][BestPrice(s)][1].side = s
    BY <1>1, <1>6, NodeFields DEF EngineInv
  <2>. QED
    BY <1>6, <2>1, InOpenOrders
<1>8. PTB!First(Abstract(m))
  BY <1>1, MakerIsFirst
<1>9. t = [tradeId |-> nextTradeId,
           buyOrderId |-> IF order.side = "BUY" THEN order.orderId ELSE m.orderId,
           sellOrderId |-> IF order.side = "BUY" THEN m.orderId ELSE order.orderId,
           price |-> m.price, quantity |-> q, timestamp |-> nextTimestamp]
  BY DEF TradeWith
<1>. HIDE DEF m, q, t
<1>10. Taker = Abstract(order) /\ Taker # NoOrder
  BY <1>1, AbstractTyped DEF Taker, EngineInv, CallOK
<1>11. PTB!Acceptable(Taker, Abstract(m))
  <2>1. m.side # order.side
    BY <1>1, <1>7 DEF Opposite, Side
  <2>. QED
    BY <1>1, <1>10, <2>1, AbstractFields DEF PTB!Acceptable, Crosses
<1>12. Trades' = Append(Trades, AbstractTrade(t))
  BY <1>4, <1>5, TradesAppend DEF EngineInv, EngineTypeOK
<1>13. AbstractTrade(t) = [buyOrderId |-> IF Taker.side = "BUY" THEN Taker.orderId
                                                               ELSE Abstract(m).orderId,
                           sellOrderId |-> IF Taker.side = "BUY" THEN Abstract(m).orderId
                                                                ELSE Taker.orderId,
                           price |-> Abstract(m).price, quantity |-> q]
  BY <1>9, <1>10, AbstractFields DEF AbstractTrade
<1>14. \A id : ArrivalOf(id)' = ArrivalOf(id)
  BY <1>5 DEF ArrivalOf
<1>15. Taker' = PTB!Less(Taker, q)
  <2>1. order' \in Order /\ order' # NoOrder
    BY MatchInv, EngineAssumption
  <2>2. Taker' = [orderId |-> order'.orderId, side |-> order'.side,
                  orderType |-> order'.orderType, price |-> order'.price,
                  remaining |-> order'.remainingQuantity,
                  arrival |-> ArrivalOf(order'.orderId)]
    BY <1>14, <2>1 DEF Taker, Abstract
  <2>3. /\ order'.orderId = order.orderId /\ order'.side = order.side
        /\ order'.orderType = order.orderType /\ order'.price = order.price
        /\ order'.remainingQuantity = order.remainingQuantity - q
    BY <1>1, <1>5 DEF Order
  <2>. QED
    BY <1>10, <2>2, <2>3 DEF PTB!Less, Abstract
<1>16. Resting' = (Resting \ {Abstract(m)}) \cup
                     (IF q = Abstract(m).remaining THEN {} ELSE {PTB!Less(Abstract(m), q)})
  <2>1. CASE Fills(m, q)
    <3>1. NodeGone(s, BestPrice(s), 1)
      BY <1>6, <2>1
    <3>2. \A u \in Side : OpenOrders(u)' = OpenOrders(u) \ {m}
      BY <1>1, <1>6, <3>1, OpenOrdersGone DEF EngineInv
    <3>3. Resting' = Resting \ {Abstract(m)}
      BY <1>1, <1>5, <1>7, <3>2, RestingGone DEF EngineInv
    <3>4. q = Abstract(m).remaining
      BY <2>1, AbstractFields DEF Fills
    <3>. QED
      BY <3>3, <3>4
  <2>2. CASE ~Fills(m, q)
    <3>1. NodeReduced(s, q)
      BY <1>6, <2>2
    <3>2. \A u \in Side : OpenOrders(u)' = IF u = s THEN (OpenOrders(u) \ {m}) \cup {Reduced(m, q)}
                                                    ELSE OpenOrders(u)
      BY <1>1, <1>6, <3>1, OpenOrdersReduced DEF EngineInv
    <3>3. Resting' = (Resting \ {Abstract(m)}) \cup {Abstract(Reduced(m, q))}
      BY <1>1, <1>5, <1>7, <3>2, RestingReduced DEF EngineInv
    <3>4. q # Abstract(m).remaining
      BY <2>2, AbstractFields DEF Fills
    <3>5. Abstract(Reduced(m, q)) = PTB!Less(Abstract(m), q)
      <4>1. /\ Reduced(m, q).orderId = m.orderId /\ Reduced(m, q).side = m.side
            /\ Reduced(m, q).orderType = m.orderType /\ Reduced(m, q).price = m.price
            /\ Reduced(m, q).remainingQuantity = m.remainingQuantity - q
        BY <1>2 DEF Reduced, Order
      <4>. QED
        BY <4>1 DEF Abstract, PTB!Less
    <3>. QED
      BY <3>3, <3>4, <3>5
  <2>. QED
    BY <2>1, <2>2
<1>17. q = IF Taker.remaining < Abstract(m).remaining THEN Taker.remaining
                                                   ELSE Abstract(m).remaining
  BY <1>3, <1>10, AbstractFields
<1>18. Taker.remaining > 0
  BY <1>1, <1>10, AbstractFields DEF Quantity
<1>19. Abstract(m) \in Resting
  BY <1>1, <1>7, InResting
<1>20. Len(submitted)' = Len(submitted)
  BY <1>5
<1>. QED
  BY <1>8, <1>10, <1>11, <1>12, <1>13, <1>15, <1>16, <1>17, <1>18, <1>19, <1>20
     DEF PTB!TradeFirst

\* When the engine stops matching with something left, no resting order is
\* acceptable: either the other side is empty or its best order does not
\* cross, and then nothing behind it does.
LEMMA NothingAcceptable ==
  ASSUME EngineInv, order # NoOrder, ~CanMatch, order.remainingQuantity > 0,
         Taker = Abstract(order)
  PROVE  \A m \in Resting : ~PTB!Acceptable(Taker, m)
<1>0. /\ order \in Order /\ order.side \in Side /\ Opposite(order.side) \in Side
      /\ order.orderType \in OrderType /\ BookInv
  BY DEF EngineInv, EngineTypeOK, Order, Opposite, Side
<1>. SUFFICES ASSUME NEW m \in Resting, PTB!Acceptable(Taker, m)
              PROVE  FALSE
  OBVIOUS
<1>1. PICK t \in Side : \E o \in OpenOrders(t) : m = Abstract(o)
  BY InResting
<1>2. PICK o \in OpenOrders(t) : m = Abstract(o)
  BY <1>1
<1>3. PICK p \in DOMAIN levels[t] : \E j \in DOMAIN levels[t][p] : o = levels[t][p][j]
  BY InOpenOrders
<1>4. PICK j \in DOMAIN levels[t][p] : o = levels[t][p][j]
  BY <1>3
<1>5. o.side = t /\ o.price = p
  <2>1. levels[t][p][j].side = t /\ levels[t][p][j].price = p
    BY <1>0, <1>4, NodeFields
  <2>. QED
    BY <1>4, <2>1
<1>6. /\ t # order.side
      /\ \/ order.orderType = "MARKET"
         \/ order.side = "BUY"  /\ p <= order.price
         \/ order.side = "SELL" /\ p >= order.price
  BY <1>2, <1>5, AbstractFields DEF PTB!Acceptable
<1>7. t = Opposite(order.side)
  BY <1>0, <1>6 DEF Opposite, Side
<1>8. CASE order.orderType = "MARKET"
  <2>1. BestPrice(t) \in DOMAIN levels[t]
    BY <1>0, BestPriceIsBest DEF BookInv
  <2>2. HasBest(t)
    BY <1>0, <2>1 DEF HasBest, BookInv, NoEmptyLevel
  <2>. QED
    BY <1>7, <1>8, <2>2 DEF CanMatch, Crosses
<1>9. CASE order.orderType = "LIMIT"
  <2>1. Rests
    BY <1>9 DEF Rests
  <2>2. /\ order.side = "BUY"  => order.price < p
        /\ order.side = "SELL" => p < order.price
    BY <1>7, <2>1, NothingCrosses
  <2>3. p \in Int /\ order.price \in Int
    <3>1. p \in Price
      BY <1>0 DEF BookInv, BookTypeOK, LevelsTypeOK
    <3>. QED
      BY <1>0, <3>1, BookAssumption DEF Order, Price
  <2>4. order.orderType # "MARKET"
    BY <1>9
  <2>. QED
    BY <1>6, <2>2, <2>3, <2>4
<1>. QED
  BY <1>0, <1>8, <1>9 DEF OrderType

LEMMA FinishSettles ==
  ASSUME EngineInv, RefinementInv, Finish
  PROVE  PTB!Settle
<1>1. /\ order # NoOrder /\ ~CanMatch /\ order' = NoOrder /\ submitted' = submitted
      /\ recentTrades' = recentTrades
      /\ order \in Order /\ order.side \in Side /\ submitted \in Seq(Order)
      /\ BookInv /\ order.remainingQuantity \in Nat
  BY BookAssumption DEF Finish, EngineInv, EngineTypeOK, Order, Quantity
<1>2. Taker = Abstract(order) /\ Taker # NoOrder
  BY <1>1, AbstractTyped DEF Taker, EngineInv, CallOK
<1>3. Taker' = NoOrder
  BY <1>1 DEF Taker
<1>4. Taker.remaining = order.remainingQuantity /\ Taker.orderType = order.orderType
  BY <1>2, AbstractFields
<1>5. Taker.remaining = 0 \/ \A m \in Resting : ~PTB!Acceptable(Taker, m)
  BY <1>1, <1>2, <1>4, NothingAcceptable
<1>6. Trades' = Trades /\ Len(submitted)' = Len(submitted)
  BY <1>1 DEF Trades
<1>7. CASE Rests
  <2>1. CanRest(order) /\ AddOrder(order)
    BY <1>1, <1>7 DEF Finish, CanRest, Rests, EngineInv, CallOK
  <2>2. \A t \in Side : OpenOrders(t)' = IF t = order.side THEN OpenOrders(t) \cup {order}
                                                           ELSE OpenOrders(t)
    BY <1>1, <2>1, AddOrderExact, OpenOrdersAdded
  <2>3. Resting' = Resting \cup {Taker}
    BY <1>1, <1>2, <2>2, RestingAdded
  <2>4. Taker.remaining > 0 /\ Taker.orderType = "LIMIT"
    BY <1>4, <1>7 DEF Rests
  <2>. QED
    BY <1>2, <1>3, <1>5, <1>6, <2>3, <2>4 DEF PTB!Settle
<1>8. CASE ~Rests
  <2>1. levels' = levels
    BY <1>8 DEF Finish, bookVars
  <2>2. Resting' = Resting
    BY <1>1, <2>1, RestingUnchanged
  <2>3. ~(Taker.remaining > 0 /\ Taker.orderType = "LIMIT")
    BY <1>4, <1>8 DEF Rests
  <2>. QED
    BY <1>2, <1>3, <1>5, <1>6, <2>2, <2>3 DEF PTB!Settle
<1>. QED
  BY <1>7, <1>8

LEMMA CancelWithdraws ==
  ASSUME EngineInv, RefinementInv, NEW id \in OrderIds, EngineCancel(id)
  PROVE  PTB!Withdraw \/ UNCHANGED PTB!ptVars
<1>1. /\ submitted' = submitted /\ order = NoOrder /\ order' = NoOrder
      /\ recentTrades' = recentTrades /\ BookInv
  BY DEF EngineCancel, EngineInv
<1>2. /\ Taker = NoOrder /\ Taker' = NoOrder /\ Trades' = Trades
      /\ Len(submitted)' = Len(submitted)
  BY <1>1 DEF Taker, Trades
<1>3. CASE CancelOrder(id)
  <2>1. PICK s \in Side : \E p \in DOMAIN levels[s] : \E i \in DOMAIN levels[s][p] :
           levels[s][p][i].orderId = id /\ NodeGone(s, p, i)
    BY <1>1, <1>3, CancelOrderExact
  <2>2. PICK p \in DOMAIN levels[s] : \E i \in DOMAIN levels[s][p] : NodeGone(s, p, i)
    BY <2>1
  <2>3. PICK i \in DOMAIN levels[s][p] : NodeGone(s, p, i)
    BY <2>2
  <2>. DEFINE m == levels[s][p][i]
  <2>4. \A t \in Side : OpenOrders(t)' = OpenOrders(t) \ {m}
    BY <1>1, <2>3, OpenOrdersGone
  <2>5. m \in OpenOrders(s)
    BY InOpenOrders
  <2>. HIDE DEF m
  <2>6. Resting' = Resting \ {Abstract(m)}
    BY <1>1, <2>4, <2>5, RestingGone
  <2>7. Abstract(m) \in Resting
    BY <2>5, InResting
  <2>. QED
    BY <1>2, <2>6, <2>7 DEF PTB!Withdraw
<1>4. CASE UNCHANGED bookVars
  <2>1. Resting' = Resting
    BY <1>1, <1>4, RestingUnchanged DEF bookVars
  <2>. QED
    BY <1>2, <2>1 DEF PTB!ptVars
<1>. QED
  BY <1>3, <1>4 DEF EngineCancel

LEMMA RefinementStutter ==
  ASSUME RefinementInv, UNCHANGED engineVars
  PROVE  RefinementInv' /\ UNCHANGED PTB!ptVars
<1>1. /\ submitted' = submitted /\ order' = order /\ levels' = levels
      /\ recentTrades' = recentTrades
  BY DEF engineVars
<1>2. QueueInArrivalOrder'
  BY <1>1, QueueUnchanged DEF RefinementInv
<1>3. RefinementInv'
  BY <1>1, <1>2 DEF RefinementInv, IdsDistinct, TakerIsLast
<1>4. Resting' = Resting
  BY <1>1, RestingUnchanged
<1>5. Taker' = Taker /\ Trades' = Trades /\ Len(submitted)' = Len(submitted)
  BY <1>1 DEF Taker, Trades, Abstract, ArrivalOf
<1>. QED
  BY <1>3, <1>4, <1>5 DEF PTB!ptVars

LEMMA RefinementInit == EngineInit => RefinementInv /\ PTB!PTInit
<1>. SUFFICES ASSUME EngineInit PROVE RefinementInv /\ PTB!PTInit
  OBVIOUS
<1>1. /\ levels = [s \in Side |-> <<>>] /\ order = NoOrder /\ submitted = <<>>
      /\ recentTrades = <<>>
  BY DEF EngineInit, BookInit
<1>2. RefinementInv
  <2>1. \A a, b : ~Ahead(a, b)
    BY <1>1 DEF Ahead
  <2>. QED
    BY <1>1, <2>1 DEF RefinementInv, IdsDistinct, TakerIsLast, QueueInArrivalOrder
<1>3. Resting = {}
  <2>1. \A s \in Side : OpenOrders(s) = {}
    BY <1>1, InOpenOrders
  <2>. QED
    BY <2>1 DEF Resting, Side
<1>4. Trades = <<>> /\ Taker = NoOrder /\ Len(submitted) = 0
  BY <1>1 DEF Trades, Taker
<1>. QED
  BY <1>2, <1>3, <1>4 DEF PTB!PTInit

LEMMA RefinementStep ==
  EngineInv /\ RefinementInv /\ [EngineNext]_engineVars =>
      RefinementInv' /\ [PTB!PTNext]_(PTB!ptVars)
<1>. SUFFICES ASSUME EngineInv, RefinementInv, [EngineNext]_engineVars
              PROVE  RefinementInv' /\ [PTB!PTNext]_(PTB!ptVars)
  OBVIOUS
<1>1. ASSUME NEW o \in Order, Fresh(o), PlaceOrder(o)
      PROVE  RefinementInv' /\ PTB!Arrive
  BY <1>1, PlaceOrderArrival, PlaceOrderArrives
<1>2. CASE Match
  BY <1>2, MatchArrival, MatchTrades DEF PTB!PTNext
<1>3. CASE Finish
  BY <1>3, FinishArrival, FinishSettles DEF PTB!PTNext
<1>4. ASSUME NEW id \in OrderIds, EngineCancel(id)
      PROVE  RefinementInv' /\ (PTB!Withdraw \/ UNCHANGED PTB!ptVars)
  BY <1>4, CancelArrival, CancelWithdraws
<1>5. CASE UNCHANGED engineVars
  BY <1>5, RefinementStutter
<1>. QED
  BY <1>1, <1>2, <1>3, <1>4, <1>5 DEF EngineNext, PTB!PTNext

\* PriceTimePriority: the engine with its lists, iterators and index is a
\* price-time book.  Every trade is with the resting order that price, then
\* arrival, puts first, at that order's price and for as much as both have
\* left; matching stops only when nothing acceptable rests; and what rests
\* is a LIMIT order, until it is traded or withdrawn.
THEOREM EngineIsPriceTimeBook == EngineSpec => PriceTimePriority
<1>. SUFFICES EngineSpec => PTB!PTSpec
  BY DEF PriceTimePriority
<1>. QED
  BY EngineInitInv, EngineStepInv, RefinementInit, RefinementStep, PTL
     DEF EngineSpec, PTB!PTSpec

-----------------------------------------------------------------------------
(* Quantity is conserved.                                                  *)

\* x is the order o as far as its owner decided it.
SameOrder(x, o) ==
    /\ x.orderId = o.orderId /\ x.side = o.side /\ x.orderType = o.orderType
    /\ x.price = o.price /\ x.quantity = o.quantity

\* What was never submitted was never traded or cancelled,
NothingBefore ==
    /\ \A id : ~Submitted(id) => Traded(id) = 0
    /\ \A id \in cancelled : Submitted(id)

\* no order trades more than its quantity,
NotOvertraded == \A o \in ToSet(submitted) : Traded(o.orderId) <= o.quantity

\* the order being matched is a submitted one and knows what it has left,
TakerAccounted ==
    order # NoOrder =>
        /\ order.orderId \notin cancelled
        /\ \E o \in ToSet(submitted) :
              SameOrder(order, o) /\ order.remainingQuantity = Unfilled(o)

\* x is what a LIMIT order that was not cancelled has left.
IsRestOf(x, o) ==
    /\ SameOrder(x, o) /\ x.remainingQuantity = Unfilled(o)
    /\ o.orderType = "LIMIT" /\ o.orderId \notin cancelled

\* every order in the book is the rest of a submitted one,
NodesAccounted ==
    \A s \in Side : \A x \in OpenOrders(s) : \E o \in ToSet(submitted) : IsRestOf(x, o)

\* The order o should be in the book.
Owed(o) == /\ o.orderType = "LIMIT" /\ o.orderId \notin cancelled
           /\ order # NoOrder => o.orderId # order.orderId
           /\ Unfilled(o) > 0

\* and every order that should be in the book is.
NothingLost ==
    \A o \in ToSet(submitted) : Owed(o) => \E x \in OpenOrders(o.side) : x.orderId = o.orderId

\* What QuantityConserved needs to be inductive: the fields that say where an
\* order rests are those it was submitted with, and an id is traded or cancelled
\* only after it was submitted, so that a new order starts with nothing traded.
ConserveInv == /\ NothingBefore /\ NotOvertraded /\ TakerAccounted
               /\ NodesAccounted /\ NothingLost

\* The sums over the trades.
Parts(id) == [i \in DOMAIN recentTrades |-> Part(recentTrades[i], id)]

LEMMA PartsSeq ==
  ASSUME recentTrades \in Seq(Trade), NEW id
  PROVE  /\ Parts(id) \in Seq(Nat) /\ Len(Parts(id)) = Len(recentTrades)
         /\ Traded(id) = Total(Parts(id)) /\ Traded(id) \in Nat
<1>1. \A t \in Trade : t.quantity \in Nat
  BY BookAssumption DEF Trade, Quantity
<1>2. \A i \in 1 .. Len(recentTrades) : Part(recentTrades[i], id) \in Nat
  BY <1>1 DEF Part
<1>3. DOMAIN recentTrades = 1 .. Len(recentTrades) /\ Len(recentTrades) \in Nat
  OBVIOUS
<1>4. Parts(id) \in Seq(Nat) /\ Len(Parts(id)) = Len(recentTrades)
  BY <1>2, <1>3 DEF Parts
<1>5. Traded(id) = Total(Parts(id))
  BY DEF Traded, Parts
<1>. QED
  BY <1>4, <1>5, TotalNat

LEMMA TradedAppend ==
  ASSUME recentTrades \in Seq(Trade), NEW t \in Trade, recentTrades' = Append(recentTrades, t),
         NEW id
  PROVE  Traded(id)' = Traded(id) + Part(t, id)
<1>1. /\ Len(recentTrades) \in Nat /\ DOMAIN recentTrades = 1 .. Len(recentTrades)
      /\ DOMAIN recentTrades' = 1 .. Len(recentTrades) + 1
      /\ \A i \in 1 .. Len(recentTrades) : recentTrades'[i] = recentTrades[i]
      /\ recentTrades'[Len(recentTrades) + 1] = t
  BY AppendProperties
<1>. DEFINE n  == Len(recentTrades)
            ps == [i \in 1 .. n + 1 |-> Part(recentTrades'[i], id)]
<1>2. Traded(id)' = Total(ps)
  BY <1>1 DEF Traded
<1>3. Len(ps) = n + 1 /\ Len(Parts(id)) = n
  BY <1>1, PartsSeq
<1>4. \A i \in 1 .. n : ps[i] = Parts(id)[i]
  BY <1>1 DEF Parts
<1>5. ps[n + 1] = Part(t, id)
  BY <1>1
<1>. HIDE DEF ps
<1>6. Total(ps) = Total(Parts(id)) + ps[Len(ps)]
  BY <1>1, <1>3, <1>4, TotalAppend
<1>. QED
  BY <1>2, <1>3, <1>5, <1>6, PartsSeq

LEMMA TradedSame ==
  ASSUME recentTrades' = recentTrades
  PROVE  \A id : Traded(id)' = Traded(id)
BY DEF Traded

LEMMA UnfilledIs ==
  ASSUME EngineInv, NEW o \in ToSet(submitted)
  PROVE  /\ o \in Order /\ o.quantity \in Nat /\ o.side \in Side
         /\ Submitted(o.orderId) /\ Traded(o.orderId) \in Nat
         /\ Unfilled(o) = o.quantity - Traded(o.orderId) /\ Unfilled(o) \in Int
<1>1. PICK k \in DOMAIN submitted : o = submitted[k]
  BY DEF ToSet
<1>2. o \in Order /\ Submitted(o.orderId)
  BY <1>1 DEF EngineInv, EngineTypeOK, Submitted
<1>3. o.quantity \in Nat /\ o.side \in Side
  BY <1>2, BookAssumption DEF Order, Quantity
<1>4. Traded(o.orderId) \in Nat
  BY PartsSeq DEF EngineInv, EngineTypeOK
<1>5. Unfilled(o) = o.quantity - Traded(o.orderId)
  BY DEF Unfilled
<1>. QED
  BY <1>2, <1>3, <1>4, <1>5

\* Two submitted orders of one id are one order.
LEMMA SameSubmitted ==
  ASSUME IdsDistinct, NEW o \in ToSet(submitted), NEW u \in ToSet(submitted),
         o.orderId = u.orderId
  PROVE  o = u
<1>1. PICK k \in DOMAIN submitted : o = submitted[k]
  BY DEF ToSet
<1>2. PICK l \in DOMAIN submitted : u = submitted[l]
  BY DEF ToSet
<1>. QED
  BY <1>1, <1>2 DEF IdsDistinct

LEMMA ConserveInit == EngineInit => ConserveInv
<1>. SUFFICES ASSUME EngineInit PROVE ConserveInv
  OBVIOUS
<1>1. /\ levels = [s \in Side |-> <<>>] /\ order = NoOrder /\ submitted = <<>>
      /\ recentTrades = <<>> /\ cancelled = {}
  BY DEF EngineInit, BookInit
<1>2. \A id : Traded(id) = 0
  BY <1>1, TotalEmpty DEF Traded
<1>3. (\A s \in Side : OpenOrders(s) = {}) /\ ToSet(submitted) = {}
  BY <1>1, InOpenOrders DEF ToSet
<1>. QED
  BY <1>1, <1>2, <1>3 DEF ConserveInv, NothingBefore, NotOvertraded, TakerAccounted,
                         NodesAccounted, NothingLost

LEMMA PlaceOrderConserves ==
  ASSUME EngineInv, RefinementInv, ConserveInv, NEW o \in Order, Fresh(o), PlaceOrder(o)
  PROVE  ConserveInv'
<1>1. /\ submitted \in Seq(Order) /\ submitted' = Append(submitted, o) /\ order' = o
      /\ order = NoOrder /\ levels' = levels /\ recentTrades' = recentTrades
      /\ cancelled' = cancelled
  BY DEF EngineInv, EngineTypeOK, PlaceOrder, bookVars
<1>2. ToSet(submitted)' = ToSet(submitted) \cup {o} /\ \A id : Submitted(id) => Submitted(id)'
  <2>1. /\ DOMAIN submitted = 1 .. Len(submitted) /\ Len(submitted) \in Nat
        /\ DOMAIN submitted' = 1 .. Len(submitted) + 1
        /\ \A k \in DOMAIN submitted : submitted'[k] = submitted[k]
        /\ submitted'[Len(submitted) + 1] = o
    BY <1>1, AppendProperties
  <2>. QED
    BY <2>1 DEF ToSet, Submitted
<1>3. \A id : Traded(id)' = Traded(id)
  BY <1>1, TradedSame
<1>4. \A x : Unfilled(x)' = Unfilled(x)
  BY <1>3 DEF Unfilled
<1>5. ~Submitted(o.orderId) /\ Traded(o.orderId) = 0 /\ o.orderId \notin cancelled
  BY PlaceOrderArrival DEF ConserveInv, NothingBefore
<1>6. o.quantity \in Nat /\ o.remainingQuantity = o.quantity /\ Unfilled(o) = o.quantity
  BY <1>5, BookAssumption DEF Order, Quantity, Fresh, Unfilled
<1>7. \A s : OpenOrders(s)' = OpenOrders(s)
  BY <1>1 DEF OpenOrders
<1>8. NothingBefore'
  BY <1>1, <1>2, <1>3 DEF ConserveInv, NothingBefore
<1>9. NotOvertraded'
  <2>1. Traded(o.orderId) <= o.quantity
    BY <1>5, <1>6
  <2>. QED
    BY <1>2, <1>3, <2>1 DEF ConserveInv, NotOvertraded
<1>10. TakerAccounted'
  BY <1>1, <1>2, <1>4, <1>5, <1>6 DEF TakerAccounted, SameOrder
<1>11. NodesAccounted'
  <2>1. \A x, u : IsRestOf(x, u)' = IsRestOf(x, u)
    BY <1>1, <1>4 DEF IsRestOf
  <2>. QED
    BY <1>2, <1>7, <2>1 DEF ConserveInv, NodesAccounted
<1>12. NothingLost'
  <2>. SUFFICES ASSUME NEW u \in ToSet(submitted)', Owed(u)'
                PROVE  \E x \in OpenOrders(u.side) : x.orderId = u.orderId
    BY <1>7 DEF NothingLost
  <2>1. u \in ToSet(submitted)
    <3>1. u # o
      BY <1>1, EngineAssumption DEF Owed
    <3>. QED
      BY <1>2, <3>1
  <2>2. Owed(u)
    BY <1>1, <1>4 DEF Owed
  <2>. QED
    BY <2>1, <2>2 DEF ConserveInv, NothingLost
<1>. QED
  BY <1>8, <1>9, <1>10, <1>11, <1>12 DEF ConserveInv

\* What a step of the matching loop does to the accounts of the two orders.
LEMMA MatchAccounts ==
  ASSUME EngineInv, RefinementInv, ConserveInv, Match
  PROVE  LET m == BestOrder(Opposite(order.side))
             q == TradeQuantity(m)
             t == TradeWith(m, q)
         IN  /\ order # NoOrder /\ order \in Order /\ order.orderId \in OrderIds
             /\ order.remainingQuantity \in Quantity
             /\ m \in Order /\ m.orderId \in OrderIds /\ m.price \in Price
             /\ m.remainingQuantity \in Quantity
             /\ m.orderId \in DOMAIN orderLocations /\ m.orderId # order.orderId
             /\ q \in Nat /\ q \in Quantity /\ q > 0
             /\ q <= order.remainingQuantity /\ q <= m.remainingQuantity
             /\ q = order.remainingQuantity \/ q = m.remainingQuantity
             /\ t \in Trade /\ {t.buyOrderId, t.sellOrderId} = {order.orderId, m.orderId}
             /\ order' = [order EXCEPT !.remainingQuantity = @ - q]
             /\ recentTrades' = Append(recentTrades, t)
             /\ submitted' = submitted /\ ToSet(submitted)' = ToSet(submitted)
             /\ \A id : Traded(id)' = Traded(id) +
                           (IF id = order.orderId \/ id = m.orderId THEN q ELSE 0)
             /\ \A o \in ToSet(submitted) :
                   Unfilled(o)' = Unfilled(o) -
                      (IF o.orderId = order.orderId \/ o.orderId = m.orderId THEN q ELSE 0)
             /\ order.orderId \notin cancelled
             /\ \E own \in ToSet(submitted) :
                   SameOrder(order, own) /\ order.remainingQuantity = Unfilled(own)
             /\ \E om \in ToSet(submitted) : IsRestOf(m, om)
<1>. DEFINE s == Opposite(order.side)
            m == BestOrder(s)
            q == TradeQuantity(m)
            t == TradeWith(m, q)
<1>1. /\ order # NoOrder /\ order \in Order /\ s \in Side /\ HasBest(s) /\ BookInv
      /\ order.remainingQuantity \in Quantity /\ order.orderId \in OrderIds
      /\ order.orderId \notin DOMAIN orderLocations
      /\ submitted \in Seq(Order) /\ recentTrades \in Seq(Trade)
  BY DEF EngineInv, EngineTypeOK, Order, Opposite, Side, Match, CanMatch, Quantity, CallOK
<1>2. /\ m \in Order /\ m.orderId \in OrderIds /\ m.price \in Price
      /\ m.remainingQuantity \in Quantity
  BY <1>1, BestOrderFacts DEF Order, Quantity
<1>3. /\ q \in Nat /\ q \in Quantity /\ q > 0
      /\ q <= order.remainingQuantity /\ q <= m.remainingQuantity
      /\ q = order.remainingQuantity \/ q = m.remainingQuantity
  BY <1>1, <1>2, MinOfTwo DEF TradeQuantity, Quantity
<1>. HIDE DEF m, q
<1>4. t \in Trade
  <2>1. nextTradeId \in Nat /\ nextTimestamp \in Nat
    BY DEF EngineInv, EngineTypeOK
  <2>. QED
    BY <1>1, <1>2, <1>3, <2>1 DEF TradeWith, Trade
<1>5. /\ \A id : Part(t, id) = IF id = order.orderId \/ id = m.orderId THEN q ELSE 0
      /\ {t.buyOrderId, t.sellOrderId} = {order.orderId, m.orderId}
  BY DEF TradeWith, Part
<1>6. /\ order' = [order EXCEPT !.remainingQuantity = @ - q]
      /\ recentTrades' = Append(recentTrades, t)
      /\ submitted' = submitted /\ cancelled' = cancelled
      /\ ToSet(submitted)' = ToSet(submitted)
  BY DEF Match, m, q
<1>. HIDE DEF t
<1>7. \A id : Traded(id)' = Traded(id) + (IF id = order.orderId \/ id = m.orderId THEN q ELSE 0)
  BY <1>1, <1>4, <1>5, <1>6, TradedAppend
<1>8. /\ BestPrice(s) \in DOMAIN levels[s] /\ 1 \in DOMAIN levels[s][BestPrice(s)]
      /\ m = levels[s][BestPrice(s)][1]
  BY MatchBook DEF m, q
<1>9. m \in OpenOrders(s)
  BY <1>8, InOpenOrders
<1>10. m.orderId \in DOMAIN orderLocations /\ m.orderId # order.orderId
  BY <1>1, <1>9, OpenOrderIds
<1>11. \E om \in ToSet(submitted) : IsRestOf(m, om)
  BY <1>1, <1>9 DEF ConserveInv, NodesAccounted
<1>12. /\ order.orderId \notin cancelled
       /\ \E own \in ToSet(submitted) :
             SameOrder(order, own) /\ order.remainingQuantity = Unfilled(own)
  BY <1>1 DEF ConserveInv, TakerAccounted
<1>13. \A o \in ToSet(submitted) :
          Unfilled(o)' = Unfilled(o) -
             (IF o.orderId = order.orderId \/ o.orderId = m.orderId THEN q ELSE 0)
  <2>. SUFFICES ASSUME NEW o \in ToSet(submitted)
                PROVE  Unfilled(o)' = Unfilled(o) -
                          (IF o.orderId = order.orderId \/ o.orderId = m.orderId THEN q ELSE 0)
    OBVIOUS
  <2>1. Unfilled(o)' = o.quantity - Traded(o.orderId)'
    BY DEF Unfilled
  <2>2. Traded(o.orderId)' = Traded(o.orderId) +
           (IF o.orderId = order.orderId \/ o.orderId = m.orderId THEN q ELSE 0)
    BY <1>7
  <2>3. /\ o.quantity \in Nat /\ Traded(o.orderId) \in Nat
        /\ Unfilled(o) = o.quantity - Traded(o.orderId)
    BY UnfilledIs
  <2>. QED
    BY <1>3, <2>1, <2>2, <2>3
<1>. QED
  BY <1>1, <1>2, <1>3, <1>4, <1>5, <1>6, <1>7, <1>10, <1>11, <1>12, <1>13 DEF m, q, t

LEMMA MatchConserves ==
  ASSUME EngineInv, RefinementInv, ConserveInv, Match
  PROVE  ConserveInv'
<1>. DEFINE s == Opposite(order.side)
            m == BestOrder(s)
            q == TradeQuantity(m)
<1>1. /\ order # NoOrder /\ order \in Order /\ s \in Side /\ BookInv
      /\ order.orderId \notin DOMAIN orderLocations
  BY DEF EngineInv, EngineTypeOK, Opposite, Side, Match, CallOK
<1>2. /\ m \in Order /\ m.remainingQuantity \in Quantity
      /\ m.orderId \in DOMAIN orderLocations /\ m.orderId # order.orderId
  BY MatchAccounts
<1>3. /\ q \in Nat /\ q \in Quantity /\ q > 0
      /\ q <= order.remainingQuantity /\ q <= m.remainingQuantity
  BY MatchAccounts
<1>4. /\ order' = [order EXCEPT !.remainingQuantity = @ - q]
      /\ submitted' = submitted /\ cancelled' = cancelled
      /\ ToSet(submitted)' = ToSet(submitted)
  BY DEF Match
<1>5. \A id : Traded(id)' = Traded(id) + (IF id = order.orderId \/ id = m.orderId THEN q ELSE 0)
  BY MatchAccounts
<1>6. /\ BestPrice(s) \in DOMAIN levels[s] /\ 1 \in DOMAIN levels[s][BestPrice(s)]
      /\ m = levels[s][BestPrice(s)][1]
      /\ Fills(m, q) => NodeGone(s, BestPrice(s), 1)
      /\ ~Fills(m, q) => NodeReduced(s, q)
  BY MatchBook
<1>7. PICK om \in ToSet(submitted) : IsRestOf(m, om)
  BY MatchAccounts
<1>8. order.orderId \notin cancelled
  BY MatchAccounts
<1>9. PICK own \in ToSet(submitted) :
          SameOrder(order, own) /\ order.remainingQuantity = Unfilled(own)
  BY MatchAccounts
<1>10. \A o \in ToSet(submitted) :
          Unfilled(o)' = Unfilled(o) -
             (IF o.orderId = order.orderId \/ o.orderId = m.orderId THEN q ELSE 0)
  BY MatchAccounts
<1>. HIDE DEF m, q
<1>11. m \in OpenOrders(s)
  BY <1>6, InOpenOrders
<1>12. ASSUME NEW o \in ToSet(submitted), o.orderId = order.orderId PROVE o = own
  BY <1>9, <1>12, SameSubmitted DEF RefinementInv, SameOrder
<1>13. ASSUME NEW o \in ToSet(submitted), o.orderId = m.orderId PROVE o = om
  BY <1>7, <1>13, SameSubmitted DEF RefinementInv, SameOrder, IsRestOf
<1>14. NothingBefore'
  <2>1. \A id : Submitted(id)' = Submitted(id)
    BY <1>4 DEF Submitted
  <2>2. Submitted(order.orderId) /\ Submitted(m.orderId)
    BY <1>1, <1>2 DEF EngineInv, CallOK, IndexSubmitted
  <2>3. ASSUME NEW id, ~Submitted(id)' PROVE Traded(id)' = 0
    <3>1. ~Submitted(id) /\ id # order.orderId /\ id # m.orderId
      BY <2>1, <2>2, <2>3
    <3>2. Traded(id) = 0
      BY <3>1 DEF ConserveInv, NothingBefore
    <3>. QED
      BY <1>5, <3>1, <3>2
  <2>. QED
    BY <1>4, <2>1, <2>3 DEF ConserveInv, NothingBefore
<1>15. NotOvertraded'
  <2>. SUFFICES ASSUME NEW o \in ToSet(submitted)
                PROVE  Traded(o.orderId)' <= o.quantity
    BY <1>4 DEF NotOvertraded
  <2>1. /\ Traded(o.orderId)' = Traded(o.orderId) +
              (IF o.orderId = order.orderId \/ o.orderId = m.orderId THEN q ELSE 0)
        /\ Traded(o.orderId) <= o.quantity
    BY <1>5 DEF ConserveInv, NotOvertraded
  <2>2. /\ o.quantity \in Nat /\ Traded(o.orderId) \in Nat
        /\ Unfilled(o) = o.quantity - Traded(o.orderId)
    BY UnfilledIs
  <2>3. o.orderId = order.orderId => q <= Unfilled(o)
    BY <1>3, <1>9, <1>12
  <2>4. o.orderId = m.orderId => q <= Unfilled(o)
    BY <1>3, <1>7, <1>13 DEF IsRestOf
  <2>. QED
    BY <1>3, <2>1, <2>2, <2>3, <2>4
<1>16. TakerAccounted'
  <2>1. /\ order'.orderId = order.orderId /\ order'.side = order.side
        /\ order'.orderType = order.orderType /\ order'.price = order.price
        /\ order'.quantity = order.quantity
        /\ order'.remainingQuantity = order.remainingQuantity - q
    BY <1>1, <1>4 DEF Order
  <2>2. Unfilled(own)' = Unfilled(own) - q
    <3>1. own.orderId = order.orderId
      BY <1>9 DEF SameOrder
    <3>. QED
      BY <1>10, <3>1
  <2>3. SameOrder(order', own) /\ order'.remainingQuantity = Unfilled(own)'
    BY <1>9, <2>1, <2>2 DEF SameOrder
  <2>. QED
    BY <1>4, <1>8, <2>1, <2>3 DEF TakerAccounted, SameOrder
\* A node other than the maker is the rest of its order as before.
<1>17. ASSUME NEW u \in Side, NEW x \in OpenOrders(u), x # m
       PROVE  \E o \in ToSet(submitted)' : IsRestOf(x, o)'
  <2>1. x.orderId # m.orderId
    BY <1>1, <1>11, <1>17, SameId
  <2>2. x.orderId # order.orderId
    BY <1>1, OpenOrderIds
  <2>3. PICK o \in ToSet(submitted) : IsRestOf(x, o)
    BY DEF ConserveInv, NodesAccounted
  <2>4. o.orderId = x.orderId
    BY <2>3 DEF IsRestOf, SameOrder
  <2>5. Unfilled(o)' = Unfilled(o)
    BY <1>10, <2>1, <2>2, <2>4, UnfilledIs
  <2>6. IsRestOf(x, o)'
    BY <1>4, <2>3, <2>5 DEF IsRestOf
  <2>. QED
    BY <1>4, <2>6
\* An order that should be in the book afterwards was there before.
<1>18. ASSUME NEW o \in ToSet(submitted), Owed(o)'
       PROVE  \E x \in OpenOrders(o.side) : x.orderId = o.orderId
  <2>1. order' # NoOrder /\ order'.orderId = order.orderId
    BY <1>1, <1>4, MatchInv, EngineAssumption DEF Order
  <2>2. /\ o.orderType = "LIMIT" /\ o.orderId \notin cancelled
        /\ o.orderId # order.orderId /\ Unfilled(o)' > 0
    BY <1>4, <1>18, <2>1 DEF Owed
  <2>3. Unfilled(o) > 0
    BY <1>3, <1>10, <2>2, UnfilledIs
  <2>4. Owed(o)
    BY <2>2, <2>3 DEF Owed
  <2>. QED
    BY <2>4 DEF ConserveInv, NothingLost
<1>19. om.orderId = m.orderId /\ Unfilled(om)' = m.remainingQuantity - q
  <2>1. om.orderId = m.orderId /\ Unfilled(om) = m.remainingQuantity
    BY <1>7 DEF IsRestOf, SameOrder
  <2>. QED
    BY <1>10, <2>1
<1>20. CASE Fills(m, q)
  <2>1. \A u \in Side : OpenOrders(u)' = OpenOrders(u) \ {m}
    BY <1>1, <1>6, <1>20, OpenOrdersGone
  <2>2. NodesAccounted'
    BY <1>17, <2>1 DEF NodesAccounted
  <2>3. NothingLost'
    <3>. SUFFICES ASSUME NEW o \in ToSet(submitted), Owed(o)'
                  PROVE  \E x \in OpenOrders(o.side)' : x.orderId = o.orderId
      BY <1>4 DEF NothingLost
    <3>1. PICK x \in OpenOrders(o.side) : x.orderId = o.orderId
      BY <1>18
    <3>2. x # m
      <4>. SUFFICES ASSUME x = m PROVE FALSE
        OBVIOUS
      <4>1. o = om
        BY <1>13, <3>1
      <4>2. Unfilled(o)' > 0
        BY DEF Owed
      <4>. QED
        BY <1>2, <1>3, <1>19, <1>20, <4>1, <4>2 DEF Fills, Quantity
    <3>3. o.side \in Side
      BY UnfilledIs
    <3>4. x \in OpenOrders(o.side)'
      BY <2>1, <3>1, <3>2, <3>3
    <3>. QED
      BY <3>1, <3>4
  <2>. QED
    BY <1>14, <1>15, <1>16, <2>2, <2>3 DEF ConserveInv
<1>21. CASE ~Fills(m, q)
  <2>. DEFINE r == Reduced(m, q)
  <2>1. \A u \in Side : OpenOrders(u)' = IF u = s THEN (OpenOrders(u) \ {m}) \cup {r}
                                                  ELSE OpenOrders(u)
    BY <1>1, <1>6, <1>21, OpenOrdersReduced
  <2>2. /\ r.orderId = m.orderId /\ r.side = m.side /\ r.orderType = m.orderType
        /\ r.price = m.price /\ r.quantity = m.quantity
        /\ r.remainingQuantity = m.remainingQuantity - q
    BY <1>2 DEF Reduced, Order
  <2>. HIDE DEF r
  <2>3. ASSUME NEW x, x = r PROVE IsRestOf(x, om)'
    BY <1>4, <1>7, <1>19, <2>2, <2>3 DEF IsRestOf, SameOrder
  <2>4. NodesAccounted'
    <3>. SUFFICES ASSUME NEW u \in Side, NEW x \in OpenOrders(u)'
                  PROVE  \E o \in ToSet(submitted)' : IsRestOf(x, o)'
      BY DEF NodesAccounted
    <3>1. CASE x = r
      BY <1>4, <2>3, <3>1
    <3>2. CASE x \in OpenOrders(u) /\ (u = s => x # m)
      <4>1. x # m
        BY <1>1, <1>11, <3>2, SameId
      <4>. QED
        BY <1>17, <3>2, <4>1
    <3>. QED
      BY <2>1, <3>1, <3>2
  <2>5. NothingLost'
    <3>. SUFFICES ASSUME NEW o \in ToSet(submitted), Owed(o)'
                  PROVE  \E x \in OpenOrders(o.side)' : x.orderId = o.orderId
      BY <1>4 DEF NothingLost
    <3>1. PICK x \in OpenOrders(o.side) : x.orderId = o.orderId
      BY <1>18
    <3>2. o.side \in Side
      BY UnfilledIs
    <3>3. CASE x = m
      <4>1. o.side = s
        BY <1>1, <1>11, <3>1, <3>2, <3>3, SameId
      <4>2. r \in OpenOrders(o.side)'
        BY <2>1, <3>2, <4>1
      <4>3. r.orderId = o.orderId
        BY <2>2, <3>1, <3>3
      <4>. QED
        BY <4>2, <4>3
    <3>4. CASE x # m
      <4>1. x \in OpenOrders(o.side)'
        BY <2>1, <3>1, <3>2, <3>4
      <4>. QED
        BY <3>1, <4>1
    <3>. QED
      BY <3>3, <3>4
  <2>. QED
    BY <1>14, <1>15, <1>16, <2>4, <2>5 DEF ConserveInv
<1>. QED
  BY <1>20, <1>21

\* A step that trades nothing and submits nothing.
LEMMA NothingTraded ==
  ASSUME recentTrades' = recentTrades, submitted' = submitted
  PROVE  /\ \A o : Unfilled(o)' = Unfilled(o)
         /\ ToSet(submitted)' = ToSet(submitted)
         /\ NotOvertraded => NotOvertraded'
<1>1. \A id : Traded(id)' = Traded(id)
  BY TradedSame
<1>. QED
  BY <1>1 DEF Unfilled, NotOvertraded

LEMMA FinishConserves ==
  ASSUME EngineInv, RefinementInv, ConserveInv, Finish
  PROVE  ConserveInv'
<1>1. /\ order # NoOrder /\ order' = NoOrder /\ submitted' = submitted
      /\ recentTrades' = recentTrades /\ cancelled' = cancelled
      /\ order \in Order /\ order.side \in Side /\ BookInv
      /\ order.orderId \notin DOMAIN orderLocations
  BY DEF Finish, EngineInv, EngineTypeOK, Order, CallOK
<1>2. /\ \A o : Unfilled(o)' = Unfilled(o)
      /\ ToSet(submitted)' = ToSet(submitted)
      /\ NotOvertraded'
  BY <1>1, NothingTraded DEF ConserveInv
<1>3. NothingBefore'
  BY <1>1, TradedSame DEF ConserveInv, NothingBefore, Submitted
<1>4. TakerAccounted'
  BY <1>1 DEF TakerAccounted
<1>5. \A x, o : IsRestOf(x, o)' = IsRestOf(x, o)
  BY <1>1, <1>2 DEF IsRestOf
<1>6. PICK own \in ToSet(submitted) :
         SameOrder(order, own) /\ order.remainingQuantity = Unfilled(own)
  BY <1>1 DEF ConserveInv, TakerAccounted
<1>7. ASSUME NEW o \in ToSet(submitted), Owed(o)', o.orderId # order.orderId
      PROVE  \E x \in OpenOrders(o.side) : x.orderId = o.orderId
  <2>1. Owed(o)
    BY <1>1, <1>2, <1>7 DEF Owed
  <2>. QED
    BY <2>1 DEF ConserveInv, NothingLost
<1>8. CASE Rests
  <2>1. CanRest(order) /\ AddOrder(order)
    BY <1>1, <1>8 DEF Finish, CanRest, Rests, EngineInv, CallOK
  <2>2. \A t \in Side : OpenOrders(t)' = IF t = order.side THEN OpenOrders(t) \cup {order}
                                                           ELSE OpenOrders(t)
    BY <1>1, <2>1, AddOrderExact, OpenOrdersAdded
  <2>3. IsRestOf(order, own)
    BY <1>1, <1>6, <1>8 DEF IsRestOf, SameOrder, Rests, ConserveInv, TakerAccounted
  <2>4. NodesAccounted'
    <3>. SUFFICES ASSUME NEW u \in Side, NEW x \in OpenOrders(u)'
                  PROVE  \E o \in ToSet(submitted) : IsRestOf(x, o)
      BY <1>2, <1>5 DEF NodesAccounted
    <3>. QED
      BY <2>2, <2>3 DEF ConserveInv, NodesAccounted
  <2>5. NothingLost'
    <3>. SUFFICES ASSUME NEW o \in ToSet(submitted), Owed(o)'
                  PROVE  \E x \in OpenOrders(o.side)' : x.orderId = o.orderId
      BY <1>2 DEF NothingLost
    <3>1. CASE o.orderId = order.orderId
      <4>1. o = own
        BY <1>6, <3>1, SameSubmitted DEF RefinementInv, SameOrder
      <4>2. order \in OpenOrders(o.side)'
        BY <1>1, <1>6, <2>2, <4>1 DEF SameOrder
      <4>. QED
        BY <3>1, <4>2
    <3>2. CASE o.orderId # order.orderId
      <4>1. o.side \in Side
        BY UnfilledIs
      <4>. QED
        BY <1>7, <2>2, <3>2, <4>1
    <3>. QED
      BY <3>1, <3>2
  <2>. QED
    BY <1>2, <1>3, <1>4, <2>4, <2>5 DEF ConserveInv
<1>9. CASE ~Rests
  <2>1. \A s : OpenOrders(s)' = OpenOrders(s)
    BY <1>9 DEF Finish, bookVars, OpenOrders
  <2>2. NodesAccounted'
    BY <1>2, <1>5, <2>1 DEF ConserveInv, NodesAccounted
  <2>3. NothingLost'
    <3>. SUFFICES ASSUME NEW o \in ToSet(submitted), Owed(o)'
                  PROVE  \E x \in OpenOrders(o.side) : x.orderId = o.orderId
      BY <1>2, <2>1 DEF NothingLost
    <3>1. o.orderId # order.orderId
      <4>. SUFFICES ASSUME o.orderId = order.orderId PROVE FALSE
        OBVIOUS
      <4>1. o = own
        BY <1>6, SameSubmitted DEF RefinementInv, SameOrder
      <4>2. order.orderType = "LIMIT" /\ order.remainingQuantity > 0
        BY <1>2, <1>6, <4>1 DEF Owed, SameOrder
      <4>. QED
        BY <1>9, <4>2 DEF Rests
    <3>. QED
      BY <1>7, <3>1
  <2>. QED
    BY <1>2, <1>3, <1>4, <2>2, <2>3 DEF ConserveInv
<1>. QED
  BY <1>8, <1>9

LEMMA CancelConserves ==
  ASSUME EngineInv, RefinementInv, ConserveInv, NEW id \in OrderIds, EngineCancel(id)
  PROVE  ConserveInv'
<1>1. /\ submitted' = submitted /\ order = NoOrder /\ order' = NoOrder
      /\ recentTrades' = recentTrades /\ BookInv
  BY DEF EngineCancel, EngineInv
<1>2. /\ \A o : Unfilled(o)' = Unfilled(o)
      /\ ToSet(submitted)' = ToSet(submitted)
      /\ NotOvertraded'
  BY <1>1, NothingTraded DEF ConserveInv
<1>3. TakerAccounted'
  BY <1>1 DEF TakerAccounted
<1>4. (\A i : Submitted(i)' = Submitted(i)) /\ (\A i : Traded(i)' = Traded(i))
  BY <1>1, TradedSame DEF Submitted
<1>5. CASE CancelOrder(id) /\ cancelled' = cancelled \cup {id}
  <2>1. PICK s \in Side : \E p \in DOMAIN levels[s] : \E i \in DOMAIN levels[s][p] :
           levels[s][p][i].orderId = id /\ NodeGone(s, p, i)
    BY <1>1, <1>5, CancelOrderExact
  <2>2. PICK p \in DOMAIN levels[s] : \E i \in DOMAIN levels[s][p] :
           levels[s][p][i].orderId = id /\ NodeGone(s, p, i)
    BY <2>1
  <2>3. PICK i \in DOMAIN levels[s][p] : levels[s][p][i].orderId = id /\ NodeGone(s, p, i)
    BY <2>2
  <2>. DEFINE m == levels[s][p][i]
  <2>4. \A t \in Side : OpenOrders(t)' = OpenOrders(t) \ {m}
    BY <1>1, <2>3, OpenOrdersGone
  <2>5. m \in OpenOrders(s) /\ m.orderId = id
    BY <2>3, InOpenOrders
  <2>. HIDE DEF m
  <2>6. Submitted(id)
    BY <1>1, <2>5, OpenOrderIds DEF EngineInv, IndexSubmitted
  <2>7. NothingBefore'
    BY <1>4, <1>5, <2>6 DEF ConserveInv, NothingBefore
  <2>8. NodesAccounted'
    <3>. SUFFICES ASSUME NEW u \in Side, NEW x \in OpenOrders(u)'
                  PROVE  \E o \in ToSet(submitted) : IsRestOf(x, o)'
      BY <1>2 DEF NodesAccounted
    <3>1. x \in OpenOrders(u) /\ x # m
      BY <2>4
    <3>2. x.orderId # id
      BY <1>1, <2>5, <3>1, SameId
    <3>3. PICK o \in ToSet(submitted) : IsRestOf(x, o)
      BY <3>1 DEF ConserveInv, NodesAccounted
    <3>4. IsRestOf(x, o)'
      BY <1>2, <1>5, <3>2, <3>3 DEF IsRestOf, SameOrder
    <3>. QED
      BY <3>4
  <2>9. NothingLost'
    <3>. SUFFICES ASSUME NEW o \in ToSet(submitted), Owed(o)'
                  PROVE  \E x \in OpenOrders(o.side)' : x.orderId = o.orderId
      BY <1>2 DEF NothingLost
    <3>1. Owed(o) /\ o.orderId # id
      BY <1>1, <1>2, <1>5 DEF Owed
    <3>2. PICK x \in OpenOrders(o.side) : x.orderId = o.orderId
      BY <3>1 DEF ConserveInv, NothingLost
    <3>3. x # m /\ o.side \in Side
      BY <2>5, <3>1, <3>2, UnfilledIs
    <3>4. x \in OpenOrders(o.side)'
      BY <2>4, <3>2, <3>3
    <3>. QED
      BY <3>2, <3>4
  <2>. QED
    BY <1>2, <1>3, <2>7, <2>8, <2>9 DEF ConserveInv
<1>6. CASE UNCHANGED <<bookVars, cancelled>>
  <2>1. \A s : OpenOrders(s)' = OpenOrders(s)
    BY <1>6 DEF bookVars, OpenOrders
  <2>2. \A x, o : IsRestOf(x, o)' = IsRestOf(x, o) /\ Owed(o)' = Owed(o)
    BY <1>1, <1>2, <1>6 DEF IsRestOf, Owed
  <2>3. NothingBefore'
    BY <1>4, <1>6 DEF ConserveInv, NothingBefore
  <2>4. NodesAccounted' /\ NothingLost'
    BY <1>2, <2>1, <2>2 DEF ConserveInv, NodesAccounted, NothingLost
  <2>. QED
    BY <1>2, <1>3, <2>3, <2>4 DEF ConserveInv
<1>. QED
  BY <1>5, <1>6 DEF EngineCancel

LEMMA ConserveStutter ==
  ASSUME ConserveInv, UNCHANGED engineVars
  PROVE  ConserveInv'
<1>1. /\ submitted' = submitted /\ order' = order /\ levels' = levels
      /\ recentTrades' = recentTrades /\ cancelled' = cancelled
  BY DEF engineVars
<1>2. /\ \A o : Unfilled(o)' = Unfilled(o)
      /\ ToSet(submitted)' = ToSet(submitted)
      /\ NotOvertraded'
  BY <1>1, NothingTraded DEF ConserveInv
<1>3. /\ \A i : Submitted(i)' = Submitted(i) /\ Traded(i)' = Traded(i)
      /\ \A s : OpenOrders(s)' = OpenOrders(s)
      /\ \A x, o : IsRestOf(x, o)' = IsRestOf(x, o) /\ Owed(o)' = Owed(o)
  BY <1>1, <1>2, TradedSame DEF Submitted, OpenOrders, IsRestOf, Owed
<1>4. NothingBefore'
  BY <1>1, <1>3 DEF ConserveInv, NothingBefore
<1>5. TakerAccounted'
  BY <1>1, <1>2 DEF ConserveInv, TakerAccounted, SameOrder
<1>6. NodesAccounted' /\ NothingLost'
  BY <1>2, <1>3 DEF ConserveInv, NodesAccounted, NothingLost
<1>. QED
  BY <1>2, <1>4, <1>5, <1>6 DEF ConserveInv

LEMMA ConserveStep ==
  EngineInv /\ RefinementInv /\ ConserveInv /\ [EngineNext]_engineVars => ConserveInv'
<1>. SUFFICES ASSUME EngineInv, RefinementInv, ConserveInv, [EngineNext]_engineVars
              PROVE  ConserveInv'
  OBVIOUS
<1>1. ASSUME NEW o \in Order, Fresh(o), PlaceOrder(o)
      PROVE  ConserveInv'
  BY <1>1, PlaceOrderConserves
<1>2. ASSUME NEW id \in OrderIds, EngineCancel(id)
      PROVE  ConserveInv'
  BY <1>2, CancelConserves
<1>. QED
  BY <1>1, <1>2, MatchConserves, FinishConserves, ConserveStutter DEF EngineNext

\* The rests of the submitted orders are what QuantityConserved says.
LEMMA ConserveImplies ==
  EngineInv /\ RefinementInv /\ ConserveInv => QuantityConserved
<1>. SUFFICES ASSUME EngineInv, RefinementInv, ConserveInv
              PROVE  QuantityConserved
  OBVIOUS
<1>1. ASSUME NEW s \in Side, NEW x \in OpenOrders(s)
      PROVE  \E o \in ShouldRest(s) :
                x.orderId = o.orderId /\ x.price = o.price /\ x.remainingQuantity = Unfilled(o)
  <2>1. PICK o \in ToSet(submitted) : IsRestOf(x, o)
    BY DEF ConserveInv, NodesAccounted
  <2>2. x.side = s /\ x.remainingQuantity > 0
    <3>1. PICK p \in DOMAIN levels[s] : \E j \in DOMAIN levels[s][p] : x = levels[s][p][j]
      BY InOpenOrders
    <3>2. PICK j \in DOMAIN levels[s][p] : x = levels[s][p][j]
      BY <3>1
    <3>3. levels[s][p][j].side = s /\ levels[s][p][j].remainingQuantity > 0
      BY NodeFields DEF EngineInv, BookInv, NoSpentOrder
    <3>. QED
      BY <3>2, <3>3
  <2>3. order # NoOrder => o.orderId # order.orderId
    BY <2>1, OpenOrderIds DEF EngineInv, CallOK, IsRestOf, SameOrder
  <2>4. o \in ShouldRest(s)
    BY <2>1, <2>2, <2>3 DEF ShouldRest, IsRestOf, SameOrder
  <2>. QED
    BY <2>1, <2>4 DEF IsRestOf, SameOrder
<1>2. ASSUME NEW s \in Side, NEW o \in ShouldRest(s)
      PROVE  \E x \in OpenOrders(s) :
                x.orderId = o.orderId /\ x.price = o.price /\ x.remainingQuantity = Unfilled(o)
  <2>1. o \in ToSet(submitted) /\ o.side = s /\ Owed(o)
    BY DEF ShouldRest, Owed
  <2>2. PICK x \in OpenOrders(s) : x.orderId = o.orderId
    BY <2>1 DEF ConserveInv, NothingLost
  <2>3. PICK u \in ToSet(submitted) : IsRestOf(x, u)
    BY DEF ConserveInv, NodesAccounted
  <2>4. u = o
    BY <2>1, <2>2, <2>3, SameSubmitted DEF RefinementInv, IsRestOf, SameOrder
  <2>. QED
    BY <2>3, <2>4 DEF IsRestOf, SameOrder
<1>3. \A s \in Side : {<<o.orderId, o.price, o.remainingQuantity>> : o \in OpenOrders(s)} =
                      {<<o.orderId, o.price, Unfilled(o)>> : o \in ShouldRest(s)}
  <2>. SUFFICES ASSUME NEW s \in Side
                PROVE  {<<o.orderId, o.price, o.remainingQuantity>> : o \in OpenOrders(s)} =
                       {<<o.orderId, o.price, Unfilled(o)>> : o \in ShouldRest(s)}
    OBVIOUS
  <2>1. \A x \in OpenOrders(s) : <<x.orderId, x.price, x.remainingQuantity>> \in
           {<<o.orderId, o.price, Unfilled(o)>> : o \in ShouldRest(s)}
    BY <1>1
  <2>2. \A o \in ShouldRest(s) : <<o.orderId, o.price, Unfilled(o)>> \in
           {<<x.orderId, x.price, x.remainingQuantity>> : x \in OpenOrders(s)}
    BY <1>2
  <2>. QED
    BY <2>1, <2>2
<1>4. \A o \in ToSet(submitted) : Unfilled(o) >= 0
  <2>. SUFFICES ASSUME NEW o \in ToSet(submitted) PROVE Unfilled(o) >= 0
    OBVIOUS
  <2>1. Traded(o.orderId) <= o.quantity
    BY DEF ConserveInv, NotOvertraded
  <2>. QED
    BY <2>1, UnfilledIs
<1>5. order # NoOrder => order.remainingQuantity = Unfilled(order)
  BY DEF ConserveInv, TakerAccounted, SameOrder, Unfilled
<1>. QED
  BY <1>3, <1>4, <1>5 DEF QuantityConserved

LEMMA ConserveInvariant == EngineSpec => [](EngineInv /\ RefinementInv /\ ConserveInv)
<1>1. EngineInit => EngineInv /\ RefinementInv /\ ConserveInv
  BY EngineInitInv, RefinementInit, ConserveInit
<1>2. EngineInv /\ RefinementInv /\ ConserveInv /\ [EngineNext]_engineVars =>
         (EngineInv /\ RefinementInv /\ ConserveInv)'
  BY EngineStepInv, RefinementStep, ConserveStep
<1>. QED
  BY <1>1, <1>2, PTL DEF EngineSpec

\* QuantityConserved: at every step of every call the book holds exactly the
\* LIMIT orders that were neither cancelled nor used up, each with its
\* original quantity less what the recorded trades took from it.
THEOREM EngineConservesQuantity == EngineSpec => []QuantityConserved
  BY ConserveInvariant, ConserveImplies, PTL

-----------------------------------------------------------------------------
(* What a vector of events reports.                                        *)

FillTypes == {"ORDER_COMPLETELY_FILLED", "ORDER_PARTIALLY_FILLED"}

\* f holds the trades reported by the first m of the events evs.
IsReport(f, m, evs) ==
    f = [n \in 0 .. m |-> IF n = 0 THEN <<>>
                          ELSE IF evs[n].type = "TRADE_EXECUTED"
                          THEN Append(f[n - 1], evs[n].trade) ELSE f[n - 1]]

LEMMA ReportExists ==
  ASSUME NEW evs
  PROVE  \A m \in Nat : \E f : IsReport(f, m, evs)
<1>. DEFINE Has(k) == \E f : IsReport(f, k, evs)
            Lacks == {k \in Nat : ~Has(k)}
<1>. SUFFICES ASSUME Lacks # {} PROVE FALSE
  OBVIOUS
<1>1. PICK k \in Lacks : \A l \in Lacks : k <= l
  <2>1. Lacks \in SUBSET Nat
    OBVIOUS
  <2>. HIDE DEF Lacks
  <2>. QED
    BY <2>1, LeastExists
<1>2. CASE k = 0
  <2>1. IsReport([n \in 0 .. 0 |-> <<>>], 0, evs)
    BY DEF IsReport
  <2>. QED
    BY <1>2, <2>1
<1>3. CASE k # 0
  <2>1. k - 1 \in Nat /\ k - 1 \notin Lacks
    BY <1>1, <1>3
  <2>2. PICK f : IsReport(f, k - 1, evs)
    BY <2>1
  <2>. DEFINE last == IF evs[k].type = "TRADE_EXECUTED"
                      THEN Append(f[k - 1], evs[k].trade) ELSE f[k - 1]
              g == [n \in 0 .. k |-> IF n = k THEN last ELSE f[n]]
  <2>3. IsReport(g, k, evs)
    <3>1. \A n \in 0 .. k - 1 : f[n] = IF n = 0 THEN <<>>
                                       ELSE IF evs[n].type = "TRADE_EXECUTED"
                                       THEN Append(f[n - 1], evs[n].trade) ELSE f[n - 1]
      BY <2>2 DEF IsReport
    <3>2. \A n \in 0 .. k : g[n] = IF n = 0 THEN <<>>
                                   ELSE IF evs[n].type = "TRADE_EXECUTED"
                                   THEN Append(g[n - 1], evs[n].trade) ELSE g[n - 1]
      BY <1>3, <3>1
    <3>. QED
      BY <3>2 DEF IsReport
  <2>. QED
    BY <2>3
<1>. QED
  BY <1>2, <1>3

LEMMA ReportSteps ==
  ASSUME NEW m \in Nat, NEW evs, NEW f, IsReport(f, m, evs)
  PROVE  /\ f[0] = <<>>
         /\ \A n \in 1 .. m : f[n] = IF evs[n].type = "TRADE_EXECUTED"
                                     THEN Append(f[n - 1], evs[n].trade) ELSE f[n - 1]
<1>1. \A n \in 0 .. m : f[n] = IF n = 0 THEN <<>>
                               ELSE IF evs[n].type = "TRADE_EXECUTED"
                               THEN Append(f[n - 1], evs[n].trade) ELSE f[n - 1]
  BY DEF IsReport
<1>. QED
  BY <1>1

LEMMA ReportsAgree ==
  ASSUME NEW k \in Nat, NEW evs, NEW f, IsReport(f, k, evs),
         NEW m \in 0 .. k, NEW fvs, NEW g, IsReport(g, m, fvs),
         \A n \in 1 .. m : fvs[n] = evs[n]
  PROVE  f[m] = g[m]
<1>. DEFINE Differ == {n \in 0 .. m : f[n] # g[n]}
<1>. SUFFICES ASSUME Differ # {} PROVE FALSE
  OBVIOUS
<1>1. PICK n \in Differ : \A l \in Differ : n <= l
  <2>1. Differ \in SUBSET Nat
    OBVIOUS
  <2>. HIDE DEF Differ
  <2>. QED
    BY <2>1, LeastExists
<1>2. n # 0
  BY <1>1, ReportSteps
<1>3. n - 1 \in 0 .. m /\ n - 1 \notin Differ /\ n \in 1 .. m /\ n \in 1 .. k
  BY <1>1, <1>2
<1>4. f[n] = IF evs[n].type = "TRADE_EXECUTED"
             THEN Append(f[n - 1], evs[n].trade) ELSE f[n - 1]
  BY <1>3, ReportSteps
<1>5. g[n] = IF fvs[n].type = "TRADE_EXECUTED"
             THEN Append(g[n - 1], fvs[n].trade) ELSE g[n - 1]
  BY <1>3, ReportSteps
<1>. QED
  BY <1>3, <1>4, <1>5

Reports(evs) ==
    LET upTo[n \in 0 .. Len(evs)] ==
            IF n = 0 THEN <<>>
            ELSE IF evs[n].type = "TRADE_EXECUTED"
            THEN Append(upTo[n - 1], evs[n].trade) ELSE upTo[n - 1]
    IN  upTo[Len(evs)]

LEMMA ReportedTradesIs == ReportedTrades = Reports(events)
  BY DEF ReportedTrades, Reports

LEMMA ReportsIs ==
  ASSUME NEW evs, Len(evs) \in Nat
  PROVE  \E f : IsReport(f, Len(evs), evs) /\ Reports(evs) = f[Len(evs)]
<1>. DEFINE f == CHOOSE f : IsReport(f, Len(evs), evs)
<1>1. IsReport(f, Len(evs), evs)
  BY ReportExists
<1>2. Reports(evs) = f[Len(evs)]
  BY DEF Reports, IsReport
<1>. QED
  BY <1>1, <1>2

LEMMA ReportsEmpty == ASSUME NEW evs, Len(evs) = 0 PROVE Reports(evs) = <<>>
<1>1. PICK f : IsReport(f, Len(evs), evs) /\ Reports(evs) = f[Len(evs)]
  BY ReportsIs
<1>. QED
  BY <1>1, ReportSteps

\* evs with one more event.
LEMMA ReportsAppend ==
  ASSUME NEW evs \in Seq(Event), NEW e \in Event
  PROVE  Reports(Append(evs, e)) =
            IF e.type = "TRADE_EXECUTED" THEN Append(Reports(evs), e.trade) ELSE Reports(evs)
<1>. DEFINE fvs == Append(evs, e)
<1>1. /\ Len(fvs) = Len(evs) + 1 /\ Len(evs) \in Nat
      /\ \A i \in 1 .. Len(evs) : fvs[i] = evs[i]
      /\ fvs[Len(evs) + 1] = e
  BY AppendProperties
<1>. HIDE DEF fvs
<1>2. PICK f : IsReport(f, Len(evs), evs) /\ Reports(evs) = f[Len(evs)]
  BY <1>1, ReportsIs
<1>3. PICK g : IsReport(g, Len(fvs), fvs) /\ Reports(fvs) = g[Len(fvs)]
  BY <1>1, ReportsIs
<1>4. g[Len(fvs)] = IF e.type = "TRADE_EXECUTED" THEN Append(g[Len(evs)], e.trade) ELSE g[Len(evs)]
  <2>1. Len(fvs) \in 1 .. Len(fvs) /\ Len(fvs) \in Nat /\ Len(fvs) - 1 = Len(evs)
    BY <1>1
  <2>. QED
    BY <1>1, <1>3, <2>1, ReportSteps
<1>5. g[Len(evs)] = f[Len(evs)]
  <2>1. Len(evs) \in 0 .. Len(fvs) /\ Len(fvs) \in Nat
    BY <1>1
  <2>2. \A n \in 1 .. Len(evs) : evs[n] = fvs[n]
    BY <1>1
  <2>. QED
    BY <1>2, <1>3, <2>1, <2>2, ReportsAgree
<1>. QED
  BY <1>2, <1>3, <1>4, <1>5 DEF fvs

LEMMA EventKinds ==
  /\ \A e \in Event : e.type = "TRADE_EXECUTED" => e.trade \in Trade
  /\ \A t \in Trade : TradeEvent(t) \in Event /\ TradeEvent(t).type = "TRADE_EXECUTED"
                      /\ TradeEvent(t).trade = t
  /\ \A type \in EventType, id \in OrderIds :
        /\ OrderEvent(type, id) \in Event /\ OrderEvent(type, id).type = type
        /\ OrderEvent(type, id).orderId = id
  /\ BookEvent \in Event /\ BookEvent.type = "ORDER_BOOK_CHANGED"
<1>1. \A e \in Event : e.type = "TRADE_EXECUTED" => e.trade \in Trade
  <2>. SUFFICES ASSUME NEW e \in Event, e.type = "TRADE_EXECUTED" PROVE e.trade \in Trade
    OBVIOUS
  <2>1. CASE e \in [type : EventType, orderId : OrderIds]
    BY <2>1 DEF EventType
  <2>2. CASE e \in [type : {"TRADE_EXECUTED"}, trade : Trade]
    BY <2>2
  <2>3. CASE e = BookEvent
    BY <2>3 DEF BookEvent
  <2>. QED
    BY <2>1, <2>2, <2>3 DEF Event
<1>. QED
  BY <1>1 DEF Event, TradeEvent, OrderEvent, BookEvent, EventType

LEMMA ReportsTyped ==
  ASSUME NEW evs \in Seq(Event)
  PROVE  Reports(evs) \in Seq(Trade)
<1>. DEFINE N == Len(evs)
<1>0. N \in Nat /\ DOMAIN evs = 1 .. N /\ \A n \in 1 .. N : evs[n] \in Event
  OBVIOUS
<1>. HIDE DEF N
<1>1. PICK f : IsReport(f, N, evs) /\ Reports(evs) = f[N]
  BY <1>0, ReportsIs DEF N
<1>2. /\ f[0] = <<>>
      /\ \A n \in 1 .. N : f[n] = IF evs[n].type = "TRADE_EXECUTED"
                                  THEN Append(f[n - 1], evs[n].trade) ELSE f[n - 1]
  BY <1>0, <1>1, ReportSteps
<1>. DEFINE Odd == {n \in 0 .. N : f[n] \notin Seq(Trade)}
<1>. SUFFICES ASSUME Odd # {} PROVE FALSE
  BY <1>0, <1>1
<1>3. PICK n \in Odd : \A l \in Odd : n <= l
  <2>1. Odd \in SUBSET Nat
    BY <1>0
  <2>. HIDE DEF Odd
  <2>. QED
    BY <2>1, LeastExists
<1>4. n # 0
  <2>1. <<>> \in Seq(Trade)
    OBVIOUS
  <2>. QED
    BY <1>2, <1>3, <2>1
<1>5. n \in Nat /\ n - 1 \in 0 .. N /\ n \in 1 .. N /\ ~(n <= n - 1)
  BY <1>0, <1>3, <1>4
<1>6. f[n - 1] \in Seq(Trade)
  BY <1>3, <1>5
<1>7. f[n] = IF evs[n].type = "TRADE_EXECUTED"
             THEN Append(f[n - 1], evs[n].trade) ELSE f[n - 1]
  BY <1>2, <1>5
<1>8. evs[n].type = "TRADE_EXECUTED" => evs[n].trade \in Trade
  BY <1>0, <1>5, EventKinds
<1>9. f[n] \in Seq(Trade)
  <2>. DEFINE h == f[n - 1]
  <2>1. h \in Seq(Trade)
    BY <1>6
  <2>2. f[n] = IF evs[n].type = "TRADE_EXECUTED" THEN Append(h, evs[n].trade) ELSE h
    BY <1>7
  <2>. HIDE DEF h
  <2>. QED
    BY <1>8, <2>1, <2>2, AppendProperties
<1>. QED
  BY <1>3, <1>9

\* The ids of the events of one type.
IdsOf(evs, type) == {evs[i].orderId : i \in {j \in DOMAIN evs : evs[j].type = type}}

LEMMA EventIdsIs == \A type : EventIds(type) = IdsOf(events, type)
  BY DEF EventIds, IdsOf

LEMMA IdsOfAppend ==
  ASSUME NEW evs \in Seq(Event), NEW e \in Event, NEW type
  PROVE  IdsOf(Append(evs, e), type) =
            IdsOf(evs, type) \cup (IF e.type = type THEN {e.orderId} ELSE {})
<1>1. /\ DOMAIN Append(evs, e) = 1 .. Len(evs) + 1 /\ Len(evs) \in Nat
      /\ DOMAIN evs = 1 .. Len(evs)
      /\ \A i \in 1 .. Len(evs) : Append(evs, e)[i] = evs[i]
      /\ Append(evs, e)[Len(evs) + 1] = e
  BY AppendProperties
<1>. DEFINE fvs == Append(evs, e)
<1>. HIDE DEF fvs
<1>. SUFFICES ASSUME NEW id
              PROVE  id \in IdsOf(fvs, type) <=>
                        id \in IdsOf(evs, type) \/ (e.type = type /\ id = e.orderId)
  BY DEF fvs
<1>2. /\ DOMAIN fvs = 1 .. Len(evs) + 1
      /\ \A i \in 1 .. Len(evs) : fvs[i] = evs[i]
      /\ fvs[Len(evs) + 1] = e
  BY <1>1 DEF fvs
<1>3. id \in IdsOf(fvs, type) => id \in IdsOf(evs, type) \/ (e.type = type /\ id = e.orderId)
  <2>. SUFFICES ASSUME NEW i \in DOMAIN fvs, fvs[i].type = type, id = fvs[i].orderId
                PROVE  id \in IdsOf(evs, type) \/ (e.type = type /\ id = e.orderId)
    BY DEF IdsOf
  <2>1. i \in DOMAIN evs \/ i = Len(evs) + 1
    BY <1>1, <1>2
  <2>. QED
    BY <1>1, <1>2, <2>1 DEF IdsOf
<1>4. id \in IdsOf(evs, type) => id \in IdsOf(fvs, type)
  BY <1>1, <1>2 DEF IdsOf
<1>5. e.type = type => e.orderId \in IdsOf(fvs, type)
  BY <1>1, <1>2 DEF IdsOf
<1>. QED
  BY <1>3, <1>4, <1>5

FillIdsOf(evs) == IdsOf(evs, "ORDER_COMPLETELY_FILLED") \cup IdsOf(evs, "ORDER_PARTIALLY_FILLED")

\* No two fill events are about one order.
FilledOnce(evs) ==
    \A i, j \in DOMAIN evs :
        (evs[i].type \in FillTypes /\ evs[j].type \in FillTypes
            /\ evs[i].orderId = evs[j].orderId) => i = j

LEMMA InFillIds ==
  ASSUME NEW evs, NEW i \in DOMAIN evs, evs[i].type \in FillTypes
  PROVE  evs[i].orderId \in FillIdsOf(evs)
BY DEF FillTypes, FillIdsOf, IdsOf

LEMMA FilledOnceAppend ==
  ASSUME NEW evs \in Seq(Event), NEW e \in Event, FilledOnce(evs),
         e.type \in FillTypes => e.orderId \notin FillIdsOf(evs)
  PROVE  FilledOnce(Append(evs, e))
<1>1. /\ DOMAIN Append(evs, e) = 1 .. Len(evs) + 1 /\ Len(evs) \in Nat
      /\ DOMAIN evs = 1 .. Len(evs)
      /\ \A i \in 1 .. Len(evs) : Append(evs, e)[i] = evs[i]
      /\ Append(evs, e)[Len(evs) + 1] = e
  BY AppendProperties
<1>. DEFINE fvs == Append(evs, e)
<1>. HIDE DEF fvs
<1>2. /\ DOMAIN fvs = 1 .. Len(evs) + 1
      /\ \A i \in 1 .. Len(evs) : fvs[i] = evs[i]
      /\ fvs[Len(evs) + 1] = e
  BY <1>1 DEF fvs
<1>. SUFFICES ASSUME NEW i \in DOMAIN fvs, NEW j \in DOMAIN fvs,
                     fvs[i].type \in FillTypes, fvs[j].type \in FillTypes,
                     fvs[i].orderId = fvs[j].orderId
              PROVE  i = j
  BY DEF FilledOnce, fvs
<1>3. /\ i \in DOMAIN evs \/ i = Len(evs) + 1
      /\ j \in DOMAIN evs \/ j = Len(evs) + 1
  BY <1>1, <1>2
<1>4. CASE i \in DOMAIN evs /\ j \in DOMAIN evs
  BY <1>1, <1>2, <1>4 DEF FilledOnce
<1>5. CASE i \in DOMAIN evs /\ j = Len(evs) + 1
  BY <1>1, <1>2, <1>5, InFillIds
<1>6. CASE i = Len(evs) + 1 /\ j \in DOMAIN evs
  BY <1>1, <1>2, <1>6, InFillIds
<1>. QED
  BY <1>3, <1>4, <1>5, <1>6

\* As many fill events as orders they are about.
LEMMA FillsCounted ==
  ASSUME NEW evs \in Seq(Event), FilledOnce(evs)
  PROVE  Cardinality({i \in DOMAIN evs : evs[i].type \in FillTypes}) = Cardinality(FillIdsOf(evs))
<1>. DEFINE S == {i \in DOMAIN evs : evs[i].type \in FillTypes}
            T == FillIdsOf(evs)
            f == [i \in S |-> evs[i].orderId]
<1>1. f \in [S -> T]
  BY InFillIds
<1>2. IsInjective(f)
  BY DEF FilledOnce, IsInjective
<1>3. \A id \in T : \E i \in S : f[i] = id
  BY DEF FillIdsOf, IdsOf, FillTypes
<1>4. f \in Bijection(S, T)
  BY <1>1, <1>2, <1>3 DEF Bijection, Injection, Surjection
<1>5. IsFiniteSet(S)
  <2>1. IsFiniteSet(1 .. Len(evs)) /\ DOMAIN evs = 1 .. Len(evs)
    BY FS_Interval
  <2>2. S \subseteq 1 .. Len(evs)
    BY <2>1
  <2>. HIDE DEF S
  <2>. QED
    BY <2>1, <2>2, FS_Subset
<1>. HIDE DEF S, T, f
<1>6. Cardinality(T) = Cardinality(S)
  BY <1>4, <1>5, FS_Bijection DEF ExistsBijection
<1>. QED
  BY <1>6 DEF S, T

-----------------------------------------------------------------------------
(* The events a call returns are a true report of it.                      *)

\* The orders a sequence of trades is about.
IdsTraded(ts) == UNION {{ts[i].buyOrderId, ts[i].sellOrderId} : i \in DOMAIN ts}

\* The sequence s is the end of the sequence t.
EndOf(s, t) ==
    Len(s) <= Len(t) /\ \A i \in DOMAIN s : s[i] = t[Len(t) - Len(s) + i]

Spent(id) == \E o \in ToSet(submitted) : o.orderId = id /\ Unfilled(o) = 0
Alive(id) == \E o \in ToSet(submitted) : o.orderId = id /\ Unfilled(o) > 0

\* What the events say so far is true,
EventsTrue ==
    /\ EndOf(Reports(events), recentTrades)
    /\ FilledOnce(events)
    /\ \A id \in IdsOf(events, "ORDER_COMPLETELY_FILLED") : Spent(id)
    /\ \A id \in IdsOf(events, "ORDER_PARTIALLY_FILLED") : Alive(id)

\* during a call they miss the incoming order, whose own fill is reported last,
\* and only the last order it can trade with is left partially filled,
DuringTheCall ==
    order # NoOrder =>
        /\ order.orderId \notin FillIdsOf(events)
        /\ IdsOf(events, "ORDER_PARTIALLY_FILLED") = {} \/ order.remainingQuantity = 0
        /\ IF Reports(events) = <<>>
           THEN FillIdsOf(events) = {} /\ order.remainingQuantity = order.quantity
           ELSE /\ IdsTraded(Reports(events)) = FillIdsOf(events) \cup {order.orderId}
                /\ order.remainingQuantity < order.quantity

\* and at its end they miss none.
AtTheReturn == order = NoOrder => IdsTraded(Reports(events)) = FillIdsOf(events)

ReportInv == EventsTrue /\ DuringTheCall /\ AtTheReturn

LEMMA IdsTradedAppend ==
  ASSUME NEW ts \in Seq(Trade), NEW t \in Trade
  PROVE  IdsTraded(Append(ts, t)) = IdsTraded(ts) \cup {t.buyOrderId, t.sellOrderId}
<1>. DEFINE us == Append(ts, t)
<1>1. /\ DOMAIN us = 1 .. Len(ts) + 1 /\ Len(ts) \in Nat
      /\ DOMAIN ts = 1 .. Len(ts)
      /\ \A i \in 1 .. Len(ts) : us[i] = ts[i]
      /\ us[Len(ts) + 1] = t
  BY AppendProperties
<1>. HIDE DEF us
<1>. SUFFICES ASSUME NEW id
              PROVE  id \in IdsTraded(us) <=>
                        id \in IdsTraded(ts) \/ id \in {t.buyOrderId, t.sellOrderId}
  BY DEF us
<1>2. id \in IdsTraded(us) => id \in IdsTraded(ts) \/ id \in {t.buyOrderId, t.sellOrderId}
  <2>. SUFFICES ASSUME NEW i \in DOMAIN us, id \in {us[i].buyOrderId, us[i].sellOrderId}
                PROVE  id \in IdsTraded(ts) \/ id \in {t.buyOrderId, t.sellOrderId}
    BY DEF IdsTraded
  <2>1. i \in DOMAIN ts \/ i = Len(ts) + 1
    BY <1>1
  <2>. QED
    BY <1>1, <2>1 DEF IdsTraded
<1>3. id \in IdsTraded(ts) => id \in IdsTraded(us)
  BY <1>1 DEF IdsTraded
<1>4. id \in {t.buyOrderId, t.sellOrderId} => id \in IdsTraded(us)
  BY <1>1 DEF IdsTraded
<1>. QED
  BY <1>2, <1>3, <1>4

LEMMA EndOfAppend ==
  ASSUME NEW s \in Seq(Trade), NEW t \in Seq(Trade), NEW e \in Trade, EndOf(s, t)
  PROVE  EndOf(Append(s, e), Append(t, e))
<1>. DEFINE u == Append(s, e)
            v == Append(t, e)
<1>1. /\ DOMAIN u = 1 .. Len(s) + 1 /\ Len(s) \in Nat /\ Len(u) = Len(s) + 1
      /\ DOMAIN s = 1 .. Len(s)
      /\ \A i \in 1 .. Len(s) : u[i] = s[i]
      /\ u[Len(s) + 1] = e
  BY AppendProperties
<1>2. /\ Len(t) \in Nat /\ Len(v) = Len(t) + 1
      /\ \A i \in 1 .. Len(t) : v[i] = t[i]
      /\ v[Len(t) + 1] = e
  BY AppendProperties
<1>. HIDE DEF u, v
<1>3. Len(s) <= Len(t) /\ \A i \in DOMAIN s : s[i] = t[Len(t) - Len(s) + i]
  BY DEF EndOf
<1>4. ASSUME NEW i \in DOMAIN u PROVE u[i] = v[Len(v) - Len(u) + i]
  <2>1. Len(v) - Len(u) + i = Len(t) - Len(s) + i /\ i \in 1 .. Len(s) + 1
    BY <1>1, <1>2
  <2>2. CASE i = Len(s) + 1
    <3>1. Len(t) - Len(s) + i = Len(t) + 1
      BY <1>1, <1>2, <2>2
    <3>. QED
      BY <1>1, <1>2, <2>1, <2>2, <3>1
  <2>3. CASE i # Len(s) + 1
    <3>1. i \in 1 .. Len(s) /\ Len(t) - Len(s) + i \in 1 .. Len(t)
      BY <1>1, <1>2, <1>3, <2>1, <2>3
    <3>. QED
      BY <1>1, <1>2, <1>3, <2>1, <3>1
  <2>. QED
    BY <2>2, <2>3
<1>5. Len(u) <= Len(v)
  BY <1>1, <1>2, <1>3
<1>6. EndOf(u, v)
  BY <1>4, <1>5 DEF EndOf
<1>. QED
  BY <1>6 DEF u, v

LEMMA EndIsSuffix ==
  ASSUME NEW s \in Seq(Trade), NEW t \in Seq(Trade), EndOf(s, t)
  PROVE  IsSuffix(s, t)
<1>. DEFINE m == Len(s)
            n == Len(t)
            u == Reverse(s)
            v == Reverse(t)
<1>1. m \in Nat /\ n \in Nat /\ m <= n /\ DOMAIN s = 1 .. m
      /\ \A i \in DOMAIN s : s[i] = t[n - m + i]
  BY DEF EndOf
<1>2. u = [i \in 1 .. m |-> s[(m - i) + 1]] /\ v = [i \in 1 .. n |-> t[(n - i) + 1]]
  BY DEF Reverse
<1>. HIDE DEF m, n, u, v
<1>3. Len(u) = m /\ Len(v) = n
  BY <1>1, <1>2
<1>5. ASSUME NEW i \in 1 .. m PROVE u[i] = v[i]
  <2>1. u[i] = s[(m - i) + 1] /\ (m - i) + 1 \in 1 .. m
    BY <1>1, <1>2
  <2>2. s[(m - i) + 1] = t[n - m + ((m - i) + 1)]
    BY <1>1, <2>1
  <2>3. n - m + ((m - i) + 1) = (n - i) + 1 /\ i \in 1 .. n
    BY <1>1
  <2>4. v[i] = t[(n - i) + 1]
    BY <1>2, <2>3
  <2>. QED
    BY <2>1, <2>2, <2>3, <2>4
<1>6. SubSeq(u, 1, m) = SubSeq(v, 1, m)
  <2>1. \A i \in 1 .. m : u[i] \in Trade /\ v[i] \in Trade
    <3>1. \A i \in 1 .. m : (m - i) + 1 \in 1 .. m
      BY <1>1
    <3>2. \A i \in 1 .. m : s[i] \in Trade
      BY <1>1
    <3>3. \A i \in 1 .. m : u[i] \in Trade
      BY <1>2, <3>1, <3>2
    <3>. QED
      BY <1>5, <3>3
  <2>2. /\ SubSeq(u, 1, m) \in Seq(Trade) /\ Len(SubSeq(u, 1, m)) = m
        /\ \A i \in 1 .. m : SubSeq(u, 1, m)[i] = u[i]
    <3>1. m - 1 + 1 = m /\ (\A i \in 1 .. m : 1 + i - 1 = i) /\ 1 \in Int /\ m \in Int
          /\ (IF 1 <= m THEN m - 1 + 1 ELSE 0) = m
      BY <1>1
    <3>. QED
      BY <2>1, <3>1, SubSeqProperties
  <2>3. /\ SubSeq(v, 1, m) \in Seq(Trade) /\ Len(SubSeq(v, 1, m)) = m
        /\ \A i \in 1 .. m : SubSeq(v, 1, m)[i] = v[i]
    <3>1. m - 1 + 1 = m /\ (\A i \in 1 .. m : 1 + i - 1 = i) /\ 1 \in Int /\ m \in Int
          /\ (IF 1 <= m THEN m - 1 + 1 ELSE 0) = m
      BY <1>1
    <3>. QED
      BY <2>1, <3>1, SubSeqProperties
  <2>. QED
    BY <1>5, <2>2, <2>3
<1>7. IsPrefix(u, v)
  BY <1>1, <1>3, <1>6 DEF IsPrefix
<1>. QED
  BY <1>7 DEF IsSuffix, u, v

\* A vector of two events more.
LEMMA TwoMore ==
  ASSUME NEW evs \in Seq(Event), NEW a \in Event, NEW b \in Event
  PROVE  evs \o <<a, b>> = Append(Append(evs, a), b)
OBVIOUS

\* An event that is neither a trade nor a fill says nothing about trades.
LEMMA QuietAppend ==
  ASSUME NEW evs \in Seq(Event), NEW e \in Event,
         e.type \notin FillTypes, e.type # "TRADE_EXECUTED"
  PROVE  /\ Append(evs, e) \in Seq(Event)
         /\ Reports(Append(evs, e)) = Reports(evs)
         /\ \A type \in FillTypes : IdsOf(Append(evs, e), type) = IdsOf(evs, type)
         /\ FillIdsOf(Append(evs, e)) = FillIdsOf(evs)
         /\ FilledOnce(evs) => FilledOnce(Append(evs, e))
<1>1. ASSUME NEW type \in FillTypes PROVE IdsOf(Append(evs, e), type) = IdsOf(evs, type)
  <2>1. e.type # type
    OBVIOUS
  <2>2. IdsOf(Append(evs, e), type) =
           IdsOf(evs, type) \cup (IF e.type = type THEN {e.orderId} ELSE {})
    BY IdsOfAppend
  <2>. QED
    BY <2>1, <2>2
<1>2. FillIdsOf(Append(evs, e)) = FillIdsOf(evs)
  BY <1>1 DEF FillIdsOf, FillTypes
<1>. QED
  BY <1>1, <1>2, ReportsAppend, FilledOnceAppend, AppendProperties

\* A fill event says one thing.
LEMMA FillAppend ==
  ASSUME NEW evs \in Seq(Event), NEW type \in FillTypes, NEW id \in OrderIds
  PROVE  /\ OrderEvent(type, id) \in Event
         /\ Append(evs, OrderEvent(type, id)) \in Seq(Event)
         /\ Reports(Append(evs, OrderEvent(type, id))) = Reports(evs)
         /\ \A u \in FillTypes : IdsOf(Append(evs, OrderEvent(type, id)), u) =
                                    IdsOf(evs, u) \cup (IF u = type THEN {id} ELSE {})
         /\ FillIdsOf(Append(evs, OrderEvent(type, id))) = FillIdsOf(evs) \cup {id}
         /\ FilledOnce(evs) /\ id \notin FillIdsOf(evs) =>
               FilledOnce(Append(evs, OrderEvent(type, id)))
<1>. DEFINE e == OrderEvent(type, id)
<1>1. e \in Event /\ e.type = type /\ e.orderId = id /\ type # "TRADE_EXECUTED"
  BY EventKinds DEF FillTypes, EventType
<1>. HIDE DEF e
<1>2. \A u \in FillTypes : IdsOf(Append(evs, e), u) =
                              IdsOf(evs, u) \cup (IF u = type THEN {id} ELSE {})
  BY <1>1, IdsOfAppend
<1>3. FillIdsOf(Append(evs, e)) = FillIdsOf(evs) \cup {id}
  BY <1>2 DEF FillIdsOf, FillTypes
<1>4. FilledOnce(evs) /\ id \notin FillIdsOf(evs) => FilledOnce(Append(evs, e))
  BY <1>1, FilledOnceAppend
<1>5. Append(evs, e) \in Seq(Event) /\ Reports(Append(evs, e)) = Reports(evs)
  BY <1>1, ReportsAppend, AppendProperties
<1>. QED
  BY <1>1, <1>2, <1>3, <1>4, <1>5 DEF e

LEMMA NothingReported ==
  /\ <<>> \in Seq(Event) /\ Reports(<<>>) = <<>> /\ FillIdsOf(<<>>) = {} /\ FilledOnce(<<>>)
  /\ \A type : IdsOf(<<>>, type) = {}
  /\ IdsTraded(<<>>) = {}
  /\ \A t \in Seq(Trade) : EndOf(<<>>, t)
<1>1. Reports(<<>>) = <<>>
  BY ReportsEmpty
<1>2. \A type : IdsOf(<<>>, type) = {}
  BY DEF IdsOf
<1>3. \A t \in Seq(Trade) : EndOf(<<>>, t)
  BY DEF EndOf
<1>. QED
  BY <1>1, <1>2, <1>3 DEF FillIdsOf, FilledOnce, IdsTraded

\* A call that reports no trade.
LEMMA QuietCall ==
  ASSUME EngineInv', FillIdsOf(events') = {}, Reports(events') = <<>>, FilledOnce(events')
  PROVE  EventsTrue' /\ AtTheReturn'
<1>1. recentTrades' \in Seq(Trade)
  BY DEF EngineInv, EngineTypeOK
<1>2. /\ IdsOf(events', "ORDER_COMPLETELY_FILLED") = {}
      /\ IdsOf(events', "ORDER_PARTIALLY_FILLED") = {}
  BY DEF FillIdsOf
<1>3. EventsTrue'
  BY <1>1, <1>2, NothingReported DEF EventsTrue
<1>. QED
  BY <1>3, NothingReported DEF AtTheReturn

LEMMA PlaceOrderReports ==
  ASSUME EngineInv, NEW o \in Order, Fresh(o), PlaceOrder(o)
  PROVE  ReportInv'
<1>. DEFINE e == OrderEvent("ORDER_ACCEPTED", o.orderId)
<1>1. e \in Event /\ e.type = "ORDER_ACCEPTED"
  BY EventKinds DEF EventType, Order
<1>2. events' = Append(<<>>, e) /\ order' = o /\ o.remainingQuantity = o.quantity
  BY DEF PlaceOrder, Fresh
<1>. HIDE DEF e
<1>3. EngineInv'
  BY PlaceOrderInv
<1>4. /\ Reports(events') = <<>> /\ FillIdsOf(events') = {} /\ FilledOnce(events')
      /\ IdsOf(events', "ORDER_PARTIALLY_FILLED") = {}
  BY <1>1, <1>2, NothingReported, QuietAppend DEF FillTypes
<1>5. EventsTrue' /\ AtTheReturn'
  BY <1>3, <1>4, QuietCall
<1>6. DuringTheCall'
  BY <1>2, <1>4 DEF DuringTheCall
<1>. QED
  BY <1>5, <1>6 DEF ReportInv

LEMMA CancelReports ==
  ASSUME EngineInv, NEW id \in OrderIds, EngineCancel(id)
  PROVE  ReportInv'
<1>1. EngineInv' /\ order' = NoOrder
  BY EngineCancelInv DEF EngineCancel
<1>2. Reports(events') = <<>> /\ FillIdsOf(events') = {} /\ FilledOnce(events')
  <2>1. CASE events' = <<>>
    BY <2>1, NothingReported
  <2>2. CASE events' = <<OrderEvent("ORDER_CANCELLED", id), BookEvent>>
    <3>. DEFINE e == OrderEvent("ORDER_CANCELLED", id)
                evs == Append(<<>>, e)
    <3>1. e \in Event /\ e.type = "ORDER_CANCELLED"
      BY EventKinds DEF EventType
    <3>2. BookEvent \in Event /\ BookEvent.type = "ORDER_BOOK_CHANGED"
      BY EventKinds
    <3>3. events' = Append(evs, BookEvent)
      BY <2>2
    <3>. HIDE DEF e
    <3>4. /\ evs \in Seq(Event) /\ Reports(evs) = <<>> /\ FillIdsOf(evs) = {}
          /\ FilledOnce(evs)
      BY <3>1, NothingReported, QuietAppend DEF FillTypes
    <3>. HIDE DEF evs
    <3>. QED
      BY <3>2, <3>3, <3>4, QuietAppend DEF FillTypes
  <2>. QED
    BY <2>1, <2>2 DEF EngineCancel
<1>3. EventsTrue' /\ AtTheReturn'
  BY <1>1, <1>2, QuietCall
<1>. QED
  BY <1>1, <1>3 DEF ReportInv, DuringTheCall

\* The two events of a trade, and what the vector reports with them.
LEMMA MatchEvents ==
  ASSUME EngineInv, RefinementInv, ConserveInv, ReportInv, Match
  PROVE  LET m == BestOrder(Opposite(order.side))
             q == TradeQuantity(m)
             t == TradeWith(m, q)
             filled == Fills(m, q)
             type == IF filled THEN "ORDER_COMPLETELY_FILLED" ELSE "ORDER_PARTIALLY_FILLED"
         IN  /\ events \in Seq(Event) /\ recentTrades \in Seq(Trade)
             /\ TradeEvent(t) \in Event /\ OrderEvent(type, m.orderId) \in Event
             /\ events' = Append(Append(events, TradeEvent(t)), OrderEvent(type, m.orderId))
             /\ Reports(events') = Append(Reports(events), t)
             /\ IdsOf(events', "ORDER_COMPLETELY_FILLED") =
                   IdsOf(events, "ORDER_COMPLETELY_FILLED")
                      \cup (IF filled THEN {m.orderId} ELSE {})
             /\ IdsOf(events', "ORDER_PARTIALLY_FILLED") =
                   IdsOf(events, "ORDER_PARTIALLY_FILLED")
                      \cup (IF filled THEN {} ELSE {m.orderId})
             /\ FillIdsOf(events') = FillIdsOf(events) \cup {m.orderId}
             /\ m.orderId \notin FillIdsOf(events) => FilledOnce(events')
<1>. DEFINE m == BestOrder(Opposite(order.side))
            q == TradeQuantity(m)
            t == TradeWith(m, q)
            filled == Fills(m, q)
            type == IF filled THEN "ORDER_COMPLETELY_FILLED" ELSE "ORDER_PARTIALLY_FILLED"
            evs == Append(events, TradeEvent(t))
            C(v) == IdsOf(v, "ORDER_COMPLETELY_FILLED")
            P(v) == IdsOf(v, "ORDER_PARTIALLY_FILLED")
<1>1. m.orderId \in OrderIds /\ t \in Trade
  BY MatchAccounts
<1>2. events' = Append(evs, OrderEvent(type, m.orderId)) /\ events \in Seq(Event)
      /\ recentTrades \in Seq(Trade)
  <2>1. events \in Seq(Event) /\ recentTrades \in Seq(Trade)
    BY DEF EngineInv, EngineTypeOK
  <2>2. TradeEvent(t) \in Event
    BY <1>1, EventKinds
  <2>3. OrderEvent(type, m.orderId) \in Event
    BY <1>1, EventKinds DEF EventType
  <2>4. events' = events \o <<TradeEvent(t), OrderEvent(type, m.orderId)>>
    BY DEF Match
  <2>. HIDE DEF m, q, t, filled, type
  <2>. QED
    BY <2>1, <2>2, <2>3, <2>4, TwoMore
<1>3. /\ filled => type = "ORDER_COMPLETELY_FILLED" /\ q = m.remainingQuantity
      /\ ~filled => type = "ORDER_PARTIALLY_FILLED" /\ q # m.remainingQuantity
      /\ type \in FillTypes
  BY DEF Fills, FillTypes
<1>. HIDE DEF m, q, t, filled, type
<1>4. /\ evs \in Seq(Event) /\ Reports(evs) = Append(Reports(events), t)
      /\ C(evs) = C(events) /\ P(evs) = P(events) /\ FilledOnce(evs)
  <2>. DEFINE e == TradeEvent(t)
  <2>1. e \in Event /\ e.type = "TRADE_EXECUTED" /\ e.trade = t
    BY <1>1, EventKinds
  <2>. HIDE DEF e
  <2>2. Append(events, e) \in Seq(Event) /\ Reports(Append(events, e)) = Append(Reports(events), t)
    BY <1>2, <2>1, ReportsAppend, AppendProperties
  <2>3. ASSUME NEW u \in FillTypes PROVE IdsOf(Append(events, e), u) = IdsOf(events, u)
    <3>1. IdsOf(Append(events, e), u) =
             IdsOf(events, u) \cup (IF e.type = u THEN {e.orderId} ELSE {})
      BY <1>2, <2>1, IdsOfAppend
    <3>2. e.type # u
      BY <2>1 DEF FillTypes
    <3>. QED
      BY <3>1, <3>2
  <2>4. C(Append(events, e)) = C(events) /\ P(Append(events, e)) = P(events)
    BY <2>3 DEF FillTypes
  <2>5. FilledOnce(Append(events, e))
    BY <1>2, <2>1, FilledOnceAppend DEF ReportInv, EventsTrue, FillTypes
  <2>. QED
    BY <2>2, <2>4, <2>5 DEF e
<1>5. FillIdsOf(evs) = FillIdsOf(events)
  BY <1>4 DEF FillIdsOf
<1>. HIDE DEF evs
<1>6. /\ Reports(events') = Append(Reports(events), t)
      /\ C(events') = C(events) \cup (IF filled THEN {m.orderId} ELSE {})
      /\ P(events') = P(events) \cup (IF filled THEN {} ELSE {m.orderId})
      /\ FillIdsOf(events') = FillIdsOf(events) \cup {m.orderId}
      /\ m.orderId \notin FillIdsOf(events) => FilledOnce(events')
  BY <1>1, <1>2, <1>3, <1>4, <1>5, FillAppend DEF FillTypes
<1>7. TradeEvent(t) \in Event /\ OrderEvent(type, m.orderId) \in Event
  BY <1>1, <1>3, EventKinds DEF FillTypes, EventType
<1>. QED
  BY <1>2, <1>6, <1>7 DEF evs, m, q, t, filled, type

LEMMA MatchReports ==
  ASSUME EngineInv, RefinementInv, ConserveInv, ReportInv, Match
  PROVE  ReportInv'
<1>. DEFINE m == BestOrder(Opposite(order.side))
            q == TradeQuantity(m)
            t == TradeWith(m, q)
            filled == Fills(m, q)
            C(v) == IdsOf(v, "ORDER_COMPLETELY_FILLED")
            P(v) == IdsOf(v, "ORDER_PARTIALLY_FILLED")
<1>1. /\ order # NoOrder /\ order \in Order /\ order.orderId \in OrderIds
      /\ order.remainingQuantity \in Nat /\ order.remainingQuantity > 0
      /\ m.orderId \in OrderIds /\ m.orderId # order.orderId
      /\ m.remainingQuantity \in Nat
      /\ q \in Nat /\ q > 0
      /\ q <= order.remainingQuantity /\ q <= m.remainingQuantity
      /\ q = order.remainingQuantity \/ q = m.remainingQuantity
      /\ t \in Trade /\ {t.buyOrderId, t.sellOrderId} = {order.orderId, m.orderId}
      /\ order' = [order EXCEPT !.remainingQuantity = @ - q]
      /\ recentTrades' = Append(recentTrades, t)
      /\ ToSet(submitted)' = ToSet(submitted)
  <2>1. /\ order # NoOrder /\ order \in Order /\ order.orderId \in OrderIds
        /\ order.remainingQuantity \in Quantity
        /\ m.orderId \in OrderIds /\ m.orderId # order.orderId
        /\ m.remainingQuantity \in Quantity
    BY MatchAccounts
  <2>2. /\ q \in Nat /\ q > 0
        /\ q <= order.remainingQuantity /\ q <= m.remainingQuantity
        /\ q = order.remainingQuantity \/ q = m.remainingQuantity
        /\ t \in Trade /\ {t.buyOrderId, t.sellOrderId} = {order.orderId, m.orderId}
    BY MatchAccounts
  <2>3. /\ order' = [order EXCEPT !.remainingQuantity = @ - q]
        /\ recentTrades' = Append(recentTrades, t)
        /\ ToSet(submitted)' = ToSet(submitted)
    BY MatchAccounts
  <2>4. \A r \in Quantity : r \in Nat /\ r > 0
    BY BookAssumption DEF Quantity
  <2>. HIDE DEF m, q, t
  <2>. QED
    BY <2>1, <2>2, <2>3, <2>4
<1>2. \A o \in ToSet(submitted) :
         Unfilled(o)' = Unfilled(o) -
            (IF o.orderId = order.orderId \/ o.orderId = m.orderId THEN q ELSE 0)
  BY MatchAccounts
<1>3. PICK own \in ToSet(submitted) :
         SameOrder(order, own) /\ order.remainingQuantity = Unfilled(own)
  BY MatchAccounts
<1>4. PICK om \in ToSet(submitted) : IsRestOf(m, om)
  BY MatchAccounts
<1>5. /\ events \in Seq(Event) /\ recentTrades \in Seq(Trade)
      /\ Reports(events') = Append(Reports(events), t)
      /\ C(events') = C(events) \cup (IF filled THEN {m.orderId} ELSE {})
      /\ P(events') = P(events) \cup (IF filled THEN {} ELSE {m.orderId})
      /\ FillIdsOf(events') = FillIdsOf(events) \cup {m.orderId}
      /\ m.orderId \notin FillIdsOf(events) => FilledOnce(events')
  BY MatchEvents
<1>6. filled <=> q = m.remainingQuantity
  BY DEF Fills
<1>. HIDE DEF m, q, t, filled
<1>7. P(events) = {} /\ order.orderId \notin FillIdsOf(events)
  BY <1>1 DEF ReportInv, DuringTheCall
\* Nobody that was reported filled is in this trade.
<1>8. own.orderId = order.orderId /\ om.orderId = m.orderId /\ Unfilled(om) = m.remainingQuantity
  BY <1>3, <1>4 DEF SameOrder, IsRestOf
<1>9. ASSUME NEW id \in C(events)
       PROVE  /\ id # m.orderId
              /\ Spent(id)'
  <2>1. PICK o \in ToSet(submitted) : o.orderId = id /\ Unfilled(o) = 0
    BY DEF ReportInv, EventsTrue, Spent
  <2>2. id # m.orderId
    <3>. SUFFICES ASSUME id = m.orderId PROVE FALSE
      OBVIOUS
    <3>1. o = om
      BY <1>8, <2>1, SameSubmitted DEF RefinementInv
    <3>. QED
      BY <1>1, <1>8, <2>1, <3>1
  <2>3. id # order.orderId
    BY <1>7 DEF FillIdsOf
  <2>4. Unfilled(o)' = 0
    BY <1>2, <2>1, <2>2, <2>3
  <2>. QED
    BY <1>1, <2>1, <2>2, <2>4 DEF Spent
<1>10. m.orderId \notin FillIdsOf(events)
  BY <1>7, <1>9 DEF FillIdsOf
<1>11. Unfilled(om)' = m.remainingQuantity - q
  BY <1>2, <1>8
<1>12. \A id : filled /\ id = m.orderId => Spent(id)'
  BY <1>1, <1>6, <1>8, <1>11 DEF Spent
<1>13. \A id : ~filled /\ id = m.orderId => Alive(id)'
  BY <1>1, <1>6, <1>8, <1>11 DEF Alive
<1>14. order'.remainingQuantity = order.remainingQuantity - q
       /\ order'.quantity = order.quantity /\ order'.orderId = order.orderId
       /\ order' # NoOrder
  BY <1>1, MatchInv, EngineAssumption DEF Order
<1>15. EventsTrue'
  <2>1. EndOf(Reports(events'), recentTrades')
    BY <1>1, <1>5, <1>5, ReportsTyped, EndOfAppend DEF ReportInv, EventsTrue
  <2>2. \A id \in C(events') : Spent(id)'
    BY <1>5, <1>9, <1>12
  <2>3. \A id \in P(events') : Alive(id)'
    BY <1>5, <1>7, <1>13
  <2>. QED
    BY <1>5, <1>10, <2>1, <2>2, <2>3 DEF EventsTrue
<1>16. DuringTheCall'
  <2>1. order.orderId \notin FillIdsOf(events')
    BY <1>1, <1>5, <1>7
  <2>2. P(events') = {} \/ order'.remainingQuantity = 0
    BY <1>1, <1>6, <1>5, <1>7, <1>14
  <2>3. Reports(events') # <<>>
    <3>1. Reports(events) \in Seq(Trade)
      BY <1>5, ReportsTyped
    <3>2. Len(Reports(events')) = Len(Reports(events)) + 1 /\ Len(Reports(events)) \in Nat
      BY <1>1, <1>5, <3>1, AppendProperties
    <3>. QED
      BY <3>2
  <2>4. IdsTraded(Reports(events')) = IdsTraded(Reports(events)) \cup {order.orderId, m.orderId}
    <3>1. Reports(events) \in Seq(Trade)
      BY <1>5, ReportsTyped
    <3>. QED
      BY <1>1, <1>5, <3>1, IdsTradedAppend
  <2>5. IdsTraded(Reports(events')) = FillIdsOf(events') \cup {order.orderId}
    <3>1. CASE Reports(events) = <<>>
      <4>1. FillIdsOf(events) = {}
        BY <1>1, <3>1 DEF ReportInv, DuringTheCall
      <4>. QED
        BY <1>5, <2>4, <3>1, <4>1, NothingReported
    <3>2. CASE Reports(events) # <<>>
      BY <1>1, <1>5, <2>4, <3>2 DEF ReportInv, DuringTheCall
    <3>. QED
      BY <3>1, <3>2
  <2>6. order'.remainingQuantity < order'.quantity
    <3>1. order.quantity \in Nat
      BY <1>1, BookAssumption DEF Order, Quantity
    <3>2. order.remainingQuantity <= order.quantity
      BY <1>1, <3>1 DEF ReportInv, DuringTheCall
    <3>. QED
      BY <1>1, <1>14, <3>1, <3>2
  <2>. QED
    BY <1>14, <2>1, <2>2, <2>3, <2>5, <2>6 DEF DuringTheCall
<1>. QED
  BY <1>14, <1>15, <1>16 DEF ReportInv, AtTheReturn

LEMMA FinishReports ==
  ASSUME EngineInv, RefinementInv, ConserveInv, ReportInv, Finish
  PROVE  ReportInv'
<1>. DEFINE P(v) == IdsOf(v, "ORDER_PARTIALLY_FILLED")
            C(v) == IdsOf(v, "ORDER_COMPLETELY_FILLED")
            evs == events \o OwnFillEvents
<1>1. /\ order # NoOrder /\ order' = NoOrder /\ recentTrades' = recentTrades
      /\ submitted' = submitted /\ events \in Seq(Event) /\ recentTrades \in Seq(Trade)
      /\ order \in Order /\ order.orderId \in OrderIds
      /\ order.quantity \in Nat /\ order.quantity > 0
      /\ order.remainingQuantity \in Nat
      /\ events' = evs \o <<BookEvent>>
  BY BookAssumption DEF Finish, EngineInv, EngineTypeOK, Order, Quantity
<1>2. /\ \A o : Unfilled(o)' = Unfilled(o)
      /\ ToSet(submitted)' = ToSet(submitted)
  BY <1>1, NothingTraded
<1>3. (\A id : Spent(id) => Spent(id)') /\ (\A id : Alive(id) => Alive(id)')
  BY <1>2 DEF Spent, Alive
<1>4. PICK own \in ToSet(submitted) :
         SameOrder(order, own) /\ order.remainingQuantity = Unfilled(own)
  BY <1>1 DEF ConserveInv, TakerAccounted
<1>5. /\ EventsTrue /\ DuringTheCall
      /\ order.orderId \notin FillIdsOf(events)
  BY <1>1 DEF ReportInv, DuringTheCall
\* Whatever its own fill event is, the vector is a true report with it.
<1>6. /\ evs \in Seq(Event) /\ Reports(evs) = Reports(events) /\ FilledOnce(evs)
      /\ \A id \in C(evs) : Spent(id)
      /\ \A id \in P(evs) : Alive(id)
      /\ IdsTraded(Reports(evs)) = FillIdsOf(evs)
  <2>1. CASE order.remainingQuantity = order.quantity
    <3>1. evs = events
      BY <1>1, <2>1 DEF OwnFillEvents
    <3>2. Reports(events) = <<>> /\ FillIdsOf(events) = {}
      BY <1>1, <1>5, <2>1 DEF DuringTheCall
    <3>. HIDE DEF evs
    <3>. QED
      BY <1>1, <1>5, <3>1, <3>2, NothingReported DEF EventsTrue
  <2>2. CASE order.remainingQuantity # order.quantity
    <3>. DEFINE type == IF order.remainingQuantity = 0 THEN "ORDER_COMPLETELY_FILLED"
                                                       ELSE "ORDER_PARTIALLY_FILLED"
    <3>1. /\ order.remainingQuantity < order.quantity
          /\ IdsTraded(Reports(events)) = FillIdsOf(events) \cup {order.orderId}
      BY <1>1, <1>5, <2>2 DEF DuringTheCall
    <3>2. type \in FillTypes
      BY DEF FillTypes
    <3>3. evs = Append(events, OrderEvent(type, order.orderId))
      <4>1. OwnFillEvents = <<OrderEvent(type, order.orderId)>>
        BY <3>1 DEF OwnFillEvents
      <4>2. OrderEvent(type, order.orderId) \in Event
        BY <1>1, <3>2, FillAppend
      <4>. HIDE DEF type
      <4>. QED
        BY <1>1, <4>1, <4>2
    <3>4. /\ type = "ORDER_COMPLETELY_FILLED" => order.remainingQuantity = 0
          /\ type = "ORDER_PARTIALLY_FILLED" => order.remainingQuantity > 0
      BY <1>1
    <3>. HIDE DEF type, evs
    <3>5. /\ evs \in Seq(Event) /\ Reports(evs) = Reports(events)
          /\ \A u \in FillTypes : IdsOf(evs, u) =
                IdsOf(events, u) \cup (IF u = type THEN {order.orderId} ELSE {})
          /\ FillIdsOf(evs) = FillIdsOf(events) \cup {order.orderId}
          /\ FilledOnce(evs)
      BY <1>1, <1>5, <3>2, <3>3, FillAppend DEF EventsTrue
    <3>6. own.orderId = order.orderId
      BY <1>4 DEF SameOrder
    <3>7. ASSUME NEW id \in C(evs) PROVE Spent(id)
      <4>1. id \in C(events) \/ (type = "ORDER_COMPLETELY_FILLED" /\ id = order.orderId)
        BY <3>5 DEF FillTypes
      <4>2. id \in C(events) => Spent(id)
        BY <1>5 DEF EventsTrue
      <4>. QED
        BY <1>4, <3>4, <3>6, <4>1, <4>2 DEF Spent
    <3>8. ASSUME NEW id \in P(evs) PROVE Alive(id)
      <4>1. id \in P(events) \/ (type = "ORDER_PARTIALLY_FILLED" /\ id = order.orderId)
        BY <3>5 DEF FillTypes
      <4>2. id \in P(events) => Alive(id)
        BY <1>5 DEF EventsTrue
      <4>. QED
        BY <1>4, <3>4, <3>6, <4>1, <4>2 DEF Alive
    <3>. QED
      BY <3>1, <3>5, <3>7, <3>8
  <2>. QED
    BY <2>1, <2>2
<1>. HIDE DEF evs
<1>7. events' = Append(evs, BookEvent)
  BY <1>1, <1>6
<1>8. BookEvent \in Event /\ BookEvent.type = "ORDER_BOOK_CHANGED"
  BY EventKinds
<1>9. /\ Reports(events') = Reports(evs) /\ FilledOnce(events')
      /\ C(events') = C(evs) /\ P(events') = P(evs)
      /\ FillIdsOf(events') = FillIdsOf(evs)
  BY <1>6, <1>7, <1>8, QuietAppend DEF FillTypes
<1>10. EndOf(Reports(events'), recentTrades')
  BY <1>1, <1>5, <1>6, <1>9 DEF EventsTrue
<1>11. EventsTrue'
  BY <1>3, <1>6, <1>9, <1>10 DEF EventsTrue
<1>. QED
  BY <1>1, <1>6, <1>9, <1>11 DEF ReportInv, DuringTheCall, AtTheReturn

LEMMA ReportStutter ==
  ASSUME ReportInv, UNCHANGED engineVars
  PROVE  ReportInv'
<1>1. /\ order' = order /\ events' = events /\ submitted' = submitted
      /\ recentTrades' = recentTrades
  BY DEF engineVars
<1>2. /\ \A o : Unfilled(o)' = Unfilled(o)
      /\ ToSet(submitted)' = ToSet(submitted)
  BY <1>1, NothingTraded
<1>3. (\A id : Spent(id) => Spent(id)') /\ (\A id : Alive(id) => Alive(id)')
  BY <1>2 DEF Spent, Alive
<1>. QED
  BY <1>1, <1>3 DEF ReportInv, EventsTrue, DuringTheCall, AtTheReturn

LEMMA ReportInit == EngineInit => ReportInv
<1>. SUFFICES ASSUME EngineInit PROVE ReportInv
  OBVIOUS
<1>1. events = <<>> /\ recentTrades = <<>> /\ order = NoOrder /\ <<>> \in Seq(Trade)
  BY DEF EngineInit
<1>. QED
  BY <1>1, NothingReported DEF ReportInv, EventsTrue, DuringTheCall, AtTheReturn

LEMMA ReportStep ==
  EngineInv /\ RefinementInv /\ ConserveInv /\ ReportInv /\ [EngineNext]_engineVars => ReportInv'
<1>. SUFFICES ASSUME EngineInv, RefinementInv, ConserveInv, ReportInv, [EngineNext]_engineVars
              PROVE  ReportInv'
  OBVIOUS
<1>1. ASSUME NEW o \in Order, Fresh(o), PlaceOrder(o)
      PROVE  ReportInv'
  BY <1>1, PlaceOrderReports
<1>2. ASSUME NEW id \in OrderIds, EngineCancel(id)
      PROVE  ReportInv'
  BY <1>2, CancelReports
<1>. QED
  BY <1>1, <1>2, MatchReports, FinishReports, ReportStutter DEF EngineNext

LEMMA ReportImplies ==
  EngineInv /\ RefinementInv /\ ReportInv => EventsReportTheCall
<1>. SUFFICES ASSUME EngineInv, RefinementInv, ReportInv, order = NoOrder
              PROVE  EventsReportTheCall
  BY DEF EventsReportTheCall
<1>. DEFINE traded  == UNION {{ReportedTrades[i].buyOrderId, ReportedTrades[i].sellOrderId} :
                                 i \in DOMAIN ReportedTrades}
            filled  == {o \in ToSet(submitted) : Unfilled(o) = 0}
            fillIds == {o.orderId : o \in filled}
            C == IdsOf(events, "ORDER_COMPLETELY_FILLED")
            P == IdsOf(events, "ORDER_PARTIALLY_FILLED")
<1>1. events \in Seq(Event) /\ recentTrades \in Seq(Trade)
  BY DEF EngineInv, EngineTypeOK
<1>2. traded = C \cup P
  BY ReportedTradesIs DEF ReportInv, AtTheReturn, IdsTraded, FillIdsOf
<1>3. \A id \in C : id \in fillIds
  BY DEF ReportInv, EventsTrue, Spent
<1>4. ASSUME NEW id \in P PROVE id \notin fillIds
  <2>1. PICK u \in ToSet(submitted) : u.orderId = id /\ Unfilled(u) > 0
    BY DEF ReportInv, EventsTrue, Alive
  <2>2. ASSUME NEW o \in ToSet(submitted), o.orderId = id PROVE Unfilled(o) # 0
    <3>1. o = u
      BY <2>1, <2>2, SameSubmitted DEF RefinementInv
    <3>. QED
      BY <2>1, <3>1
  <2>. QED
    BY <2>2
<1>5. IsSuffix(ReportedTrades, recentTrades)
  BY <1>1, ReportedTradesIs, ReportsTyped, EndIsSuffix DEF ReportInv, EventsTrue
<1>6. Cardinality({i \in DOMAIN events : events[i].type \in FillTypes}) = Cardinality(traded)
  BY <1>1, <1>2, FillsCounted DEF ReportInv, EventsTrue, FillIdsOf
<1>. HIDE DEF fillIds
<1>7. C = traded \cap fillIds /\ P = traded \ fillIds
  BY <1>2, <1>3, <1>4
<1>8. EventIds("ORDER_COMPLETELY_FILLED") = C /\ EventIds("ORDER_PARTIALLY_FILLED") = P
  BY EventIdsIs
<1>. HIDE DEF traded, C, P
<1>. QED
  BY <1>5, <1>6, <1>7, <1>8 DEF EventsReportTheCall, FillTypes, traded, fillIds

LEMMA ReportInvariant ==
  EngineSpec => [](EngineInv /\ RefinementInv /\ ConserveInv /\ ReportInv)
<1>1. EngineInit => EngineInv /\ RefinementInv /\ ConserveInv /\ ReportInv
  BY EngineInitInv, RefinementInit, ConserveInit, ReportInit
<1>2. EngineInv /\ RefinementInv /\ ConserveInv /\ ReportInv /\ [EngineNext]_engineVars =>
         (EngineInv /\ RefinementInv /\ ConserveInv /\ ReportInv)'
  BY EngineStepInv, RefinementStep, ConserveStep, ReportStep
<1>. QED
  BY <1>1, <1>2, PTL DEF EngineSpec

\* EventsReportTheCall: the vector a call returns reports exactly the trades
\* of the call, in their order, and exactly once every order that traded, as
\* filled or as partially filled according to what the whole call left of it.
THEOREM EngineReportsTheCall == EngineSpec => []EventsReportTheCall
  BY ReportInvariant, ReportImplies, PTL
=============================================================================
