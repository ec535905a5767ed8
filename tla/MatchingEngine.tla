--------------------------- MODULE MatchingEngine ---------------------------
(***************************************************************************)
(* The matching engine of engine/src/MatchingEngine.cpp.                   *)
(*                                                                         *)
(* placeOrder is one call of a single-threaded class; its loop is modelled *)
(* one iteration per step, with the by-value parameter `order' and the     *)
(* local `events' as variables, so that the book is examined between any   *)
(* two fills:                                                              *)
(*                                                                         *)
(*   PlaceOrder   entry: the ORDER_ACCEPTED event                          *)
(*   Match        one iteration of the while loop that trades              *)
(*   Finish       loop exit to return: own fill event, rest, BOOK_CHANGED  *)
(*   CancelOrder  the whole of cancelOrder (EngineCancel below)            *)
(*                                                                         *)
(* events keeps the vector the last call returned until the next call.     *)
(* The variables submitted and cancelled are history: no action reads      *)
(* them, they let the properties talk about what the callers asked for.    *)
(***************************************************************************)
EXTENDS OrderBook

CONSTANT NoOrder        \* no placeOrder call is in progress

ASSUME EngineAssumption == NoOrder \notin Order

VARIABLES order,          \* the parameter of the placeOrder call in progress
          events,         \* the event vector of the current or last call
          recentTrades,
          nextTradeId,
          nextTimestamp,
          submitted,      \* history: the orders placed, in order of arrival
          cancelled       \* history: the ids cancelOrder removed

engineVars == <<levels, orderLocations, order, events, recentTrades,
                nextTradeId, nextTimestamp, submitted, cancelled>>

OrderEvent(type, id) == [type |-> type, orderId |-> id]
TradeEvent(t)        == [type |-> "TRADE_EXECUTED", trade |-> t]
BookEvent            == [type |-> "ORDER_BOOK_CHANGED"]

EngineInit ==
    /\ BookInit
    /\ order = NoOrder /\ events = <<>>
    /\ recentTrades = <<>> /\ nextTradeId = 1 /\ nextTimestamp = 1
    /\ submitted = <<>> /\ cancelled = {}

-----------------------------------------------------------------------------
(* placeOrder.                                                             *)

\* Entry.  The caller submits an order nothing of which is traded yet.
PlaceOrder(o) ==
    /\ order = NoOrder
    /\ order' = o
    /\ events' = <<OrderEvent("ORDER_ACCEPTED", o.orderId)>>
    /\ submitted' = Append(submitted, o)
    /\ UNCHANGED <<bookVars, recentTrades, nextTradeId, nextTimestamp, cancelled>>

\* Mutant: an order at exactly the best price does not trade.
CrossesStrictly(o, p) == \/ o.orderType = "MARKET"
                         \/ o.side = "BUY"  /\ o.price > p
                         \/ o.side = "SELL" /\ o.price < p

\* The incoming order o may trade at the price p of the best resting order.
Crosses(o, p) == \/ o.orderType = "MARKET"
                 \/ o.side = "BUY"  /\ o.price >= p
                 \/ o.side = "SELL" /\ o.price <= p

\* The while condition holds and neither break is taken.
CanMatch == /\ order.remainingQuantity > 0
            /\ HasBest(Opposite(order.side))
            /\ Crosses(order, BestOrder(Opposite(order.side)).price)

\* Mutant: all the incoming order has left, whatever the other side has.
AllRemaining(maker) == order.remainingQuantity

\* std::min of what the two orders have left.
TradeQuantity(maker) == Min({order.remainingQuantity, maker.remainingQuantity})

TradeWith(maker, quantity) ==
    [tradeId     |-> nextTradeId,
     buyOrderId  |-> IF order.side = "BUY" THEN order.orderId ELSE maker.orderId,
     sellOrderId |-> IF order.side = "BUY" THEN maker.orderId ELSE order.orderId,
     price       |-> maker.price,
     quantity    |-> quantity,
     timestamp   |-> nextTimestamp]

\* The trade uses up the resting order.
Fills(maker, quantity) == quantity = maker.remainingQuantity

\* One iteration.  A resting order that is filled is removed at once; the
\* zero it held for an instant is not a state of its own.
Match ==
    /\ order # NoOrder /\ CanMatch
    /\ LET s        == Opposite(order.side)
           maker    == BestOrder(s)
           quantity == TradeQuantity(maker)
           trade    == TradeWith(maker, quantity)
           filled   == Fills(maker, quantity)
       IN  /\ IF filled THEN RemoveBest(s) ELSE ReduceBest(s, quantity)
           /\ order' = [order EXCEPT !.remainingQuantity = @ - quantity]
           /\ recentTrades' = Append(recentTrades, trade)
           /\ events' = events \o
                 <<TradeEvent(trade),
                   OrderEvent(IF filled THEN "ORDER_COMPLETELY_FILLED"
                                        ELSE "ORDER_PARTIALLY_FILLED",
                              maker.orderId)>>
    /\ nextTradeId' = nextTradeId + 1
    /\ nextTimestamp' = nextTimestamp + 1
    /\ UNCHANGED <<submitted, cancelled>>

\* Mutant: an order that did not trade at all is reported as partially filled.
OwnFillEventsAlways ==
    IF order.remainingQuantity = 0
    THEN <<OrderEvent("ORDER_COMPLETELY_FILLED", order.orderId)>>
    ELSE <<OrderEvent("ORDER_PARTIALLY_FILLED", order.orderId)>>

\* The fill event of the incoming order itself, if it traded at all.
OwnFillEvents ==
    IF order.remainingQuantity = 0
    THEN <<OrderEvent("ORDER_COMPLETELY_FILLED", order.orderId)>>
    ELSE IF order.remainingQuantity < order.quantity
    THEN <<OrderEvent("ORDER_PARTIALLY_FILLED", order.orderId)>>
    ELSE <<>>

\* Mutant: what is left of a MARKET order rests too.
RestsAnyType == order.remainingQuantity > 0

Rests == order.remainingQuantity > 0 /\ order.orderType = "LIMIT"

\* Mutant: no break when the other side is empty or too dear.
FinishWhenFilled ==
    /\ order # NoOrder /\ order.remainingQuantity = 0
    /\ events' = events \o OwnFillEvents \o <<BookEvent>>
    /\ order' = NoOrder
    /\ UNCHANGED <<bookVars, recentTrades, nextTradeId, nextTimestamp, submitted, cancelled>>

\* From the loop exit to the return.
Finish ==
    /\ order # NoOrder /\ ~CanMatch
    /\ IF Rests THEN AddOrder(order) ELSE UNCHANGED bookVars
    /\ events' = events \o OwnFillEvents \o <<BookEvent>>
    /\ order' = NoOrder
    /\ UNCHANGED <<recentTrades, nextTradeId, nextTimestamp, submitted, cancelled>>

-----------------------------------------------------------------------------
(* cancelOrder, for an id the book knows and for one it does not.          *)

EngineCancel(id) ==
    /\ order = NoOrder
    /\ \/ /\ CancelOrder(id)
          /\ events' = <<OrderEvent("ORDER_CANCELLED", id), BookEvent>>
          /\ cancelled' = cancelled \cup {id}
       \/ /\ id \notin DOMAIN orderLocations
          /\ events' = <<>>
          /\ UNCHANGED <<bookVars, cancelled>>
    /\ UNCHANGED <<order, recentTrades, nextTradeId, nextTimestamp, submitted>>

-----------------------------------------------------------------------------
(* The engine under any sequence of calls; every order has an id of its    *)
(* own, as the integration notes require, so at most Cardinality(OrderIds) *)
(* orders are placed.                                                      *)

\* What a caller may submit.
Fresh(o) == /\ o.orderId \notin {x.orderId : x \in ToSet(submitted)}
            /\ o.remainingQuantity = o.quantity
            /\ o.price = 0 <=> o.orderType = "MARKET"

EngineNext == \/ Match
              \/ Finish
              \/ \E id \in OrderIds : EngineCancel(id)
              \/ \E o \in Order : PlaceOrder(o) /\ Fresh(o)

EngineSpec == EngineInit /\ [][EngineNext]_engineVars

-----------------------------------------------------------------------------
(* Properties.                                                             *)

EventType == {"ORDER_ACCEPTED", "ORDER_CANCELLED", "ORDER_PARTIALLY_FILLED",
              "ORDER_COMPLETELY_FILLED"}

Trade == [tradeId : Nat, buyOrderId : OrderIds, sellOrderId : OrderIds,
          price : Price, quantity : Quantity, timestamp : Nat]

Event == [type : EventType, orderId : OrderIds]
            \cup [type : {"TRADE_EXECUTED"}, trade : Trade] \cup {BookEvent}

\* Every variable has its type, and trade ids count the trades.
EngineTypeOK ==
    /\ BookTypeOK
    /\ order \in Order \cup {NoOrder}
    /\ events \in Seq(Event)
    /\ recentTrades \in Seq(Trade)
    /\ nextTradeId = Len(recentTrades) + 1
    /\ nextTimestamp = Len(recentTrades) + 1
    /\ submitted \in Seq(Order)
    /\ cancelled \subseteq OrderIds

\* The book is never crossed: every bid is below every ask, between calls
\* and between any two fills of a call.
NotCrossed == \A p \in DOMAIN levels["BUY"], q \in DOMAIN levels["SELL"] : p < q

\* How much of the order id the trade t accounts for.
Part(t, id) == IF id \in {t.buyOrderId, t.sellOrderId} THEN t.quantity ELSE 0

\* How much of an order the recorded trades account for.
Traded(id) == Total([i \in DOMAIN recentTrades |-> Part(recentTrades[i], id)])

Unfilled(o) == o.quantity - Traded(o.orderId)

\* The orders that should be resting on side s according to the history.
ShouldRest(s) == {o \in ToSet(submitted) :
                     /\ o.side = s /\ o.orderType = "LIMIT"
                     /\ o.orderId \notin cancelled
                     /\ order # NoOrder => o.orderId # order.orderId
                     /\ Unfilled(o) > 0}

\* Quantity is conserved.  The book holds exactly the LIMIT orders that were
\* neither cancelled nor filled, each with its original quantity less what
\* it traded; no order trades more than its quantity; the order being matched
\* accounts for its own fills.  So a filled or cancelled order never comes
\* back, a MARKET order never rests and no quantity is lost between the
\* decrement of the two sides of a trade.
QuantityConserved ==
    /\ \A s \in Side :
          {<<o.orderId, o.price, o.remainingQuantity>> : o \in OpenOrders(s)} =
          {<<o.orderId, o.price, Unfilled(o)>> : o \in ShouldRest(s)}
    /\ \A o \in ToSet(submitted) : Unfilled(o) >= 0
    /\ order # NoOrder => order.remainingQuantity = Unfilled(order)

\* The place of an order among the submitted ones.
ArrivalOf(id) == CHOOSE i \in DOMAIN submitted : submitted[i].orderId = id

\* The ids of the fill events of the given type in the returned vector.
EventIds(type) == {events[i].orderId : i \in {j \in DOMAIN events : events[j].type = type}}

\* The trades reported by the returned vector, in order.
ReportedTrades ==
    LET upTo[n \in 0 .. Len(events)] ==
            IF n = 0 THEN <<>>
            ELSE IF events[n].type = "TRADE_EXECUTED"
            THEN Append(upTo[n - 1], events[n].trade) ELSE upTo[n - 1]
    IN  upTo[Len(events)]

\* The events a call returns are a true report of it: its trades are the last
\* ones recorded, in their order, and each order that traded, and no other,
\* is reported exactly once, as completely or as partially filled according
\* to what is left of it after the whole call.
EventsReportTheCall ==
    order = NoOrder =>
        LET traded  == UNION {{ReportedTrades[i].buyOrderId, ReportedTrades[i].sellOrderId} :
                                 i \in DOMAIN ReportedTrades}
            filled  == {o \in ToSet(submitted) : Unfilled(o) = 0}
            fillIds == {o.orderId : o \in filled}
        IN  /\ IsSuffix(ReportedTrades, recentTrades)
            /\ EventIds("ORDER_COMPLETELY_FILLED") = traded \cap fillIds
            /\ EventIds("ORDER_PARTIALLY_FILLED") = traded \ fillIds
            /\ Cardinality({i \in DOMAIN events : events[i].type \in
                   {"ORDER_COMPLETELY_FILLED", "ORDER_PARTIALLY_FILLED"}})
                 = Cardinality(traded)

\* Every call of placeOrder returns: each iteration uses up the incoming
\* order or takes an order out of the book.
PlaceOrderReturns == order # NoOrder ~> order = NoOrder

-----------------------------------------------------------------------------
(* The engine implements the abstract price-time book: the resting set is  *)
(* what the lists hold, stamped with the arrival the history records.      *)

Abstract(o) == [orderId |-> o.orderId, side |-> o.side, orderType |-> o.orderType,
                price |-> o.price, remaining |-> o.remainingQuantity,
                arrival |-> ArrivalOf(o.orderId)]

AbstractOrder == [orderId : OrderIds, side : Side, orderType : OrderType,
                  price : Price \cup {0}, remaining : Quantity \cup {0}, arrival : Nat]

\* NoOrder is no order there either.
ASSUME AbstractionAssumption == NoOrder \notin AbstractOrder

Resting == {Abstract(o) : o \in OpenOrders("BUY") \cup OpenOrders("SELL")}

Taker == IF order = NoOrder THEN NoOrder ELSE Abstract(order)

AbstractTrade(t) == [buyOrderId |-> t.buyOrderId, sellOrderId |-> t.sellOrderId,
                     price |-> t.price, quantity |-> t.quantity]

Trades == [i \in DOMAIN recentTrades |-> AbstractTrade(recentTrades[i])]

PTB == INSTANCE PriceTimeBook WITH
    resting <- Resting, taker <- Taker, trades <- Trades, arrivals <- Len(submitted)

\* Whatever lists, iterators and index do, the engine trades only as price-
\* time priority over all resting orders demands, and at the resting order's
\* price (engine/README.md: "The trade always executes at the resting order's
\* price").
PriceTimePriority == PTB!PTSpec
=============================================================================
