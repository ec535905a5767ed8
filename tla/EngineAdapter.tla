---------------------------- MODULE EngineAdapter ----------------------------
(***************************************************************************)
(* server/src/EngineAdapter.cpp: the server's way into the matching        *)
(* engine.  It hands out the order ids, holds its mutex for a whole engine *)
(* call, and translates the engine's event vector into the EngineResult or *)
(* CancelResult from which the request handler builds its messages.        *)
(*                                                                         *)
(* The module is the engine with the adapter around it: a call is the      *)
(* engine's own steps, the first one preceded by the assignment of the id  *)
(* (AdapterPlace), the last one followed by the translation (AdapterReply) *)
(***************************************************************************)
EXTENDS MatchingEngine

CONSTANT MaxOrders      \* bound: how many orders are ever placed

ASSUME AdapterAssumption == MaxOrders \in Nat /\ OrderIds = 1..MaxOrders

VARIABLES nextOrderId,
          result        \* what the last adapter call returned

adapterVars == <<engineVars, nextOrderId, result>>

NoResult == [kind |-> "none"]

AdapterInit == EngineInit /\ nextOrderId = 1 /\ result = NoResult

-----------------------------------------------------------------------------
(* placeOrder.                                                             *)

\* What parsePlaceOrder returns for a message that passes validatePlaceOrder:
\* a positive quantity, and for a LIMIT order a positive price.
PlaceOrderRequest ==
    [side : Side, orderType : {"LIMIT"}, price : Price, quantity : Quantity]
        \cup [side : Side, orderType : {"MARKET"}, price : {0}, quantity : Quantity]

\* The engine order built from a request.
EngineOrder(req) ==
    [orderId |-> nextOrderId, side |-> req.side, orderType |-> req.orderType,
     price |-> req.price, quantity |-> req.quantity, remainingQuantity |-> req.quantity]

\* Mutant: the counter is not advanced after a SELL order.
AdapterPlaceReusesId(req) ==
    /\ nextOrderId \in OrderIds
    /\ PlaceOrder(EngineOrder(req))
    /\ nextOrderId' = IF req.side = "BUY" THEN nextOrderId + 1 ELSE nextOrderId
    /\ result' = NoResult

\* From the lock to the engine's first event.
AdapterPlace(req) ==
    /\ nextOrderId \in OrderIds
    /\ PlaceOrder(EngineOrder(req))
    /\ nextOrderId' = nextOrderId + 1
    /\ result' = NoResult

OrderUpdate(id, status, remaining) ==
    [orderId |-> id, status |-> status, remainingQuantity |-> remaining]

\* The translation of the engine's events, for the order o that was placed.
\* What the loop over them works on: `remaining', and the fields of the
\* EngineResult that it may set, with their defaults.
Blank(o) == [status |-> "ACCEPTED", remainingQuantity |-> 0,
             trades |-> <<>>, orderUpdates |-> <<>>, bookChanged |-> FALSE,
             remaining |-> o.quantity]

\* The incoming order is one of the two that traded.
IsOwnTrade(o, t) == o.orderId \in {t.buyOrderId, t.sellOrderId}

\* Mutant: what is left is only worked out for a BUY order.
TranslateTradeOfBuyer(o, acc, t) ==
    [acc EXCEPT !.trades = Append(@, [tradeId |-> t.tradeId, price |-> t.price,
                                      quantity |-> t.quantity]),
                !.remaining = IF t.buyOrderId = o.orderId THEN @ - t.quantity ELSE @]

\* A trade: reported, and taken off what the incoming order has left.
TranslateTrade(o, acc, t) ==
    [acc EXCEPT !.trades = Append(@, [tradeId |-> t.tradeId, price |-> t.price,
                                      quantity |-> t.quantity]),
                !.remaining = IF IsOwnTrade(o, t) THEN @ - t.quantity ELSE @]

\* Mutant: no marker for "not known".
TranslateFillZero(o, acc, id, status) ==
    LET left == IF status = "FILLED" \/ id # o.orderId THEN 0 ELSE acc.remaining
        sent == [acc EXCEPT !.orderUpdates = Append(@, OrderUpdate(id, status, left))]
    IN  IF id = o.orderId
        THEN [sent EXCEPT !.status = status, !.remainingQuantity = left] ELSE sent

\* A fill event.  The engine does not say what a resting order has left after
\* a partial fill; the adapter writes -1 for it.
TranslateFill(o, acc, id, status) ==
    IF id = o.orderId
    THEN LET left == IF status = "FILLED" THEN 0 ELSE acc.remaining
         IN  [acc EXCEPT !.status = status, !.remainingQuantity = left,
                         !.orderUpdates = Append(@, OrderUpdate(id, status, left))]
    ELSE [acc EXCEPT !.orderUpdates = Append(@, OrderUpdate(id, status,
                                          IF status = "FILLED" THEN 0 ELSE -1))]

\* One turn of the loop over the events.
Translate(o, acc, ev) ==
    CASE ev.type = "TRADE_EXECUTED"          -> TranslateTrade(o, acc, ev.trade)
      [] ev.type = "ORDER_COMPLETELY_FILLED" -> TranslateFill(o, acc, ev.orderId, "FILLED")
      [] ev.type = "ORDER_PARTIALLY_FILLED"  -> TranslateFill(o, acc, ev.orderId, "PARTIALLY_FILLED")
      [] ev.type = "ORDER_BOOK_CHANGED"      -> [acc EXCEPT !.bookChanged = TRUE]
      [] OTHER                               -> acc

\* Mutant: any MARKET order with something left is rejected.
RejectsUnfilled(o, acc) == o.orderType = "MARKET" /\ acc.remaining > 0

\* No fill was reported for the incoming order, and it cannot rest.
Rejects(o, acc) == /\ acc.status = "ACCEPTED"
                   /\ o.orderType = "MARKET" /\ acc.remaining = o.quantity

\* The loop.
Translated(o, evs) ==
    LET after[n \in 0 .. Len(evs)] ==
            IF n = 0 THEN Blank(o) ELSE Translate(o, after[n - 1], evs[n])
    IN  after[Len(evs)]

\* What placeOrder returns for the order o and the event vector evs.
EngineResult(o, evs) ==
    LET acc == Translated(o, evs)
    IN  [kind |-> "place", accepted |-> ~Rejects(o, acc), orderId |-> o.orderId,
         status |-> acc.status,
         remainingQuantity |-> IF acc.status = "ACCEPTED" THEN acc.remaining
                                                          ELSE acc.remainingQuantity,
         trades |-> acc.trades, orderUpdates |-> acc.orderUpdates,
         bookChanged |-> acc.bookChanged]

\* From the engine's last event to the unlock.
AdapterReply ==
    /\ Finish
    /\ result' = EngineResult(order, events')
    /\ UNCHANGED nextOrderId

-----------------------------------------------------------------------------
(* The other calls.                                                        *)

\* Mutant: success whatever the engine said.
CancelResultAlways(id, evs) == [kind |-> "cancel", orderId |-> id, success |-> TRUE]

CancelResult(id, evs) == [kind |-> "cancel", orderId |-> id, success |-> evs # <<>>]

\* cancelOrder, for any id: one never handed out is one the book does not know.
AdapterCancel(id) ==
    /\ EngineCancel(id)
    /\ result' = CancelResult(id, events')
    /\ UNCHANGED nextOrderId

\* The engine's loop, with the mutex held.
AdapterMatch == Match /\ UNCHANGED <<nextOrderId, result>>

AdapterNext ==
    \/ \E req \in PlaceOrderRequest : AdapterPlace(req)
    \/ AdapterMatch
    \/ AdapterReply
    \/ \E id \in OrderIds : AdapterCancel(id)

AdapterSpec == AdapterInit /\ [][AdapterNext]_adapterVars

\* A call, once begun, is straight-line code that waits for nothing.
FairAdapterSpec == /\ AdapterSpec
                   /\ WF_adapterVars(AdapterMatch) /\ WF_adapterVars(AdapterReply)

\* Mutant: an update with nothing left is skipped too.
ForwardedPositive(updates) == SelectSeq(updates, LAMBDA u : u.remainingQuantity > 0)

\* Mutant: the updates with the -1 are sent on too.
ForwardedAll(updates) == updates

\* The updates handlePlaceOrder forwards: those with the -1 are skipped.
Forwarded(updates) ==
    LET upTo[n \in 0 .. Len(updates)] ==
            IF n = 0 THEN <<>>
            ELSE IF updates[n].remainingQuantity >= 0
            THEN Append(upTo[n - 1], updates[n]) ELSE upTo[n - 1]
    IN  upTo[Len(updates)]

-----------------------------------------------------------------------------
(* Properties.                                                             *)

\* The order with this id, as it was placed.
Placed(id) == submitted[ArrivalOf(id)]

\* placeOrder has returned and no other call has been made.
PlaceReturned == result.kind = "place"

\* The status and the remaining quantity in the result of placeOrder are those
\* of the order after the call, whatever sequence of fills led there.
ResultIsTrue ==
    PlaceReturned =>
        LET o == Placed(result.orderId)
        IN  /\ result.remainingQuantity = Unfilled(o)
            /\ result.status = "FILLED" <=> Unfilled(o) = 0
            /\ result.status = "ACCEPTED" <=> Unfilled(o) = o.quantity
            /\ result.trades =
                  [i \in DOMAIN ReportedTrades |->
                      [tradeId |-> ReportedTrades[i].tradeId,
                       price |-> ReportedTrades[i].price,
                       quantity |-> ReportedTrades[i].quantity]]

\* A rejected order left no trace, and an accepted one did: it is rejected
\* exactly when it neither traded nor rests.  So a client told REJECTED can
\* never find that its order was executed, and the book, which the engine
\* reports as changed by every call, is broadcast only when it has changed.
RejectedLeavesNoTrace ==
    PlaceReturned =>
        (result.accepted <=> \/ ReportedTrades # <<>>
                             \/ result.orderId \in DOMAIN orderLocations)

\* Every update that is sent on tells the truth about its order after the
\* call: what is really left, and FILLED exactly if nothing is.  A FILLED order
\* has left the book, and what is left of a LIMIT order rests there.  Nothing is
\* said of where a MARKET order's remainder is: server/protocol.md:207 calls
\* PARTIALLY_FILLED "Order partially filled, remainder resting", but the code
\* sends it of a MARKET order whose remainder it drops.
UpdatesAreTrue ==
    PlaceReturned =>
        \A i \in DOMAIN Forwarded(result.orderUpdates) :
            LET u == Forwarded(result.orderUpdates)[i]
                o == Placed(u.orderId)
            IN  /\ u.remainingQuantity = Unfilled(o)
                /\ u.status = "FILLED" <=> u.remainingQuantity = 0
                /\ u.status = "FILLED" => u.orderId \notin DOMAIN orderLocations
                /\ u.status # "FILLED" /\ o.orderType = "LIMIT" =>
                      u.orderId \in DOMAIN orderLocations

\* A cancellation that reports success took a resting order out of the book,
\* and one that reports failure took none.
CancelResultIsTrue ==
    [][result'.kind = "cancel" =>
          /\ result'.success <=> result'.orderId \in DOMAIN orderLocations
          /\ DOMAIN orderLocations' = DOMAIN orderLocations \ {result'.orderId}]_adapterVars

\* server/protocol.md:30: "ORDER_UPDATE | Broadcast (all) | An order's status
\* changed" (and :311, "for each affected order"): every order that traded in
\* the call is the subject of an update that is sent on.
EveryAffectedOrderUpdated ==
    PlaceReturned =>
        \A i \in DOMAIN ReportedTrades :
            \A id \in {ReportedTrades[i].buyOrderId, ReportedTrades[i].sellOrderId} :
                \E j \in DOMAIN Forwarded(result.orderUpdates) :
                    Forwarded(result.orderUpdates)[j].orderId = id

\* The adapter calls the engine only as the engine expects to be called: with
\* a fresh id, nothing traded yet and no call in progress.  So everything
\* that holds of the engine holds of the engine inside the server.
UsesEngine == EngineSpec
=============================================================================
