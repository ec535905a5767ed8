---------------------------- MODULE PriceTimeBook ----------------------------
(***************************************************************************)
(* What a price-time priority book promises (engine/README.md, "What Is    *)
(* Price-Time Priority?" and "How Matching Works"), without levels, lists, *)
(* iterators or an index: a set of resting orders, each stamped with its   *)
(* arrival, and one order at a time being matched against them.            *)
(* MatchingEngine implements this specification.                           *)
(***************************************************************************)
EXTENDS Integers, Sequences

CONSTANTS OrderIds, MaxPrice, MaxQuantity,
          NoOrder       \* no order is being matched

VARIABLES resting,      \* the orders that can be traded with or cancelled
          taker,        \* the order being matched, or NoOrder
          trades,       \* every trade, oldest first
          arrivals      \* how many orders have arrived

ptVars == <<resting, taker, trades, arrivals>>

\* An order as it arrives.
Arrival == [orderId : OrderIds, side : {"BUY", "SELL"},
            orderType : {"LIMIT", "MARKET"}, price : 0..MaxPrice,
            remaining : 1..MaxQuantity, arrival : Nat]

\* The taker is willing to trade with m.
Acceptable(t, m) == /\ m.side # t.side
                    /\ \/ t.orderType = "MARKET"
                       \/ t.side = "BUY"  /\ m.price <= t.price
                       \/ t.side = "SELL" /\ m.price >= t.price

\* m has priority over n: a better price for the taker, or the same price
\* and an earlier arrival.
Before(m, n) == \/ m.side = "SELL" /\ m.price < n.price
                \/ m.side = "BUY"  /\ m.price > n.price
                \/ m.price = n.price /\ m.arrival < n.arrival

\* m is the order of its side that price-time priority selects.
First(m) == \A n \in resting \ {m} : n.side = m.side => Before(m, n)

Less(o, q) == [o EXCEPT !.remaining = @ - q]

-----------------------------------------------------------------------------

PTInit == resting = {} /\ taker = NoOrder /\ trades = <<>> /\ arrivals = 0

\* A new order arrives and is matched next.
Arrive == /\ taker = NoOrder
          /\ arrivals' = arrivals + 1
          /\ taker' \in {o \in Arrival : o.arrival = arrivals'}
          /\ UNCHANGED <<resting, trades>>

\* The taker trades with the first acceptable resting order, at that order's
\* price, as much as both have left.
TradeFirst ==
    /\ taker # NoOrder /\ taker.remaining > 0
    /\ \E m \in resting :
          /\ Acceptable(taker, m) /\ First(m)
          /\ LET q == IF taker.remaining < m.remaining
                      THEN taker.remaining ELSE m.remaining
             IN  /\ trades' = Append(trades,
                        [buyOrderId |-> IF taker.side = "BUY" THEN taker.orderId
                                                              ELSE m.orderId,
                         sellOrderId |-> IF taker.side = "BUY" THEN m.orderId
                                                               ELSE taker.orderId,
                         price |-> m.price, quantity |-> q])
                 /\ taker' = Less(taker, q)
                 /\ resting' = (resting \ {m}) \cup
                                  (IF q = m.remaining THEN {} ELSE {Less(m, q)})
    /\ UNCHANGED arrivals

\* Nothing acceptable is left: what remains of a LIMIT order rests, what
\* remains of a MARKET order is discarded.
Settle == /\ taker # NoOrder
          /\ taker.remaining = 0 \/ \A m \in resting : ~Acceptable(taker, m)
          /\ resting' = IF taker.remaining > 0 /\ taker.orderType = "LIMIT"
                        THEN resting \cup {taker} ELSE resting
          /\ taker' = NoOrder
          /\ UNCHANGED <<trades, arrivals>>

\* A resting order is withdrawn between two orders.
Withdraw == /\ taker = NoOrder
            /\ \E m \in resting : resting' = resting \ {m}
            /\ UNCHANGED <<taker, trades, arrivals>>

PTNext == Arrive \/ TradeFirst \/ Settle \/ Withdraw

PTSpec == PTInit /\ [][PTNext]_ptVars
=============================================================================
