------------------------------ MODULE OrderBook ------------------------------
(***************************************************************************)
(* The limit order book of engine/src/OrderBook.cpp.                       *)
(*                                                                         *)
(* The code writes every operation twice, once for the map `bids' (sorted  *)
(* from the highest price) and once for the map `asks' (sorted from the    *)
(* lowest).  Here levels["BUY"] is bids and levels["SELL"] is asks, and an *)
(* operation takes the side as its parameter.  levels[s] is a partial      *)
(* function: a price is in its domain iff the map has an entry for it, so  *)
(* an entry whose list is empty is a state of its own, as it is in C++.    *)
(*                                                                         *)
(* orderLocations is the index used by cancellation.  The list iterator it *)
(* holds is the list node that carries the same order id: the caller gives *)
(* every live order an id of its own (engine/README.md, Integration Notes),*)
(* so the id names the node, and an id without such a node is a dangling   *)
(* iterator.  The fields symbol and timestamp of an order are never read.  *)
(***************************************************************************)
EXTENDS Integers, Sequences, FiniteSets, SequencesExt

CONSTANTS OrderIds,     \* the order ids a caller may use
          MaxPrice,     \* prices are 1..MaxPrice
          MaxQuantity   \* quantities are 1..MaxQuantity

ASSUME BookAssumption == MaxPrice \in Nat /\ MaxQuantity \in Nat

VARIABLES levels,          \* bids and asks: side -> price -> list of orders
          orderLocations   \* order id -> the side and price of its list node

bookVars == <<levels, orderLocations>>

Side      == {"BUY", "SELL"}
OrderType == {"LIMIT", "MARKET"}
Price     == 1..MaxPrice
Quantity  == 1..MaxQuantity

\* A MARKET order carries the price 0.0 of a default-constructed request.
Order == [orderId : OrderIds, side : Side, orderType : OrderType,
          price : Price \cup {0}, quantity : Quantity,
          remainingQuantity : Quantity \cup {0}]

Opposite(s) == IF s = "BUY" THEN "SELL" ELSE "BUY"

\* The order in which the map of side s keeps its keys.
Better(s, p, q) == IF s = "BUY" THEN p > q ELSE p < q

-----------------------------------------------------------------------------
(* Reading the book.                                                       *)

\* The key of levels[s].begin().
BestPrice(s) == CHOOSE p \in DOMAIN levels[s] :
                   \A q \in DOMAIN levels[s] \ {p} : Better(s, p, q)

\* bestBid() / bestAsk() return a non-null pointer.
HasBest(s) == /\ DOMAIN levels[s] # {}
              /\ levels[s][BestPrice(s)] # <<>>

\* The order the pointer refers to: front() of the best level.
BestOrder(s) == Head(levels[s][BestPrice(s)])

\* Every resting order of side s (getOpenOrders lists both sides).
OpenOrders(s) == UNION {ToSet(levels[s][p]) : p \in DOMAIN levels[s]}

\* The sum of a sequence of numbers.
Total(ns) ==
    LET upTo[n \in 0 .. Len(ns)] == IF n = 0 THEN 0 ELSE upTo[n - 1] + ns[n]
    IN  upTo[Len(ns)]

\* Mutant: the quantities as placed, not what remains of them.
LevelQuantityAsPlaced(level) == Total([i \in DOMAIN level |-> level[i].quantity])

\* The sum that getBidDepth and getAskDepth compute for one price level.
LevelQuantity(level) == Total([i \in DOMAIN level |-> level[i].remainingQuantity])

\* The i-th key of levels[s] in the order of the map.
NthPrice(s, i) ==
    CHOOSE p \in DOMAIN levels[s] :
        Cardinality({q \in DOMAIN levels[s] : Better(s, q, p)}) = i - 1

\* getBidDepth(n) / getAskDepth(n): the best n levels, best first.
Depth(s, n) ==
    [i \in 1 .. Min({n, Cardinality(DOMAIN levels[s])}) |->
        [price |-> NthPrice(s, i), quantity |-> LevelQuantity(levels[s][NthPrice(s, i)])]]

-----------------------------------------------------------------------------
(* The operations.                                                         *)

\* Mutant: a level is never erased.
SetLevelKeepsEmpty(s, p, list) ==
    [levels EXCEPT ![s] = [q \in DOMAIN levels[s] \cup {p} |->
                              IF q = p THEN list ELSE levels[s][q]]]

\* levels with the list at price p of side s replaced, the entry created by
\* operator[] when it is missing and erased when the list is left empty.
SetLevel(s, p, list) ==
    [levels EXCEPT ![s] =
        IF list = <<>>
        THEN [q \in DOMAIN levels[s] \ {p} |-> levels[s][q]]
        ELSE [q \in DOMAIN levels[s] \cup {p} |->
                 IF q = p THEN list ELSE levels[s][q]]]

\* Mutant: the index entry stays behind.
ForgetNothing(id) == orderLocations

\* orderLocations.erase(id).
ForgetLocation(id) ==
    [i \in DOMAIN orderLocations \ {id} |-> orderLocations[i]]

\* Mutant: push_front.
AddOrderInFront(o) ==
    LET s == o.side
        list == IF o.price \in DOMAIN levels[s] THEN levels[s][o.price] ELSE <<>>
    IN  /\ levels' = SetLevel(s, o.price, <<o>> \o list)
        /\ orderLocations' =
              [i \in DOMAIN orderLocations \cup {o.orderId} |->
                  IF i = o.orderId THEN [side |-> s, price |-> o.price]
                                   ELSE orderLocations[i]]

\* addOrder: push_back on the list of the order's price, and index the node.
AddOrder(o) ==
    LET s == o.side
        list == IF o.price \in DOMAIN levels[s] THEN levels[s][o.price] ELSE <<>>
    IN  /\ levels' = SetLevel(s, o.price, Append(list, o))
        /\ orderLocations' =
              [i \in DOMAIN orderLocations \cup {o.orderId} |->
                  IF i = o.orderId THEN [side |-> s, price |-> o.price]
                                   ELSE orderLocations[i]]

\* removeBestBid / removeBestAsk returning true.
RemoveBest(s) ==
    /\ HasBest(s)
    /\ levels' = SetLevel(s, BestPrice(s), Tail(levels[s][BestPrice(s)]))
    /\ orderLocations' = ForgetLocation(BestOrder(s).orderId)

\* Mutant: the operands of the subtraction swapped.
ReduceBestSwapped(s, quantity) ==
    /\ HasBest(s)
    /\ levels' = [levels EXCEPT ![s][BestPrice(s)][1].remainingQuantity =
                                  quantity - @]
    /\ UNCHANGED orderLocations

\* The engine's write through the pointer bestBid() / bestAsk() returned.
ReduceBest(s, quantity) ==
    /\ HasBest(s)
    /\ levels' = [levels EXCEPT ![s][BestPrice(s)][1].remainingQuantity =
                                  @ - quantity]
    /\ UNCHANGED orderLocations

\* Mutant: the whole level goes with the order.
CancelOrderAndLevel(id) ==
    /\ id \in DOMAIN orderLocations
    /\ levels' = SetLevel(orderLocations[id].side, orderLocations[id].price, <<>>)
    /\ orderLocations' = ForgetLocation(id)

\* cancelOrder returning true: the node at position i of its list is erased.
CancelOrder(id) ==
    /\ id \in DOMAIN orderLocations
    /\ LET s == orderLocations[id].side
           p == orderLocations[id].price
       IN  \E i \in DOMAIN levels[s][p] :
              /\ levels[s][p][i].orderId = id
              /\ levels' = SetLevel(s, p, RemoveAt(levels[s][p], i))
    /\ orderLocations' = ForgetLocation(id)

-----------------------------------------------------------------------------
(* The book on its own: any sequence of calls a correct caller may make.   *)
(* An id may be used again once its order has left the book.               *)

BookInit == /\ levels = [s \in Side |-> <<>>]
            /\ orderLocations = <<>>

\* What a caller may add: a LIMIT order with something left to trade.
Addable(o) == /\ o.orderType = "LIMIT"
              /\ o.price \in Price
              /\ o.remainingQuantity \in 1..o.quantity
              /\ o.orderId \notin DOMAIN orderLocations

\* A fill that leaves something of the best order.
Reducible(s, q) == HasBest(s) /\ q < BestOrder(s).remainingQuantity

BookNext == \/ \E o \in Order : Addable(o) /\ AddOrder(o)
            \/ \E s \in Side : RemoveBest(s)
            \/ \E s \in Side, q \in Quantity : Reducible(s, q) /\ ReduceBest(s, q)
            \/ \E id \in OrderIds : CancelOrder(id)

BookSpec == BookInit /\ [][BookNext]_bookVars

-----------------------------------------------------------------------------
(* Properties.                                                             *)

LevelsTypeOK ==
    /\ levels = [s \in Side |-> levels[s]]
    /\ \A s \in Side : /\ DOMAIN levels[s] \subseteq Price
                       /\ levels[s] \in [DOMAIN levels[s] -> Seq(Order)]

LocationsTypeOK ==
    /\ DOMAIN orderLocations \subseteq OrderIds
    /\ orderLocations \in [DOMAIN orderLocations -> [side : Side, price : Price]]

\* The maps hold well-formed orders under well-formed keys.
BookTypeOK == LevelsTypeOK /\ LocationsTypeOK

\* No price level is left behind empty.  bestBid() and bestAsk() return null
\* when the first level is empty, so an empty level would hide every order
\* behind it: matching would stop and the book could come to rest crossed.
NoEmptyLevel == \A s \in Side : \A p \in DOMAIN levels[s] : levels[s][p] # <<>>

\* No order rests with nothing left to trade: the engine would trade zero
\* with it for ever.
NoSpentOrder ==
    \A s \in Side : \A p \in DOMAIN levels[s] : \A i \in DOMAIN levels[s][p] :
        levels[s][p][i].remainingQuantity > 0

\* Every index entry points at the node that carries its id (no dangling
\* iterator for cancelOrder to erase) ...
IndexSound ==
    \A id \in DOMAIN orderLocations :
        LET loc == orderLocations[id]
        IN  /\ loc.price \in DOMAIN levels[loc.side]
            /\ \E i \in DOMAIN levels[loc.side][loc.price] :
                  levels[loc.side][loc.price][i].orderId = id

\* ... every node is indexed, at the side and price it carries (no order that
\* cannot be cancelled) ...
IndexComplete ==
    \A s \in Side : \A p \in DOMAIN levels[s] : \A i \in DOMAIN levels[s][p] :
        LET o == levels[s][p][i]
        IN  /\ o.side = s /\ o.price = p
            /\ o.orderId \in DOMAIN orderLocations
            /\ orderLocations[o.orderId] = [side |-> s, price |-> p]

\* ... and no list holds two nodes of one id.
NodesDistinct ==
    \A s \in Side : \A p \in DOMAIN levels[s] : \A i, j \in DOMAIN levels[s][p] :
        levels[s][p][i].orderId = levels[s][p][j].orderId => i = j

\* The cancellation index and the lists describe the same orders, after any
\* interleaving of addOrder, removeBest*, cancelOrder and fills: the two are
\* updated by separate statements in all three mutating functions.
IndexConsistent == IndexSound /\ IndexComplete /\ NodesDistinct

\* a is ahead of b in the queue of some price level.
Ahead(a, b) ==
    \E s \in Side : \E p \in DOMAIN levels[s] : \E i, j \in DOMAIN levels[s][p] :
        i < j /\ levels[s][p][i].orderId = a /\ levels[s][p][j].orderId = b

\* Time priority is never taken away: while two orders of one level both
\* rest, no cancellation, fill or removal elsewhere in the list swaps them,
\* and an order that joins a level joins it behind those already there.
QueueOrderKept ==
    [][\A a, b \in DOMAIN orderLocations' :
          Ahead(a, b)' => \/ Ahead(a, b)
                          \/ b \notin DOMAIN orderLocations]_bookVars

\* An operation on one order leaves every other resting order alone: its
\* remaining quantity, and its place in the book, are the same afterwards.
OthersUntouched ==
    [][\E id \in OrderIds : \A s \in Side :
          {o \in OpenOrders(s) : o.orderId # id} =
          {o \in OpenOrders(s)' : o.orderId # id}]_bookVars

\* A book snapshot says what the lists say: best price first on each side,
\* one entry for each of the best n prices, and no resting quantity is
\* missing from or counted twice in an entry.
DepthIsAggregate ==
    \A s \in Side, n \in 0..3 :
        LET d == Depth(s, n)
            shown == {d[i].price : i \in DOMAIN d}
            orders == OpenOrders(s)
        IN  /\ Len(d) = Min({n, Cardinality({o.price : o \in orders})})
            /\ \A i, j \in DOMAIN d : i < j => Better(s, d[i].price, d[j].price)
            /\ \A o \in orders :
                  o.price \notin shown =>
                      Len(d) = n /\ \A p \in shown : Better(s, p, o.price)
            /\ \A i \in DOMAIN d :
                  d[i].quantity =
                      MapThenSumSet(LAMBDA o : o.remainingQuantity,
                                    {o \in orders : o.price = d[i].price})
=============================================================================
