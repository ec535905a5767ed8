----------------------------- MODULE OrderServer -----------------------------
(***************************************************************************)
(* server/src/RequestHandler.cpp and Metrics.cpp around the engine adapter:*)
(* the handlers of several clients at once, in threads of the pool.        *)
(*                                                                         *)
(* A handler holds engineMutex_ for its engine call and for storing the    *)
(* number of active orders.  All the rest runs without it: the counters,   *)
(* the second look at the book, and the sending of what the call led to.   *)
(* Messages that validation refuses touch nothing and are left out.        *)
(* The clients stay connected, and told[c] is what has been posted to the  *)
(* session of c, in order: WebSocketSession shows that this is what the    *)
(* client receives.  It also deals with the contents of the book message,  *)
(* which are left out here.                                                *)
(*                                                                         *)
(* The counters are relaxed atomics, updated and read one at a time; the   *)
(* loads of a snapshot are not ordered.                                    *)
(***************************************************************************)
EXTENDS EngineAdapter

CONSTANTS Client, NoClient,
          MaxRequests           \* bound: the requests of all clients

\* Clients are numbered in the order in which a broadcast serves them: that of
\* the unordered_set of sessions, which stays as it is while the set does.
ASSUME ServerAssumption == /\ Client \subseteq Nat /\ NoClient \notin Client
                           /\ MaxRequests \in Nat

VARIABLES
    engineMutex,    \* the client whose handler holds engineMutex_
    pc,             \* where the handler of a client stands
    call,           \* the local engineResult or cancelResult
    counted,        \* the trades of call already passed to recordTrade
    loaded,         \* the counters a snapshot has read so far
    outbox,         \* what onRead has yet to send, and to whom
    metrics,
    told,           \* what was posted to each session
    asked,          \* history: how many trades c was told of when it asked for METRICS
    requests        \* how many requests were handled

handlerVars == <<pc, call, counted, loaded, outbox>>
serverVars  == <<adapterVars, engineMutex, handlerVars, metrics, told, asked, requests>>

Counter == {"ordersProcessed", "tradesExecuted", "activeOrders", "totalVolume"}

ServerInit ==
    /\ AdapterInit
    /\ engineMutex = NoClient
    /\ pc = [c \in Client |-> "idle"] /\ call = [c \in Client |-> NoResult]
    /\ counted = [c \in Client |-> 0] /\ loaded = [c \in Client |-> <<>>]
    /\ outbox = [c \in Client |-> <<>>]
    /\ metrics = [n \in Counter |-> 0]
    /\ told = [c \in Client |-> <<>>] /\ asked = [c \in Client |-> 0]
    /\ requests = 0

Goto(c, l) == pc' = [pc EXCEPT ![c] = l]

\* onRead has a message and starts its handler.
Begin(c, l) == /\ pc[c] = "idle" /\ requests < MaxRequests
               /\ requests' = requests + 1 /\ Goto(c, l)

-----------------------------------------------------------------------------
(* Messages.                                                               *)

Msg(type, id)            == [type |-> type, id |-> id]
StatusMsg(id, s, left)   == [type |-> "ORDER_STATUS", id |-> id, status |-> s, remaining |-> left]
TradeMsg(t)              == [type |-> "TRADE", id |-> t.tradeId, quantity |-> t.quantity]
BookMsg                  == [type |-> "ORDER_BOOK"]
Rejected                 == [type |-> "ORDER_REJECTED"]

\* The broadcasts of a placement, the book's excepted.
PlaceBroadcasts(r) ==
    LET updates == Forwarded(r.orderUpdates)
    IN  [i \in DOMAIN r.trades |-> TradeMsg(r.trades[i])] \o
        [i \in DOMAIN updates |-> StatusMsg(updates[i].orderId, updates[i].status,
                                            updates[i].remainingQuantity)]
        \o (IF r.bookChanged THEN <<BookMsg>> ELSE <<>>)

\* onRead sends the direct response, then every broadcast to every client.
Outgoing(c, direct, broadcasts) ==
    <<[to |-> {c}, msg |-> direct]>> \o
    [i \in DOMAIN broadcasts |-> [to |-> Client, msg |-> broadcasts[i]]]

\* The HandleResult of a call that succeeded.
HandleResult(c) ==
    IF call[c].kind = "place"
    THEN Outgoing(c, Msg("ORDER_ACCEPTED", call[c].orderId), PlaceBroadcasts(call[c]))
    ELSE Outgoing(c, Msg("ORDER_CANCELLED", call[c].orderId),
                  <<StatusMsg(call[c].orderId, "CANCELLED", 0), BookMsg>>)

-----------------------------------------------------------------------------
(* With engineMutex_ held.                                                 *)

\* handlePlaceOrder takes the mutex and enters the engine.
HandlePlaceOrder(c, req) ==
    /\ engineMutex = NoClient /\ engineMutex' = c
    /\ Begin(c, "engine")
    /\ AdapterPlace(req)
    /\ UNCHANGED <<call, counted, loaded, outbox, metrics, told, asked>>

\* The engine's loop ...
EngineStep(c) ==
    /\ pc[c] = "engine"
    /\ AdapterMatch
    /\ UNCHANGED <<engineMutex, handlerVars, metrics, told, asked, requests>>

\* ... and its return.
EngineReturns(c) ==
    /\ pc[c] = "engine"
    /\ AdapterReply
    /\ call' = [call EXCEPT ![c] = result']
    /\ Goto(c, "returned")
    /\ UNCHANGED <<engineMutex, counted, loaded, outbox, metrics, told, asked, requests>>

\* Mutant: the mutex is not taken.
HandleCancelUnlocked(c, id) ==
    /\ Begin(c, "returned")
    /\ AdapterCancel(id)
    /\ call' = [call EXCEPT ![c] = result']
    /\ UNCHANGED <<engineMutex, counted, loaded, outbox, metrics, told, asked>>

\* handleCancelOrder takes the mutex; the engine call is one step.
HandleCancelOrder(c, id) ==
    /\ engineMutex = NoClient /\ engineMutex' = c
    /\ Begin(c, "returned")
    /\ AdapterCancel(id)
    /\ call' = [call EXCEPT ![c] = result']
    /\ UNCHANGED <<counted, loaded, outbox, metrics, told, asked>>

Succeeded(r) == IF r.kind = "place" THEN r.accepted ELSE r.success

ActiveOrderCount == Cardinality(OpenOrders("BUY")) + Cardinality(OpenOrders("SELL"))

\* setActiveOrders(getActiveOrderCount()), the unlock, and the rejection.
\* recordCancel, which a cancellation calls next, has an empty body.
SetActiveOrders(c) ==
    /\ pc[c] = "returned"
    /\ metrics' = [metrics EXCEPT !.activeOrders = ActiveOrderCount]
    /\ engineMutex' = NoClient
    /\ IF Succeeded(call[c])
       THEN /\ Goto(c, IF call[c].kind = "place" THEN "recordOrder" ELSE "book")
            /\ UNCHANGED outbox
       ELSE /\ Goto(c, "sending")
            /\ outbox' = [outbox EXCEPT ![c] = Outgoing(c, Rejected, <<>>)]
    /\ UNCHANGED <<adapterVars, call, counted, loaded, told, asked, requests>>

-----------------------------------------------------------------------------
(* Without it.                                                             *)

\* Another trade of the call is left for recordTrade.
MoreTrades(c) == counted'[c] < Len(call[c].trades)

\* Mutant: the trades are not passed to recordTrade.
RecordOrderOnly(c) ==
    /\ pc[c] = "recordOrder"
    /\ metrics' = [metrics EXCEPT !.ordersProcessed = @ + 1]
    /\ Goto(c, "book")
    /\ UNCHANGED <<adapterVars, engineMutex, call, counted, loaded, outbox, told, asked, requests>>

RecordOrder(c) ==
    /\ pc[c] = "recordOrder"
    /\ metrics' = [metrics EXCEPT !.ordersProcessed = @ + 1]
    /\ UNCHANGED counted
    /\ Goto(c, IF MoreTrades(c) THEN "recordTrade" ELSE "book")
    /\ UNCHANGED <<adapterVars, engineMutex, call, loaded, outbox, told, asked, requests>>

\* recordTrade: its first counter ...
RecordTrade(c) ==
    /\ pc[c] = "recordTrade"
    /\ metrics' = [metrics EXCEPT !.tradesExecuted = @ + 1]
    /\ Goto(c, "recordVolume")
    /\ UNCHANGED <<adapterVars, engineMutex, call, counted, loaded, outbox, told, asked, requests>>

\* Mutant: only the first trade of a call is counted.
RecordVolumeOnce(c) ==
    /\ pc[c] = "recordVolume"
    /\ counted' = [counted EXCEPT ![c] = @ + 1]
    /\ metrics' = [metrics EXCEPT !.totalVolume = @ + call[c].trades[counted'[c]].quantity]
    /\ Goto(c, "book")
    /\ UNCHANGED <<adapterVars, engineMutex, call, loaded, outbox, told, asked, requests>>

\* Mutant: the volume of both orders of a trade is added.
RecordVolumeOfBoth(c) ==
    /\ pc[c] = "recordVolume"
    /\ counted' = [counted EXCEPT ![c] = @ + 1]
    /\ metrics' = [metrics EXCEPT !.totalVolume = @ + 2 * call[c].trades[counted'[c]].quantity]
    /\ Goto(c, IF MoreTrades(c) THEN "recordTrade" ELSE "book")
    /\ UNCHANGED <<adapterVars, engineMutex, call, loaded, outbox, told, asked, requests>>

\* ... and its second.
RecordVolume(c) ==
    /\ pc[c] = "recordVolume"
    /\ counted' = [counted EXCEPT ![c] = @ + 1]
    /\ metrics' = [metrics EXCEPT !.totalVolume = @ + call[c].trades[counted'[c]].quantity]
    /\ Goto(c, IF MoreTrades(c) THEN "recordTrade" ELSE "book")
    /\ UNCHANGED <<adapterVars, engineMutex, call, loaded, outbox, told, asked, requests>>

\* getOrderBook waits for the adapter's own mutex, held during an engine call.
GetOrderBook(c) ==
    /\ pc[c] = "book" /\ order = NoOrder
    /\ outbox' = [outbox EXCEPT ![c] = HandleResult(c)]
    /\ Goto(c, "sending")
    /\ UNCHANGED <<adapterVars, engineMutex, call, counted, loaded, metrics, told, asked, requests>>

\* The front of the outbox is posted to the next session it is for.  After the
\* last one the handler returns and its locals are gone.
SendOne(c) ==
    /\ pc[c] = "sending"
    /\ LET front == Head(outbox[c])
           t     == Min(front.to)
           left  == front.to \ {t}
       IN  /\ told' = [told EXCEPT ![t] = Append(@, front.msg)]
           /\ outbox' = [outbox EXCEPT ![c] =
                            IF left = {} THEN Tail(@) ELSE [@ EXCEPT ![1].to = left]]
    /\ IF outbox'[c] = <<>>
       THEN /\ Goto(c, "idle")
            /\ call' = [call EXCEPT ![c] = NoResult]
            /\ counted' = [counted EXCEPT ![c] = 0]
            /\ loaded' = [loaded EXCEPT ![c] = <<>>]
            /\ asked' = [asked EXCEPT ![c] = 0]
       ELSE UNCHANGED <<pc, call, counted, loaded, asked>>
    /\ UNCHANGED <<adapterVars, engineMutex, metrics, requests>>

-----------------------------------------------------------------------------
(* GET_METRICS.                                                            *)

TradesTold(c) == {i \in DOMAIN told[c] : told[c][i].type = "TRADE"}

HandleGetMetrics(c) ==
    /\ Begin(c, "loading")
    /\ asked' = [asked EXCEPT ![c] = Cardinality(TradesTold(c))]
    /\ UNCHANGED <<adapterVars, engineMutex, call, counted, loaded, outbox, metrics, told>>

\* One load of Metrics::snapshot; after the last the reply is ready.
LoadCounter(c) ==
    /\ pc[c] = "loading"
    /\ \E n \in Counter \ DOMAIN loaded[c] :
          loaded' = [loaded EXCEPT ![c] = [k \in DOMAIN loaded[c] \cup {n} |->
                        IF k = n THEN metrics[k] ELSE loaded[c][k]]]
    /\ IF DOMAIN loaded'[c] = Counter
       THEN /\ outbox' = [outbox EXCEPT ![c] =
                             Outgoing(c, [type |-> "METRICS", data |-> loaded'[c]], <<>>)]
            /\ Goto(c, "sending")
       ELSE UNCHANGED <<outbox, pc>>
    /\ UNCHANGED <<adapterVars, engineMutex, call, counted, metrics, told, asked, requests>>

Handler(c) == \/ EngineStep(c) \/ EngineReturns(c) \/ SetActiveOrders(c)
              \/ RecordOrder(c) \/ RecordTrade(c) \/ RecordVolume(c)
              \/ GetOrderBook(c) \/ SendOne(c) \/ LoadCounter(c)

ServerNext ==
    \E c \in Client :
        \/ \E req \in PlaceOrderRequest : HandlePlaceOrder(c, req)
        \/ \E id \in OrderIds : HandleCancelOrder(c, id)
        \/ HandleGetMetrics(c)
        \/ Handler(c)

\* No handler is running.
AllIdle == \A c \in Client : pc[c] = "idle"

\* The bound is reached and every request has been answered.  Without this
\* step TLC would take it for a deadlock; any other state without a next one
\* is a handler that waits for a mutex nobody will release.
AllAnswered == AllIdle /\ requests = MaxRequests /\ UNCHANGED serverVars

ServerSpec == ServerInit /\ [][ServerNext \/ AllAnswered]_serverVars

-----------------------------------------------------------------------------
(* Properties.                                                             *)

\* engineMutex_ is held by the one handler whose engine call is under way and
\* whose number of active orders is not stored yet; the engine is at work only
\* for that handler.
EngineExclusive ==
    /\ \A c \in Client : pc[c] \in {"engine", "returned"} <=> engineMutex = c
    /\ order # NoOrder <=> \E c \in Client : pc[c] = "engine"

\* What the engine has done that is to be counted: a MARKET order that finds
\* nothing is rejected and does not count.
ServedOrders == {o \in ToSet(submitted) : o.orderType = "LIMIT" \/ Traded(o.orderId) > 0}
TradedVolume == Total([i \in DOMAIN recentTrades |-> recentTrades[i].quantity])

\* No handler is between its engine call and its last counter.
Settled == \A c \in Client : pc[c] \in {"idle", "book", "sending", "loading"}

\* The orders placed and cancelled: what ordersProcessed is said to count.
OrdersAndCancels == Cardinality(ServedOrders) + Cardinality(cancelled)

\* The counters agree with the engine once nobody is about to update them;
\* the number of active orders does whenever engineMutex_ is free, because
\* it is stored before another call can change it again.  ordersProcessed
\* counts every order served; whether a cancellation counts as one more is
\* left open here and the subject of CancelsCounted.
MetricsAgree ==
    /\ engineMutex = NoClient => metrics.activeOrders = ActiveOrderCount
    /\ Settled => /\ metrics.tradesExecuted = Len(recentTrades)
                  /\ metrics.totalVolume = TradedVolume
                  /\ metrics.ordersProcessed \in Cardinality(ServedOrders) .. OrdersAndCancels

\* server/src/Metrics.cpp:18: "Cancels counted as processed orders", and
\* server/protocol.md:285, "Total orders processed since server start": when
\* every handler has returned, ordersProcessed is the orders placed and those
\* cancelled.
CancelsCounted == (\A c \in Client : pc[c] = "idle") => metrics.ordersProcessed = OrdersAndCancels

\* The messages of this type anybody was told.
Told(type) == UNION {{m \in ToSet(told[c]) : m.type = type} : c \in Client}

\* The volume of the recorded trades that are among the messages ms.
VolumeIn(ms) == Total([i \in DOMAIN recentTrades |->
    IF TradeMsg(recentTrades[i]) \in ms THEN recentTrades[i].quantity ELSE 0])

\* While requests are being handled the counters lie between what clients have
\* been told and what the engine has done: no value is "fabricated"
\* (server/protocol.md:291), and nothing is announced before it is counted.
\* And no trade is announced that the engine has not made.  Whether a
\* cancellation counts as an order is left open here, see CancelsCounted.
MetricsBetween ==
    LET tradesTold == Told("TRADE")
    IN  /\ tradesTold \subseteq {TradeMsg(recentTrades[i]) : i \in DOMAIN recentTrades}
        /\ metrics.ordersProcessed \in
              Cardinality(Told("ORDER_ACCEPTED")) .. OrdersAndCancels
        /\ metrics.tradesExecuted \in Cardinality(tradesTold) .. Len(recentTrades)
        /\ metrics.totalVolume \in VolumeIn(tradesTold) .. TradedVolume

\* A METRICS reply counts every trade its client had been told of when it
\* asked, though the counters are read one by one while others are updated.
MetricsReplyCovers ==
    \A c \in Client :
        DOMAIN loaded[c] = Counter => asked[c] <= loaded[c].tradesExecuted

\* Which of the messages c was told pass Test, the ids they are about, ...
ToldOf(c, Test(_))  == {i \in DOMAIN told[c] : Test(told[c][i])}
IdsTold(c, Test(_)) == {told[c][i].id : i \in ToldOf(c, Test)}

\* ... and that no two of them are about one id.
ToldOnce(c, Test(_)) ==
    \A i, j \in ToldOf(c, Test) : told[c][i].id = told[c][j].id => i = j

IsTrade(m)     == m.type = "TRADE"
IsFilled(m)    == m.type = "ORDER_STATUS" /\ m.status = "FILLED"
IsCancelled(m) == m.type = "ORDER_STATUS" /\ m.status = "CANCELLED"
IsEnding(m)    == IsFilled(m) \/ IsCancelled(m)

\* Every client learns how every order ended.  A cancellation and a fill of
\* one order race for the engine, and what is announced afterwards agrees
\* with who won: nobody is ever told that it was filled and that it was
\* cancelled, or one of them twice, and once the handlers are done everybody
\* has been told of each trade, once, and of each order that has left the book.
OutcomeTold ==
    \A c \in Client :
        /\ ToldOnce(c, IsTrade) /\ ToldOnce(c, IsEnding)
        /\ AllIdle =>
              /\ IdsTold(c, IsTrade) = {recentTrades[i].tradeId : i \in DOMAIN recentTrades}
              /\ IdsTold(c, IsCancelled) = cancelled
              /\ IdsTold(c, IsFilled) =
                    {o.orderId : o \in {x \in ToSet(submitted) : Unfilled(x) = 0}}

\* server/protocol.md:309-311, the sequence of a placement: ORDER_ACCEPTED, then
\* TRADE and ORDER_UPDATE: a client hears that its order was accepted before
\* it hears what became of it.
AcceptedFirst ==
    \A c \in Client : \A i, j \in DOMAIN told[c] :
        (/\ told[c][i].type = "ORDER_ACCEPTED" /\ told[c][j].type = "ORDER_STATUS"
         /\ told[c][i].id = told[c][j].id) => i < j
=============================================================================
