# FinTora: a formal model

FinTora is an exchange in miniature: a C++ limit-order matching engine
(`engine/`), a Boost.Beast WebSocket server around it (`server/`) and a React
trading terminal (`frontend/trading-terminal/`). This directory holds TLA+
models of its core, the TLC configurations that check them on small instances
and TLAPS proofs of the facts that matter most. All paths below are relative
to `src/`, the repository.

## 1. The system

| component | state | operations | talks to |
|---|---|---|---|
| **Order book** `engine/src/OrderBook.cpp` | `bids`, `asks` (sorted maps: price → `std::list<Order>`), `orderLocations` (id → side, price, list iterator) | `addOrder`, `bestBid/Ask`, `removeBestBid/Ask`, `cancelOrder`, `getBidDepth/AskDepth`, `getOpenOrders` | called by the engine, which also writes through the pointer `best*` returns |
| **Matching engine** `engine/src/MatchingEngine.cpp` | the book, `recentTrades`, `nextTradeId`, `nextTimestamp` | `placeOrder`, `cancelOrder` (each returns a vector of events), readers | single-threaded; its callers serialise |
| **Engine adapter** `server/src/EngineAdapter.cpp` | the engine, `nextOrderId_`, a mutex | `placeOrder`, `cancelOrder`, `getOrderBook`, `getActiveOrderCount` | translates the event vector into a result |
| **Request handler** `server/src/RequestHandler.cpp` | `engineMutex_` | `handle`: PLACE_ORDER, CANCEL_ORDER, GET_METRICS | adapter under the mutex; then metrics and the book snapshot without it |
| **Metrics** `server/src/Metrics.cpp` | four relaxed atomics | `recordOrder`, `recordTrade`, `setActiveOrders`, `snapshot` | updated and read by every request |
| **Session** `server/src/WebSocketSession.cpp` | `closed_`, `writeQueue_`, the strand, at most one read and one write | `run`, `onAccept`, `onRead`, `send`/`onSend`, `onWrite`, `disconnect` | handler, client manager, and other sessions' `send` |
| **Client manager** `server/src/ClientManager.cpp` | `sessions_` and a mutex | `addClient`, `removeClient`, `broadcast` | `send` of every session |
| **Protocol** `server/src/Protocol.cpp` | none | parsing, validation, formatting | called by the request handler |
| **Server** `server/src/Server.cpp`, `main.cpp` | acceptor, `io_context`, `gServer` | accept loop, thread pool, signals | makes the sessions |
| **Trading terminal** `frontend/trading-terminal/src` | the list of messages; React state made from it: order list, trades, book, statistics; `socketRef`, `connectionStatus` | `onopen`, `onclose`, `onmessage`, `sendMessage`; one effect per render, on the last message | a WebSocket to the server |
| **Terminal components** `…/src/components` | form input | the order form checks and submits; a Cancel button per listed order | `sendMessage` |

A request runs like this. A pool thread runs `onRead` on the session's strand.
The handler calls the adapter under a mutex, then, **with the mutex released**,
updates the metrics and reads the book again for the broadcast. `onRead` then
sends the direct response to its own session and hands every broadcast to the
client manager, which copies the set of sessions under its lock and calls
`send` on each without it. `send` only posts to the target's strand, where
`onSend` queues the message and starts a write if none is outstanding;
`onWrite` pops it and starts the next.

What is hard to test in this: 

* the book keeps the same information three times (map, list, index) and each
  mutation changes them one after the other, so the interesting failures show
  after long sequences of legal calls;
* `placeOrder` mutates a resting order through a pointer, removes it, rests the
  remainder and reports all of it in an event vector the adapter interprets
  backwards;
* everything in the server after the engine lock is released interleaves with
  other requests, joins and departures;
* the terminal sees the messages through React's renders, of which the last
  message alone counts, and an order's owner only in the ids it was told;
* a signal may arrive in any thread at any moment of the process's life;
* quantities and ids go from a double through `int64_t` to `uint64_t`.

### What makes each part correct

* *Book*: no empty level (it would hide every order behind it), index and
  lists describe the same orders, FIFO within a level, an operation touches one
  order, depth is the aggregate of the lists.
* *Engine*: never crossed, quantity conserved, price-time priority, trades at
  the resting price, events report the whole call, `placeOrder` returns.
* *Adapter*: status, remaining quantity and rejection are what really happened;
  updates that are sent on are true; ids are never reused.
* *Handlers and metrics*: one engine call at a time and no handler stuck; the
  counters agree with the engine when no handler is updating them and show
  nothing fabricated in between; every client is told how every order ended, and
  never two different endings.
* *Sessions*: one write at a time, delivery in posting order without loss,
  every change announced exactly once to whoever was connected throughout,
  direct response first, nobody left without the current book.

* *Protocol*: what the documents call an error is answered with one and reaches
  no engine, and the engine is asked for what the client asked for.
* *Lifecycle*: the Server outlives its handlers, a stop ends the process and
  reaches the terminals, an attempt to connect is not left hanging.
* *Terminal*: own orders only, never shown with less than they have, hidden only
  by a cancellation; no trade twice; `connectionStatus` is true.

The full list of hazards, with the line where each bites and the properties that
watch it, is in `PROJECT.json`.

## 2. The modules

    PriceTimeBook                      abstract: what the engine promises
          ^ refinement
    OrderBook <- MatchingEngine <- EngineAdapter <- OrderServer
        |              |                 |              |
    OrderBook_proofs <- MatchingEngine_proofs <- EngineAdapter_proofs <- OrderServer_proofs
                                       (each EXTENDS the one before it)

    OrderServer <- TradingTerminal <- TradingTerminal_proofs
                                       what a terminal makes of what it is told
                                       (the proofs EXTEND OrderServer_proofs too)
    WebSocketSession <- WebSocketSession_proofs
                                       sessions, strands, broadcasts
    ServerLifecycle <- TerminalSocket <- TerminalSocket_proofs
                                       the process; a terminal's connection to it
    Protocol <- Protocol_proofs        one message, its numbers, and the order form
    MCOrderBook, MCWebSocketSession    symmetry for TLC

**OrderBook.** The code writes every operation twice, for `bids` and `asks`; the
model has `levels[side]`, a partial function from price to list, and one operator
per operation with the side as parameter. A price is in the domain iff the map
has the entry, so an empty level and a dangling index entry are states the model
*can* be in. The list iterator is the node with that order id: ids of live
orders are distinct, as `engine/README.md` (Integration Notes) asks of the
caller. `BookNext` is an arbitrary correct caller, which may use an id again once
its order has left the book. Prices are positive integers because the code only
compares them; `symbol` and `timestamp` of orders are never read.

**MatchingEngine.** `placeOrder` is `PlaceOrder` (entry), `Match` (one trading
iteration of the `while`) and `Finish` (loop exit to return); `order` and
`events` are the parameter and the local vector. Splitting it lets every
invariant be examined between two fills. `EngineCancel` is the whole of
`cancelOrder`. `submitted` and `cancelled` are history that no action reads.

**PriceTimeBook** is the abstract specification: a *set* of resting orders
stamped with their arrival, a taker that trades with the maker no other resting
order precedes by price and then arrival, at that maker's price. It knows no
lists, index, levels or events. `MatchingEngine!PTB` is the refinement mapping.

**EngineAdapter** puts id assignment before the engine's first step and the
translation of the vector after its last. `Translate` is the loop over the
events (`Translated(order, events)` its result), one operator for a trade and one
for a fill; `EngineResult` is what
`placeOrder` returns. `PlaceOrderRequest` is what the protocol's validation lets
through. The adapter's mutex makes a call exclusive, so between `AdapterPlace`
and `AdapterReply` nothing else touches the engine.

**OrderServer** is `RequestHandler` and `Metrics` around the adapter, with a
handler per client. `HandlePlaceOrder` and `HandleCancelOrder` take `engineMutex_`
and enter the engine; `SetActiveOrders` stores the gauge, unlocks and takes the
rejection's early return. After it, and so concurrently with other handlers, come
`RecordOrder`, `RecordTrade` and `RecordVolume` (one atomic operation each),
`GetOrderBook` (which waits for the adapter's own mutex) and `SendOne`, one `send`
of `onRead` at a time. `HandleGetMetrics` starts a snapshot and `LoadCounter` is
one load of it. The atomics are relaxed, so the loads come in any order; each is
otherwise taken to see the latest value. `recordCancel` has an empty body in the
code and is no step here; what its comment says is checked by `cancels_uncounted`.
A client is connected throughout and what it is told is what is *posted* to its
session; that what is posted is delivered in that order is WebSocketSession's
subject, and so is which book a book message shows. `AllAnswered` is a stutter in
the one state where the system may stop.

**WebSocketSession** models each session's strand. Its own handlers run one at a
time, those of two sessions concurrently. `onAccept` and `onRead` are split
exactly where they touch shared state: registration, the engine call, the later
read of the book, each copy of the client set and each `send`. `onSend`,
`onWrite` and `disconnect` touch the session's own state and are one step each.
The book is its version, the number of changes made to it, since all that
matters here is *which* book a snapshot shows; what the events say is the
adapter's business. `changes` and `posted` are history.

**TradingTerminal** puts the terminal of one client, `Viewer`, on top of
OrderServer: `messages` is what its session was posted, up to `rendered`. `Render`
is one render together with its effect. How many messages arrived since the last
one is up to React and the network, so any number may be skipped, and `Effect` is
applied to the last. `openOrders` and `trades` keep the code's operations
(prepend, filter by id, replace by id, cut to `MaxListed` and `MaxShown`). The cut
of the trades to ten and of the orders to twelve are there as constants; in the
run's bounds the lists are never longer.

**ServerLifecycle** is `main.cpp` and `Server.cpp`: the main thread's steps, the
pool in `ioc_.run()`, the chain of accepts, and `signalHandler`, which runs in
whatever thread the system interrupts. `io_context` is external, modelled from
what `run` and `stop` do: a thread holds the scheduler's mutex while it looks for
work or for the stop, and `stop` takes the same mutex. A signal that interrupts
the thread that holds it makes that thread `stuck`. One signal is delivered; the
process may be killed at any time (`Crash`) or fail to start (`Fail`).

**TerminalSocket** adds `useWebSocket.ts`: a production build mounts once
(`MountOnce`), a development build mounts, cleans up and mounts again
(`MountTwice`, StrictMode), which leaves the first socket closing with its handlers
still set. The network and the browser's event loop are external: a socket can be
taken up by the accept loop, opened, dropped at any stage, or lose its server;
open and close events are run in the order in which they were queued.

**Protocol** follows one message from its text to the engine call or the ERROR.
A text either parses or does not; a field is absent, of another kind, a string, or
a number, kept as an integer or as a double as `nlohmann::json` does. Numbers are
counted in halves so that there are fractions, and `MaxInt` is the largest `int64_t`.
`GetInt64` is the library's conversion with its outcomes: cut, wrapped, and, where
C++ leaves a double that does not fit undefined, what compilers produce.
`SubmitForm` is the terminal's form, which makes its own checks in its own type.

`PROJECT.json` maps each definition to the lines it models. Operators whose
comment begins with `Mutant:` are plausible bugs (a dropped guard, an off-by-one,
a missing erase); each property is known to fail when its mutant replaces the
definition it varies.

## 3. What is model-checked

Bounds are constants set in the `.cfg`; there are no state constraints. Sizes
are distinct states.

| run | config | bounds | shows |
|---|---|---|---|
| order_book | `MCOrderBook` | 4 orders, 3 prices, quantity ≤ 2 | `NoEmptyLevel`, `IndexConsistent`, `DepthIsAggregate`, `QueueOrderKept`, `OthersUntouched` |
| engine_adapter | `MCEngineAdapter` | 4 orders, 2 prices, quantity ≤ 2 (0.8 M) | of the engine `NotCrossed`, `QuantityConserved`, `EventsReportTheCall`, and the refinement `PriceTimePriority`; of the adapter `ResultIsTrue`, `RejectedLeavesNoTrace`, `UpdatesAreTrue`, `CancelResultIsTrue`, `UsesEngine` and `PlaceOrderReturns` (liveness) |
| order_server | `MCOrderServer` | 2 clients, 3 requests, 3 orders, 1 price, quantity ≤ 2 (3.0 M) | `EngineExclusive`, `MetricsAgree`, `MetricsBetween`, `MetricsReplyCovers`, `OutcomeTold`, no deadlock |
| terminal | `MCTradingTerminal` | 2 clients, 3 requests, 2 orders, 1 price, quantity ≤ 2 (3.9 M) | `OnlyOwnOrders`, `NeverUnderstates`, `GoneMeansCancelled`, `TradesShownOnce` |
| sessions | `MCWebSocketSession` | 2 clients, 1 of which may leave; 2 requests without or 1 with an event (0.9 M) | `WriteWhileQueued`, `DeliveredInOrder`, `ReplyFirst`, `ChangesAnnounced`, `BookShownToAll`, `RegisteredWhileOpen`, `EveryPostDelivered` (liveness) |
| connection | `MCTerminalSocket` | main and 2 workers, 2 sockets, 1 failing accept, 1 signal (0.14 M) | `NoHandlerAfterDestruction`, `StatusIsTrue`, `StopReachesTheTerminal` and `AttemptEnds` (liveness) |
| protocol | `MCProtocol` | `MaxInt` = 3 (13 k) | `RefusedAsDocumented`, `EngineGetsWhatWasAsked` |

Why these sizes. A level needs three orders before a cancellation in the middle
of a list differs from one at an end, and a fourth order lets a taker sweep. Three
prices give the book test a best, a middle and a worst level. In the engine two
prices are enough for a limit on either side of the best, and four orders for a
taker against two makers in one level or in two, plus a later arrival: with
quantity 2 it can fill one maker and part of the next, or be left with a remainder
that rests or is discarded. The engine has no run of its own: the adapter's has
every step of it and every id the server can hand out. `MaxOrders` (adapter) bounds how many orders are ever
placed; `MaxRequests` and `EventCounts` (sessions) bound the requests of all
clients and the number of events of one change, `MaxLoad` requests and events
together, and `MaxLeavers` how many sessions close. Two requests at once are needed
for snapshots that overtake each other; of two clients one can join, or leave,
while the other broadcasts, and the one that stays is the one that must not miss
anything. One event with its request is enough for the order of reply, event and
book. Both clients leaving, or two requests with events, makes the run with its
liveness property several times as long; the invariants of the run are theorems
for every value of these bounds (section 4). In `order_server` three requests are what it takes for a
call with two trades (two makers, one taker), for a cancellation that races a
fill, and for a METRICS request that overlaps the handlers of a trade; one price
is enough because prices are the engine's business.

In `terminal` two orders and a third request give what a view can get wrong: an
acceptance after its own fill, a cancellation that crosses a fill, a foreign
order's update, renders that skip any of them. An order that is partly filled twice
would need a third one, and is in no state of the run. In `connection` two workers are the
fewest of which one can run a handler while the other leaves and a third thread,
main, waits to join. `MaxInt` = 3 in `protocol` has values on either side of every
bound the conversions make: below the signed range, above it but in the unsigned
one, above both, and a fraction next to each.

Symmetry is used over the order ids in `order_book` and over the sessions in
`stale_book`, whose properties are invariants or action properties that are
symmetric in them. The runs with liveness properties use none.
`CHECK_DEADLOCK FALSE` is set only for the session and connection runs: requests are bounded, sessions end and the process exits, so
the system may come to rest there. In the book, engine and protocol runs some call
is always possible, and in `order_server` and `terminal` the state where all
requests are answered stutters, so there a deadlock would be a handler waiting for
a mutex nobody will release.

**Fairness.** `FairAdapterSpec` has weak fairness on `AdapterMatch` and
`AdapterReply` only: once begun, a call is straight-line code holding its mutex.
Nobody is obliged to call. `FairSessionSpec` has weak fairness once for every
session: as long as its running handler can go on (`Work`), a handler posted to its
free strand can run (`OnSend`) or a write of it can end (`Written`, with success or
with an error, if only by the stream's timeout), one of these happens. The thread
pool and the stream's timeout see to it, and nothing another session does can
take the chance away. Clients need not read, send or stay. `EveryPostDelivered`
then says that again and again everything posted to a session has reached its
client *or* the session is closed. `FairSocketSpec` has weak fairness on the main
thread's next step, on each thread of the pool (it is scheduled, and a handler
returns), on what the network and the browser do with a connection that is under
way, and on the event loop. Weak fairness on a thread is enough though threads
compete for the mutex: none holds it and then waits, except one the signal
handler has stuck, and `AttemptEnds` names that case. Nobody is obliged to send a
signal, to fail, to use the terminal or to break a connection.

### Where the code and what is said of it differ

Five runs are expected to find a violation. Each checks one sentence of the
repository against the code:

1. **partial_fill_unannounced**. `server/protocol.md:18` promises an
   ORDER_UPDATE "when an order status changes", `:311` one for each affected order. For a partially filled *resting* order
   `EngineAdapter.cpp:113` writes remaining −1, which `RequestHandler.cpp:84`
   skips: nobody is told.
2. **stale_book**. A snapshot is read under the engine lock and posted without it,
   so an older one can be posted last, and a client is left with a book that no
   longer exists. What does hold is `BookShownToAll`: the current book is *among*
   those shown.
3. **accepted_late**. `server/protocol.md:309-311` lists ORDER_ACCEPTED, then TRADE
   and ORDER_UPDATE. The lock is released before the response is posted, so another
   client's trade or cancellation can be announced to the owner first; the terminal
   then adds the order as OPEN with its full quantity
   (`useTradingData.ts:129-143`).
4. **accepted_unlisted**. `RequestHandler.cpp:67-68` enriches ORDER_ACCEPTED "so
   the frontend can immediately add the order to the Open Orders list". The
   terminal's effect takes the last message of a render (`useTradingData.ts:59`),
   and the request's own broadcasts follow at once, so the acceptance can be
   skipped; then the order is never listed, and cannot be cancelled from there.
   `NeverUnderstates` and `GoneMeansCancelled` say what the view can be relied on
   for all the same.
5. **cancels_uncounted**. `Metrics.cpp:18`, the comment in `recordCancel`, says
   "Cancels counted as processed orders", and `server/protocol.md:285` calls
   `ordersProcessed` "Total orders processed since server start". The function's
   body is empty, so a client that places an order and cancels it reads 1.
   `MetricsAgree` and `MetricsBetween` leave open whether a cancellation counts:
   every order served does, and nothing but orders and cancellations.

Found while modelling, without a run:

* `MatchingEngine.cpp:152` pushes ORDER_BOOK_CHANGED unconditionally, although
  `engine/README.md:237` says of it "The state of the order book changed". A MARKET
  order on an empty book reports it. In the server the adapter's rejection keeps
  this from being broadcast (`RejectedLeavesNoTrace`).
* `server/protocol.md:207` defines PARTIALLY_FILLED as "remainder resting"; a
  MARKET order whose remainder is discarded is announced so
  (`EngineAdapter.cpp:107`). `UpdatesAreTrue` claims that a LIMIT order's remainder
  rests, and nothing of where a MARKET order's is.
* `server/protocol.md:13-14` promises the snapshot on connection first; `onAccept`
  registers the session before it sends it, so a broadcast may come earlier. The
  order has a merit: with the two swapped a change could be missed altogether, and
  `BookShownToAll` would be lost.
* `server/protocol.md:57` and `:78` want a quantity to be "> 0 (integer)"; a
  fraction is cut, so 1.5 is accepted as 1 and 0.5, which the form lets through, is
  refused. The list of errors (`:253-265`) does not have fractions, and
  `RefusedAsDocumented` says nothing of them; `EngineGetsWhatWasAsked` says what
  becomes of those that are accepted.
* `server/README.md:90` speaks of graceful termination. `stop()` abandons queued
  writes and sends no close frame; a signal between `main.cpp:32` and `:36` is
  swallowed; and one that interrupts a thread inside the scheduler's mutex blocks
  that thread for good. `StopReachesTheTerminal` covers a signal that gets as far
  as the stop; no property covers the other two.
* Under StrictMode the close event of the first socket shows DISCONNECTED while the
  second is open (`useWebSocket.ts:127`); `StatusIsTrue` exempts this event and
  shows that nothing else does it.
* In mock mode `sendMessage` adds its answers in one update
  (`useWebSocket.ts:184`), so only the last, a notification, is ever applied.
* `MarketStats` keeps the old best price of a side that becomes empty
  (`useTradingData.ts:94-96`).

Seen while reading and not a matter for TLC: `server/protocol.md` names the wire
messages ORDER_BOOK and ORDER_UPDATE with `remainingQuantity`, the code sends
ORDER_BOOK_UPDATE and ORDER_STATUS with `remaining` (which is what the terminal
expects); a cancellation of an unknown id is answered with ORDER_REJECTED, not
the ERROR of `server/README.md:154`.

## 4. What is proved

The proofs hold for every value of the constants that meets the named
assumptions: the bounds are naturals (`BookAssumption`, and the bounds on
requests, events and leavers elsewhere), `NoOrder` is not an order, neither a concrete nor an
abstract one (`EngineAssumption`, `AbstractionAssumption`), the adapter's ids are
`1..MaxOrders` (`AdapterAssumption`), clients are natural numbers
(`ServerAssumption`), sessions are finitely many (`SessionAssumption`), and the
largest integer is at least 1 (`ProtocolAssumption`). With few exceptions an
invariant of the runs is not inductive; each theorem rests on a stronger one, and
what it adds is the argument.

**Sums and loops.** Quantities are summed over the trades, and the adapter folds
the event vector. These are written as recursive functions, not with the folds of
the libraries, and what they compute is proved by the least counterexample
(`LeastExists`: a nonempty set of naturals has a least element), because the
library's induction theorems take an operator as a parameter. `TotalAppend`,
`TotalOrdered`, `TotalChanged` and `TranslatedAppend` are what the rest uses.

* **OrderBook_proofs**: `BookTypeCorrect`, `BookHasNoEmptyLevel`,
  `BookIndexConsistent` by `BookInv`, the three together: none is inductive alone.
  That a removal erases the right index entry needs `IndexConsistent`; that
  `BestOrder` exists at all needs `NoEmptyLevel`. Each operation has its own lemma,
  stated for the operation and not for `BookNext`, so that the engine, which calls
  the operations in another context, can cite them. From the same invariant the two
  action properties: `TimePriorityKept`, that no step swaps or moves two orders of
  a level, and `OneOrderAtATime`, that a step leaves all other orders alone. And
  `DepthIsExact`: the snapshot's walk over the prices, from the best, meets each
  level once and in the order of price, and what it adds up for one is the sum over
  the *set* of its resting orders, whichever way that set is enumerated.
* **MatchingEngine_proofs**, safety of the book: `EngineTypeCorrect`,
  `EngineNeverCrossed`, `EngineKeepsIndex`, `EngineKeepsNoSpentOrder` (which makes
  `PlaceOrderReturns` true: every iteration trades something). The invariant is
  `EngineInv`: the book's invariant, `NotCrossed`, what is known of the order being
  matched (`CallOK`: its id is not in the book, it has no more left than it was
  placed with, a LIMIT order has a price), and that everything in the book was
  submitted (`IndexSubmitted`, from which the freshness of a new id). The heart is
  `NothingCrosses`: at the loop exit, an order with something left does not cross
  the best opposite price, hence no opposite price, so resting it keeps the book
  uncrossed.
* **MatchingEngine_proofs**, the refinement: `EngineIsPriceTimeBook`. `RefinementInv`
  says that no id was submitted twice, that the order being matched came last and
  that every list is in the order of arrival; from the last follows that the head
  of the best level is the order that no other precedes by price and then arrival,
  so each `Match` maps to the abstract trade with that maker, `Finish` to the
  resting or discarding of the taker, `EngineCancel` to a removal or a stutter.
* **MatchingEngine_proofs**, accounts: `EngineConservesQuantity` by `ConserveInv`:
  what an order, resting or being matched, has left is what it was placed with
  less the sum of its trades, no order traded more than it had, and an order that
  is neither is filled, was cancelled or was the MARKET remainder that is dropped.
  `EngineReportsTheCall` by `ReportInv`: the trades in the events are the last ones
  recorded, in their order, and an order is reported filled exactly if one of them
  finished it.
* **EngineAdapter_proofs**: `AdapterUsesEngine`, that the adapter implements the
  engine's specification. The invariant is `IdsBelowNext`: every submitted id is
  below the counter, so the engine's demand for unique ids, which is a
  *precondition* in the engine's documentation, is *met* by its only caller in
  the server. `ServerBookSound`, `ServerConservesQuantity`, `ServerReportsTheCall`
  and `ServerIsPriceTimeBook` carry the engine's theorems over. `ResultsAreTrue`,
  `RejectionLeavesNoTrace`, `UpdatesTellTheTruth` and `CancelResultsAreTrue` are
  about what the adapter makes of the vector. `TranslationInv` says what the loop
  over the events so far has accumulated, while the engine is still adding to them:
  the trades, the updates of the makers, each true when it was made and of an order
  later trades of the call do not touch. With `ReportInv` and `ConserveInv` the
  result is what really happened.
* **OrderServer_proofs**, for any set of clients: `ServerUsesAdapter`, that the
  interleaved handlers drive the adapter as its specification allows, step for step;
  `EngineIsExclusive`, by `ExclusiveInv`, which adds to the property only that `pc`
  is a function; and `ConcurrentBookSound`. The chain ServerSpec ⇒ AdapterSpec ⇒
  EngineSpec is what carries the engine's theorems to concurrent clients.
* **OrderServer_proofs**, what clients are told: `OutcomesAreTold`. *News* is a
  trade, or the end of an order. `NewsInv` says for every client `d` that all that
  happened in the engine is either among what `d` was told or is owed to `d` by
  exactly one handler, in its engine call, its result or its outbox (`Flow`), and
  that no news is told twice. A step makes news at one handler, moves it within the
  handler or tells it. Two endings of one order cannot both happen: `HistoryInv`
  says that a cancelled order still had something left.
* **OrderServer_proofs**, the counters: `CountersAgree`, `CountersBetween` and
  `RepliesCover`. `CountersInv` says what each counter is in *every* state: the
  trades recorded less those the handlers have still to count (`CountInv`), with
  the volume likewise; the orders served less those still on their way to
  `recordOrder` (`OrdersInv`). Each of those belongs to one handler, and that two
  handlers never have the same trade to count is `NewsInv` again. `AnnouncedInv`
  says that a trade that is announced was made, an order that is accepted was
  counted, one that is reported cancelled was, and a status never says less than is
  left; `ReplyInv` that what a client knew when it asked is counted in whatever
  load comes later.
* **TradingTerminal_proofs**, for any number of clients and orders, lists of any
  length and renders that skip any messages: `ListsOwnOrders`,
  `RemainingNeverUnderstated`, `TradesAreShownOnce` and `GoneWereCancelled`. By
  `TerminalUsesServer` the terminal's server is OrderServer, with all its
  invariants. Two more are needed. `OwnersInv`: an order is *owned* by the client
  whose handler has it in the engine, in its result or in its outbox, or that was
  told of its acceptance; what is owned was submitted, a new id is nobody's, an
  acceptance is addressed to its owner alone, and so no two clients own one order.
  `TerminalInv`: a listed order was accepted to the viewer and has no more left
  than its row says, FILLED only if nothing; the trades on the list are different
  ones that the viewer was told of, and the volume is at most that of all trades
  it was told of. What makes the first hold after a stale message is that
  nothing is undone (`Progress`: what an order has left only falls, a
  cancellation stays one), so that a message that was true when the engine's call
  returned (`AnnouncedInv`) errs on one side for ever; what makes the second hold is
  that no news is told twice (`NewsInv`), so a message that was not rendered
  before is of a trade that was not. That a row which goes was cancelled needs that
  a list without the row of one order (`Without`, a loop) has the rows of all
  others: `WithoutIs`, by the least counterexample.
* **WebSocketSession_proofs**, for any number of sessions, requests and events.
  `SessionTypeCorrect` and `QueueIsWritten` by `TypeInv`, which adds what a running
  handler has in hand; `ClientsAreRegistered` by `RegisteredInv`;
  `PostsDeliveredInOrder` by `DeliveryInv`: what was posted to a session is what was
  written, then what is queued, then the posts its strand has not run;
  `ReplyComesFirst` by `ReplyInv`: whatever is posted of a request, its reply was
  posted to its client first, for requests are handled one by one in a strand;
  `ChangesAreAnnounced` by `AnnounceInv`: a client that was connected when a change
  was made was posted each announcement of it or is still among the targets of its
  broadcast; `EveryoneIsShownTheBook` by `ShownInv`: a connected client has been
  posted the current book, is about to be, or some handler has yet to read it.
* **TerminalSocket_proofs**, for any set of threads and any number of failing
  accepts (`LifecycleAssumption`), and the terminal's two sockets
  (`SocketAssumption`): `ServerOutlivesHandlers` and `ConnectionStatusIsTrue`. The
  invariant of the first, `LifeInv`, says that only a thread inside `run()` and
  outside a handler holds the scheduler's mutex (so none that has left can be
  stuck by a signal), that only a thread in a handler has one, and that `main` has
  waited for all. The invariant of the second, `PageInv`, says which socket can be
  in use (`SocketsKnown`), that CONNECTED means that one is open, and, with the
  longest proof, that a socket's close event is due at most once and after all else
  happened to it (`TasksDue`): without it a second close event of a closed socket
  could take CONNECTED off the other.
* **Protocol_proofs**, for integers of any size: `ErrorsAreRefused` and
  `EngineIsAskedRight`. The heart is `GetInt64Facts`: whatever the conversion makes
  of a number, if it is positive it is the number without its fraction or the
  largest integer, and if not the number was none to be placed.

Every safety and action property of the passing runs is the statement of a
theorem. Only model-checked is liveness (`PlaceOrderReturns`,
`EveryPostDelivered`, `StopReachesTheTerminal`, `AttemptEnds`), which is out of
the prover's reach, as is `ENABLED` and with it the absence of deadlock.

## 5. What is not modelled

* **Numbers.** Prices are doubles compared and used as map keys; validation keeps
  NaN out, as JSON has none. `uint64_t` quantities are small integers in the engine;
  type invariants show no subtraction goes below zero, but the sum of a level and
  its narrowing to `int64_t` (`EngineAdapter.cpp:167`) are not modelled: the sum
  overflows only for quantities near the width of the type.
* **Formatting, and the wording of errors.** No property is about them.
* **`ordersPerSecond`**, a quotient of a counter and the clock, and `recentTrades`
  growing without bound: no promise is made of either.
* **Messages that are refused** in `OrderServer`: they touch no state of it.
  `Protocol` refuses them, `WebSocketSession!OnReadNoChange` answers them.
* **In the terminal**: the book, metrics, best prices, chart and notifications,
  which a message replaces as a whole or which are derived, and the mock mode. The
  hook's `connect` is called by nobody, so there is no reconnection to model.
* **A second signal**, which could interrupt the destruction of the Server.
* **Logging, tests, benchmark, presentation components.** No state that a
  property is about. `simulator/` and `tests/` at the top level are empty.

## 6. Plan

Done: all modules of section 2 with their runs, and the proofs of section 4. What
is left: that every request is eventually answered, under fair handlers and fair
mutexes, in OrderServer (a run, not a theorem).

## 7. Running it

    tlc -workers 2 -config MCEngineAdapter.cfg EngineAdapter
    tlapm MatchingEngine_proofs.tla

The module of each configuration is in `PROJECT.json`. A run takes from seconds to
about three minutes, the proofs of `OrderServer_proofs` about seven, those of
`TradingTerminal_proofs` about four.
