--------------------------- MODULE TradingTerminal ---------------------------
(***************************************************************************)
(* The trading terminal of one client, Viewer, connected to the server     *)
(* while it and the other clients trade: hooks/useWebSocket.ts, which      *)
(* appends every message to the React state `messages', and                *)
(* hooks/useTradingData.ts, whose effect turns them into what the user     *)
(* sees.                                                                   *)
(*                                                                         *)
(* React renders when it likes.  All the messages that arrived since the  *)
(* last render come in one, and the effect, which runs once for each       *)
(* render with new messages, acts on the last of them.  Effects run in the *)
(* order of their renders and each sees the messages of its own, so a      *)
(* render and its effect are one step, and nothing shows how many messages *)
(* wait for the next: that number is chosen when it comes.                 *)
(*                                                                         *)
(* `messages' is told[Viewer] up to `rendered': a session delivers what is *)
(* posted to it in order (WebSocketSession).  The order book and the       *)
(* metrics, which their messages replace as a whole, the chart, which is   *)
(* derived, and the notifications are left out.                            *)
(***************************************************************************)
EXTENDS OrderServer

CONSTANTS Viewer,
          MaxListed,            \* how many orders are listed: 12 in the code
          MaxShown              \* how many trades are listed: 10 in the code

ASSUME TerminalAssumption == /\ Viewer \in Client
                             /\ MaxListed \in Nat /\ MaxShown \in Nat

VARIABLES
    rendered,       \* the length of `messages' when the effect last ran
    openOrders,     \* the Open Orders list, newest first
    trades,         \* the ids of the listed trades, newest first
    volume          \* marketStats.volume

viewVars     == <<openOrders, trades, volume>>
terminalVars == <<serverVars, rendered, viewVars>>

TerminalInit ==
    /\ ServerInit
    /\ rendered = 0
    /\ openOrders = <<>> /\ trades = <<>> /\ volume = 0

-----------------------------------------------------------------------------
(* The effect, for the message m.                                          *)

\* slice(0, n)
Slice(s, n) == SubSeq(s, 1, IF n < Len(s) THEN n ELSE Len(s))

\* The rows of all other orders.
Without(orders, id) ==
    LET upTo[n \in 0 .. Len(orders)] ==
            IF n = 0 THEN <<>>
            ELSE IF orders[n].id # id
            THEN Append(upTo[n - 1], orders[n]) ELSE upTo[n - 1]
    IN  upTo[Len(orders)]

\* The order of an ORDER_ACCEPTED, which repeats the fields of the request.
Listed(id) == [id |-> id, remaining |-> Placed(id).quantity, status |-> "OPEN"]

\* Mutant: an order that is not listed is added by its status.
UpdatedOrAdded(orders, m) ==
    Slice(<<[id |-> m.id, remaining |-> m.remaining, status |-> m.status]>> \o
          Without(orders, m.id), MaxListed)

\* The list after an ORDER_STATUS other than CANCELLED.
Updated(orders, m) ==
    [i \in DOMAIN orders |->
        IF orders[i].id # m.id THEN orders[i]
        ELSE [id |-> m.id, remaining |-> m.remaining,
              status |-> IF m.remaining <= 0 THEN "FILLED" ELSE m.status]]

\* The messages that take their order off the list.
Removes(m) == \/ m.type = "ORDER_CANCELLED"
              \/ m.type = "ORDER_STATUS" /\ m.status = "CANCELLED"

UpdateOpenOrders(m) ==
    openOrders' =
        CASE m.type = "ORDER_ACCEPTED" ->
                Slice(<<Listed(m.id)>> \o Without(openOrders, m.id), MaxListed)
          [] Removes(m) -> Without(openOrders, m.id)
          [] m.type = "ORDER_STATUS" /\ ~Removes(m) -> Updated(openOrders, m)
          [] OTHER -> openOrders

UpdateTrades(m) ==
    IF m.type = "TRADE"
    THEN /\ trades' = Slice(<<m.id>> \o trades, MaxShown)
         /\ volume' = volume + m.quantity
    ELSE UNCHANGED <<trades, volume>>

-----------------------------------------------------------------------------

Effect(latest) == UpdateOpenOrders(latest) /\ UpdateTrades(latest)

\* Mutant: the effect has no dependencies and runs after every render.
EveryRender ==
    /\ \E n \in rendered .. Len(told[Viewer]) :
          n > 0 /\ rendered' = n /\ Effect(told[Viewer][n])
    /\ UNCHANGED serverVars

\* onmessage has appended messages up to the n-th; React renders.
Render ==
    /\ \E n \in rendered + 1 .. Len(told[Viewer]) :
          rendered' = n /\ Effect(told[Viewer][n])
    /\ UNCHANGED serverVars

\* The ids that c has been told were accepted.
AcceptedIds(c) == IdsTold(c, LAMBDA m : m.type = "ORDER_ACCEPTED")

\* The Cancel buttons are in the rows of the list.  A METRICS reply to another
\* client shows in nothing that the viewer sees, and is left out.
ServerStep ==
    /\ \/ \E c \in Client, req \in PlaceOrderRequest : HandlePlaceOrder(c, req)
       \/ \E c \in Client, id \in OrderIds :
             HandleCancelOrder(c, id) /\ (c = Viewer => id \in AcceptedIds(Viewer))
       \/ HandleGetMetrics(Viewer)
       \/ \E c \in Client : Handler(c)
       \/ AllAnswered
    /\ UNCHANGED <<rendered, viewVars>>

TerminalSpec == TerminalInit /\ [][ServerStep \/ Render]_terminalVars

-----------------------------------------------------------------------------
(* Properties.                                                             *)

ListedIds == {openOrders[i].id : i \in DOMAIN openOrders}

\* Status updates are broadcast to everybody and the list is keyed by nothing
\* but the id; still a terminal lists its own orders only, each of them once.
OnlyOwnOrders ==
    /\ Len(openOrders) = Cardinality(ListedIds) /\ Len(openOrders) <= MaxListed
    /\ ListedIds \subseteq AcceptedIds(Viewer) \ UNION {AcceptedIds(c) : c \in Client \ {Viewer}}

\* Messages may be stale, late or lost in a render, but the error is on one
\* side: an order is never shown with less than it really has left, and shown
\* as FILLED only when it is.
NeverUnderstates ==
    \A i \in DOMAIN openOrders :
        LET o == openOrders[i]
        IN  /\ o.remaining >= Unfilled(Placed(o.id))
            /\ o.status = "FILLED" => Unfilled(Placed(o.id)) = 0

\* An order goes off the list only because it was cancelled in the engine, or
\* because a newer one came on a full list: a cancellation that lost the race
\* against a fill does not hide the fill.
GoneMeansCancelled ==
    [][\/ ListedIds \subseteq ListedIds' \cup cancelled
       \/ Len(openOrders) = MaxListed /\ ~(ListedIds' \subseteq ListedIds)]_terminalVars

\* No trade is shown twice or counted twice, however React batches its
\* renders: the volume is that of different trades of the engine, and so no
\* more than what was traded.
TradesShownOnce ==
    /\ IsInjective(trades)
    /\ ToSet(trades) \subseteq {recentTrades[i].tradeId : i \in DOMAIN recentTrades}
    /\ volume <= TradedVolume

\* Everything that was sent has been received and rendered.
UpToDate == AllIdle /\ rendered = Len(told[Viewer])

\* server/src/RequestHandler.cpp:67-68: ORDER_ACCEPTED carries the fields of
\* the request "so the frontend can immediately add the order to the Open
\* Orders list": an accepted order that was not cancelled is on the list.
AcceptedOrderListed ==
    UpToDate => \/ AcceptedIds(Viewer) \ cancelled \subseteq ListedIds
                \/ Len(openOrders) = MaxListed
=============================================================================
