------------------------ MODULE EngineAdapter_proofs ------------------------
(***************************************************************************)
(* Proofs about EngineAdapter, for every number of orders, every price     *)
(* range and every quantity bound: the adapter uses the engine as the      *)
(* engine expects, so what is proved of the engine holds in the server;    *)
(* and what it makes of the engine's events is a true account of the call. *)
(***************************************************************************)
EXTENDS EngineAdapter, MatchingEngine_proofs

\* The inductive invariant: every id handed out is below the counter.
IdsBelowNext ==
    /\ nextOrderId \in Nat \ {0}
    /\ submitted \in Seq(Order)
    /\ \A i \in DOMAIN submitted : submitted[i].orderId < nextOrderId

LEMMA IdsInit == AdapterInit => IdsBelowNext
  BY DEF AdapterInit, EngineInit, IdsBelowNext

LEMMA OrderIdIsNat == \A o \in Order : o.orderId \in Nat
  BY AdapterAssumption DEF Order

\* A placement is one the engine's specification allows.
LEMMA PlacementAllowed ==
  ASSUME IdsBelowNext, NEW req \in PlaceOrderRequest, nextOrderId \in OrderIds
  PROVE  LET o == EngineOrder(req)
         IN  o \in Order /\ Fresh(o) /\ o.orderId = nextOrderId
<1>. DEFINE o == EngineOrder(req)
<1>0. /\ req.side \in Side /\ req.quantity \in Quantity /\ req.orderType \in OrderType
      /\ req.orderType = "LIMIT" => req.price \in Price
      /\ req.orderType = "MARKET" => req.price = 0
  BY DEF PlaceOrderRequest, OrderType
<1>1. /\ o.orderId = nextOrderId /\ o.remainingQuantity = req.quantity
      /\ o.quantity = req.quantity /\ o.price = req.price /\ o.orderType = req.orderType
  BY DEF EngineOrder
<1>2. o \in Order
  BY <1>0 DEF EngineOrder, Order, OrderType
<1>3. o.price = 0 <=> o.orderType = "MARKET"
  BY <1>0, <1>1, BookAssumption DEF OrderType, Price
<1>4. o.orderId \notin {x.orderId : x \in ToSet(submitted)}
  <2>1. \A i \in DOMAIN submitted : submitted[i].orderId # nextOrderId
    <3>1. ASSUME NEW i \in DOMAIN submitted
          PROVE  submitted[i].orderId # nextOrderId
      <4>1. submitted[i].orderId \in Nat
        <5>1. submitted[i] \in Order
          BY DEF IdsBelowNext
        <5>. QED
          BY <5>1, OrderIdIsNat
      <4>. QED
        BY <4>1 DEF IdsBelowNext
    <3>. QED
      BY <3>1
  <2>. QED
    BY <2>1, <1>1 DEF ToSet
<1>. QED
  BY <1>1, <1>2, <1>3, <1>4 DEF Fresh

LEMMA AdapterPlaceStep ==
  ASSUME IdsBelowNext, NEW req \in PlaceOrderRequest, AdapterPlace(req)
  PROVE  EngineNext /\ IdsBelowNext'
<1>. DEFINE o == EngineOrder(req)
<1>1. o \in Order /\ Fresh(o) /\ o.orderId = nextOrderId
  BY PlacementAllowed DEF AdapterPlace
<1>2. PlaceOrder(o) /\ nextOrderId' = nextOrderId + 1
  BY DEF AdapterPlace
<1>. HIDE DEF o
<1>3. EngineNext
  BY <1>1, <1>2 DEF EngineNext
<1>4. submitted' = Append(submitted, o) /\ submitted' \in Seq(Order)
  BY <1>1, <1>2 DEF PlaceOrder, IdsBelowNext
<1>5. \A i \in DOMAIN submitted' : submitted'[i].orderId < nextOrderId'
  <2>1. ASSUME NEW i \in DOMAIN submitted'
        PROVE  submitted'[i].orderId < nextOrderId'
    <3>1. submitted'[i].orderId \in Nat
      <4>1. submitted'[i] \in Order
        BY <1>4
      <4>. QED
        BY <4>1, OrderIdIsNat
    <3>2. CASE i \in DOMAIN submitted
      BY <3>1, <3>2, <1>2, <1>4 DEF IdsBelowNext
    <3>3. CASE i = Len(submitted) + 1
      BY <3>1, <3>3, <1>1, <1>2, <1>4 DEF IdsBelowNext
    <3>. QED
      BY <3>2, <3>3, <1>4 DEF IdsBelowNext
  <2>. QED
    BY <2>1
<1>. QED
  BY <1>2, <1>3, <1>4, <1>5 DEF IdsBelowNext

\* Every step of the adapter is a step of the engine, or leaves it alone.
LEMMA AdapterStep ==
  ASSUME IdsBelowNext, [AdapterNext]_adapterVars
  PROVE  [EngineNext]_engineVars /\ IdsBelowNext'
<1>1. ASSUME NEW req \in PlaceOrderRequest, AdapterPlace(req)
      PROVE  EngineNext /\ IdsBelowNext'
  BY <1>1, AdapterPlaceStep
<1>2. CASE AdapterMatch
  BY <1>2 DEF AdapterMatch, EngineNext, Match, IdsBelowNext
<1>3. CASE AdapterReply
  BY <1>3 DEF EngineNext, AdapterReply, Finish, IdsBelowNext
<1>4. ASSUME NEW id \in OrderIds, AdapterCancel(id)
      PROVE  EngineNext /\ IdsBelowNext'
  <2>1. EngineNext
    BY <1>4 DEF AdapterCancel, EngineNext
  <2>2. submitted' = submitted /\ nextOrderId' = nextOrderId
    BY <1>4 DEF AdapterCancel, EngineCancel
  <2>. QED
    BY <2>1, <2>2 DEF IdsBelowNext
<1>5. CASE UNCHANGED adapterVars
  BY <1>5 DEF adapterVars, engineVars, IdsBelowNext
<1>. QED
  BY <1>1, <1>2, <1>3, <1>4, <1>5 DEF AdapterNext

-----------------------------------------------------------------------------

\* The adapter implements the engine's specification: because the counter only
\* goes up, no order id is ever submitted twice.
THEOREM AdapterUsesEngine == AdapterSpec => UsesEngine
<1>1. AdapterInit => EngineInit
  BY DEF AdapterInit
<1>. QED
  BY IdsInit, AdapterStep, <1>1, PTL DEF AdapterSpec, UsesEngine, EngineSpec

\* The book inside the server is never crossed, never holds an empty level or a
\* spent order, and its cancellation index never dangles.
THEOREM ServerBookSound ==
  AdapterSpec => [](NotCrossed /\ NoEmptyLevel /\ IndexConsistent /\ NoSpentOrder)
<1>1. AdapterSpec => EngineSpec
  BY AdapterUsesEngine DEF UsesEngine
<1>2. EngineInv => NotCrossed /\ NoEmptyLevel /\ IndexConsistent /\ NoSpentOrder
  BY DEF EngineInv, BookInv
<1>. QED
  BY <1>1, <1>2, EngineInvariant, PTL

-----------------------------------------------------------------------------
(* The translation of the events, as the loop goes through them.           *)

Row(t) == [tradeId |-> t.tradeId, price |-> t.price, quantity |-> t.quantity]

Rows(ts) == [i \in DOMAIN ts |-> Row(ts[i])]

\* What the loop works on.
Acc(status, left, ts, us, changed, rem) ==
    [status |-> status, remainingQuantity |-> left, trades |-> ts,
     orderUpdates |-> us, bookChanged |-> changed, remaining |-> rem]

Update == [orderId : OrderIds, status : {"FILLED", "PARTIALLY_FILLED"}, remainingQuantity : Int]

\* An update about another order: it is filled, or nobody knows.
OfMaker(u) == \/ /\ u.status = "FILLED" /\ u.remainingQuantity = 0
                 /\ u.orderId \in IdsOf(events, "ORDER_COMPLETELY_FILLED")
              \/ u.remainingQuantity = -1

MakerUpdates(us) == us \in Seq(Update) /\ \A i \in DOMAIN us : OfMaker(us[i])

\* The updates the translation of the events so far has made.
UpdatesSoFar == Translated(order, events).orderUpdates

\* During a call the translation of the events so far has all their trades, and
\* has taken them off what the incoming order has left, as the engine did.
TranslationInv ==
    order # NoOrder =>
        /\ result = NoResult
        /\ Translated(order, events) =
              Acc("ACCEPTED", 0, Rows(Reports(events)), UpdatesSoFar, FALSE,
                  order.remainingQuantity)
        /\ MakerUpdates(UpdatesSoFar)

-----------------------------------------------------------------------------
(* What placeOrder returned, until the next call.                          *)

StatusOf(o) == IF Unfilled(o) = o.quantity THEN "ACCEPTED"
               ELSE IF Unfilled(o) = 0 THEN "FILLED" ELSE "PARTIALLY_FILLED"

\* The update u is about the order o, and true.
UpdateOf(u, o) == /\ u.orderId = o.orderId /\ u.remainingQuantity = Unfilled(o)
                  /\ u.status = "FILLED" <=> Unfilled(o) = 0
                  /\ Unfilled(o) = 0 \/ o.orderId \notin cancelled

TrueUpdate(u) == \E o \in ToSet(submitted) : UpdateOf(u, o)

\* The result is a true account of the order o.
ResultOf(o) ==
    /\ result.orderId = o.orderId /\ o.orderId \notin cancelled
    /\ result.remainingQuantity = Unfilled(o) /\ result.status = StatusOf(o)
    /\ result.trades = Rows(Reports(events))
    /\ Unfilled(o) = o.quantity <=> Reports(events) = <<>>
    /\ result.accepted <=> ~(o.orderType = "MARKET" /\ Unfilled(o) = o.quantity)

ResultInv ==
    PlaceReturned =>
        /\ order = NoOrder
        /\ \E o \in ToSet(submitted) : ResultOf(o)
        /\ result.orderUpdates \in Seq(Update)
        /\ \A u \in ToSet(result.orderUpdates) : u.remainingQuantity = -1 \/ TrueUpdate(u)

AdapterInv == TranslationInv /\ ResultInv

-----------------------------------------------------------------------------
(* What the two loops over a vector compute, event by event.               *)

\* f holds what the loop works on after each of the first m events.
IsTranslation(f, m, o, evs) ==
    f = [n \in 0 .. m |-> IF n = 0 THEN Blank(o) ELSE Translate(o, f[n - 1], evs[n])]

LEMMA TranslationExists ==
  ASSUME NEW o, NEW evs
  PROVE  \A m \in Nat : \E f : IsTranslation(f, m, o, evs)
<1>. DEFINE Has(k) == \E f : IsTranslation(f, k, o, evs)
            Lacks == {k \in Nat : ~Has(k)}
<1>. SUFFICES ASSUME Lacks # {} PROVE FALSE
  OBVIOUS
<1>1. PICK k \in Lacks : \A l \in Lacks : k <= l
  <2>1. Lacks \in SUBSET Nat
    OBVIOUS
  <2>. HIDE DEF Lacks
  <2>. QED
    BY <2>1, LeastExists
<1>2. CASE k = 0
  <2>1. IsTranslation([n \in 0 .. 0 |-> Blank(o)], 0, o, evs)
    BY DEF IsTranslation
  <2>. QED
    BY <1>2, <2>1
<1>3. CASE k # 0
  <2>1. k - 1 \in Nat /\ k - 1 \notin Lacks
    BY <1>1, <1>3
  <2>2. PICK f : IsTranslation(f, k - 1, o, evs)
    BY <2>1
  <2>. DEFINE last == Translate(o, f[k - 1], evs[k])
              g == [n \in 0 .. k |-> IF n = k THEN last ELSE f[n]]
  <2>3. IsTranslation(g, k, o, evs)
    <3>1. \A n \in 0 .. k - 1 : f[n] = IF n = 0 THEN Blank(o) ELSE Translate(o, f[n - 1], evs[n])
      BY <2>2 DEF IsTranslation
    <3>2. \A n \in 0 .. k : g[n] = IF n = 0 THEN Blank(o) ELSE Translate(o, g[n - 1], evs[n])
      BY <1>3, <3>1
    <3>. QED
      BY <3>2 DEF IsTranslation
  <2>. QED
    BY <2>3
<1>. QED
  BY <1>2, <1>3

LEMMA TranslationSteps ==
  ASSUME NEW m \in Nat, NEW o, NEW evs, NEW f, IsTranslation(f, m, o, evs)
  PROVE  /\ f[0] = Blank(o)
         /\ \A n \in 1 .. m : f[n] = Translate(o, f[n - 1], evs[n])
<1>1. \A n \in 0 .. m : f[n] = IF n = 0 THEN Blank(o) ELSE Translate(o, f[n - 1], evs[n])
  BY DEF IsTranslation
<1>. QED
  BY <1>1

\* The translation depends on the id and the quantity of the order only.
LEMMA SameTranslate ==
  ASSUME NEW o, NEW p, p.orderId = o.orderId, p.quantity = o.quantity
  PROVE  /\ Blank(p) = Blank(o)
         /\ \A acc, e : Translate(p, acc, e) = Translate(o, acc, e)
<1>1. \A acc, t : TranslateTrade(p, acc, t) = TranslateTrade(o, acc, t)
  BY DEF TranslateTrade, IsOwnTrade
<1>2. \A acc, id, status : TranslateFill(p, acc, id, status) = TranslateFill(o, acc, id, status)
  BY DEF TranslateFill
<1>. QED
  BY <1>1, <1>2 DEF Blank, Translate

LEMMA TranslationsAgree ==
  ASSUME NEW k \in Nat, NEW o, NEW evs, NEW f, IsTranslation(f, k, o, evs),
         NEW m \in 0 .. k, NEW p, NEW fvs, NEW g, IsTranslation(g, m, p, fvs),
         p.orderId = o.orderId, p.quantity = o.quantity,
         \A n \in 1 .. m : fvs[n] = evs[n]
  PROVE  f[m] = g[m]
<1>. DEFINE Differ == {n \in 0 .. m : f[n] # g[n]}
<1>. SUFFICES ASSUME Differ # {} PROVE FALSE
  OBVIOUS
<1>1. PICK n \in Differ : \A l \in Differ : n <= l
  <2>1. Differ \in SUBSET Nat
    OBVIOUS
  <2>. HIDE DEF Differ
  <2>. QED
    BY <2>1, LeastExists
<1>2. n # 0
  <2>1. f[0] = Blank(o)
    BY TranslationSteps
  <2>2. g[0] = Blank(p)
    BY TranslationSteps
  <2>. QED
    BY <1>1, <2>1, <2>2, SameTranslate
<1>3. n - 1 \in 0 .. m /\ n - 1 \notin Differ /\ n \in 1 .. m /\ n \in 1 .. k
  BY <1>1, <1>2
<1>4. f[n] = Translate(o, f[n - 1], evs[n])
  BY <1>3, TranslationSteps
<1>5. g[n] = Translate(p, g[n - 1], fvs[n])
  BY <1>3, TranslationSteps
<1>. QED
  BY <1>1, <1>3, <1>4, <1>5, SameTranslate

LEMMA TranslatedIs ==
  ASSUME NEW o, NEW evs, Len(evs) \in Nat
  PROVE  \E f : IsTranslation(f, Len(evs), o, evs) /\ Translated(o, evs) = f[Len(evs)]
<1>. DEFINE f == CHOOSE f : IsTranslation(f, Len(evs), o, evs)
<1>1. IsTranslation(f, Len(evs), o, evs)
  BY TranslationExists
<1>2. Translated(o, evs) = f[Len(evs)]
  BY DEF Translated, IsTranslation
<1>. QED
  BY <1>1, <1>2

LEMMA TranslatedEmpty == ASSUME NEW o PROVE Translated(o, <<>>) = Blank(o)
<1>1. PICK f : IsTranslation(f, Len(<<>>), o, <<>>) /\ Translated(o, <<>>) = f[Len(<<>>)]
  BY TranslatedIs
<1>. QED
  BY <1>1, TranslationSteps

\* One more event, for the order or for what was left of it.
LEMMA TranslatedAppend ==
  ASSUME NEW evs \in Seq(Event), NEW e \in Event, NEW o, NEW p,
         p.orderId = o.orderId, p.quantity = o.quantity
  PROVE  Translated(p, Append(evs, e)) = Translate(o, Translated(o, evs), e)
<1>. DEFINE fvs == Append(evs, e)
<1>1. /\ Len(fvs) = Len(evs) + 1 /\ Len(evs) \in Nat /\ Len(fvs) \in Nat
      /\ \A i \in 1 .. Len(evs) : fvs[i] = evs[i]
      /\ fvs[Len(evs) + 1] = e
  BY AppendProperties
<1>. HIDE DEF fvs
<1>2. PICK f : IsTranslation(f, Len(evs), o, evs) /\ Translated(o, evs) = f[Len(evs)]
  BY <1>1, TranslatedIs
<1>3. PICK g : IsTranslation(g, Len(fvs), p, fvs) /\ Translated(p, fvs) = g[Len(fvs)]
  BY <1>1, TranslatedIs
<1>4. g[Len(fvs)] = Translate(p, g[Len(evs)], e)
  <2>1. Len(fvs) \in 1 .. Len(fvs) /\ Len(fvs) - 1 = Len(evs)
    BY <1>1
  <2>2. g[Len(fvs)] = Translate(p, g[Len(fvs) - 1], fvs[Len(fvs)])
    BY <1>1, <1>3, <2>1, TranslationSteps
  <2>. QED
    BY <1>1, <2>1, <2>2
<1>5. g[Len(evs)] = f[Len(evs)]
  <2>1. Len(evs) \in 0 .. Len(fvs)
    BY <1>1
  <2>2. \A n \in 1 .. Len(evs) : evs[n] = fvs[n]
    BY <1>1
  <2>. QED
    BY <1>1, <1>2, <1>3, <2>1, <2>2, TranslationsAgree
<1>. QED
  BY <1>2, <1>3, <1>4, <1>5, SameTranslate DEF fvs

\* f holds what is sent on of the first m updates.
IsForward(f, m, us) ==
    f = [n \in 0 .. m |-> IF n = 0 THEN <<>>
                          ELSE IF us[n].remainingQuantity >= 0
                          THEN Append(f[n - 1], us[n]) ELSE f[n - 1]]

LEMMA ForwardExists ==
  ASSUME NEW us
  PROVE  \A m \in Nat : \E f : IsForward(f, m, us)
<1>. DEFINE Has(k) == \E f : IsForward(f, k, us)
            Lacks == {k \in Nat : ~Has(k)}
<1>. SUFFICES ASSUME Lacks # {} PROVE FALSE
  OBVIOUS
<1>1. PICK k \in Lacks : \A l \in Lacks : k <= l
  <2>1. Lacks \in SUBSET Nat
    OBVIOUS
  <2>. HIDE DEF Lacks
  <2>. QED
    BY <2>1, LeastExists
<1>2. CASE k = 0
  <2>1. IsForward([n \in 0 .. 0 |-> <<>>], 0, us)
    BY DEF IsForward
  <2>. QED
    BY <1>2, <2>1
<1>3. CASE k # 0
  <2>1. k - 1 \in Nat /\ k - 1 \notin Lacks
    BY <1>1, <1>3
  <2>2. PICK f : IsForward(f, k - 1, us)
    BY <2>1
  <2>. DEFINE last == IF us[k].remainingQuantity >= 0
                      THEN Append(f[k - 1], us[k]) ELSE f[k - 1]
              g == [n \in 0 .. k |-> IF n = k THEN last ELSE f[n]]
  <2>3. IsForward(g, k, us)
    <3>1. \A n \in 0 .. k - 1 : f[n] = IF n = 0 THEN <<>>
                                       ELSE IF us[n].remainingQuantity >= 0
                                       THEN Append(f[n - 1], us[n]) ELSE f[n - 1]
      BY <2>2 DEF IsForward
    <3>2. \A n \in 0 .. k : g[n] = IF n = 0 THEN <<>>
                                   ELSE IF us[n].remainingQuantity >= 0
                                   THEN Append(g[n - 1], us[n]) ELSE g[n - 1]
      BY <1>3, <3>1
    <3>. QED
      BY <3>2 DEF IsForward
  <2>. QED
    BY <2>3
<1>. QED
  BY <1>2, <1>3

\* What is sent on is some of the updates, and only those that say what is left.
LEMMA ForwardedIn ==
  ASSUME NEW us \in Seq(Update)
  PROVE  \A i \in DOMAIN Forwarded(us) :
            \E j \in DOMAIN us : /\ Forwarded(us)[i] = us[j]
                                 /\ us[j].remainingQuantity >= 0
<1>. DEFINE N == Len(us)
            Sent == {u \in Update : u.remainingQuantity >= 0 /\ \E j \in DOMAIN us : u = us[j]}
            f == CHOOSE f : IsForward(f, N, us)
<1>1. N \in Nat /\ DOMAIN us = 1 .. N /\ \A n \in 1 .. N : us[n] \in Update
  OBVIOUS
<1>2. IsForward(f, N, us)
  BY <1>1, ForwardExists
<1>3. Forwarded(us) = f[N]
  BY DEF Forwarded, IsForward
<1>. HIDE DEF f, N
<1>4. \A n \in 0 .. N : f[n] = IF n = 0 THEN <<>>
                               ELSE IF us[n].remainingQuantity >= 0
                               THEN Append(f[n - 1], us[n]) ELSE f[n - 1]
  BY <1>2 DEF IsForward
<1>5. \A n \in 1 .. N : us[n].remainingQuantity >= 0 => us[n] \in Sent
  BY <1>1
<1>. HIDE DEF Sent
<1>. DEFINE Odd == {n \in 0 .. N : f[n] \notin Seq(Sent)}
<1>6. Odd = {}
  <2>. SUFFICES ASSUME Odd # {} PROVE FALSE
    OBVIOUS
  <2>1. PICK n \in Odd : \A l \in Odd : n <= l
    <3>1. Odd \in SUBSET Nat
      BY <1>1
    <3>. HIDE DEF Odd
    <3>. QED
      BY <3>1, LeastExists
  <2>2. n # 0
    <3>1. <<>> \in Seq(Sent) /\ 0 \in 0 .. N
      BY <1>1
    <3>2. f[0] = <<>>
      BY <1>4, <3>1
    <3>. QED
      BY <2>1, <3>1, <3>2
  <2>3. n \in Nat /\ n - 1 \in 0 .. N /\ n \in 1 .. N /\ n \in 0 .. N /\ ~(n <= n - 1)
    BY <1>1, <2>1, <2>2
  <2>. DEFINE h == f[n - 1]
  <2>4. h \in Seq(Sent)
    BY <2>1, <2>3
  <2>5. f[n] = IF us[n].remainingQuantity >= 0 THEN Append(h, us[n]) ELSE h
    BY <1>4, <2>2, <2>3
  <2>. HIDE DEF h
  <2>6. f[n] \in Seq(Sent)
    BY <1>5, <2>3, <2>4, <2>5, AppendProperties
  <2>. QED
    BY <2>1, <2>6
<1>7. f[N] \in Seq(Sent)
  BY <1>1, <1>6
<1>8. \A i \in DOMAIN f[N] : f[N][i] \in Sent
  BY <1>7
<1>. QED
  BY <1>3, <1>8 DEF Sent

-----------------------------------------------------------------------------
(* The translation during a call.                                          *)

LEMMA RowsAppend ==
  ASSUME NEW ts \in Seq(Trade), NEW t \in Trade
  PROVE  Rows(Append(ts, t)) = Append(Rows(ts), Row(t))
<1>. DEFINE us == Append(ts, t)
            rs == Rows(ts)
            R == {Row(x) : x \in Trade}
<1>1. /\ DOMAIN us = 1 .. Len(ts) + 1 /\ Len(ts) \in Nat
      /\ DOMAIN ts = 1 .. Len(ts)
      /\ \A i \in 1 .. Len(ts) : us[i] = ts[i]
      /\ us[Len(ts) + 1] = t
  BY AppendProperties
<1>2. rs = [i \in 1 .. Len(ts) |-> Row(ts[i])] /\ Rows(us) = [i \in 1 .. Len(ts) + 1 |-> Row(us[i])]
  BY <1>1 DEF Rows
<1>. HIDE DEF us, rs
<1>3. rs \in Seq(R) /\ Len(rs) = Len(ts) /\ Row(t) \in R
  <2>1. \A i \in 1 .. Len(ts) : ts[i] \in Trade
    OBVIOUS
  <2>2. \A i \in 1 .. Len(ts) : Row(ts[i]) \in R
    BY <2>1
  <2>3. Row(t) \in R
    OBVIOUS
  <2>. HIDE DEF R
  <2>. QED
    BY <1>1, <1>2, <2>2, <2>3
<1>. HIDE DEF R
<1>. DEFINE r == Row(t)
            v == Append(rs, r)
<1>4. /\ v \in Seq(R) /\ Len(v) = Len(ts) + 1
      /\ \A i \in 1 .. Len(ts) : v[i] = rs[i]
      /\ v[Len(ts) + 1] = r
  <2>. HIDE DEF r
  <2>1. r \in R
    BY <1>3 DEF r
  <2>. QED
    BY <1>1, <1>3, <2>1, AppendProperties
<1>. HIDE DEF v
<1>5. v = [i \in 1 .. Len(ts) + 1 |-> v[i]]
  BY <1>4
<1>6. ASSUME NEW i \in 1 .. Len(ts) + 1 PROVE Row(us[i]) = v[i]
  <2>1. i \in 1 .. Len(ts) \/ i = Len(ts) + 1
    BY <1>1
  <2>2. CASE i \in 1 .. Len(ts)
    <3>1. us[i] = ts[i] /\ v[i] = rs[i] /\ rs[i] = Row(ts[i])
      BY <1>1, <1>2, <1>4, <2>2
    <3>. QED
      BY <3>1
  <2>3. CASE i = Len(ts) + 1
    BY <1>1, <1>4, <2>3
  <2>. QED
    BY <2>1, <2>2, <2>3
<1>7. Rows(us) = v
  BY <1>2, <1>5, <1>6
<1>. QED
  BY <1>7 DEF us, rs, v

LEMMA RowsEmpty == Rows(<<>>) = <<>>
  BY DEF Rows

\* What one turn of the loop does to what it works on, event by event.
LEMMA TranslateQuiet ==
  ASSUME NEW o, NEW e \in Event, e.type = "ORDER_ACCEPTED", NEW acc
  PROVE  Translate(o, acc, e) = acc
  BY DEF Translate

LEMMA TranslateOwnTrade ==
  ASSUME NEW o, NEW status, NEW left, NEW ts, NEW us, NEW changed, NEW rem,
         NEW t \in Trade, o.orderId \in {t.buyOrderId, t.sellOrderId}
  PROVE  Translate(o, Acc(status, left, ts, us, changed, rem), TradeEvent(t)) =
            Acc(status, left, Append(ts, Row(t)), us, changed, rem - t.quantity)
<1>1. TradeEvent(t).type = "TRADE_EXECUTED" /\ TradeEvent(t).trade = t
  BY DEF TradeEvent
<1>2. Translate(o, Acc(status, left, ts, us, changed, rem), TradeEvent(t)) =
         TranslateTrade(o, Acc(status, left, ts, us, changed, rem), t)
  BY <1>1 DEF Translate
<1>. QED
  BY <1>2 DEF TranslateTrade, IsOwnTrade, Acc, Row

StatusFor(type) == IF type = "ORDER_COMPLETELY_FILLED" THEN "FILLED" ELSE "PARTIALLY_FILLED"

LEMMA TranslateFillOf ==
  ASSUME NEW o, NEW acc, NEW id, NEW type \in FillTypes
  PROVE  Translate(o, acc, OrderEvent(type, id)) = TranslateFill(o, acc, id, StatusFor(type))
<1>1. OrderEvent(type, id).type = type /\ OrderEvent(type, id).orderId = id
  BY DEF OrderEvent
<1>. QED
  BY <1>1 DEF Translate, FillTypes, StatusFor

LEMMA TranslateMaker ==
  ASSUME NEW o, NEW status, NEW left, NEW ts, NEW us, NEW changed, NEW rem,
         NEW type \in FillTypes, NEW id, id # o.orderId
  PROVE  Translate(o, Acc(status, left, ts, us, changed, rem), OrderEvent(type, id)) =
            Acc(status, left, ts,
                Append(us, OrderUpdate(id, StatusFor(type),
                                       IF type = "ORDER_COMPLETELY_FILLED" THEN 0 ELSE -1)),
                changed, rem)
<1>. DEFINE s == StatusFor(type)
            left1 == IF type = "ORDER_COMPLETELY_FILLED" THEN 0 ELSE -1
<1>1. left1 = IF s = "FILLED" THEN 0 ELSE -1
  BY DEF StatusFor
<1>. HIDE DEF s, left1
<1>2. TranslateFill(o, Acc(status, left, ts, us, changed, rem), id, s) =
         Acc(status, left, ts, Append(us, OrderUpdate(id, s, left1)), changed, rem)
  BY <1>1 DEF TranslateFill, Acc
<1>. QED
  BY <1>2, TranslateFillOf DEF s, left1

LEMMA TranslateOwnFill ==
  ASSUME NEW o, NEW status, NEW left, NEW ts, NEW us, NEW changed, NEW rem,
         NEW type \in FillTypes
  PROVE  LET own == IF type = "ORDER_COMPLETELY_FILLED" THEN 0 ELSE rem
         IN  Translate(o, Acc(status, left, ts, us, changed, rem), OrderEvent(type, o.orderId)) =
                Acc(StatusFor(type), own, ts,
                    Append(us, OrderUpdate(o.orderId, StatusFor(type), own)), changed, rem)
<1>. DEFINE s == StatusFor(type)
            own == IF type = "ORDER_COMPLETELY_FILLED" THEN 0 ELSE rem
<1>1. own = IF s = "FILLED" THEN 0 ELSE rem
  BY DEF StatusFor
<1>. HIDE DEF s, own
<1>2. TranslateFill(o, Acc(status, left, ts, us, changed, rem), o.orderId, s) =
         Acc(s, own, ts, Append(us, OrderUpdate(o.orderId, s, own)), changed, rem)
  BY <1>1 DEF TranslateFill, Acc
<1>. QED
  BY <1>2, TranslateFillOf DEF s, own

LEMMA AccFields ==
  ASSUME NEW status, NEW left, NEW ts, NEW us, NEW changed, NEW rem
  PROVE  LET acc == Acc(status, left, ts, us, changed, rem)
         IN  /\ acc.status = status /\ acc.remainingQuantity = left /\ acc.trades = ts
             /\ acc.orderUpdates = us /\ acc.bookChanged = changed /\ acc.remaining = rem
  BY DEF Acc

LEMMA PlaceTranslates ==
  ASSUME NEW req \in PlaceOrderRequest, IdsBelowNext, AdapterPlace(req)
  PROVE  TranslationInv' /\ ResultInv'
<1>. DEFINE o == EngineOrder(req)
            e == OrderEvent("ORDER_ACCEPTED", o.orderId)
<1>1. /\ order' = o /\ o \in Order /\ o.orderId \in OrderIds /\ o.remainingQuantity = o.quantity
      /\ events' = <<e>> /\ result' = NoResult
  BY PlacementAllowed DEF AdapterPlace, PlaceOrder, Fresh, Order
<1>2. e \in Event /\ e.type = "ORDER_ACCEPTED"
  BY <1>1, EventKinds DEF EventType
<1>. HIDE DEF o, e
<1>3. events' = Append(<<>>, e) /\ <<>> \in Seq(Event)
  BY <1>1
<1>4. Translated(order', events') = Blank(o)
  <2>1. Translated(o, Append(<<>>, e)) = Translate(o, Translated(o, <<>>), e)
    BY <1>2, <1>3, TranslatedAppend
  <2>. QED
    BY <1>1, <1>2, <1>3, <2>1, TranslatedEmpty, TranslateQuiet
<1>5. Blank(o) = Acc("ACCEPTED", 0, <<>>, <<>>, FALSE, order'.remainingQuantity)
  BY <1>1 DEF Blank, Acc
<1>6. Reports(events') = <<>>
  BY <1>2, <1>3, NothingReported, QuietAppend DEF FillTypes
<1>7. UpdatesSoFar' = <<>>
  BY <1>4, <1>5 DEF UpdatesSoFar, Acc
<1>8. MakerUpdates(<<>>)'
  BY DEF MakerUpdates
<1>9. TranslationInv'
  BY <1>1, <1>4, <1>5, <1>6, <1>7, <1>8, RowsEmpty DEF TranslationInv, MakerUpdates
<1>10. result'.kind = "none"
  BY <1>1 DEF NoResult
<1>. QED
  BY <1>9, <1>10 DEF ResultInv, PlaceReturned

LEMMA OneMoreMaker ==
  ASSUME NEW us, MakerUpdates(us), NEW u \in Update, OfMaker(u)',
         \A x : OfMaker(x) => OfMaker(x)'
  PROVE  MakerUpdates(Append(us, u))'
<1>1. us \in Seq(Update) /\ \A i \in DOMAIN us : OfMaker(us[i])'
  BY DEF MakerUpdates
<1>. DEFINE v == Append(us, u)
<1>2. /\ v \in Seq(Update) /\ DOMAIN v = 1 .. Len(us) + 1 /\ DOMAIN us = 1 .. Len(us)
      /\ Len(us) \in Nat
      /\ \A i \in 1 .. Len(us) : v[i] = us[i]
      /\ v[Len(us) + 1] = u
  BY <1>1, AppendProperties
<1>. HIDE DEF v
<1>3. ASSUME NEW i \in DOMAIN v PROVE OfMaker(v[i])'
  <2>1. i \in DOMAIN us \/ i = Len(us) + 1
    BY <1>2
  <2>. QED
    BY <1>1, <1>2, <2>1
<1>4. MakerUpdates(v)'
  BY <1>2, <1>3 DEF MakerUpdates
<1>. QED
  BY <1>4 DEF v

LEMMA MatchTranslates ==
  ASSUME EngineInv, RefinementInv, ConserveInv, ReportInv, TranslationInv, AdapterMatch
  PROVE  TranslationInv' /\ ResultInv'
<1>. DEFINE m == BestOrder(Opposite(order.side))
            q == TradeQuantity(m)
            t == TradeWith(m, q)
            filled == Fills(m, q)
            type == IF filled THEN "ORDER_COMPLETELY_FILLED" ELSE "ORDER_PARTIALLY_FILLED"
            evs == Append(events, TradeEvent(t))
            u0 == OrderUpdate(m.orderId, StatusFor(type), IF filled THEN 0 ELSE -1)
<1>1. /\ order # NoOrder /\ order \in Order
      /\ m.orderId \in OrderIds /\ m.orderId # order.orderId
      /\ t \in Trade /\ {t.buyOrderId, t.sellOrderId} = {order.orderId, m.orderId}
      /\ order' = [order EXCEPT !.remainingQuantity = @ - q]
  BY MatchAccounts DEF AdapterMatch
<1>2. /\ events \in Seq(Event) /\ TradeEvent(t) \in Event /\ OrderEvent(type, m.orderId) \in Event
      /\ events' = Append(evs, OrderEvent(type, m.orderId))
      /\ Reports(events') = Append(Reports(events), t)
      /\ IdsOf(events', "ORDER_COMPLETELY_FILLED") =
            IdsOf(events, "ORDER_COMPLETELY_FILLED") \cup (IF filled THEN {m.orderId} ELSE {})
  BY MatchEvents DEF AdapterMatch
<1>3. t.quantity = q
  BY DEF TradeWith
<1>4. /\ type \in FillTypes /\ (type = "ORDER_COMPLETELY_FILLED" <=> filled)
      /\ StatusFor(type) \in {"FILLED", "PARTIALLY_FILLED"}
      /\ filled => StatusFor(type) = "FILLED"
  BY DEF FillTypes, StatusFor
<1>5. result' = result
  BY DEF AdapterMatch
<1>. HIDE DEF m, q, t, filled, type
<1>6. /\ order'.orderId = order.orderId /\ order'.quantity = order.quantity
      /\ order'.remainingQuantity = order.remainingQuantity - q
  BY <1>1 DEF Order
<1>7. evs \in Seq(Event)
  BY <1>2, AppendProperties
<1>8. PICK us : us = UpdatesSoFar
  OBVIOUS
<1>9. PICK u : u = u0
  OBVIOUS
<1>10. /\ result = NoResult
       /\ Translated(order, events) =
             Acc("ACCEPTED", 0, Rows(Reports(events)), us, FALSE, order.remainingQuantity)
       /\ MakerUpdates(us)
  BY <1>1, <1>8 DEF TranslationInv
<1>11. Translated(order, evs) =
          Acc("ACCEPTED", 0, Append(Rows(Reports(events)), Row(t)), us, FALSE, order.remainingQuantity - q)
  <2>1. Translated(order, evs) = Translate(order, Translated(order, events), TradeEvent(t))
    BY <1>2, TranslatedAppend
  <2>2. order.orderId \in {t.buyOrderId, t.sellOrderId}
    BY <1>1
  <2>. DEFINE rs == Rows(Reports(events))
              rem == order.remainingQuantity
              no == FALSE
  <2>3. Translated(order, events) = Acc("ACCEPTED", 0, rs, us, no, rem)
    BY <1>10
  <2>. HIDE DEF rs, rem, no
  <2>4. Translate(order, Acc("ACCEPTED", 0, rs, us, no, rem), TradeEvent(t)) =
           Acc("ACCEPTED", 0, Append(rs, Row(t)), us, no, rem - t.quantity)
    BY <1>1, <2>2, TranslateOwnTrade
  <2>5. Translated(order, evs) = Acc("ACCEPTED", 0, Append(rs, Row(t)), us, no, rem - q)
    BY <1>3, <2>1, <2>3, <2>4
  <2>. QED
    BY <2>5 DEF rs, rem, no
<1>12. Append(Rows(Reports(events)), Row(t)) = Rows(Reports(events'))
  BY <1>1, <1>2, ReportsTyped, RowsAppend
<1>. HIDE DEF evs, u0
<1>13. Translated(order', events') =
          Acc("ACCEPTED", 0, Rows(Reports(events')), Append(us, u), FALSE, order'.remainingQuantity)
  <2>1. Translated(order', events') = Translate(order, Translated(order, evs), OrderEvent(type, m.orderId))
    BY <1>2, <1>6, <1>7, TranslatedAppend
  <2>2. u = OrderUpdate(m.orderId, StatusFor(type),
                        IF type = "ORDER_COMPLETELY_FILLED" THEN 0 ELSE -1)
    BY <1>4, <1>9 DEF u0
  <2>. DEFINE rs == Rows(Reports(events'))
              rem == order'.remainingQuantity
              no == FALSE
  <2>3. Translated(order, evs) = Acc("ACCEPTED", 0, rs, us, no, rem)
    BY <1>6, <1>11, <1>12
  <2>. HIDE DEF rs, rem, no
  <2>4. Translate(order, Acc("ACCEPTED", 0, rs, us, no, rem), OrderEvent(type, m.orderId)) =
           Acc("ACCEPTED", 0, rs,
               Append(us, OrderUpdate(m.orderId, StatusFor(type),
                                      IF type = "ORDER_COMPLETELY_FILLED" THEN 0 ELSE -1)),
               no, rem)
    BY <1>1, <1>4, TranslateMaker
  <2>5. Translated(order', events') = Acc("ACCEPTED", 0, rs, Append(us, u), no, rem)
    BY <2>1, <2>2, <2>3, <2>4
  <2>. QED
    BY <2>5 DEF rs, rem, no
<1>14. UpdatesSoFar' = Append(us, u)
  BY <1>13 DEF UpdatesSoFar, Acc
<1>15. u \in Update /\ OfMaker(u)'
  <2>1. /\ u.orderId = m.orderId /\ u.status = StatusFor(type)
        /\ u.remainingQuantity = IF filled THEN 0 ELSE -1
        /\ u \in Update
    BY <1>1, <1>4, <1>9 DEF u0, OrderUpdate, Update
  <2>. QED
    BY <1>2, <1>4, <2>1 DEF OfMaker
<1>16. \A x : OfMaker(x) => OfMaker(x)'
  BY <1>2 DEF OfMaker
<1>17. MakerUpdates(Append(us, u))'
  BY <1>10, <1>15, <1>16, OneMoreMaker
<1>18. PICK v : v = Append(us, u)
  OBVIOUS
<1>19. MakerUpdates(v)'
  BY <1>17, <1>18
<1>20. MakerUpdates(UpdatesSoFar)'
  BY <1>14, <1>18, <1>19 DEF MakerUpdates, OfMaker
<1>21. TranslationInv'
  BY <1>5, <1>10, <1>13, <1>14, <1>20 DEF TranslationInv
<1>22. result'.kind = "none"
  BY <1>5, <1>10 DEF NoResult
<1>. QED
  BY <1>21, <1>22 DEF ResultInv, PlaceReturned

\* The events of the return.
LEMMA FinishEvents ==
  ASSUME EngineInv, RefinementInv, ConserveInv, ReportInv, Finish
  PROVE  /\ events \in Seq(Event) /\ Reports(events') = Reports(events)
         /\ \A id \in IdsOf(events, "ORDER_COMPLETELY_FILLED") : Spent(id)'
         /\ LET evs == IF order.remainingQuantity = order.quantity THEN events
                       ELSE Append(events, OrderEvent(IF order.remainingQuantity = 0
                                                      THEN "ORDER_COMPLETELY_FILLED"
                                                      ELSE "ORDER_PARTIALLY_FILLED", order.orderId))
            IN  evs \in Seq(Event) /\ events' = Append(evs, BookEvent)
<1>. DEFINE type == IF order.remainingQuantity = 0 THEN "ORDER_COMPLETELY_FILLED"
                                                   ELSE "ORDER_PARTIALLY_FILLED"
            e == OrderEvent(type, order.orderId)
            evs == IF order.remainingQuantity = order.quantity THEN events ELSE Append(events, e)
<1>1. /\ order # NoOrder /\ events \in Seq(Event)
      /\ order.orderId \in OrderIds
      /\ order.quantity \in Nat /\ order.quantity > 0
      /\ order.remainingQuantity \in Nat
      /\ events' = events \o OwnFillEvents \o <<BookEvent>>
      /\ recentTrades' = recentTrades /\ submitted' = submitted
  BY BookAssumption DEF Finish, EngineInv, EngineTypeOK, Order, Quantity
<1>2. order.remainingQuantity <= order.quantity
  BY <1>1 DEF ReportInv, DuringTheCall
<1>3. type \in FillTypes
  BY DEF FillTypes
<1>4. e \in Event /\ Append(events, e) \in Seq(Event) /\ Reports(Append(events, e)) = Reports(events)
  BY <1>1, <1>3, FillAppend
<1>5. OwnFillEvents = IF order.remainingQuantity = order.quantity THEN <<>> ELSE <<e>>
  BY <1>1, <1>2 DEF OwnFillEvents
<1>. HIDE DEF e
<1>6. BookEvent \in Event /\ BookEvent.type = "ORDER_BOOK_CHANGED"
  BY EventKinds
<1>7. evs \in Seq(Event) /\ Reports(evs) = Reports(events)
  BY <1>1, <1>4
<1>8. events \o OwnFillEvents = evs
  BY <1>1, <1>4, <1>5
<1>. HIDE DEF evs
<1>9. events' = Append(evs, BookEvent)
  BY <1>1, <1>6, <1>7, <1>8
<1>10. Reports(events') = Reports(events)
  BY <1>6, <1>7, <1>9, QuietAppend DEF FillTypes
<1>11. \A id \in IdsOf(events, "ORDER_COMPLETELY_FILLED") : Spent(id)'
  <2>1. /\ \A o : Unfilled(o)' = Unfilled(o)
        /\ ToSet(submitted)' = ToSet(submitted)
    BY <1>1, NothingTraded
  <2>. QED
    BY <2>1 DEF ReportInv, EventsTrue, Spent
<1>. QED
  BY <1>1, <1>7, <1>9, <1>10, <1>11 DEF evs, e

\* What placeOrder returns for the order it was called with.
LEMMA ReplyResult ==
  ASSUME EngineInv, RefinementInv, ConserveInv, ReportInv, TranslationInv, AdapterReply
  PROVE  LET st == IF order.remainingQuantity = order.quantity THEN "ACCEPTED"
                   ELSE IF order.remainingQuantity = 0 THEN "FILLED" ELSE "PARTIALLY_FILLED"
         IN  /\ result'.orderId = order.orderId /\ result'.status = st
             /\ result'.remainingQuantity = order.remainingQuantity
             /\ result'.trades = Rows(Reports(events'))
             /\ result'.orderUpdates =
                   IF order.remainingQuantity = order.quantity THEN UpdatesSoFar
                   ELSE Append(UpdatesSoFar,
                               OrderUpdate(order.orderId, st, order.remainingQuantity))
             /\ result'.accepted <=> ~(order.orderType = "MARKET"
                                         /\ order.remainingQuantity = order.quantity)
<1>. DEFINE rem == order.remainingQuantity
            type == IF rem = 0 THEN "ORDER_COMPLETELY_FILLED" ELSE "ORDER_PARTIALLY_FILLED"
            evs == IF rem = order.quantity THEN events
                   ELSE Append(events, OrderEvent(type, order.orderId))
            st == IF rem = order.quantity THEN "ACCEPTED"
                  ELSE IF rem = 0 THEN "FILLED" ELSE "PARTIALLY_FILLED"
            u0 == OrderUpdate(order.orderId, st, rem)
            rs == Rows(Reports(events'))
            us == UpdatesSoFar
            vs == IF rem = order.quantity THEN us ELSE Append(us, u0)
            no == FALSE
            yes == TRUE
<1>1. /\ order # NoOrder /\ order \in Order /\ order.orderId \in OrderIds
      /\ order.quantity \in Nat /\ order.quantity > 0 /\ rem \in Nat
  BY BookAssumption DEF AdapterReply, Finish, EngineInv, EngineTypeOK, Order, Quantity
<1>2. /\ events \in Seq(Event) /\ Reports(events') = Reports(events)
      /\ evs \in Seq(Event) /\ events' = Append(evs, BookEvent)
  BY FinishEvents DEF AdapterReply
<1>3. Translated(order, events) = Acc("ACCEPTED", 0, rs, us, no, rem)
  BY <1>1, <1>2 DEF TranslationInv
<1>4. result' = EngineResult(order, events')
  BY DEF AdapterReply
<1>. HIDE DEF rs, us, no, yes
<1>5. Translated(order, evs) = Acc(st, IF rem = order.quantity THEN 0 ELSE rem, rs, vs, no, rem)
  <2>1. CASE rem = order.quantity
    BY <1>3, <2>1
  <2>2. CASE rem # order.quantity
    <3>1. type \in FillTypes /\ OrderEvent(type, order.orderId) \in Event
      BY <1>1, EventKinds DEF FillTypes, EventType
    <3>2. Translated(order, evs) = Translate(order, Translated(order, events), OrderEvent(type, order.orderId))
      BY <1>2, <2>2, <3>1, TranslatedAppend
    <3>. DEFINE own == IF type = "ORDER_COMPLETELY_FILLED" THEN 0 ELSE rem
    <3>3. Translate(order, Acc("ACCEPTED", 0, rs, us, no, rem), OrderEvent(type, order.orderId)) =
             Acc(StatusFor(type), own, rs,
                 Append(us, OrderUpdate(order.orderId, StatusFor(type), own)), no, rem)
      <4>. HIDE DEF rem, type
      <4>. QED
        BY <3>1, TranslateOwnFill
    <3>4. own = rem /\ StatusFor(type) = st
      BY <2>2 DEF StatusFor
    <3>. HIDE DEF own, rem, type, st
    <3>. QED
      BY <1>3, <2>2, <3>2, <3>3, <3>4
  <2>. QED
    BY <2>1, <2>2
<1>6. st = "ACCEPTED" <=> rem = order.quantity
  BY <1>1
<1>. DEFINE left == IF rem = order.quantity THEN 0 ELSE rem
<1>. HIDE DEF evs, vs, st, rem, left
<1>7. BookEvent \in Event
  BY EventKinds
<1>8. Translated(order, events') = Acc(st, left, rs, vs, yes, rem)
  <2>1. Translated(order, events') = Translate(order, Translated(order, evs), BookEvent)
    BY <1>2, <1>7, TranslatedAppend
  <2>2. Translate(order, Acc(st, left, rs, vs, no, rem), BookEvent) = Acc(st, left, rs, vs, yes, rem)
    BY DEF Translate, Acc, BookEvent, yes
  <2>. QED
    BY <1>5, <2>1, <2>2 DEF left
<1>9. /\ result'.orderId = order.orderId /\ result'.status = st
      /\ result'.remainingQuantity = IF st = "ACCEPTED" THEN rem ELSE left
      /\ result'.trades = rs /\ result'.orderUpdates = vs
      /\ result'.accepted = ~(st = "ACCEPTED" /\ order.orderType = "MARKET" /\ rem = order.quantity)
  BY <1>4, <1>8 DEF EngineResult, Rejects, Acc
<1>. QED
  BY <1>6, <1>9 DEF st, rem, left, vs, rs, us

LEMMA ReplyIsTrue ==
  ASSUME EngineInv, RefinementInv, ConserveInv, ReportInv, TranslationInv, AdapterReply
  PROVE  TranslationInv' /\ ResultInv'
<1>. DEFINE rem == order.remainingQuantity
            st == IF rem = order.quantity THEN "ACCEPTED"
                  ELSE IF rem = 0 THEN "FILLED" ELSE "PARTIALLY_FILLED"
            u0 == OrderUpdate(order.orderId, st, rem)
<1>1. /\ order # NoOrder /\ order \in Order /\ order.orderId \in OrderIds
      /\ order.quantity \in Nat /\ order.quantity > 0 /\ rem \in Nat
      /\ order' = NoOrder /\ submitted' = submitted /\ cancelled' = cancelled
      /\ recentTrades' = recentTrades
  BY BookAssumption DEF AdapterReply, Finish, EngineInv, EngineTypeOK, Order, Quantity
<1>2. /\ result'.orderId = order.orderId /\ result'.status = st
      /\ result'.remainingQuantity = rem
      /\ result'.trades = Rows(Reports(events'))
      /\ result'.orderUpdates = IF rem = order.quantity THEN UpdatesSoFar
                                ELSE Append(UpdatesSoFar, u0)
      /\ result'.accepted <=> ~(order.orderType = "MARKET" /\ rem = order.quantity)
  BY ReplyResult
<1>3. /\ Reports(events') = Reports(events)
      /\ \A id \in IdsOf(events, "ORDER_COMPLETELY_FILLED") : Spent(id)'
  BY FinishEvents DEF AdapterReply
<1>4. /\ order.orderId \notin cancelled
      /\ \E o \in ToSet(submitted) : SameOrder(order, o) /\ rem = Unfilled(o)
  BY <1>1 DEF ConserveInv, TakerAccounted
<1>5. PICK own \in ToSet(submitted) : SameOrder(order, own) /\ rem = Unfilled(own)
  BY <1>4
<1>6. /\ \A o : Unfilled(o)' = Unfilled(o)
      /\ ToSet(submitted)' = ToSet(submitted)
  BY <1>1, NothingTraded
<1>7. rem = order.quantity <=> Reports(events) = <<>>
  BY <1>1 DEF ReportInv, DuringTheCall
<1>8. MakerUpdates(UpdatesSoFar)
  BY <1>1 DEF TranslationInv
<1>9. own.orderId = order.orderId /\ own.quantity = order.quantity /\ own.orderType = order.orderType
      /\ Unfilled(own)' = rem
  BY <1>5, <1>6 DEF SameOrder
<1>. HIDE DEF rem
<1>10. StatusOf(own)' = st
  BY <1>9 DEF StatusOf
<1>11. st = "FILLED" <=> rem = 0
  BY <1>1
<1>. HIDE DEF st
<1>12. ResultOf(own)'
  BY <1>1, <1>2, <1>3, <1>4, <1>7, <1>9, <1>10 DEF ResultOf
<1>13. ASSUME NEW u, OfMaker(u), u.remainingQuantity # -1 PROVE TrueUpdate(u)'
  <2>1. u.status = "FILLED" /\ u.remainingQuantity = 0 /\ Spent(u.orderId)'
    BY <1>3, <1>13 DEF OfMaker
  <2>2. PICK o \in ToSet(submitted)' : o.orderId = u.orderId /\ Unfilled(o)' = 0
    BY <2>1 DEF Spent
  <2>. QED
    BY <2>1, <2>2 DEF TrueUpdate, UpdateOf
<1>14. PICK u : u = u0
  OBVIOUS
<1>15. u \in Update \/ rem = order.quantity
  <2>1. rem # order.quantity => st \in {"FILLED", "PARTIALLY_FILLED"}
    BY DEF st
  <2>. QED
    BY <1>1, <1>14, <2>1 DEF Update, OrderUpdate
<1>16. TrueUpdate(u)'
  <2>1. u.orderId = order.orderId /\ u.status = st /\ u.remainingQuantity = rem
    BY <1>14 DEF OrderUpdate
  <2>2. UpdateOf(u, own)'
    BY <1>1, <1>4, <1>9, <1>11, <2>1 DEF UpdateOf
  <2>. QED
    BY <1>6, <2>2 DEF TrueUpdate
<1>17. PICK us : us = UpdatesSoFar
  OBVIOUS
<1>18. PICK vs : vs = result'.orderUpdates
  OBVIOUS
<1>19. us \in Seq(Update) /\ \A i \in DOMAIN us : us[i].remainingQuantity = -1 \/ TrueUpdate(us[i])'
  <2>1. us \in Seq(Update) /\ \A i \in DOMAIN us : OfMaker(us[i])
    BY <1>8, <1>17 DEF MakerUpdates
  <2>. QED
    BY <1>13, <2>1
<1>20. /\ vs \in Seq(Update)
       /\ \A i \in DOMAIN vs : vs[i].remainingQuantity = -1 \/ TrueUpdate(vs[i])'
  <2>1. CASE rem = order.quantity
    <3>1. vs = us
      BY <1>2, <1>17, <1>18, <2>1
    <3>. QED
      BY <1>19, <3>1
  <2>2. CASE rem # order.quantity
    <3>1. vs = Append(us, u) /\ u \in Update
      BY <1>2, <1>14, <1>15, <1>17, <1>18, <2>2
    <3>2. /\ vs \in Seq(Update) /\ DOMAIN vs = 1 .. Len(us) + 1 /\ DOMAIN us = 1 .. Len(us)
          /\ Len(us) \in Nat
          /\ \A i \in 1 .. Len(us) : vs[i] = us[i]
          /\ vs[Len(us) + 1] = u
      BY <1>19, <3>1, AppendProperties
    <3>3. ASSUME NEW i \in DOMAIN vs PROVE vs[i].remainingQuantity = -1 \/ TrueUpdate(vs[i])'
      <4>1. i \in DOMAIN us \/ i = Len(us) + 1
        BY <3>2
      <4>. QED
        BY <1>16, <1>19, <3>2, <4>1
    <3>. QED
      BY <3>2, <3>3
  <2>. QED
    BY <2>1, <2>2
<1>21. \A v \in ToSet(result'.orderUpdates) : v.remainingQuantity = -1 \/ TrueUpdate(v)'
  BY <1>18, <1>20 DEF ToSet
<1>22. ResultInv'
  BY <1>1, <1>6, <1>12, <1>18, <1>20, <1>21 DEF ResultInv
<1>. QED
  BY <1>1, <1>22 DEF TranslationInv

LEMMA CancelResults ==
  ASSUME NEW id \in OrderIds, AdapterCancel(id)
  PROVE  TranslationInv' /\ ResultInv'
<1>1. order' = NoOrder /\ result'.kind = "cancel"
  BY DEF AdapterCancel, EngineCancel, CancelResult
<1>. QED
  BY <1>1 DEF TranslationInv, ResultInv, PlaceReturned

LEMMA AdapterStutter ==
  ASSUME TranslationInv, ResultInv, UNCHANGED adapterVars
  PROVE  TranslationInv' /\ ResultInv'
<1>1. /\ order' = order /\ events' = events /\ result' = result /\ submitted' = submitted
      /\ recentTrades' = recentTrades /\ cancelled' = cancelled
  BY DEF adapterVars, engineVars
<1>2. (\A o : Unfilled(o)' = Unfilled(o)) /\ ToSet(submitted)' = ToSet(submitted)
  BY <1>1, NothingTraded
<1>3. UpdatesSoFar' = UpdatesSoFar
  BY <1>1 DEF UpdatesSoFar
<1>4. TranslationInv'
  BY <1>1, <1>3 DEF TranslationInv, MakerUpdates, OfMaker
<1>5. \A o : ResultOf(o)' <=> ResultOf(o)
  BY <1>1, <1>2 DEF ResultOf, StatusOf
<1>6. \A u : TrueUpdate(u)' <=> TrueUpdate(u)
  BY <1>1, <1>2 DEF TrueUpdate, UpdateOf
<1>. QED
  BY <1>1, <1>2, <1>4, <1>5, <1>6 DEF ResultInv, PlaceReturned

EngineInvs == EngineInv /\ RefinementInv /\ ConserveInv /\ ReportInv

LEMMA AdapterInvInit == AdapterInit => AdapterInv
<1>. SUFFICES ASSUME AdapterInit PROVE AdapterInv
  OBVIOUS
<1>1. order = NoOrder /\ result.kind = "none"
  BY DEF AdapterInit, EngineInit, NoResult
<1>. QED
  BY <1>1 DEF AdapterInv, TranslationInv, ResultInv, PlaceReturned

LEMMA AdapterInvStep ==
  EngineInvs /\ IdsBelowNext /\ AdapterInv /\ [AdapterNext]_adapterVars => AdapterInv'
<1>. SUFFICES ASSUME EngineInvs, IdsBelowNext, AdapterInv, [AdapterNext]_adapterVars
              PROVE  TranslationInv' /\ ResultInv'
  BY DEF AdapterInv
<1>1. ASSUME NEW req \in PlaceOrderRequest, AdapterPlace(req)
      PROVE  TranslationInv' /\ ResultInv'
  BY <1>1, PlaceTranslates
<1>2. CASE AdapterMatch
  BY <1>2, MatchTranslates DEF EngineInvs, AdapterInv
<1>3. CASE AdapterReply
  BY <1>3, ReplyIsTrue DEF EngineInvs, AdapterInv
<1>4. ASSUME NEW id \in OrderIds, AdapterCancel(id)
      PROVE  TranslationInv' /\ ResultInv'
  BY <1>4, CancelResults
<1>5. CASE UNCHANGED adapterVars
  BY <1>5, AdapterStutter DEF AdapterInv
<1>. QED
  BY <1>1, <1>2, <1>3, <1>4, <1>5 DEF AdapterNext

LEMMA AdapterInvariant == AdapterSpec => [](EngineInvs /\ IdsBelowNext /\ AdapterInv)
<1>1. AdapterInit => EngineInvs /\ IdsBelowNext /\ AdapterInv
  BY IdsInit, AdapterInvInit, EngineInitInv, RefinementInit, ConserveInit, ReportInit
     DEF AdapterInit, EngineInvs
<1>2. EngineInvs /\ IdsBelowNext /\ AdapterInv /\ [AdapterNext]_adapterVars =>
         (EngineInvs /\ IdsBelowNext /\ AdapterInv)'
  <2>. SUFFICES ASSUME EngineInvs, IdsBelowNext, AdapterInv, [AdapterNext]_adapterVars
                PROVE  EngineInvs' /\ IdsBelowNext' /\ AdapterInv'
    OBVIOUS
  <2>1. [EngineNext]_engineVars /\ IdsBelowNext'
    BY AdapterStep
  <2>2. EngineInvs'
    BY <2>1, EngineStepInv, RefinementStep, ConserveStep, ReportStep DEF EngineInvs
  <2>. QED
    BY <2>1, <2>2, AdapterInvStep
<1>. QED
  BY <1>1, <1>2, PTL DEF AdapterSpec

-----------------------------------------------------------------------------
(* What the invariant says of a result.                                    *)

LEMMA PlacedIs ==
  ASSUME IdsDistinct, NEW o \in ToSet(submitted)
  PROVE  Placed(o.orderId) = o
<1>1. PICK k \in DOMAIN submitted : o = submitted[k]
  BY DEF ToSet
<1>2. ArrivalOf(submitted[k].orderId) = k
  BY ArrivalIs
<1>. QED
  BY <1>1, <1>2 DEF Placed

\* Between calls the book holds what is left of a LIMIT order.
LEMMA RestsIff ==
  ASSUME EngineInvs, order = NoOrder, NEW o \in ToSet(submitted)
  PROVE  /\ o.orderId \in DOMAIN orderLocations => o.orderType = "LIMIT" /\ Unfilled(o) > 0
         /\ o.orderType = "LIMIT" /\ Unfilled(o) > 0 /\ o.orderId \notin cancelled =>
               o.orderId \in DOMAIN orderLocations
<1>. USE DEF EngineInvs
<1>1. ASSUME o.orderId \in DOMAIN orderLocations
      PROVE  o.orderType = "LIMIT" /\ Unfilled(o) > 0
  <2>. DEFINE loc == orderLocations[o.orderId]
  <2>1. /\ loc.side \in Side /\ loc.price \in DOMAIN levels[loc.side]
        /\ \E i \in DOMAIN levels[loc.side][loc.price] :
              levels[loc.side][loc.price][i].orderId = o.orderId
    BY <1>1 DEF EngineInv, BookInv, IndexConsistent, IndexSound, BookTypeOK, LocationsTypeOK
  <2>. HIDE DEF loc
  <2>2. PICK i \in DOMAIN levels[loc.side][loc.price] :
           levels[loc.side][loc.price][i].orderId = o.orderId
    BY <2>1
  <2>. DEFINE x == levels[loc.side][loc.price][i]
  <2>3. x \in OpenOrders(loc.side) /\ x.remainingQuantity > 0 /\ x.orderId = o.orderId
    BY <2>1, <2>2, InOpenOrders DEF EngineInv, BookInv, NoSpentOrder
  <2>. HIDE DEF x
  <2>4. PICK u \in ToSet(submitted) : IsRestOf(x, u)
    BY <2>1, <2>3 DEF ConserveInv, NodesAccounted
  <2>5. u = o
    BY <2>3, <2>4, SameSubmitted DEF RefinementInv, IsRestOf, SameOrder
  <2>. QED
    BY <2>3, <2>4, <2>5 DEF IsRestOf
<1>2. ASSUME o.orderType = "LIMIT", Unfilled(o) > 0, o.orderId \notin cancelled
      PROVE  o.orderId \in DOMAIN orderLocations
  <2>1. PICK x \in OpenOrders(o.side) : x.orderId = o.orderId
    BY <1>2 DEF ConserveInv, NothingLost, Owed
  <2>2. o.side \in Side
    BY UnfilledIs
  <2>. QED
    BY <2>1, <2>2, OpenOrderIds DEF EngineInv
<1>. QED
  BY <1>1, <1>2

LEMMA ResultTrue == EngineInvs /\ AdapterInv => ResultIsTrue /\ RejectedLeavesNoTrace
<1>. SUFFICES ASSUME EngineInvs, AdapterInv, PlaceReturned
              PROVE  ResultIsTrue /\ RejectedLeavesNoTrace
  BY DEF ResultIsTrue, RejectedLeavesNoTrace
<1>1. order = NoOrder
  BY DEF AdapterInv, ResultInv
<1>2. PICK o \in ToSet(submitted) : ResultOf(o)
  BY DEF AdapterInv, ResultInv
<1>3. Placed(result.orderId) = o /\ result.orderId = o.orderId
  BY <1>2, PlacedIs DEF EngineInvs, RefinementInv, ResultOf
<1>4. o.quantity \in Nat /\ o.quantity > 0 /\ Unfilled(o) \in Int /\ o.orderType \in {"LIMIT", "MARKET"}
  <2>1. o \in Order /\ Unfilled(o) \in Int
    BY UnfilledIs DEF EngineInvs
  <2>. QED
    BY <2>1, BookAssumption DEF Order, Quantity, OrderType
<1>5. ReportedTrades = Reports(events)
  BY ReportedTradesIs
<1>6. Unfilled(o) >= 0
  BY <1>2, ConserveImplies DEF EngineInvs, QuantityConserved
<1>7. result.trades = [i \in DOMAIN ReportedTrades |->
                          [tradeId |-> ReportedTrades[i].tradeId,
                           price |-> ReportedTrades[i].price,
                           quantity |-> ReportedTrades[i].quantity]]
  BY <1>2, <1>5 DEF ResultOf, Rows, Row
<1>8. ResultIsTrue
  <2>1. /\ result.remainingQuantity = Unfilled(o)
        /\ result.status = "FILLED" <=> Unfilled(o) = 0
        /\ result.status = "ACCEPTED" <=> Unfilled(o) = o.quantity
    BY <1>2, <1>4 DEF ResultOf, StatusOf
  <2>. QED
    BY <1>3, <1>7, <2>1 DEF ResultIsTrue
<1>9. RejectedLeavesNoTrace
  <2>1. /\ result.accepted <=> ~(o.orderType = "MARKET" /\ Unfilled(o) = o.quantity)
        /\ Unfilled(o) = o.quantity <=> ReportedTrades = <<>>
        /\ o.orderId \notin cancelled
    BY <1>2, <1>5 DEF ResultOf
  <2>2. o.orderId \in DOMAIN orderLocations <=> o.orderType = "LIMIT" /\ Unfilled(o) > 0
    BY <1>1, <2>1, RestsIff
  <2>. QED
    BY <1>3, <1>4, <2>1, <2>2 DEF RejectedLeavesNoTrace
<1>. QED
  BY <1>8, <1>9

LEMMA UpdatesTrue == EngineInvs /\ AdapterInv => UpdatesAreTrue
<1>. SUFFICES ASSUME EngineInvs, AdapterInv, PlaceReturned,
                     NEW i \in DOMAIN Forwarded(result.orderUpdates)
              PROVE  LET u == Forwarded(result.orderUpdates)[i]
                         o == Placed(u.orderId)
                     IN  /\ u.remainingQuantity = Unfilled(o)
                         /\ u.status = "FILLED" <=> u.remainingQuantity = 0
                         /\ u.status = "FILLED" => u.orderId \notin DOMAIN orderLocations
                         /\ u.status # "FILLED" /\ o.orderType = "LIMIT" =>
                               u.orderId \in DOMAIN orderLocations
  BY DEF UpdatesAreTrue
<1>. DEFINE u == Forwarded(result.orderUpdates)[i]
<1>1. /\ order = NoOrder /\ result.orderUpdates \in Seq(Update)
      /\ \A v \in ToSet(result.orderUpdates) : v.remainingQuantity = -1 \/ TrueUpdate(v)
  BY DEF AdapterInv, ResultInv
<1>2. PICK j \in DOMAIN result.orderUpdates :
         u = result.orderUpdates[j] /\ result.orderUpdates[j].remainingQuantity >= 0
  BY <1>1, ForwardedIn
<1>. HIDE DEF u
<1>3. u \in ToSet(result.orderUpdates) /\ u.remainingQuantity >= 0
  BY <1>2 DEF ToSet
<1>4. TrueUpdate(u)
  BY <1>1, <1>3
<1>5. PICK o \in ToSet(submitted) : UpdateOf(u, o)
  BY <1>4 DEF TrueUpdate
<1>6. Placed(u.orderId) = o /\ u.orderId = o.orderId
  BY <1>5, PlacedIs DEF EngineInvs, RefinementInv, UpdateOf
<1>7. Unfilled(o) \in Int /\ Unfilled(o) >= 0
  BY <1>3, <1>5, UnfilledIs DEF EngineInvs, UpdateOf
<1>8. /\ u.remainingQuantity = Unfilled(o)
      /\ u.status = "FILLED" <=> Unfilled(o) = 0
      /\ Unfilled(o) = 0 \/ o.orderId \notin cancelled
  BY <1>5 DEF UpdateOf
<1>9. o.orderId \in DOMAIN orderLocations <=> Unfilled(o) > 0 /\ o.orderType = "LIMIT"
  BY <1>1, <1>7, <1>8, RestsIff
<1>. QED
  BY <1>6, <1>7, <1>8, <1>9 DEF u

\* ResultIsTrue: the status, the remaining quantity and the trades that
\* placeOrder returns are those of the order after the call.
THEOREM ResultsAreTrue == AdapterSpec => []ResultIsTrue
  BY AdapterInvariant, ResultTrue, PTL

\* RejectedLeavesNoTrace: placeOrder rejects an order exactly when it neither
\* traded nor rests.
THEOREM RejectionLeavesNoTrace == AdapterSpec => []RejectedLeavesNoTrace
  BY AdapterInvariant, ResultTrue, PTL

\* UpdatesAreTrue: an order update that handlePlaceOrder sends on says what is
\* really left of its order, and FILLED only of an order that has left the book;
\* what is left of a LIMIT order rests there.
THEOREM UpdatesTellTheTruth == AdapterSpec => []UpdatesAreTrue
  BY AdapterInvariant, UpdatesTrue, PTL

\* QuantityConserved, of the engine inside the server.
THEOREM ServerConservesQuantity == AdapterSpec => []QuantityConserved
<1>1. AdapterSpec => EngineSpec
  BY AdapterUsesEngine DEF UsesEngine
<1>. QED
  BY <1>1, EngineConservesQuantity, PTL

\* EventsReportTheCall, of the engine inside the server.
THEOREM ServerReportsTheCall == AdapterSpec => []EventsReportTheCall
<1>1. AdapterSpec => EngineSpec
  BY AdapterUsesEngine DEF UsesEngine
<1>. QED
  BY <1>1, EngineReportsTheCall, PTL

\* PriceTimePriority: the engine inside the server is a price-time book.
THEOREM ServerIsPriceTimeBook == AdapterSpec => PriceTimePriority
<1>1. AdapterSpec => EngineSpec
  BY AdapterUsesEngine DEF UsesEngine
<1>. QED
  BY <1>1, EngineIsPriceTimeBook

LEMMA CancelTells ==
  ASSUME EngineInvs, TranslationInv, [AdapterNext]_adapterVars
  PROVE  [result'.kind = "cancel" =>
            /\ result'.success <=> result'.orderId \in DOMAIN orderLocations
            /\ DOMAIN orderLocations' = DOMAIN orderLocations \ {result'.orderId}]_adapterVars
<1>. SUFFICES ASSUME AdapterNext, result'.kind = "cancel"
              PROVE  /\ result'.success <=> result'.orderId \in DOMAIN orderLocations
                     /\ DOMAIN orderLocations' = DOMAIN orderLocations \ {result'.orderId}
  OBVIOUS
<1>1. ASSUME NEW req \in PlaceOrderRequest, AdapterPlace(req) PROVE FALSE
  BY <1>1 DEF AdapterPlace, NoResult
<1>2. CASE AdapterMatch
  BY <1>2 DEF AdapterMatch, Match, TranslationInv, NoResult
<1>3. CASE AdapterReply
  BY <1>3 DEF AdapterReply, EngineResult
<1>4. ASSUME NEW id \in OrderIds, AdapterCancel(id)
      PROVE  /\ result'.success <=> result'.orderId \in DOMAIN orderLocations
             /\ DOMAIN orderLocations' = DOMAIN orderLocations \ {result'.orderId}
  <2>1. result'.orderId = id /\ (result'.success <=> events' # <<>>)
    BY <1>4 DEF AdapterCancel, CancelResult
  <2>2. CASE CancelOrder(id) /\ events' = <<OrderEvent("ORDER_CANCELLED", id), BookEvent>>
    <3>1. id \in DOMAIN orderLocations /\ DOMAIN orderLocations' = DOMAIN orderLocations \ {id}
      BY <2>2 DEF CancelOrder, ForgetLocation
    <3>. QED
      BY <2>1, <2>2, <3>1
  <2>3. CASE id \notin DOMAIN orderLocations /\ events' = <<>> /\ UNCHANGED bookVars
    BY <2>1, <2>3 DEF bookVars
  <2>. QED
    BY <1>4, <2>2, <2>3 DEF AdapterCancel, EngineCancel
<1>. QED
  BY <1>1, <1>2, <1>3, <1>4 DEF AdapterNext

\* CancelResultIsTrue: cancelOrder reports success exactly when it took the
\* order out of the book.
THEOREM CancelResultsAreTrue == AdapterSpec => CancelResultIsTrue
<1>1. EngineInvs /\ AdapterInv /\ [AdapterNext]_adapterVars =>
         [result'.kind = "cancel" =>
            /\ result'.success <=> result'.orderId \in DOMAIN orderLocations
            /\ DOMAIN orderLocations' = DOMAIN orderLocations \ {result'.orderId}]_adapterVars
  BY CancelTells DEF AdapterInv
<1>. QED
  BY <1>1, AdapterInvariant, PTL DEF AdapterSpec, CancelResultIsTrue

-----------------------------------------------------------------------------
(* Every filled order is the subject of one update.                        *)

\* The orders the updates us call filled.
SentFills(us) == {us[i].orderId : i \in {j \in DOMAIN us : us[j].status = "FILLED"}}

\* These are the orders in ids, each in one update, which says that nothing is left.
FillsSent(us, ids) ==
    /\ us \in Seq(Update) /\ SentFills(us) = ids
    /\ \A i \in DOMAIN us : us[i].status = "FILLED" => us[i].remainingQuantity = 0
    /\ \A i, j \in DOMAIN us :
          (us[i].status = "FILLED" /\ us[j].status = "FILLED"
              /\ us[i].orderId = us[j].orderId) => i = j

LEMMA NoFillsSent == FillsSent(<<>>, {})
  BY DEF FillsSent, SentFills

LEMMA FillsSentAppend ==
  ASSUME NEW us, NEW ids, FillsSent(us, ids), NEW u \in Update,
         u.status = "FILLED" => u.remainingQuantity = 0 /\ u.orderId \notin ids
  PROVE  FillsSent(Append(us, u), IF u.status = "FILLED" THEN ids \cup {u.orderId} ELSE ids)
<1>. DEFINE v == Append(us, u)
            jds == IF u.status = "FILLED" THEN ids \cup {u.orderId} ELSE ids
<1>1. us \in Seq(Update) /\ SentFills(us) = ids
  BY DEF FillsSent
<1>2. /\ v \in Seq(Update) /\ DOMAIN v = 1 .. Len(us) + 1 /\ DOMAIN us = 1 .. Len(us)
      /\ Len(us) \in Nat
      /\ \A i \in 1 .. Len(us) : v[i] = us[i]
      /\ v[Len(us) + 1] = u
  BY <1>1, AppendProperties
<1>. HIDE DEF v
<1>3. \A i \in DOMAIN v : i \in DOMAIN us \/ i = Len(us) + 1
  BY <1>2
<1>4. \A i \in DOMAIN us : us[i].status = "FILLED" => us[i].orderId \in ids
  BY <1>1 DEF SentFills
<1>5. SentFills(v) = jds
  <2>1. ASSUME NEW id \in SentFills(v) PROVE id \in jds
    <3>1. PICK i \in DOMAIN v : v[i].status = "FILLED" /\ id = v[i].orderId
      BY DEF SentFills
    <3>. QED
      BY <1>2, <1>3, <1>4, <3>1
  <2>2. ASSUME NEW id \in jds PROVE id \in SentFills(v)
    <3>1. CASE id \in ids
      <4>1. PICK i \in DOMAIN us : us[i].status = "FILLED" /\ id = us[i].orderId
        BY <1>1, <3>1 DEF SentFills
      <4>2. i \in DOMAIN v /\ v[i] = us[i]
        BY <1>2
      <4>. QED
        BY <4>1, <4>2 DEF SentFills
    <3>2. CASE u.status = "FILLED" /\ id = u.orderId
      <4>1. Len(us) + 1 \in DOMAIN v
        BY <1>2
      <4>. QED
        BY <1>2, <3>2, <4>1 DEF SentFills
    <3>. QED
      BY <2>2, <3>1, <3>2
  <2>. HIDE DEF jds
  <2>. QED
    BY <2>1, <2>2
<1>6. \A i \in DOMAIN v : v[i].status = "FILLED" => v[i].remainingQuantity = 0
  BY <1>2, <1>3 DEF FillsSent
<1>7. ASSUME NEW i \in DOMAIN v, NEW j \in DOMAIN v, v[i].status = "FILLED",
             v[j].status = "FILLED", v[i].orderId = v[j].orderId
      PROVE  i = j
  <2>1. CASE i \in DOMAIN us /\ j \in DOMAIN us
    BY <1>2, <1>7, <2>1 DEF FillsSent
  <2>2. CASE i \in DOMAIN us /\ j = Len(us) + 1
    BY <1>2, <1>4, <1>7, <2>2
  <2>3. CASE i = Len(us) + 1 /\ j \in DOMAIN us
    BY <1>2, <1>4, <1>7, <2>3
  <2>. QED
    BY <1>3, <2>1, <2>2, <2>3
<1>. QED
  BY <1>2, <1>5, <1>6, <1>7 DEF FillsSent, v

\* The ids of the events of a type among the first n.
FirstIds(evs, n, type) == {evs[i].orderId : i \in {j \in 1 .. n : evs[j].type = type}}

LEMMA FirstIdsNext ==
  ASSUME NEW evs, NEW n \in Nat, n > 0, NEW type
  PROVE  FirstIds(evs, n, type) = FirstIds(evs, n - 1, type)
            \cup (IF evs[n].type = type THEN {evs[n].orderId} ELSE {})
<1>1. 1 .. n = (1 .. n - 1) \cup {n}
  OBVIOUS
<1>2. CASE evs[n].type = type
  BY <1>1, <1>2 DEF FirstIds
<1>3. CASE evs[n].type # type
  BY <1>1, <1>3 DEF FirstIds
<1>. QED
  BY <1>2, <1>3

\* The form of what the loop works on.
Working(acc, us) ==
    \E status, left, ts, changed : \E rem \in Int :
        acc = Acc(status, left, ts, us, changed, rem)

LEMMA TranslateOtherTrade ==
  ASSUME NEW o, NEW status, NEW left, NEW ts, NEW us, NEW changed, NEW rem,
         NEW t \in Trade, o.orderId \notin {t.buyOrderId, t.sellOrderId}
  PROVE  Translate(o, Acc(status, left, ts, us, changed, rem), TradeEvent(t)) =
            Acc(status, left, Append(ts, Row(t)), us, changed, rem)
<1>1. TradeEvent(t).type = "TRADE_EXECUTED" /\ TradeEvent(t).trade = t
  BY DEF TradeEvent
<1>2. Translate(o, Acc(status, left, ts, us, changed, rem), TradeEvent(t)) =
         TranslateTrade(o, Acc(status, left, ts, us, changed, rem), t)
  BY <1>1 DEF Translate
<1>. QED
  BY <1>2 DEF TranslateTrade, IsOwnTrade, Acc, Row

\* What one event adds to the updates.
LEMMA TranslateUpdates ==
  ASSUME NEW o, NEW acc, NEW us \in Seq(Update), Working(acc, us), NEW e \in Event
  PROVE  \/ e.type \notin FillTypes /\ Working(Translate(o, acc, e), us)
         \/ /\ e.type \in FillTypes
            /\ \E u \in Update : /\ Working(Translate(o, acc, e), Append(us, u))
                                 /\ u.orderId = e.orderId /\ u.status = StatusFor(e.type)
                                 /\ u.status = "FILLED" => u.remainingQuantity = 0
<1>1. PICK status, left, ts, changed : \E rem \in Int :
         acc = Acc(status, left, ts, us, changed, rem)
  BY DEF Working
<1>2. PICK rem \in Int : acc = Acc(status, left, ts, us, changed, rem)
  BY <1>1
<1>3. CASE e.type \in FillTypes
  <2>1. e.orderId \in OrderIds /\ e = OrderEvent(e.type, e.orderId)
    <3>1. e.type # "TRADE_EXECUTED" /\ e.type # "ORDER_BOOK_CHANGED"
      BY <1>3 DEF FillTypes
    <3>2. e \in [type : EventType, orderId : OrderIds]
      BY <3>1 DEF Event, BookEvent
    <3>. QED
      BY <3>2 DEF OrderEvent
  <2>. DEFINE s == StatusFor(e.type)
              id == e.orderId
              left1 == IF s = "FILLED" THEN 0 ELSE IF id = o.orderId THEN rem ELSE -1
              u == OrderUpdate(id, s, left1)
  <2>2. Translate(o, acc, e) = TranslateFill(o, acc, id, s)
    BY <1>3, <2>1, TranslateFillOf
  <2>3. s \in {"FILLED", "PARTIALLY_FILLED"}
    BY DEF StatusFor
  <2>4. left1 \in Int
    BY <1>2
  <2>5. u \in Update /\ u.orderId = id /\ u.status = s /\ (s = "FILLED" => u.remainingQuantity = 0)
    BY <2>1, <2>3, <2>4 DEF OrderUpdate, Update
  <2>. HIDE DEF s
  <2>6. Working(TranslateFill(o, acc, id, s), Append(us, u))
    <3>1. CASE id = o.orderId
      <4>1. TranslateFill(o, acc, id, s) =
               Acc(s, IF s = "FILLED" THEN 0 ELSE rem, ts, Append(us, u), changed, rem)
        BY <1>2, <3>1 DEF TranslateFill, Acc
      <4>. HIDE DEF u
      <4>. QED
        BY <1>2, <4>1 DEF Working
    <3>2. CASE id # o.orderId
      <4>1. TranslateFill(o, acc, id, s) = Acc(status, left, ts, Append(us, u), changed, rem)
        BY <1>2, <3>2 DEF TranslateFill, Acc
      <4>. HIDE DEF u
      <4>. QED
        BY <1>2, <4>1 DEF Working
    <3>. QED
      BY <3>1, <3>2
  <2>. HIDE DEF u
  <2>. QED
    BY <1>3, <2>2, <2>5, <2>6 DEF s
<1>4. CASE e.type \notin FillTypes
  <2>1. CASE e.type = "TRADE_EXECUTED"
    <3>1. PICK t \in Trade : t = e.trade /\ t.quantity \in Int
      BY <2>1, EventKinds, BookAssumption DEF Trade, Quantity
    <3>. DEFINE left1 == IF IsOwnTrade(o, t) THEN rem - t.quantity ELSE rem
    <3>2. e = TradeEvent(t)
      <4>1. e \in [type : {"TRADE_EXECUTED"}, trade : Trade]
        BY <2>1 DEF Event, BookEvent, EventType
      <4>. QED
        BY <2>1, <3>1, <4>1 DEF TradeEvent
    <3>3. Translate(o, acc, e) = Acc(status, left, Append(ts, Row(t)), us, changed, left1)
      BY <1>2, <3>2, TranslateOwnTrade, TranslateOtherTrade DEF IsOwnTrade
    <3>4. left1 \in Int
      BY <1>2, <3>1
    <3>. HIDE DEF left1
    <3>. QED
      BY <1>4, <3>3, <3>4 DEF Working
  <2>2. CASE e.type = "ORDER_BOOK_CHANGED"
    <3>. DEFINE yes == TRUE
    <3>1. Translate(o, acc, e) = Acc(status, left, ts, us, yes, rem)
      BY <1>2, <2>2 DEF Translate, Acc
    <3>. HIDE DEF yes
    <3>. QED
      BY <1>2, <1>4, <3>1 DEF Working
  <2>3. CASE e.type \notin {"TRADE_EXECUTED", "ORDER_BOOK_CHANGED"}
    <3>1. Translate(o, acc, e) = acc
      BY <1>4, <2>3 DEF Translate, FillTypes
    <3>. QED
      BY <1>2, <1>4, <3>1 DEF Working
  <2>. QED
    BY <2>1, <2>2, <2>3
<1>. QED
  BY <1>3, <1>4

\* The updates made from a vector in which no order is reported twice.
LEMMA UpdatesTranslated ==
  ASSUME NEW o, o.quantity \in Int, NEW evs \in Seq(Event), FilledOnce(evs)
  PROVE  FillsSent(Translated(o, evs).orderUpdates, IdsOf(evs, "ORDER_COMPLETELY_FILLED"))
<1>. DEFINE N == Len(evs)
            Filled(n) == FirstIds(evs, n, "ORDER_COMPLETELY_FILLED")
<1>1. PICK f : IsTranslation(f, N, o, evs) /\ Translated(o, evs) = f[N]
  BY TranslatedIs
<1>2. N \in Nat /\ DOMAIN evs = 1 .. N /\ \A n \in 1 .. N : evs[n] \in Event
  OBVIOUS
<1>3. f[0] = Blank(o) /\ \A n \in 1 .. N : f[n] = Translate(o, f[n - 1], evs[n])
  BY <1>1, <1>2, TranslationSteps
<1>4. IdsOf(evs, "ORDER_COMPLETELY_FILLED") = Filled(N)
  BY <1>2 DEF IdsOf, FirstIds
<1>. DEFINE Good(n) == \E us : Working(f[n], us) /\ FillsSent(us, Filled(n))
            Odd == {n \in 0 .. N : ~Good(n)}
<1>. HIDE DEF N
<1>5. Odd = {}
  <2>. SUFFICES ASSUME Odd # {} PROVE FALSE
    OBVIOUS
  <2>1. PICK n \in Odd : \A l \in Odd : n <= l
    <3>1. Odd \in SUBSET Nat
      BY <1>2
    <3>. HIDE DEF Odd
    <3>. QED
      BY <3>1, LeastExists
  <2>2. n # 0
    <3>. DEFINE us0 == <<>>
                no == FALSE
    <3>1. Blank(o) = Acc("ACCEPTED", 0, us0, us0, no, o.quantity)
      BY DEF Blank, Acc
    <3>. HIDE DEF no
    <3>2. Working(f[0], us0)
      BY <1>3, <3>1 DEF Working
    <3>3. Filled(0) = {}
      BY DEF FirstIds
    <3>4. FillsSent(us0, Filled(0))
      BY <3>3, NoFillsSent
    <3>. HIDE DEF us0
    <3>5. Good(0)
      BY <3>2, <3>4
    <3>. QED
      BY <2>1, <3>5
  <2>3. n \in Nat /\ n > 0 /\ n - 1 \in 0 .. N /\ n \in 1 .. N /\ ~(n <= n - 1)
    BY <1>2, <2>1, <2>2
  <2>4. PICK us : Working(f[n - 1], us) /\ FillsSent(us, Filled(n - 1))
    BY <2>1, <2>3
  <2>5. PICK e \in Event : e = evs[n]
    BY <1>2, <2>3
  <2>6. us \in Seq(Update)
    BY <2>4 DEF FillsSent
  <2>7. PICK acc : acc = f[n - 1]
    OBVIOUS
  <2>8. f[n] = Translate(o, acc, e)
    BY <1>3, <2>3, <2>5, <2>7
  <2>9. Filled(n) = Filled(n - 1) \cup
           (IF e.type = "ORDER_COMPLETELY_FILLED" THEN {e.orderId} ELSE {})
    BY <2>3, <2>5, FirstIdsNext
  <2>. HIDE DEF Filled
  <2>10. CASE e.type \notin FillTypes
    <3>1. Working(f[n], us)
      BY <2>4, <2>6, <2>7, <2>8, <2>10, TranslateUpdates
    <3>2. e.type # "ORDER_COMPLETELY_FILLED"
      BY <2>10 DEF FillTypes
    <3>3. Filled(n) = Filled(n - 1)
      BY <2>9, <3>2
    <3>4. Good(n)
      BY <2>4, <3>1, <3>3
    <3>. QED
      BY <2>1, <3>4
  <2>11. CASE e.type \in FillTypes
    <3>1. PICK u \in Update : /\ Working(f[n], Append(us, u))
                              /\ u.orderId = e.orderId /\ u.status = StatusFor(e.type)
                              /\ u.status = "FILLED" => u.remainingQuantity = 0
      BY <2>4, <2>6, <2>7, <2>8, <2>11, TranslateUpdates
    <3>2. u.status = "FILLED" <=> e.type = "ORDER_COMPLETELY_FILLED"
      BY <3>1 DEF StatusFor
    <3>3. u.orderId \notin Filled(n - 1)
      <4>. SUFFICES ASSUME u.orderId \in Filled(n - 1) PROVE FALSE
        OBVIOUS
      <4>1. PICK i \in 1 .. n - 1 : evs[i].type = "ORDER_COMPLETELY_FILLED" /\ evs[i].orderId = u.orderId
        BY DEF Filled, FirstIds
      <4>2. i \in DOMAIN evs /\ n \in DOMAIN evs /\ i # n /\ evs[i].type \in FillTypes
        BY <1>2, <2>3, <4>1 DEF FillTypes
      <4>. QED
        BY <2>5, <2>11, <3>1, <4>1, <4>2 DEF FilledOnce
    <3>. DEFINE ids == Filled(n - 1)
                jds == IF u.status = "FILLED" THEN ids \cup {u.orderId} ELSE ids
    <3>4. FillsSent(us, ids)
      BY <2>4
    <3>. HIDE DEF ids
    <3>5. FillsSent(Append(us, u), jds)
      BY <3>1, <3>3, <3>4, FillsSentAppend DEF ids
    <3>6. jds = Filled(n)
      BY <2>9, <3>1, <3>2 DEF ids
    <3>7. Good(n)
      BY <3>1, <3>5, <3>6
    <3>. QED
      BY <2>1, <3>7
  <2>. QED
    BY <2>10, <2>11
<1>6. Good(N)
  BY <1>2, <1>5
<1>7. PICK us : Working(f[N], us) /\ FillsSent(us, Filled(N))
  BY <1>6
<1>8. f[N].orderUpdates = us
  BY <1>7 DEF Working, Acc
<1>. QED
  BY <1>1, <1>4, <1>7, <1>8 DEF N

\* The updates that are sent on still tell of every filled order, once.
LEMMA ForwardedFills ==
  ASSUME NEW us, NEW ids, FillsSent(us, ids)
  PROVE  FillsSent(Forwarded(us), ids)
<1>. DEFINE N == Len(us)
            f == CHOOSE f : IsForward(f, N, us)
            Filled(n) == {us[i].orderId : i \in {j \in 1 .. n : us[j].status = "FILLED"}}
<1>1. /\ us \in Seq(Update) /\ N \in Nat /\ DOMAIN us = 1 .. N
      /\ \A n \in 1 .. N : us[n] \in Update
  BY DEF FillsSent
<1>2. IsForward(f, N, us)
  BY <1>1, ForwardExists
<1>3. Forwarded(us) = f[N]
  BY DEF Forwarded, IsForward
<1>. HIDE DEF f
<1>4. Filled(N) = ids
  BY <1>1 DEF FillsSent, SentFills
<1>. HIDE DEF N
<1>5. \A n \in 0 .. N : f[n] = IF n = 0 THEN <<>>
                               ELSE IF us[n].remainingQuantity >= 0
                               THEN Append(f[n - 1], us[n]) ELSE f[n - 1]
  BY <1>2 DEF IsForward
<1>. DEFINE Odd == {n \in 0 .. N : ~FillsSent(f[n], Filled(n))}
<1>6. Odd = {}
  <2>. SUFFICES ASSUME Odd # {} PROVE FALSE
    OBVIOUS
  <2>1. PICK n \in Odd : \A l \in Odd : n <= l
    <3>1. Odd \in SUBSET Nat
      BY <1>1
    <3>. HIDE DEF Odd
    <3>. QED
      BY <3>1, LeastExists
  <2>2. n # 0
    <3>1. f[0] = <<>> /\ Filled(0) = {}
      BY <1>1, <1>5
    <3>2. FillsSent(f[0], Filled(0))
      BY <3>1, NoFillsSent
    <3>. QED
      BY <2>1, <3>2
  <2>3. n \in Nat /\ n - 1 \in 0 .. N /\ n \in 1 .. N /\ ~(n <= n - 1)
    BY <1>1, <2>1, <2>2
  <2>4. PICK h, js : h = f[n - 1] /\ js = Filled(n - 1)
    OBVIOUS
  <2>5. PICK u \in Update : u = us[n]
    BY <1>1, <2>3
  <2>6. FillsSent(h, js)
    BY <2>1, <2>3, <2>4
  <2>7. f[n] = IF u.remainingQuantity >= 0 THEN Append(h, u) ELSE h
    BY <1>5, <2>2, <2>3, <2>4, <2>5
  <2>8. Filled(n) = IF u.status = "FILLED" THEN js \cup {u.orderId} ELSE js
    <3>1. 1 .. n = (1 .. n - 1) \cup {n}
      BY <2>3
    <3>2. CASE u.status = "FILLED"
      BY <2>4, <2>5, <3>1, <3>2
    <3>3. CASE u.status # "FILLED"
      BY <2>4, <2>5, <3>1, <3>3
    <3>. QED
      BY <3>2, <3>3
  <2>9. u.status = "FILLED" => u.remainingQuantity = 0
    BY <1>1, <2>3, <2>5 DEF FillsSent
  <2>10. u.status = "FILLED" => u.orderId \notin js
    <3>. SUFFICES ASSUME u.status = "FILLED", u.orderId \in js PROVE FALSE
      OBVIOUS
    <3>1. PICK i \in 1 .. n - 1 : us[i].status = "FILLED" /\ us[i].orderId = u.orderId
      BY <2>4
    <3>2. i \in DOMAIN us /\ n \in DOMAIN us /\ i # n
      BY <1>1, <2>3
    <3>. QED
      BY <2>5, <3>1, <3>2 DEF FillsSent
  <2>. HIDE DEF Filled
  <2>11. FillsSent(f[n], Filled(n))
    <3>1. CASE u.remainingQuantity >= 0
      BY <2>6, <2>7, <2>8, <2>9, <2>10, <3>1, FillsSentAppend
    <3>2. CASE ~(u.remainingQuantity >= 0)
      <4>1. u.status # "FILLED"
        BY <2>9, <3>2
      <4>. QED
        BY <2>6, <2>7, <2>8, <3>2, <4>1
    <3>. QED
      BY <3>1, <3>2
  <2>. QED
    BY <2>1, <2>11
<1>7. FillsSent(f[N], Filled(N))
  <2>. HIDE DEF Filled
  <2>. QED
    BY <1>1, <1>6
<1>. QED
  BY <1>3, <1>4, <1>7 DEF N

\* What placeOrder returns tells of every order the call filled, once.
LEMMA ReplyFills ==
  ASSUME EngineInv, RefinementInv, ConserveInv, ReportInv, TranslationInv, AdapterReply
  PROVE  FillsSent(Forwarded(result'.orderUpdates), IdsOf(events', "ORDER_COMPLETELY_FILLED"))
<1>1. order \in Order /\ order.quantity \in Int
  BY BookAssumption DEF AdapterReply, Finish, EngineInv, EngineTypeOK, Order, Quantity
<1>2. ReportInv' /\ EngineInv'
  BY FinishReports, FinishInv DEF AdapterReply
<1>3. PICK o : o = order
  OBVIOUS
<1>4. PICK evs : evs = events'
  OBVIOUS
<1>5. evs \in Seq(Event) /\ FilledOnce(evs)
  BY <1>2, <1>4 DEF EngineInv, EngineTypeOK, ReportInv, EventsTrue
<1>6. FillsSent(Translated(o, evs).orderUpdates, IdsOf(evs, "ORDER_COMPLETELY_FILLED"))
  BY <1>1, <1>3, <1>5, UpdatesTranslated
<1>7. result'.orderUpdates = Translated(o, evs).orderUpdates
  BY <1>3, <1>4 DEF AdapterReply, EngineResult
<1>. QED
  BY <1>4, <1>6, <1>7, ForwardedFills
=============================================================================
