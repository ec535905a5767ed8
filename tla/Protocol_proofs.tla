--------------------------- MODULE Protocol_proofs ---------------------------
(***************************************************************************)
(* Proofs about Protocol, for integers of any size.                        *)
(***************************************************************************)
EXTENDS Protocol, TLAPS

LEMMA Sizes == MaxInt \in Nat /\ MaxInt >= 1 /\ MinInt \in Int /\ Modulus \in Nat /\ Modulus > MaxInt
  BY ProtocolAssumption DEF MinInt, Modulus

\* Halves round towards the smaller integer.
LEMMA Halves ==
  ASSUME NEW h \in Int
  PROVE  h \div 2 \in Int /\ 2 * (h \div 2) <= h /\ h < 2 * (h \div 2) + 2
OBVIOUS

LEMMA Remainder ==
  ASSUME NEW n \in Int
  PROVE  /\ n \in 0 .. Modulus - 1 => n % Modulus = n
         /\ n \in -Modulus .. -1 => n % Modulus = n + Modulus
<1>1. \A m \in Nat \ {0} : /\ n \in 0 .. m - 1 => n % m = n
                           /\ n \in -m .. -1 => n % m = n + m
  OBVIOUS
<1>. QED BY <1>1, Sizes

\* A number of a message: what the library keeps as an integer has no fraction
\* and fits the signed or the unsigned type.
IsNumber(x) ==
    /\ x.halves \in Int /\ x.double \in BOOLEAN
    /\ ~x.double => \E n \in MinInt .. Modulus - 1 : x.halves = 2 * n

\* What get<int64_t>() makes of a number fits the type.  If it is positive it
\* is the number without its fraction, or the largest integer for a number
\* beyond; if not, the number was less than one or beyond the integers.
LEMMA GetInt64Facts ==
  ASSUME NEW x, IsNumber(x), NEW qty \in GetInt64(x)
  PROVE  /\ qty \in MinInt .. MaxInt
         /\ qty > 0 => /\ 2 * qty <= x.halves
                       /\ qty < MaxInt => x.halves < 2 * qty + 2
         /\ qty <= 0 => x.halves < 2 \/ x.halves > 2 * MaxInt
<1>. DEFINE h == x.halves
            n == IF h >= 0 THEN h \div 2 ELSE -((-h) \div 2)
<1>1. h \in Int /\ x.double \in BOOLEAN
  BY DEF IsNumber
<1>2. /\ n \in Int
      /\ h >= 0 => 2 * n <= h /\ h < 2 * n + 2
      /\ h < 0 => n <= 0 /\ h <= 2 * n /\ 2 * n < h + 2
  BY <1>1, Halves
<1>. HIDE DEF n
<1>3. CASE ~x.double
  <2>1. PICK m \in MinInt .. Modulus - 1 : h = 2 * m
    BY <1>3 DEF IsNumber
  <2>2. n = m
    BY <1>1, <1>2, <2>1, Sizes
  <2>3. qty = IF n > MaxInt THEN n - Modulus ELSE n
    BY <1>3 DEF GetInt64, n
  <2>. QED BY <1>1, <1>2, <2>1, <2>2, <2>3, Sizes DEF MinInt, Modulus
<1>4. CASE x.double
  <2>1. CASE n \in MinInt .. MaxInt
    <3>1. qty = n
      BY <1>4, <2>1 DEF GetInt64, n
    <3>. QED BY <1>1, <1>2, <2>1, <3>1, Sizes
  <2>2. CASE n \notin MinInt .. MaxInt
    <3>1. qty = MinInt \/ (qty = MaxInt /\ n > 0)
      BY <1>4, <2>2 DEF GetInt64, n
    <3>. QED BY <1>1, <1>2, <2>2, <3>1, Sizes DEF MinInt
  <2>. QED BY <2>1, <2>2
<1>. QED BY <1>1, <1>3, <1>4

-----------------------------------------------------------------------------
(* The messages, field by field, as far as the handlers look.              *)

Placement(m) ==
    /\ m.text = "json" /\ m.type = Text("PLACE_ORDER")
    /\ m.quantity.is = "number" => IsNumber(m.quantity)
    /\ m.price.is = "number" => m.price.halves \in Int

Cancellation(m) ==
    /\ m.text = "json" /\ m.type = Text("CANCEL_ORDER")
    /\ m.orderId.is = "number" => IsNumber(m.orderId)

Other(m) == m.text = "json" /\ m.type \in Fields \cup {Text("GET_METRICS"), Text("HELLO")}

\* What the terminal's form has checked.
FromForm(m) ==
    /\ Placement(m)
    /\ m.quantity.is = "number" /\ m.quantity.halves > 0
    /\ \E side \in {"BUY", "SELL"} : m.side = Text(side)
    /\ \/ m.orderType = Text("MARKET")
       \/ m.orderType = Text("LIMIT") /\ m.price.is = "number" /\ m.price.halves > 0

MessageOK(m) == m \in Unparsable \/ Placement(m) \/ Cancellation(m) \/ Other(m)

ProtocolInv ==
    /\ message = NoMessage => reply = "none"
    /\ reply = "none" => call = NoCall
    /\ message # NoMessage => MessageOK(message)
    /\ message # NoMessage /\ fromForm => FromForm(message)
    /\ RefusedAsDocumented /\ EngineGetsWhatWasAsked

LEMMA FieldFacts ==
  /\ \A h, d : Number(h, d).is = "number" /\ Number(h, d).halves = h /\ Number(h, d).double = d
  /\ \A s : Text(s).is = "string" /\ Text(s).text = s
  /\ Absent.is = "absent" /\ Misfit.is = "other"
  BY DEF Number, Text, Absent, Misfit

LEMMA NumbersAreNumbers == \A x \in Fields \cup Numbers : x.is = "number" => IsNumber(x)
<1>. SUFFICES ASSUME NEW x \in Numbers PROVE IsNumber(x)
  BY FieldFacts DEF Fields
<1>1. ASSUME NEW n \in MinInt .. Modulus - 1, x = Number(2 * n, FALSE) PROVE IsNumber(x)
  <2>1. x.halves = 2 * n
    BY <1>1, FieldFacts
  <2>2. x.double \in BOOLEAN
    BY <1>1, FieldFacts
  <2>3. x.halves \in Int
    BY <2>1, Sizes
  <2>. QED BY <2>1, <2>2, <2>3 DEF IsNumber
<1>2. ASSUME NEW h \in 2 * MinInt - 3 .. 2 * MaxInt + 5, x = Number(h, TRUE) PROVE IsNumber(x)
  <2>1. x.halves = h
    BY <1>2, FieldFacts
  <2>2. h \in Int
    BY Sizes
  <2>3. x.double = TRUE
    BY <1>2, FieldFacts
  <2>4. x.double \in BOOLEAN
    BY <1>2, FieldFacts
  <2>. QED BY <2>1, <2>2, <2>3, <2>4 DEF IsNumber
<1>. QED BY <1>1, <1>2 DEF Numbers

LEMMA ReceivedIsOK ==
  ASSUME NEW m \in PlaceMessages \cup CancelMessages \cup OtherMessages
  PROVE  MessageOK(m)
<1>1. CASE m \in PlaceMessages
  <2>1. m.price \in Fields \cup Prices => (m.price.is = "number" => m.price.halves \in Int)
    BY FieldFacts DEF Fields, Prices
  <2>. QED BY <1>1, <2>1, NumbersAreNumbers DEF PlaceMessages, MessageOK, Placement
<1>2. CASE m \in CancelMessages
  BY <1>2, NumbersAreNumbers DEF CancelMessages, MessageOK, Cancellation
<1>3. CASE m \in OtherMessages
  BY <1>3 DEF OtherMessages, MessageOK, Other
<1>. QED BY <1>1, <1>2, <1>3

LEMMA SubmittedIsOK ==
  ASSUME NEW side \in {"BUY", "SELL"}, NEW orderType \in {"LIMIT", "MARKET"},
         NEW q \in -2 .. 2 * Modulus - 1, NEW p \in -1 .. 3,
         q > 0, orderType = "LIMIT" => p > 0
  PROVE  FromForm(PlaceOrderMessage(side, orderType, q, p))
<1>. DEFINE m == PlaceOrderMessage(side, orderType, q, p)
<1>1. /\ m.text = "json" /\ m.type = Text("PLACE_ORDER") /\ m.side = Text(side)
      /\ m.orderType = Text(orderType) /\ m.quantity = Number(q, q % 2 = 1)
      /\ m.price = IF orderType = "LIMIT" THEN Number(p, p % 2 = 1) ELSE Absent
  BY DEF PlaceOrderMessage
<1>2. IsNumber(m.quantity)
  <2>1. q \in Int /\ Modulus \in Nat
    BY Sizes
  <2>2. q % 2 # 1 => q = 2 * (q \div 2) /\ q \div 2 \in MinInt .. Modulus - 1
    BY <2>1, Sizes DEF MinInt
  <2>3. m.quantity.halves = q /\ m.quantity.double = (q % 2 = 1)
    BY <1>1, FieldFacts
  <2>4. CASE q % 2 = 1
    <3>1. m.quantity.double = TRUE
      BY <2>3, <2>4
    <3>. QED BY <2>1, <2>3, <3>1 DEF IsNumber
  <2>5. CASE q % 2 # 1
    <3>1. m.quantity.double = FALSE
      BY <2>3, <2>5
    <3>. QED BY <2>1, <2>2, <2>3, <2>5, <3>1 DEF IsNumber
  <2>. QED BY <2>4, <2>5
<1>. SUFFICES FromForm(m)
  OBVIOUS
<1>. HIDE DEF m
<1>3. m.quantity.is = "number" /\ m.quantity.halves > 0
  BY <1>1, FieldFacts
<1>4. CASE orderType = "LIMIT"
  <2>1. m.price.is = "number" /\ m.price.halves = p
    BY <1>1, <1>4, FieldFacts
  <2>. QED BY <1>1, <1>2, <1>3, <1>4, <2>1 DEF FromForm, Placement
<1>5. CASE orderType = "MARKET"
  <2>1. m.price.is # "number"
    BY <1>1, <1>5, FieldFacts
  <2>. QED BY <1>1, <1>2, <1>3, <1>5, <2>1 DEF FromForm, Placement
<1>. QED BY <1>4, <1>5

-----------------------------------------------------------------------------
(* Receiving and responding.                                               *)

LEMMA MessageIsNotNone ==
  ASSUME NEW m, MessageOK(m)
  PROVE  m # NoMessage
<1>1. m.text # "none"
  BY DEF MessageOK, Unparsable, Placement, Cancellation, Other
<1>. QED BY <1>1 DEF NoMessage

LEMMA ReceiveKeeps ==
  ASSUME ProtocolInv, NEW m, NEW form, MessageOK(m), form => FromForm(m), Receive(m, form)
  PROVE  ProtocolInv'
<1>1. /\ message' = m /\ fromForm' = form /\ reply' = reply /\ call' = call
      /\ reply = "none" /\ call = NoCall
  BY DEF Receive, ProtocolInv
<1>2. RefusedAsDocumented' /\ EngineGetsWhatWasAsked'
  BY <1>1 DEF RefusedAsDocumented, EngineGetsWhatWasAsked, NoCall
<1>. QED BY <1>1, <1>2, MessageIsNotNone DEF ProtocolInv

LEMMA RespondKeeps ==
  ASSUME Respond
  PROVE  ProtocolInv'
BY DEF Respond, ProtocolInv, RefusedAsDocumented, EngineGetsWhatWasAsked, NoCall

-----------------------------------------------------------------------------
(* Handling, by the kind of the message.                                   *)

\* A reply that is no call of the engine is right if it is an ERROR exactly for
\* the documented errors, and for what cannot be placed.
LEMMA NoCallIsRight ==
  ASSUME NEW type, type # "none", Reply(type, NoCall), message' = message, fromForm' = fromForm,
         DocumentedError => type = "ERROR",
         type = "ERROR" => DocumentedError \/ (Placing /\ Unplaceable(message.quantity)),
         fromForm /\ type = "ERROR" => Unplaceable(message.quantity)
  PROVE  RefusedAsDocumented' /\ EngineGetsWhatWasAsked'
<1>1. reply' = type /\ call' = NoCall
  BY DEF Reply
<1>2. EngineGetsWhatWasAsked'
  BY <1>1 DEF EngineGetsWhatWasAsked, NoCall
<1>3. DocumentedError' = DocumentedError /\ Placing' = Placing
  BY DEF DocumentedError, Placing, Cancelling
<1>. QED BY <1>1, <1>2, <1>3 DEF RefusedAsDocumented

Handled == RefusedAsDocumented' /\ EngineGetsWhatWasAsked' /\ reply' # "none"

LEMMA HandleUnparsable ==
  ASSUME ProtocolInv, Handle, message \in Unparsable
  PROVE  Handled
<1>1. Reply("ERROR", NoCall) /\ message' = message /\ fromForm' = fromForm
  BY DEF Handle, ParseThrows, Error
<1>2. DocumentedError
  BY DEF DocumentedError
<1>3. ~fromForm
  BY DEF ProtocolInv, Handle, FromForm, Placement, Unparsable
<1>. QED BY <1>1, <1>2, <1>3, NoCallIsRight DEF Handled, Reply

\* The types are told apart.
LEMMA Types ==
  ASSUME MessageOK(message), message.text = "json"
  PROVE  /\ message \notin Unparsable
         /\ Placement(message) => /\ Says(message.type, "PLACE_ORDER")
                                  /\ ~Says(message.type, "CANCEL_ORDER")
                                  /\ ~Says(message.type, "GET_METRICS")
         /\ Cancellation(message) => /\ ~Says(message.type, "PLACE_ORDER")
                                     /\ Says(message.type, "CANCEL_ORDER")
                                     /\ ~Says(message.type, "GET_METRICS")
         /\ Other(message) => /\ ~Says(message.type, "PLACE_ORDER")
                              /\ ~Says(message.type, "CANCEL_ORDER")
<1>1. message \notin Unparsable
  BY DEF Unparsable
<1>2. Placement(message) => message.type = Text("PLACE_ORDER")
  BY DEF Placement
<1>3. Cancellation(message) => message.type = Text("CANCEL_ORDER")
  BY DEF Cancellation
<1>4. Other(message) => message.type \in {Absent, Misfit, Text("GET_METRICS"), Text("HELLO")}
  BY DEF Other, Fields
<1>. QED BY <1>1, <1>2, <1>3, <1>4, FieldFacts DEF Says

LEMMA HandleOther ==
  ASSUME ProtocolInv, Handle, Other(message)
  PROVE  Handled
<1>1. /\ message.text = "json" /\ message \notin Unparsable
      /\ ~Says(message.type, "PLACE_ORDER") /\ ~Says(message.type, "CANCEL_ORDER")
  BY Types DEF Other, MessageOK
<1>2. ~fromForm
  BY <1>1, Types DEF ProtocolInv, Handle, FromForm, MessageOK
<1>3. message' = message /\ fromForm' = fromForm
  BY DEF Handle
<1>4. CASE Says(message.type, "GET_METRICS")
  <2>1. Reply("METRICS", NoCall)
    BY <1>1, <1>4 DEF Handle, ParseThrows, Dispatch
  <2>2. ~DocumentedError
    BY <1>1, <1>4 DEF DocumentedError, Placing, Cancelling
  <2>. QED BY <1>2, <1>3, <2>1, <2>2, NoCallIsRight DEF Handled, Reply
<1>5. CASE ~Says(message.type, "GET_METRICS")
  <2>1. Reply("ERROR", NoCall)
    BY <1>1, <1>5 DEF Handle, ParseThrows, Dispatch, Error
  <2>2. DocumentedError
    BY <1>1, <1>5 DEF DocumentedError
  <2>. QED BY <1>2, <1>3, <2>1, <2>2, NoCallIsRight DEF Handled, Reply
<1>. QED BY <1>4, <1>5

LEMMA HandleCancellation ==
  ASSUME ProtocolInv, Handle, Cancellation(message)
  PROVE  Handled
<1>1. /\ message.text = "json" /\ message \notin Unparsable
      /\ Says(message.type, "CANCEL_ORDER")
      /\ ~Says(message.type, "PLACE_ORDER") /\ ~Says(message.type, "GET_METRICS")
  BY Types DEF Cancellation, MessageOK
<1>2. ~fromForm
  BY <1>1, Types DEF ProtocolInv, Handle, FromForm, MessageOK
<1>3. message' = message /\ fromForm' = fromForm /\ CancelOrder(message)
  BY <1>1 DEF Handle, ParseThrows, Dispatch
<1>4. CASE message.orderId.is # "number"
  <2>1. Reply("ERROR", NoCall)
    BY <1>3, <1>4 DEF CancelOrder, Error
  <2>2. DocumentedError
    BY <1>1, <1>4 DEF DocumentedError, Cancelling
  <2>. QED BY <1>2, <1>3, <2>1, <2>2, NoCallIsRight DEF Handled, Reply
<1>5. CASE message.orderId.is = "number"
  <2>1. PICK id \in GetInt64(message.orderId) :
               Reply("ENGINE", [kind |-> "cancel", orderId |-> id % Modulus])
    BY <1>3, <1>5 DEF CancelOrder
  <2>2. reply' = "ENGINE" /\ call'.kind = "cancel" /\ call'.orderId = id % Modulus
    BY <2>1 DEF Reply
  <2>3. ~DocumentedError'
    BY <1>1, <1>3, <1>5 DEF DocumentedError, Placing, Cancelling
  <2>4. RefusedAsDocumented'
    BY <2>2, <2>3 DEF RefusedAsDocumented
  <2>. DEFINE x == message.orderId
  <2>5. ASSUME ~x.double
        PROVE  id % Modulus = (x.halves \div 2) % Modulus
    <3>1. PICK n \in MinInt .. Modulus - 1 : x.halves = 2 * n
      BY <1>5, <2>5 DEF Cancellation, IsNumber
    <3>2. n \in Int /\ x.halves \div 2 = n
      BY <3>1, Sizes
    <3>3. id = IF n > MaxInt THEN n - Modulus ELSE n
      <4>. DEFINE cut == IF x.halves >= 0 THEN x.halves \div 2 ELSE -((-x.halves) \div 2)
      <4>1. cut = n
        BY <3>1, <3>2, Sizes
      <4>2. id = IF cut > MaxInt THEN cut - Modulus ELSE cut
        BY <2>1, <2>5 DEF GetInt64
      <4>. QED BY <4>1, <4>2
    <3>4. CASE n > MaxInt
      BY <3>1, <3>2, <3>3, <3>4, Remainder, Sizes DEF Modulus
    <3>5. CASE n <= MaxInt
      BY <3>2, <3>3, <3>5, Sizes
    <3>. QED BY <3>2, <3>4, <3>5, Sizes
  <2>6. EngineGetsWhatWasAsked'
    BY <1>3, <2>2, <2>5 DEF EngineGetsWhatWasAsked
  <2>. QED BY <2>2, <2>4, <2>6 DEF Handled
<1>. QED BY <1>4, <1>5

LEMMA HandlePlacement ==
  ASSUME ProtocolInv, Handle, Placement(message)
  PROVE  Handled
<1>. DEFINE m == message
            q == m.quantity
<1>1. /\ m.text = "json" /\ m \notin Unparsable
      /\ Says(m.type, "PLACE_ORDER")
      /\ ~Says(m.type, "CANCEL_ORDER") /\ ~Says(m.type, "GET_METRICS")
  BY Types DEF Placement, MessageOK
<1>2. fromForm => FromForm(m)
  BY DEF ProtocolInv, Handle
<1>3. m' = m /\ fromForm' = fromForm /\ PlaceOrder(m)
  BY <1>1 DEF Handle, ParseThrows, Dispatch
<1>4. Placing
  BY <1>1 DEF Placing
<1>5. q.is = "number" => IsNumber(q)
  BY DEF Placement
<1>6. m.price.is = "number" => m.price.halves \in Int
  BY DEF Placement
<1>. DEFINE DocError == \/ ~\E s \in {"BUY", "SELL"} : Says(m.side, s)
                        \/ ~\E o \in {"LIMIT", "MARKET"} : Says(m.orderType, o)
                        \/ NotPositive(q)
                        \/ Says(m.orderType, "LIMIT") /\ NotPositive(m.price)
<1>7. DocumentedError <=> DocError
  BY <1>1, <1>4 DEF DocumentedError, Cancelling
<1>8. CASE q.is # "number"
  <2>1. Reply("ERROR", NoCall)
    BY <1>3, <1>8 DEF PlaceOrder, Error
  <2>2. DocumentedError
    BY <1>7, <1>8 DEF NotPositive
  <2>3. ~fromForm
    BY <1>2, <1>8 DEF FromForm
  <2>. QED BY <1>3, <2>1, <2>2, <2>3, NoCallIsRight DEF Handled, Reply
<1>9. CASE q.is = "number"
  <2>1. PICK qty \in GetInt64(q) :
               IF ValidPlaceOrder(m, qty)
               THEN Reply("ENGINE", [kind |-> "place", side |-> m.side.text,
                                     orderType |-> m.orderType.text,
                                     quantity |-> qty % Modulus])
               ELSE Error
    BY <1>3, <1>9 DEF PlaceOrder
  <2>2. /\ qty \in MinInt .. MaxInt /\ qty \in Int
        /\ qty > 0 => /\ 2 * qty <= q.halves
                      /\ qty < MaxInt => q.halves < 2 * qty + 2
        /\ qty <= 0 => q.halves < 2 \/ q.halves > 2 * MaxInt
    BY <1>5, <1>9, GetInt64Facts, Sizes
  <2>3. q.halves \in Int
    BY <1>5, <1>9 DEF IsNumber
  <2>4. Says(m.orderType, "LIMIT") => (PriceOK(m) <=> ~NotPositive(m.price))
    BY <1>6 DEF PriceOK, NotPositive
  <2>5. CASE ValidPlaceOrder(m, qty)
    <3>1. qty > 0 /\ qty \in 1 .. MaxInt /\ qty % Modulus = qty
      BY <2>2, <2>5, Remainder, Sizes DEF ValidPlaceOrder, PositiveQuantity
    <3>2. /\ reply' = "ENGINE" /\ call'.kind = "place" /\ call'.quantity = qty
          /\ call'.side = m.side.text /\ call'.orderType = m.orderType.text
      BY <2>1, <2>5, <3>1 DEF Reply
    <3>3. ~DocError
      <4>1. ~NotPositive(q)
        BY <1>9, <2>2, <2>3, <3>1 DEF NotPositive
      <4>. QED BY <2>4, <2>5, <4>1 DEF ValidPlaceOrder
    <3>4. DocumentedError' = DocumentedError
      BY <1>3 DEF DocumentedError, Placing, Cancelling
    <3>5. RefusedAsDocumented'
      BY <1>7, <3>2, <3>3, <3>4 DEF RefusedAsDocumented
    <3>6. Says(m.side, m.side.text) /\ Says(m.orderType, m.orderType.text)
      BY <2>5 DEF ValidPlaceOrder, Says
    <3>7. EngineGetsWhatWasAsked'
      BY <1>3, <2>2, <3>1, <3>2, <3>6 DEF EngineGetsWhatWasAsked
    <3>. QED BY <3>2, <3>5, <3>7 DEF Handled
  <2>6. CASE ~ValidPlaceOrder(m, qty)
    <3>1. Reply("ERROR", NoCall)
      BY <2>1, <2>6 DEF Error
    <3>2. qty <= 0 => Unplaceable(q) \/ NotPositive(q)
      <4>1. q.halves < 2 => q.halves <= 0 \/ q.halves % 2 # 0
        BY <2>3
      <4>. QED BY <2>2, <4>1 DEF Unplaceable, NotPositive
    <3>3. qty > 0 => DocError
      <4>1. qty > 0 => PositiveQuantity(qty)
        BY DEF PositiveQuantity
      <4>2. PriceOK(m) \/ (Says(m.orderType, "LIMIT") /\ NotPositive(m.price))
        BY <2>4 DEF PriceOK
      <4>. QED BY <2>6, <4>1, <4>2 DEF ValidPlaceOrder
    <3>4. fromForm => ~DocError
      <4>1. ASSUME fromForm PROVE ~DocError
        <5>1. FromForm(m)
          BY <1>2, <4>1
        <5>2. \E s \in {"BUY", "SELL"} : Says(m.side, s)
          BY <5>1, FieldFacts DEF FromForm, Says
        <5>3. \/ Says(m.orderType, "MARKET") /\ ~Says(m.orderType, "LIMIT")
              \/ Says(m.orderType, "LIMIT") /\ ~NotPositive(m.price)
          BY <1>6, <5>1, FieldFacts DEF FromForm, Says, NotPositive
        <5>4. ~NotPositive(q)
          BY <2>3, <5>1 DEF FromForm, NotPositive
        <5>. QED BY <5>2, <5>3, <5>4
      <4>. QED BY <4>1
    <3>5. DocumentedError \/ Unplaceable(q)
      BY <1>7, <2>2, <3>2, <3>3
    <3>6. fromForm => Unplaceable(q)
      BY <2>2, <3>2, <3>3, <3>4
    <3>. QED BY <1>3, <1>4, <3>1, <3>5, <3>6, NoCallIsRight DEF Handled, Reply
  <2>. QED BY <2>5, <2>6
<1>. QED BY <1>8, <1>9

LEMMA HandleKeeps ==
  ASSUME ProtocolInv, Handle
  PROVE  ProtocolInv'
<1>1. MessageOK(message) /\ (fromForm => FromForm(message)) /\ message # NoMessage
  BY DEF ProtocolInv, Handle
<1>2. Handled
  BY <1>1, HandleUnparsable, HandlePlacement, HandleCancellation, HandleOther DEF MessageOK
<1>3. message' = message /\ fromForm' = fromForm
  BY DEF Handle
<1>. QED BY <1>1, <1>2, <1>3 DEF ProtocolInv, Handled

THEOREM ProtocolIsRight == ProtocolSpec => []ProtocolInv
<1>1. ProtocolInit => ProtocolInv
  BY DEF ProtocolInit, ProtocolInv, RefusedAsDocumented, EngineGetsWhatWasAsked, NoCall
<1>2. ASSUME ProtocolInv, [ProtocolNext]_protocolVars PROVE ProtocolInv'
  <2>1. ASSUME NEW m \in PlaceMessages \cup CancelMessages \cup OtherMessages, Receive(m, FALSE)
        PROVE  ProtocolInv'
    BY <1>2, <2>1, ReceivedIsOK, ReceiveKeeps
  <2>2. ASSUME NEW side \in {"BUY", "SELL"}, NEW orderType \in {"LIMIT", "MARKET"},
               NEW q \in -2 .. 2 * Modulus - 1, NEW p \in -1 .. 3,
               SubmitForm(side, orderType, q, p)
        PROVE  ProtocolInv'
    <3>. DEFINE m == PlaceOrderMessage(side, orderType, q, p)
    <3>1. FromForm(m) /\ Receive(m, TRUE)
      BY <2>2, SubmittedIsOK DEF SubmitForm
    <3>2. MessageOK(m)
      BY <3>1 DEF FromForm, MessageOK
    <3>. HIDE DEF m
    <3>. QED BY <1>2, <3>1, <3>2, ReceiveKeeps
  <2>3. CASE Handle
    BY <1>2, <2>3, HandleKeeps
  <2>4. CASE Respond
    BY <2>4, RespondKeeps
  <2>5. CASE UNCHANGED protocolVars
    BY <1>2, <2>5 DEF protocolVars, ProtocolInv, RefusedAsDocumented, EngineGetsWhatWasAsked,
                      DocumentedError, Placing, Cancelling
  <2>. QED BY <1>2, <2>1, <2>2, <2>3, <2>4, <2>5 DEF ProtocolNext
<1>. QED BY <1>1, <1>2, PTL DEF ProtocolSpec

\* RefusedAsDocumented: whatever the width of the integers, every message the
\* documents call an error is answered with an ERROR and reaches no engine, and
\* nothing else is but quantities that are zero once cut, or do not fit.
THEOREM ErrorsAreRefused == ProtocolSpec => []RefusedAsDocumented
<1>1. ProtocolInv => RefusedAsDocumented
  BY DEF ProtocolInv
<1>. QED BY <1>1, ProtocolIsRight, PTL

\* EngineGetsWhatWasAsked: through the conversions from double or unsigned to
\* int64_t and on to uint64_t, the engine gets the quantity and the id the
\* client sent, or the largest quantity below.
THEOREM EngineIsAskedRight == ProtocolSpec => []EngineGetsWhatWasAsked
<1>1. ProtocolInv => EngineGetsWhatWasAsked
  BY DEF ProtocolInv
<1>. QED BY <1>1, ProtocolIsRight, PTL
=============================================================================
