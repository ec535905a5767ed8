------------------------------- MODULE Protocol -------------------------------
(***************************************************************************)
(* server/src/Protocol.cpp, RequestHandler::handle and onRead's catch: what*)
(* becomes of one message, from the text to the engine call or the ERROR;  *)
(* and the order form of the terminal, where most messages come from.      *)
(*                                                                         *)
(* JSON is abstracted to what the code asks of it: whether the text parses,*)
(* whether a field is there and of the right kind, which number it is and  *)
(* whether the library keeps it as an integer or as a double.  Numbers are *)
(* counted in halves, so that there are fractions; MaxInt stands for the   *)
(* largest int64_t, 2^63 - 1.  The library keeps a non-negative integer as *)
(* unsigned, and get<int64_t> casts: an unsigned one wraps, a double is    *)
(* cut towards zero.  A double that does not fit is undefined behaviour:   *)
(* compilers produce the least integer (x86) or the nearest one (ARM).     *)
(***************************************************************************)
EXTENDS Integers

CONSTANT MaxInt                 \* the largest int64_t

ASSUME ProtocolAssumption == MaxInt \in Nat /\ MaxInt >= 1

MinInt  == -MaxInt - 1          \* the least int64_t
Modulus == 2 * MaxInt + 2       \* of the unsigned type

VARIABLES
    message,        \* what onRead has received
    fromForm,       \* it was built by the terminal's form
    reply,          \* the type of the direct response
    call            \* what the engine is called with

protocolVars == <<message, fromForm, reply, call>>

-----------------------------------------------------------------------------
(* JSON.                                                                   *)

Absent    == [is |-> "absent"]
Misfit    == [is |-> "other"]                   \* there, but of another kind
Text(s)   == [is |-> "string", text |-> s]
Number(h, d) == [is |-> "number", halves |-> h, double |-> d]

\* Integers the library keeps as such, doubles that fit and some that do not.
Numbers == {Number(2 * n, FALSE) : n \in MinInt .. Modulus - 1}
              \cup {Number(h, TRUE) : h \in 2 * MinInt - 3 .. 2 * MaxInt + 5}

\* A few prices are enough: they are only compared with zero.
Prices == {Number(h, h % 2 = 1) : h \in -1 .. 3}

Fields == {Absent, Misfit}

\* A field that is the string s.
Says(field, s) == field.is = "string" /\ field.text = s

PlaceMessages ==
    [text : {"json"}, type : {Text("PLACE_ORDER")},
     side : Fields \cup {Text("BUY"), Text("SELL"), Text("HOLD")},
     orderType : Fields \cup {Text("LIMIT"), Text("MARKET"), Text("STOP")},
     quantity : Fields \cup Numbers, price : Fields \cup Prices]

CancelMessages ==
    [text : {"json"}, type : {Text("CANCEL_ORDER")}, orderId : Fields \cup Numbers]

\* A text that is no JSON, one with a number no double can hold, for which
\* the library throws another exception, and objects of other types.
Unparsable == [text : {"empty", "invalid", "overflow"}]

OtherMessages ==
    Unparsable \cup [text : {"json"}, type : Fields \cup {Text("GET_METRICS"), Text("HELLO")}]

\* The outcomes of get<int64_t>().
GetInt64(x) ==
    LET n == IF x.halves >= 0 THEN x.halves \div 2 ELSE -((-x.halves) \div 2)
    IN  IF ~x.double THEN {IF n > MaxInt THEN n - Modulus ELSE n}
        ELSE IF n \in MinInt .. MaxInt THEN {n}
        ELSE {MinInt} \cup (IF n > 0 THEN {MaxInt} ELSE {})

-----------------------------------------------------------------------------
(* Protocol.                                                               *)

NoMessage == [text |-> "none"]
NoCall    == [kind |-> "none"]

\* Mutant: the sign is not looked at.
PositiveQuantityAny(qty) == qty # 0

PositiveQuantity(qty) == qty > 0

\* Mutant: a MARKET order needs a price too.
PriceOKAlways(m) == m.price.is = "number" /\ m.price.halves > 0

PriceOK(m) == Says(m.orderType, "LIMIT") => m.price.is = "number" /\ m.price.halves > 0

\* validatePlaceOrder, parseSide and parseOrderType, qty being the quantity
\* as an int64_t.  Each check that fails throws a ProtocolError.
ValidPlaceOrder(m, qty) ==
    /\ PositiveQuantity(qty)
    /\ PriceOK(m)
    /\ \E s \in {"BUY", "SELL"} : Says(m.side, s)
    /\ \E o \in {"LIMIT", "MARKET"} : Says(m.orderType, o)

Reply(type, c) == reply' = type /\ call' = c
Error == Reply("ERROR", NoCall)

\* handlePlaceOrder, as far as the engine.  The engine's order has the
\* quantity as a uint64_t.
PlaceOrder(m) ==
    IF m.quantity.is # "number" THEN Error
    ELSE \E qty \in GetInt64(m.quantity) :
            IF ValidPlaceOrder(m, qty)
            THEN Reply("ENGINE", [kind |-> "place", side |-> m.side.text,
                                  orderType |-> m.orderType.text,
                                  quantity |-> qty % Modulus])
            ELSE Error

\* handleCancelOrder: the id goes to the engine as a uint64_t.
CancelOrder(m) ==
    IF m.orderId.is # "number" THEN Error
    ELSE \E id \in GetInt64(m.orderId) :
            Reply("ENGINE", [kind |-> "cancel", orderId |-> id % Modulus])

\* Protocol::parse throws: its own error, which handle catches, or the
\* library's, which goes through handle and is caught in onRead.
ParseThrows == message \in Unparsable

\* getMessageType, and the handler for the type.
Dispatch ==
    CASE Says(message.type, "PLACE_ORDER")  -> PlaceOrder(message)
      [] Says(message.type, "CANCEL_ORDER") -> CancelOrder(message)
      [] Says(message.type, "GET_METRICS")  -> Reply("METRICS", NoCall)
      [] OTHER -> Error

\* handle: whatever is thrown is answered with an ERROR.
Handle ==
    /\ message # NoMessage /\ reply = "none"
    /\ IF ParseThrows THEN Error ELSE Dispatch
    /\ UNCHANGED <<message, fromForm>>

-----------------------------------------------------------------------------

ProtocolInit == message = NoMessage /\ fromForm = FALSE /\ reply = "none" /\ call = NoCall

Receive(m, form) ==
    /\ message = NoMessage
    /\ message' = m /\ fromForm' = form
    /\ UNCHANGED <<reply, call>>

\* buildPlaceOrderMessage.  JSON.stringify writes a number without a fraction
\* as an integer.
PlaceOrderMessage(side, orderType, q, p) ==
    [text |-> "json", type |-> Text("PLACE_ORDER"), side |-> Text(side),
     orderType |-> Text(orderType), quantity |-> Number(q, q % 2 = 1),
     price |-> IF orderType = "LIMIT" THEN Number(p, p % 2 = 1) ELSE Absent]

\* handleSubmit of the order form, whose inputs may hold any number.
SubmitForm(side, orderType, q, p) ==
    /\ q > 0 /\ (orderType = "LIMIT" => p > 0)
    /\ Receive(PlaceOrderMessage(side, orderType, q, p), TRUE)

\* The response is sent and the next message read.
Respond ==
    /\ reply # "none"
    /\ message' = NoMessage /\ fromForm' = FALSE /\ reply' = "none" /\ call' = NoCall

ProtocolNext ==
    \/ \E m \in PlaceMessages \cup CancelMessages \cup OtherMessages : Receive(m, FALSE)
    \/ \E side \in {"BUY", "SELL"}, orderType \in {"LIMIT", "MARKET"},
          q \in -2 .. 2 * Modulus - 1, p \in -1 .. 3 : SubmitForm(side, orderType, q, p)
    \/ Handle
    \/ Respond

ProtocolSpec == ProtocolInit /\ [][ProtocolNext]_protocolVars

-----------------------------------------------------------------------------
(* Properties.                                                             *)

Placing    == message.text = "json" /\ Says(message.type, "PLACE_ORDER")
Cancelling == message.text = "json" /\ Says(message.type, "CANCEL_ORDER")
NotPositive(field) == field.is = "number" => field.halves <= 0

\* The error conditions of server/protocol.md:253-265.
DocumentedError ==
    \/ message \in Unparsable
    \/ /\ message.text = "json"
       /\ ~\E t \in {"PLACE_ORDER", "CANCEL_ORDER", "GET_METRICS"} : Says(message.type, t)
    \/ Placing /\ \/ ~\E s \in {"BUY", "SELL"} : Says(message.side, s)
                  \/ ~\E o \in {"LIMIT", "MARKET"} : Says(message.orderType, o)
                  \/ NotPositive(message.quantity)
                  \/ Says(message.orderType, "LIMIT") /\ NotPositive(message.price)
    \/ Cancelling /\ message.orderId.is # "number"

\* The quantity is no integer, or none that fits.
Unplaceable(quantity) == quantity.halves % 2 # 0 \/ quantity.halves > 2 * MaxInt

\* Every message that server/protocol.md:253-265 calls an error is answered with
\* one and reaches no engine, whatever the conversions make of its numbers; and
\* no other is, but for quantities that do not fit or are no integer.  Of the
\* latter nothing is said: server/protocol.md:57 and :78 want a quantity to be
\* "> 0 (integer)", the list of errors does not have a fraction, and the code
\* refuses 0.5 and takes 1.5 for 1.  So what the form sends, which checks the same
\* conditions in its own way, is refused only for a quantity the form should
\* not have taken.
RefusedAsDocumented ==
    reply # "none" =>
        /\ DocumentedError => reply = "ERROR" /\ call = NoCall
        /\ reply = "ERROR" => DocumentedError \/ (Placing /\ Unplaceable(message.quantity))
        /\ fromForm /\ reply = "ERROR" => Unplaceable(message.quantity)

\* The engine is asked for what the client asked for.  A quantity is positive
\* in the engine's unsigned type and never more than the client's, and less
\* only by its fraction or where it does not fit; an id given as an integer is
\* the one looked up, though it goes through the signed type and back.
EngineGetsWhatWasAsked ==
    /\ call.kind = "place" =>
          /\ call.quantity \in 1..MaxInt
          /\ 2 * call.quantity <= message.quantity.halves
          /\ call.quantity < MaxInt => message.quantity.halves < 2 * call.quantity + 2
          /\ Says(message.side, call.side) /\ Says(message.orderType, call.orderType)
    /\ call.kind = "cancel" /\ ~message.orderId.double =>
          call.orderId = (message.orderId.halves \div 2) % Modulus
=============================================================================
