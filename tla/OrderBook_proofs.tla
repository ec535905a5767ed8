--------------------------- MODULE OrderBook_proofs ---------------------------
(***************************************************************************)
(* Proofs about OrderBook, for every set of order ids, every price range   *)
(* and every quantity bound: the book keeps its lists and its cancellation *)
(* index consistent, never leaves an empty price level behind, and shows   *)
(* its depth as it is.                                                     *)
(***************************************************************************)
EXTENDS OrderBook, SequenceTheorems, FiniteSetTheorems, WellFoundedInduction, TLAPS

\* The inductive invariant.  IndexConsistent needs NoEmptyLevel and the types
\* only for the operations to be defined where they read the book.
BookInv == BookTypeOK /\ NoEmptyLevel /\ IndexConsistent /\ NoSpentOrder

-----------------------------------------------------------------------------
(* The best price of a side.                                               *)

\* A nonempty set of naturals has a least element.
LEMMA LeastExists ==
  ASSUME NEW T \in SUBSET Nat, T # {}
  PROVE  \E x \in T : \A y \in T : x <= y
<1>. DEFINE LessThan == {ss \in Nat \X Nat : ss[1] < ss[2]}
<1>1. OpToRel(<, Nat) = LessThan
  BY DEF OpToRel
<1>2. IsWellFoundedOn(LessThan, Nat)
  BY <1>1, NatLessThanWellFounded
<1>. HIDE DEF LessThan
<1>3. PICK x \in T : \A y \in T : ~(<<y, x>> \in LessThan)
  BY <1>2, WFMin
<1>4. \A y \in T : <<y, x>> \in LessThan <=> y < x
  BY DEF LessThan
<1>5. ASSUME NEW y \in T
      PROVE  x <= y
  <2>1. x \in Nat /\ y \in Nat /\ ~(y < x)
    BY <1>3, <1>4
  <2>. QED
    BY <2>1
<1>. QED
  BY <1>5

\* Every nonempty set of prices has a best one, on either side.
LEMMA BestExists ==
  ASSUME NEW s \in Side, NEW S \in SUBSET Price, S # {}
  PROVE  \E p \in S : \A q \in S \ {p} : Better(s, p, q)
<1>0. MaxPrice \in Nat /\ S \subseteq Nat
  BY BookAssumption DEF Price
<1>1. CASE s = "BUY"
  <2>. DEFINE T == {MaxPrice - p : p \in S}
  <2>1. T \in SUBSET Nat /\ T # {}
    BY <1>0 DEF Price
  <2>2. PICK x \in T : \A y \in T : x <= y
    BY <2>1, LeastExists
  <2>3. PICK p \in S : x = MaxPrice - p
    BY <2>2
  <2>4. \A q \in S : MaxPrice - p <= MaxPrice - q
    BY <2>2, <2>3
  <2>5. \A q \in S \ {p} : p > q
    BY <2>4, <1>0 DEF Price
  <2>. QED
    BY <2>5, <1>1 DEF Better
<1>2. CASE s = "SELL"
  <2>1. PICK x \in S : \A y \in S : x <= y
    BY <1>0, LeastExists
  <2>2. \A q \in S \ {x} : x < q
    BY <2>1, <1>0
  <2>. QED
    BY <2>2, <1>2 DEF Better
<1>. QED
  BY <1>1, <1>2 DEF Side

\* What begin() of a nonempty map refers to.
LEMMA BestPriceIsBest ==
  ASSUME BookTypeOK, NEW s \in Side, DOMAIN levels[s] # {}
  PROVE  /\ BestPrice(s) \in DOMAIN levels[s]
         /\ \A q \in DOMAIN levels[s] \ {BestPrice(s)} : Better(s, BestPrice(s), q)
<1>1. DOMAIN levels[s] \in SUBSET Price
  BY DEF BookTypeOK, LevelsTypeOK
<1>2. \E p \in DOMAIN levels[s] : \A q \in DOMAIN levels[s] \ {p} : Better(s, p, q)
  BY <1>1, BestExists
<1>. QED
  BY <1>2 DEF BestPrice

-----------------------------------------------------------------------------
(* Sums.  The sums of the prefixes of a sequence are a function defined by *)
(* recursion: that there is one, and what it says, are facts to be proved, *)
(* each by looking at the first place where it would fail.                 *)

\* f holds the sums of the first m numbers of ns.
IsSum(f, m, ns) == f = [n \in 0 .. m |-> IF n = 0 THEN 0 ELSE f[n - 1] + ns[n]]

LEMMA SumExists ==
  ASSUME NEW ns
  PROVE  \A m \in Nat : \E f : IsSum(f, m, ns)
<1>. DEFINE Has(k) == \E f : IsSum(f, k, ns)
            Lacks == {k \in Nat : ~Has(k)}
<1>. SUFFICES ASSUME Lacks # {} PROVE FALSE
  OBVIOUS
<1>1. PICK k \in Lacks : \A l \in Lacks : k <= l
  <2>1. Lacks \in SUBSET Nat
    OBVIOUS
  <2>. HIDE DEF Lacks
  <2>. QED
    BY <2>1, LeastExists
<1>2. CASE k = 0
  <2>1. IsSum([n \in 0 .. 0 |-> 0], 0, ns)
    BY DEF IsSum
  <2>. QED
    BY <1>2, <2>1
<1>3. CASE k # 0
  <2>1. k - 1 \in Nat /\ k - 1 \notin Lacks
    BY <1>1, <1>3
  <2>2. PICK f : IsSum(f, k - 1, ns)
    BY <2>1
  <2>. DEFINE g == [n \in 0 .. k |-> IF n = k THEN f[k - 1] + ns[k] ELSE f[n]]
  <2>3. IsSum(g, k, ns)
    <3>1. \A n \in 0 .. k - 1 : f[n] = IF n = 0 THEN 0 ELSE f[n - 1] + ns[n]
      BY <2>2 DEF IsSum
    <3>2. \A n \in 0 .. k : g[n] = IF n = 0 THEN 0 ELSE g[n - 1] + ns[n]
      BY <1>3, <3>1
    <3>. QED
      BY <3>2 DEF IsSum
  <2>. QED
    BY <2>3
<1>. QED
  BY <1>2, <1>3

LEMMA SumFacts ==
  ASSUME NEW m \in Nat, NEW ns, NEW f, IsSum(f, m, ns)
  PROVE  /\ f[0] = 0
         /\ \A n \in 1 .. m : f[n] = f[n - 1] + ns[n]
<1>1. \A n \in 0 .. m : f[n] = IF n = 0 THEN 0 ELSE f[n - 1] + ns[n]
  BY DEF IsSum
<1>. QED
  BY <1>1

\* Sums of sequences that agree so far agree so far.
LEMMA SumsAgree ==
  ASSUME NEW k \in Nat, NEW ns, NEW f, IsSum(f, k, ns),
         NEW m \in 0 .. k, NEW ms, NEW g, IsSum(g, m, ms),
         \A n \in 1 .. m : ms[n] = ns[n]
  PROVE  f[m] = g[m]
<1>. DEFINE Differ == {n \in 0 .. m : f[n] # g[n]}
<1>. SUFFICES ASSUME Differ # {} PROVE FALSE
  OBVIOUS
<1>1. PICK n \in Differ : \A l \in Differ : n <= l
  <2>1. Differ \in SUBSET Nat
    OBVIOUS
  <2>. HIDE DEF Differ
  <2>. QED
    BY <2>1, LeastExists
<1>2. n # 0
  BY <1>1, SumFacts
<1>3. n - 1 \in 0 .. m /\ n - 1 \notin Differ /\ n \in 1 .. m /\ n \in 1 .. k
  BY <1>1, <1>2
<1>4. f[n] = f[n - 1] + ns[n] /\ g[n] = g[n - 1] + ms[n]
  BY <1>3, SumFacts
<1>. QED
  BY <1>3, <1>4

LEMMA SumIsNat ==
  ASSUME NEW m \in Nat, NEW ns, \A n \in 1 .. m : ns[n] \in Nat, NEW f, IsSum(f, m, ns)
  PROVE  f[m] \in Nat
<1>. DEFINE Odd == {n \in 0 .. m : f[n] \notin Nat}
<1>. SUFFICES ASSUME Odd # {} PROVE FALSE
  OBVIOUS
<1>1. PICK n \in Odd : \A l \in Odd : n <= l
  <2>1. Odd \in SUBSET Nat
    OBVIOUS
  <2>. HIDE DEF Odd
  <2>. QED
    BY <2>1, LeastExists
<1>2. n # 0
  BY <1>1, SumFacts
<1>3. n - 1 \in 0 .. m /\ n - 1 \notin Odd /\ n \in 1 .. m
  BY <1>1, <1>2
<1>4. f[n] = f[n - 1] + ns[n]
  BY <1>3, SumFacts
<1>. QED
  BY <1>3, <1>4

LEMMA TotalIs ==
  ASSUME NEW ns, Len(ns) \in Nat
  PROVE  \E f : IsSum(f, Len(ns), ns) /\ Total(ns) = f[Len(ns)]
<1>. DEFINE f == CHOOSE f : IsSum(f, Len(ns), ns)
<1>1. IsSum(f, Len(ns), ns)
  BY SumExists
<1>2. Total(ns) = f[Len(ns)]
  BY DEF Total, IsSum
<1>. QED
  BY <1>1, <1>2

LEMMA TotalNat ==
  ASSUME NEW ns \in Seq(Nat)
  PROVE  Total(ns) \in Nat
<1>1. PICK f : IsSum(f, Len(ns), ns) /\ Total(ns) = f[Len(ns)]
  BY TotalIs
<1>. QED
  BY <1>1, SumIsNat

LEMMA TotalEmpty == ASSUME NEW ns, Len(ns) = 0 PROVE Total(ns) = 0
<1>1. PICK f : IsSum(f, Len(ns), ns) /\ Total(ns) = f[Len(ns)]
  BY TotalIs
<1>. QED
  BY <1>1, SumFacts

\* ns with one more number.
LEMMA TotalAppend ==
  ASSUME NEW ns, NEW ms, Len(ns) \in Nat, Len(ms) = Len(ns) + 1,
         \A n \in 1 .. Len(ns) : ms[n] = ns[n]
  PROVE  Total(ms) = Total(ns) + ms[Len(ms)]
<1>1. PICK f : IsSum(f, Len(ns), ns) /\ Total(ns) = f[Len(ns)]
  BY TotalIs
<1>2. PICK g : IsSum(g, Len(ms), ms) /\ Total(ms) = g[Len(ms)]
  BY TotalIs
<1>3. g[Len(ms)] = g[Len(ns)] + ms[Len(ms)]
  BY <1>2, SumFacts
<1>4. g[Len(ns)] = f[Len(ns)]
  <2>1. \A n \in 1 .. Len(ns) : ns[n] = ms[n]
    OBVIOUS
  <2>. QED
    BY <1>1, <1>2, <2>1, SumsAgree
<1>. QED
  BY <1>1, <1>2, <1>3, <1>4

-----------------------------------------------------------------------------
(* Replacing one list of one side.                                         *)

LEMMA SetLevelFacts ==
  ASSUME LevelsTypeOK, NEW s \in Side, NEW p \in Price, NEW list \in Seq(Order),
         levels' = SetLevel(s, p, list)
  PROVE  /\ LevelsTypeOK'
         /\ \A t \in Side \ {s} : levels'[t] = levels[t]
         /\ list = <<>> => DOMAIN levels'[s] = DOMAIN levels[s] \ {p}
         /\ list # <<>> => /\ DOMAIN levels'[s] = DOMAIN levels[s] \cup {p}
                          /\ levels'[s][p] = list
         /\ \A q \in DOMAIN levels'[s] \ {p} : /\ q \in DOMAIN levels[s]
                                              /\ levels'[s][q] = levels[s][q]
<1>. DEFINE new == IF list = <<>>
                   THEN [q \in DOMAIN levels[s] \ {p} |-> levels[s][q]]
                   ELSE [q \in DOMAIN levels[s] \cup {p} |->
                            IF q = p THEN list ELSE levels[s][q]]
<1>1. levels' = [levels EXCEPT ![s] = new]
  BY DEF SetLevel
<1>2. levels = [t \in Side |-> levels[t]]
  BY DEF LevelsTypeOK
<1>3. /\ levels' = [t \in Side |-> levels'[t]]
      /\ levels'[s] = new
      /\ \A t \in Side \ {s} : levels'[t] = levels[t]
  BY <1>1, <1>2
<1>4. DOMAIN levels[s] \subseteq Price /\ levels[s] \in [DOMAIN levels[s] -> Seq(Order)]
  BY DEF LevelsTypeOK
<1>5. DOMAIN new \subseteq Price /\ new \in [DOMAIN new -> Seq(Order)]
  BY <1>4
<1>6. LevelsTypeOK'
  <2>1. ASSUME NEW t \in Side
        PROVE  /\ DOMAIN levels'[t] \subseteq Price
               /\ levels'[t] \in [DOMAIN levels'[t] -> Seq(Order)]
    <3>1. CASE t = s
      BY <3>1, <1>3, <1>5
    <3>2. CASE t # s
      BY <3>2, <1>3 DEF LevelsTypeOK
    <3>. QED
      BY <3>1, <3>2
  <2>. QED
    BY <2>1, <1>3 DEF LevelsTypeOK
<1>. QED
  BY <1>3, <1>6

-----------------------------------------------------------------------------
(* Taking a node out of its list.                                          *)

\* The list that is left has every other node, in the same order.
WithoutNode(short, list, i) ==
    /\ short \in Seq(Order) /\ Len(short) = Len(list) - 1
    /\ \A j \in 1 .. Len(list) - 1 :
          short[j] = IF j < i THEN list[j] ELSE list[j + 1]

LEMMA TailWithout ==
  ASSUME NEW list \in Seq(Order), list # <<>>
  PROVE  WithoutNode(Tail(list), list, 1)
<1>1. /\ Tail(list) \in Seq(Order) /\ Len(Tail(list)) = Len(list) - 1
      /\ \A j \in 1 .. Len(Tail(list)) : Tail(list)[j] = list[j + 1]
  BY HeadTailProperties
<1>. QED
  BY <1>1 DEF WithoutNode

LEMMA RemoveAtWithout ==
  ASSUME NEW list \in Seq(Order), NEW i \in 1 .. Len(list)
  PROVE  WithoutNode(RemoveAt(list, i), list, i)
<1>. DEFINE a == SubSeq(list, 1, i - 1)
            b == SubSeq(list, i + 1, Len(list))
<1>0. Len(list) \in Nat /\ i \in Nat /\ 1 <= i /\ i <= Len(list)
  BY LenProperties
<1>1. /\ a \in Seq(Order) /\ Len(a) = i - 1
      /\ \A j \in 1 .. i - 1 : a[j] = list[j]
  BY <1>0, SMTT(30)
<1>2. /\ b \in Seq(Order) /\ Len(b) = Len(list) - i
      /\ \A j \in 1 .. Len(list) - i : b[j] = list[i + j]
  BY <1>0, SMTT(30)
<1>. HIDE DEF a, b
<1>3. /\ a \o b \in Seq(Order) /\ Len(a \o b) = Len(list) - 1
      /\ \A j \in 1 .. Len(list) - 1 :
            (a \o b)[j] = IF j < i THEN a[j] ELSE b[j - (i - 1)]
  <2>1. /\ a \o b \in Seq(Order) /\ Len(a \o b) = Len(a) + Len(b)
        /\ \A j \in 1 .. Len(a) + Len(b) :
              (a \o b)[j] = IF j <= Len(a) THEN a[j] ELSE b[j - Len(a)]
    BY <1>1, <1>2, ConcatProperties
  <2>2. Len(a) + Len(b) = Len(list) - 1 /\ Len(a) = i - 1
    BY <1>0, <1>1, <1>2
  <2>3. \A j \in 1 .. Len(list) - 1 : j <= i - 1 <=> j < i
    BY <1>0
  <2>. QED
    BY <2>1, <2>2, <2>3
<1>4. \A j \in 1 .. Len(list) - 1 :
          (a \o b)[j] = IF j < i THEN list[j] ELSE list[j + 1]
  <2>. SUFFICES ASSUME NEW j \in 1 .. Len(list) - 1
                PROVE  (a \o b)[j] = IF j < i THEN list[j] ELSE list[j + 1]
    OBVIOUS
  <2>1. CASE j < i
    BY <2>1, <1>0, <1>1, <1>3
  <2>2. CASE ~(j < i)
    <3>1. j - (i - 1) \in 1 .. Len(list) - i /\ i + (j - (i - 1)) = j + 1
      BY <2>2, <1>0
    <3>. QED
      BY <2>2, <3>1, <1>2, <1>3
  <2>. QED
    BY <2>1, <2>2
<1>5. RemoveAt(list, i) = a \o b
  BY DEF RemoveAt, a, b
<1>. QED
  BY <1>3, <1>4, <1>5 DEF WithoutNode

\* Every node of the new book is a node of the old one.
NodesKept ==
    \A t \in Side : \A q \in DOMAIN levels'[t] :
        /\ q \in DOMAIN levels[t]
        /\ \A j \in DOMAIN levels'[t][q] :
              \E k \in DOMAIN levels[t][q] : levels'[t][q][j] = levels[t][q][k]

\* The book without the node at position i of the list at price p of side s,
\* and without its index entry: what removeBest* and cancelOrder both do.
LEMMA RemoveNode ==
  ASSUME BookInv, NEW s \in Side, NEW p \in DOMAIN levels[s],
         NEW i \in DOMAIN levels[s][p],
         NEW short, WithoutNode(short, levels[s][p], i),
         levels' = SetLevel(s, p, short),
         orderLocations' = ForgetLocation(levels[s][p][i].orderId)
  PROVE  BookInv' /\ NodesKept
<1>. DEFINE list == levels[s][p]
            id   == list[i].orderId
<1>0. /\ p \in Price /\ list \in Seq(Order) /\ short \in Seq(Order)
      /\ i \in 1 .. Len(list) /\ Len(list) \in Nat /\ Len(short) = Len(list) - 1
      /\ DOMAIN short = 1 .. Len(list) - 1 /\ DOMAIN list = 1 .. Len(list)
  BY DEF BookInv, BookTypeOK, LevelsTypeOK, WithoutNode
<1>1. /\ LevelsTypeOK'
      /\ \A t \in Side \ {s} : levels'[t] = levels[t]
      /\ short = <<>> => DOMAIN levels'[s] = DOMAIN levels[s] \ {p}
      /\ short # <<>> => /\ DOMAIN levels'[s] = DOMAIN levels[s] \cup {p}
                        /\ levels'[s][p] = short
      /\ \A q \in DOMAIN levels'[s] \ {p} : /\ q \in DOMAIN levels[s]
                                           /\ levels'[s][q] = levels[s][q]
  <2>1. LevelsTypeOK
    BY DEF BookInv, BookTypeOK
  <2>. QED
    BY <2>1, <1>0, SetLevelFacts, Zenon
<1>2. /\ DOMAIN orderLocations' = DOMAIN orderLocations \ {id}
      /\ \A x \in DOMAIN orderLocations' : orderLocations'[x] = orderLocations[x]
      /\ LocationsTypeOK'
  BY DEF BookInv, BookTypeOK, LocationsTypeOK, ForgetLocation
<1>3. NoEmptyLevel'
  BY <1>1 DEF BookInv, NoEmptyLevel
\* Every node of the new book is a node of the old one, and not node i.
<1>4. ASSUME NEW t \in Side, NEW q \in DOMAIN levels'[t], NEW j \in DOMAIN levels'[t][q]
      PROVE  /\ q \in DOMAIN levels[t]
             /\ \E k \in DOMAIN levels[t][q] :
                   /\ levels'[t][q][j] = levels[t][q][k]
                   /\ t = s /\ q = p => k = IF j < i THEN j ELSE j + 1
                   /\ ~(t = s /\ q = p) => k = j
  <2>1. CASE t = s /\ q = p
    <3>1. short # <<>> /\ levels'[t][q] = short
      BY <2>1, <1>1
    <3>2. j \in 1 .. Len(list) - 1
      BY <3>1, <1>0
    <3>3. short[j] = list[IF j < i THEN j ELSE j + 1]
      BY <3>2 DEF WithoutNode
    <3>4. (IF j < i THEN j ELSE j + 1) \in DOMAIN list
      BY <3>2, <1>0
    <3>. QED
      BY <2>1, <3>1, <3>3, <3>4
  <2>2. CASE t = s /\ q # p
    BY <2>2, <1>1
  <2>3. CASE t # s
    BY <2>3, <1>1
  <2>. QED
    BY <2>1, <2>2, <2>3
<1>5. ASSUME NEW t \in Side, NEW q \in DOMAIN levels'[t], NEW j \in DOMAIN levels'[t][q]
      PROVE  levels'[t][q][j].orderId # id
  <2>1. q \in DOMAIN levels[t]
    BY <1>4
  <2>2. PICK k \in DOMAIN levels[t][q] :
           /\ levels'[t][q][j] = levels[t][q][k]
           /\ t = s /\ q = p => k = IF j < i THEN j ELSE j + 1
    BY <1>4
  <2>. SUFFICES ASSUME levels[t][q][k].orderId = id
                PROVE  FALSE
    BY <2>2
  <2>3. orderLocations[id] = [side |-> t, price |-> q]
    BY <2>1 DEF BookInv, IndexConsistent, IndexComplete
  <2>4. orderLocations[id] = [side |-> s, price |-> p]
    BY DEF BookInv, IndexConsistent, IndexComplete
  <2>5. t = s /\ q = p
    BY <2>3, <2>4
  <2>6. k = i
    BY <2>5 DEF BookInv, IndexConsistent, NodesDistinct
  <2>7. j \in Int
    BY <2>5, <1>0, <1>1
  <2>. QED
    BY <2>2, <2>5, <2>6, <2>7, <1>0
<1>6. IndexComplete'
  <2>. SUFFICES ASSUME NEW t \in Side, NEW q \in DOMAIN levels'[t],
                       NEW j \in DOMAIN levels'[t][q]
                PROVE  LET o == levels'[t][q][j]
                       IN  /\ o.side = t /\ o.price = q
                           /\ o.orderId \in DOMAIN orderLocations'
                           /\ orderLocations'[o.orderId] = [side |-> t, price |-> q]
    BY DEF IndexComplete
  <2>1. q \in DOMAIN levels[t]
    BY <1>4
  <2>2. PICK k \in DOMAIN levels[t][q] : levels'[t][q][j] = levels[t][q][k]
    BY <1>4
  <2>3. LET o == levels[t][q][k]
        IN  /\ o.side = t /\ o.price = q
            /\ o.orderId \in DOMAIN orderLocations
            /\ orderLocations[o.orderId] = [side |-> t, price |-> q]
    BY <2>1 DEF BookInv, IndexConsistent, IndexComplete
  <2>4. levels'[t][q][j].orderId # id
    BY <1>5
  <2>. QED
    BY <2>2, <2>3, <2>4, <1>2
<1>7. NodesDistinct'
  <2>. SUFFICES ASSUME NEW t \in Side, NEW q \in DOMAIN levels'[t],
                       NEW j \in DOMAIN levels'[t][q], NEW l \in DOMAIN levels'[t][q],
                       levels'[t][q][j].orderId = levels'[t][q][l].orderId
                PROVE  j = l
    BY DEF NodesDistinct
  <2>0. q \in DOMAIN levels[t]
    BY <1>4
  <2>1. PICK k \in DOMAIN levels[t][q] :
           /\ levels'[t][q][j] = levels[t][q][k]
           /\ t = s /\ q = p => k = IF j < i THEN j ELSE j + 1
           /\ ~(t = s /\ q = p) => k = j
    BY <1>4
  <2>2. PICK m \in DOMAIN levels[t][q] :
           /\ levels'[t][q][l] = levels[t][q][m]
           /\ t = s /\ q = p => m = IF l < i THEN l ELSE l + 1
           /\ ~(t = s /\ q = p) => m = l
    BY <1>4
  <2>3. k = m
    BY <2>0, <2>1, <2>2 DEF BookInv, IndexConsistent, NodesDistinct
  <2>4. levels'[t][q] \in Seq(Order)
    BY <1>1 DEF LevelsTypeOK
  <2>5. j \in Int /\ l \in Int
    BY <2>4
  <2>. QED
    BY <2>1, <2>2, <2>3, <2>5, <1>0
<1>8. IndexSound'
  <2>. SUFFICES ASSUME NEW x \in DOMAIN orderLocations'
                PROVE  LET loc == orderLocations'[x]
                       IN  /\ loc.price \in DOMAIN levels'[loc.side]
                           /\ \E j \in DOMAIN levels'[loc.side][loc.price] :
                                 levels'[loc.side][loc.price][j].orderId = x
    BY Zenon DEF IndexSound
  <2>. DEFINE t == orderLocations[x].side
              q == orderLocations[x].price
  <2>1. /\ x \in DOMAIN orderLocations /\ x # id
        /\ orderLocations'[x] = orderLocations[x]
        /\ t \in Side /\ q \in DOMAIN levels[t]
    BY <1>2 DEF BookInv, BookTypeOK, LocationsTypeOK, IndexConsistent, IndexSound
  <2>2. PICK k \in DOMAIN levels[t][q] : levels[t][q][k].orderId = x
    BY <2>1 DEF BookInv, IndexConsistent, IndexSound
  <2>3. q \in DOMAIN levels'[t] /\ \E j \in DOMAIN levels'[t][q] : levels'[t][q][j].orderId = x
    <3>1. CASE t = s /\ q = p
      <4>1. k \in 1 .. Len(list) /\ k # i
        BY <2>1, <2>2, <3>1, <1>0
      <4>2. PICK j \in 1 .. Len(list) - 1 : k = IF j < i THEN j ELSE j + 1
        <5>1. CASE k < i
          BY <5>1, <4>1, <1>0
        <5>2. CASE k > i
          <6>1. k - 1 \in 1 .. Len(list) - 1 /\ ~(k - 1 < i) /\ k = (k - 1) + 1
            BY <5>2, <4>1, <1>0
          <6>. QED
            BY <6>1
        <5>. QED
          BY <5>1, <5>2, <4>1, <1>0
      <4>3. short[j] = list[k]
        BY <4>2 DEF WithoutNode
      <4>4. short # <<>>
        BY <4>2, <1>0
      <4>5. p \in DOMAIN levels'[s] /\ levels'[s][p] = short
        BY <4>4, <1>1
      <4>. QED
        BY <3>1, <4>3, <4>5, <2>2, <1>0
    <3>2. CASE t = s /\ q # p
      <4>1. q \in DOMAIN levels'[s]
        BY <3>2, <2>1, <1>1
      <4>. QED
        BY <4>1, <3>2, <2>2, <1>1
    <3>3. CASE t # s
      BY <3>3, <2>1, <2>2, <1>1
    <3>. QED
      BY <3>1, <3>2, <3>3
  <2>. QED
    <3>1. orderLocations'[x].side = t /\ orderLocations'[x].price = q
      BY <2>1
    <3>. HIDE DEF t, q
    <3>. QED
      BY <2>3, <3>1, Zenon
<1>9. NodesKept
  <2>. SUFFICES ASSUME NEW t \in Side, NEW q \in DOMAIN levels'[t]
                PROVE  /\ q \in DOMAIN levels[t]
                       /\ \A j \in DOMAIN levels'[t][q] :
                             \E k \in DOMAIN levels[t][q] : levels'[t][q][j] = levels[t][q][k]
    BY DEF NodesKept
  <2>1. levels'[t][q] # <<>> /\ levels'[t][q] \in Seq(Order)
    BY <1>1, <1>3 DEF NoEmptyLevel, LevelsTypeOK
  <2>2. 1 \in DOMAIN levels'[t][q]
    BY <2>1
  <2>. QED
    BY <2>2, <1>4
<1>10. NoSpentOrder'
  BY <1>9 DEF NodesKept, BookInv, NoSpentOrder
<1>. QED
  BY <1>1, <1>2, <1>3, <1>6, <1>7, <1>8, <1>9, <1>10 DEF BookInv, BookTypeOK, IndexConsistent

-----------------------------------------------------------------------------
(* The four operations keep the invariant.                                 *)

LEMMA RemoveBestInv ==
  ASSUME BookInv, NEW s \in Side, RemoveBest(s)
  PROVE  BookInv' /\ NodesKept
<1>. DEFINE p == BestPrice(s)
<1>1. p \in DOMAIN levels[s] /\ levels[s][p] # <<>>
  BY BestPriceIsBest DEF BookInv, RemoveBest, HasBest
<1>2. levels[s][p] \in Seq(Order)
  BY <1>1 DEF BookInv, BookTypeOK, LevelsTypeOK
<1>3. 1 \in DOMAIN levels[s][p] /\ Head(levels[s][p]) = levels[s][p][1]
  BY <1>1, <1>2
<1>4. WithoutNode(Tail(levels[s][p]), levels[s][p], 1)
  BY <1>1, <1>2, TailWithout
<1>5. /\ levels' = SetLevel(s, p, Tail(levels[s][p]))
      /\ orderLocations' = ForgetLocation(levels[s][p][1].orderId)
  BY <1>3 DEF RemoveBest, BestOrder
<1>. HIDE DEF p
<1>. QED
  BY <1>1, <1>3, <1>4, <1>5, RemoveNode

LEMMA CancelOrderInv ==
  ASSUME BookInv, NEW id \in OrderIds, CancelOrder(id)
  PROVE  BookInv' /\ NodesKept
<1>. DEFINE s == orderLocations[id].side
            p == orderLocations[id].price
<1>1. s \in Side /\ p \in DOMAIN levels[s]
  BY DEF CancelOrder, BookInv, BookTypeOK, LocationsTypeOK, IndexConsistent, IndexSound
<1>2. PICK i \in DOMAIN levels[s][p] :
         /\ levels[s][p][i].orderId = id
         /\ levels' = SetLevel(s, p, RemoveAt(levels[s][p], i))
  BY DEF CancelOrder
<1>3. levels[s][p] \in Seq(Order) /\ i \in 1 .. Len(levels[s][p])
  BY <1>1 DEF BookInv, BookTypeOK, LevelsTypeOK
<1>4. WithoutNode(RemoveAt(levels[s][p], i), levels[s][p], i)
  BY <1>3, RemoveAtWithout
<1>5. orderLocations' = ForgetLocation(levels[s][p][i].orderId)
  BY <1>2 DEF CancelOrder
<1>. HIDE DEF s, p
<1>. QED
  BY <1>1, <1>2, <1>4, <1>5, RemoveNode

\* The best order keeps its place and gives up part of what it has left.
LEMMA ReduceBestInv ==
  ASSUME BookInv, NEW s \in Side, NEW quantity \in Nat,
         quantity < BestOrder(s).remainingQuantity, ReduceBest(s, quantity)
  PROVE  BookInv' /\ \A t \in Side : DOMAIN levels'[t] = DOMAIN levels[t]
<1>. DEFINE p    == BestPrice(s)
            list == levels[s][p]
            new  == [list EXCEPT ![1].remainingQuantity = @ - quantity]
<1>1. p \in DOMAIN levels[s] /\ list # <<>>
  BY BestPriceIsBest DEF BookInv, ReduceBest, HasBest
<1>2. list \in Seq(Order) /\ p \in Price
  BY <1>1 DEF BookInv, BookTypeOK, LevelsTypeOK
<1>3. 1 \in DOMAIN list /\ list[1] \in Order /\ quantity < list[1].remainingQuantity
  BY <1>1, <1>2 DEF BestOrder
<1>4. [list[1] EXCEPT !.remainingQuantity = @ - quantity] \in Order
  <2>1. list[1].remainingQuantity - quantity \in Quantity \cup {0}
    BY <1>3, BookAssumption DEF Order, Quantity
  <2>. QED
    BY <1>3, <2>1 DEF Order
<1>5. /\ new \in Seq(Order) /\ new # <<>> /\ DOMAIN new = DOMAIN list
      /\ \A i \in DOMAIN list : /\ new[i].orderId = list[i].orderId
                               /\ new[i].side = list[i].side
                               /\ new[i].price = list[i].price
                               /\ new[i].remainingQuantity > 0
  <2>0. \A i \in DOMAIN list : list[i].remainingQuantity > 0
    BY <1>1 DEF BookInv, NoSpentOrder
  <2>1. new = [list EXCEPT ![1] = [list[1] EXCEPT !.remainingQuantity = @ - quantity]]
    BY <1>3
  <2>. HIDE DEF new, list
  <2>2. new \in Seq(Order) /\ Len(new) = Len(list)
    BY <1>2, <1>3, <1>4, <2>1, ExceptSeq
  <2>3. \A i \in DOMAIN list :
           new[i] = IF i = 1 THEN [list[1] EXCEPT !.remainingQuantity = @ - quantity]
                             ELSE list[i]
    BY <2>1
  <2>4. /\ [list[1] EXCEPT !.remainingQuantity = @ - quantity].orderId = list[1].orderId
        /\ [list[1] EXCEPT !.remainingQuantity = @ - quantity].side = list[1].side
        /\ [list[1] EXCEPT !.remainingQuantity = @ - quantity].price = list[1].price
        /\ [list[1] EXCEPT !.remainingQuantity = @ - quantity].remainingQuantity > 0
    BY <1>3, BookAssumption DEF Order, Quantity
  <2>. QED
    BY <1>1, <1>2, <2>0, <2>1, <2>2, <2>3, <2>4 DEF list
<1>6. /\ levels' = [t \in Side |-> levels'[t]]
      /\ \A t \in Side \ {s} : levels'[t] = levels[t]
      /\ levels'[s] = [levels[s] EXCEPT ![p] = new]
  BY DEF ReduceBest, BookInv, BookTypeOK, LevelsTypeOK
<1>. HIDE DEF new
<1>7. \A t \in Side : /\ DOMAIN levels'[t] = DOMAIN levels[t]
                     /\ levels'[t] \in [DOMAIN levels[t] -> Seq(Order)]
  <2>. SUFFICES ASSUME NEW t \in Side
                PROVE  /\ DOMAIN levels'[t] = DOMAIN levels[t]
                       /\ levels'[t] \in [DOMAIN levels[t] -> Seq(Order)]
    OBVIOUS
  <2>. HIDE DEF p
  <2>1. levels[t] \in [DOMAIN levels[t] -> Seq(Order)]
    BY DEF BookInv, BookTypeOK, LevelsTypeOK
  <2>2. CASE t = s
    BY <2>1, <2>2, <1>1, <1>5, <1>6
  <2>3. CASE t # s
    BY <2>1, <2>3, <1>6
  <2>. QED
    BY <2>2, <2>3
<1>8. \A t \in Side : \A q \in DOMAIN levels[t] :
         /\ levels'[t][q] # <<>>
         /\ DOMAIN levels'[t][q] = DOMAIN levels[t][q]
         /\ \A i \in DOMAIN levels[t][q] :
               /\ levels'[t][q][i].orderId = levels[t][q][i].orderId
               /\ levels'[t][q][i].side = levels[t][q][i].side
               /\ levels'[t][q][i].price = levels[t][q][i].price
               /\ levels'[t][q][i].remainingQuantity > 0
  <2>. SUFFICES ASSUME NEW t \in Side, NEW q \in DOMAIN levels[t]
                PROVE  /\ levels'[t][q] # <<>>
                       /\ DOMAIN levels'[t][q] = DOMAIN levels[t][q]
                       /\ \A i \in DOMAIN levels[t][q] :
                             /\ levels'[t][q][i].orderId = levels[t][q][i].orderId
                             /\ levels'[t][q][i].side = levels[t][q][i].side
                             /\ levels'[t][q][i].price = levels[t][q][i].price
                             /\ levels'[t][q][i].remainingQuantity > 0
    OBVIOUS
  <2>1. CASE t = s /\ q = p
    BY <2>1, <1>1, <1>5, <1>6 DEF BookInv, BookTypeOK, LevelsTypeOK
  <2>2. CASE ~(t = s /\ q = p)
    <3>1. levels'[t][q] = levels[t][q]
      BY <2>2, <1>6 DEF BookInv, BookTypeOK, LevelsTypeOK
    <3>2. levels[t][q] # <<>>
      BY DEF BookInv, NoEmptyLevel
    <3>3. \A i \in DOMAIN levels[t][q] : levels[t][q][i].remainingQuantity > 0
      BY DEF BookInv, NoSpentOrder
    <3>. QED
      BY <3>1, <3>2, <3>3
  <2>. QED
    BY <2>1, <2>2
<1>9. orderLocations' = orderLocations
  BY DEF ReduceBest
<1>10. BookTypeOK'
  BY <1>6, <1>7, <1>9 DEF BookInv, BookTypeOK, LevelsTypeOK, LocationsTypeOK
<1>11. NoEmptyLevel'
  BY <1>7, <1>8 DEF NoEmptyLevel
<1>12. IndexSound'
  <2>1. \A id \in DOMAIN orderLocations : orderLocations[id].side \in Side
    BY DEF BookInv, BookTypeOK, LocationsTypeOK
  <2>. QED
    <3>. SUFFICES ASSUME NEW id \in DOMAIN orderLocations
                  PROVE  LET loc == orderLocations[id]
                         IN  /\ loc.price \in DOMAIN levels'[loc.side]
                             /\ \E i \in DOMAIN levels'[loc.side][loc.price] :
                                   levels'[loc.side][loc.price][i].orderId = id
      BY <1>9, Zenon DEF IndexSound
    <3>1. PICK t, q : t = orderLocations[id].side /\ q = orderLocations[id].price
      OBVIOUS
    <3>2. /\ t \in Side /\ q \in DOMAIN levels[t]
          /\ \E i \in DOMAIN levels[t][q] : levels[t][q][i].orderId = id
      BY <2>1, <3>1 DEF BookInv, IndexConsistent, IndexSound
    <3>3. /\ q \in DOMAIN levels'[t]
          /\ \E i \in DOMAIN levels'[t][q] : levels'[t][q][i].orderId = id
      BY <1>7, <1>8, <3>2
    <3>. QED
      BY <3>1, <3>3
<1>13. IndexComplete'
  <2>. SUFFICES ASSUME NEW t \in Side, NEW q \in DOMAIN levels'[t],
                       NEW i \in DOMAIN levels'[t][q]
                PROVE  LET o == levels'[t][q][i]
                       IN  /\ o.side = t /\ o.price = q
                           /\ o.orderId \in DOMAIN orderLocations'
                           /\ orderLocations'[o.orderId] = [side |-> t, price |-> q]
    BY DEF IndexComplete
  <2>0. q \in DOMAIN levels[t] /\ i \in DOMAIN levels[t][q]
    BY <1>7, <1>8
  <2>1. LET o == levels[t][q][i]
        IN  /\ o.side = t /\ o.price = q
            /\ o.orderId \in DOMAIN orderLocations
            /\ orderLocations[o.orderId] = [side |-> t, price |-> q]
    BY <2>0 DEF BookInv, IndexConsistent, IndexComplete
  <2>. QED
    BY <2>0, <2>1, <1>8, <1>9
<1>14. NodesDistinct'
  BY <1>7, <1>8 DEF BookInv, IndexConsistent, NodesDistinct
<1>15. NoSpentOrder'
  BY <1>7, <1>8 DEF NoSpentOrder
<1>. QED
  BY <1>7, <1>10, <1>11, <1>12, <1>13, <1>14, <1>15 DEF BookInv, IndexConsistent

\* What addOrder may be called with.
CanRest(o) == /\ o \in Order /\ o.price \in Price /\ o.remainingQuantity > 0
              /\ o.orderId \notin DOMAIN orderLocations

\* The book has gained at most the price of o.
PricesGained(o) ==
    \A t \in Side : \A q \in DOMAIN levels'[t] :
        q \in DOMAIN levels[t] \/ (t = o.side /\ q = o.price)

LEMMA AddOrderInv ==
  ASSUME BookInv, NEW o, CanRest(o), AddOrder(o)
  PROVE  BookInv' /\ PricesGained(o)
<1>. DEFINE s    == o.side
            p    == o.price
            list == IF p \in DOMAIN levels[s] THEN levels[s][p] ELSE <<>>
            new  == Append(list, o)
<1>0. s \in Side /\ p \in Price /\ o \in Order /\ o.orderId \in OrderIds
  BY DEF CanRest, Order
<1>1. list \in Seq(Order)
  BY <1>0 DEF BookInv, BookTypeOK, LevelsTypeOK
<1>2. /\ new \in Seq(Order) /\ new # <<>>
      /\ DOMAIN list = 1 .. Len(list) /\ DOMAIN new = 1 .. Len(list) + 1
      /\ \A i \in 1 .. Len(list) : new[i] = list[i]
      /\ new[Len(list) + 1] = o
      /\ Len(list) \in Nat
  <2>. HIDE DEF list
  <2>. QED
    BY <1>0, <1>1, AppendProperties
<1>3. /\ LevelsTypeOK'
      /\ \A t \in Side \ {s} : levels'[t] = levels[t]
      /\ DOMAIN levels'[s] = DOMAIN levels[s] \cup {p}
      /\ levels'[s][p] = new
      /\ \A q \in DOMAIN levels'[s] \ {p} : /\ q \in DOMAIN levels[s]
                                           /\ levels'[s][q] = levels[s][q]
  <2>1. LevelsTypeOK /\ levels' = SetLevel(s, p, new)
    BY DEF BookInv, BookTypeOK, AddOrder
  <2>. HIDE DEF new, s, p
  <2>. QED
    BY <2>1, <1>0, <1>2, SetLevelFacts
<1>4. /\ DOMAIN orderLocations' = DOMAIN orderLocations \cup {o.orderId}
      /\ \A x \in DOMAIN orderLocations : orderLocations'[x] = orderLocations[x]
      /\ orderLocations'[o.orderId] = [side |-> s, price |-> p]
      /\ LocationsTypeOK'
  BY <1>0 DEF BookInv, BookTypeOK, LocationsTypeOK, AddOrder, CanRest
<1>5. NoEmptyLevel'
  BY <1>2, <1>3 DEF BookInv, NoEmptyLevel
<1>. HIDE DEF new, list
\* Every node of the new book is the added one or a node of the old one.
<1>6. ASSUME NEW t \in Side, NEW q \in DOMAIN levels'[t], NEW j \in DOMAIN levels'[t][q]
      PROVE  \/ t = s /\ q = p /\ j = Len(list) + 1 /\ levels'[t][q][j] = o
             \/ /\ q \in DOMAIN levels[t] /\ j \in DOMAIN levels[t][q]
                /\ levels'[t][q][j] = levels[t][q][j]
  <2>1. CASE t = s /\ q = p
    <3>1. j \in 1 .. Len(list) + 1 /\ levels'[t][q] = new
      BY <2>1, <1>2, <1>3
    <3>2. CASE j = Len(list) + 1
      BY <3>1, <3>2, <2>1, <1>2
    <3>3. CASE j \in 1 .. Len(list)
      <4>1. p \in DOMAIN levels[s] /\ list = levels[s][p]
        <5>1. list # <<>>
          BY <3>3, <1>1
        <5>. QED
          BY <5>1 DEF list
      <4>. QED
        BY <4>1, <3>1, <3>3, <2>1, <1>2
    <3>. QED
      BY <3>1, <3>2, <3>3, <1>2
  <2>2. CASE t = s /\ q # p
    BY <2>2, <1>3
  <2>3. CASE t # s
    BY <2>3, <1>3
  <2>. QED
    BY <2>1, <2>2, <2>3
\* No node of the old book carries the new id.
<1>7. ASSUME NEW t \in Side, NEW q \in DOMAIN levels[t], NEW j \in DOMAIN levels[t][q]
      PROVE  /\ levels[t][q][j].side = t /\ levels[t][q][j].price = q
             /\ levels[t][q][j].orderId \in DOMAIN orderLocations
             /\ levels[t][q][j].orderId # o.orderId
             /\ orderLocations[levels[t][q][j].orderId] = [side |-> t, price |-> q]
  BY DEF BookInv, IndexConsistent, IndexComplete, CanRest
<1>8. IndexComplete'
  <2>. SUFFICES ASSUME NEW t \in Side, NEW q \in DOMAIN levels'[t],
                       NEW j \in DOMAIN levels'[t][q]
                PROVE  LET x == levels'[t][q][j]
                       IN  /\ x.side = t /\ x.price = q
                           /\ x.orderId \in DOMAIN orderLocations'
                           /\ orderLocations'[x.orderId] = [side |-> t, price |-> q]
    BY DEF IndexComplete
  <2>1. CASE t = s /\ q = p /\ levels'[t][q][j] = o
    BY <2>1, <1>4
  <2>2. CASE /\ q \in DOMAIN levels[t] /\ j \in DOMAIN levels[t][q]
             /\ levels'[t][q][j] = levels[t][q][j]
    BY <2>2, <1>4, <1>7
  <2>. QED
    BY <1>6, <2>1, <2>2
<1>9. NodesDistinct'
  <2>. DEFINE Added(t, q, i) == i = Len(list) + 1 /\ levels'[t][q][i].orderId = o.orderId
              Old(t, q, i)   == /\ q \in DOMAIN levels[t] /\ i \in DOMAIN levels[t][q]
                                /\ levels'[t][q][i] = levels[t][q][i]
                                /\ levels'[t][q][i].orderId # o.orderId
  <2>1. ASSUME NEW t \in Side, NEW q \in DOMAIN levels'[t], NEW j \in DOMAIN levels'[t][q]
        PROVE  Added(t, q, j) \/ Old(t, q, j)
    <3>1. CASE t = s /\ q = p /\ j = Len(list) + 1 /\ levels'[t][q][j] = o
      BY <3>1
    <3>2. CASE /\ q \in DOMAIN levels[t] /\ j \in DOMAIN levels[t][q]
               /\ levels'[t][q][j] = levels[t][q][j]
      <4>1. levels[t][q][j].orderId \in DOMAIN orderLocations
        BY <3>2, <1>7
      <4>. QED
        BY <3>2, <4>1 DEF CanRest
    <3>. QED
      BY <3>1, <3>2, <1>6
  <2>2. ASSUME NEW t \in Side, NEW q \in DOMAIN levels[t],
               NEW i \in DOMAIN levels[t][q], NEW k \in DOMAIN levels[t][q],
               levels[t][q][i].orderId = levels[t][q][k].orderId
        PROVE  i = k
    BY <2>2 DEF BookInv, IndexConsistent, NodesDistinct
  <2>. SUFFICES ASSUME NEW t \in Side, NEW q \in DOMAIN levels'[t],
                       NEW j \in DOMAIN levels'[t][q], NEW k \in DOMAIN levels'[t][q],
                       levels'[t][q][j].orderId = levels'[t][q][k].orderId
                PROVE  j = k
    BY DEF NodesDistinct
  <2>3. /\ Added(t, q, j) \/ Old(t, q, j)
        /\ Added(t, q, k) \/ Old(t, q, k)
    BY <2>1
  <2>4. CASE Added(t, q, j) /\ Added(t, q, k)
    BY <2>4
  <2>5. CASE Old(t, q, j) /\ Old(t, q, k)
    BY <2>2, <2>5
  <2>. QED
    BY <2>3, <2>4, <2>5
<1>10. IndexSound'
  <2>. SUFFICES ASSUME NEW x \in DOMAIN orderLocations'
                PROVE  LET loc == orderLocations'[x]
                       IN  /\ loc.price \in DOMAIN levels'[loc.side]
                           /\ \E j \in DOMAIN levels'[loc.side][loc.price] :
                                 levels'[loc.side][loc.price][j].orderId = x
    BY DEF IndexSound
  <2>1. CASE x = o.orderId
    <3>1. Len(list) + 1 \in DOMAIN levels'[s][p] /\ levels'[s][p][Len(list) + 1] = o
      BY <1>2, <1>3
    <3>2. orderLocations'[x].side = s /\ orderLocations'[x].price = p
      BY <2>1, <1>4
    <3>. QED
      BY <2>1, <3>1, <3>2, <1>3
  <2>2. CASE x \in DOMAIN orderLocations
    <3>. DEFINE t == orderLocations[x].side
                q == orderLocations[x].price
    <3>1. orderLocations'[x] = orderLocations[x] /\ t \in Side /\ q \in DOMAIN levels[t]
      BY <2>2, <1>4 DEF BookInv, BookTypeOK, LocationsTypeOK, IndexConsistent, IndexSound
    <3>2. PICK k \in DOMAIN levels[t][q] : levels[t][q][k].orderId = x
      BY <2>2 DEF BookInv, IndexConsistent, IndexSound
    <3>. HIDE DEF t, q
    <3>3. /\ q \in DOMAIN levels'[t] /\ k \in DOMAIN levels'[t][q]
          /\ levels'[t][q][k] = levels[t][q][k]
      <4>1. CASE t = s /\ q = p
        <5>1. list = levels[t][q]
          BY <4>1, <3>1 DEF list
        <5>. QED
          BY <4>1, <5>1, <3>2, <1>2, <1>3
      <4>2. CASE t = s /\ q # p
        BY <4>2, <3>1, <3>2, <1>3
      <4>3. CASE t # s
        BY <4>3, <3>1, <3>2, <1>3
      <4>. QED
        BY <4>1, <4>2, <4>3
    <3>. QED
      BY <3>1, <3>2, <3>3 DEF t, q
  <2>. QED
    BY <2>1, <2>2, <1>4
<1>11. NoSpentOrder'
  <2>. SUFFICES ASSUME NEW t \in Side, NEW q \in DOMAIN levels'[t],
                       NEW j \in DOMAIN levels'[t][q]
                PROVE  levels'[t][q][j].remainingQuantity > 0
    BY DEF NoSpentOrder
  <2>1. o.remainingQuantity > 0
    BY DEF CanRest
  <2>. QED
    BY <2>1, <1>6 DEF BookInv, NoSpentOrder
<1>12. PricesGained(o)
  BY <1>3 DEF PricesGained
<1>. QED
  BY <1>3, <1>4, <1>5, <1>8, <1>9, <1>10, <1>11, <1>12 DEF BookInv, BookTypeOK, IndexConsistent

-----------------------------------------------------------------------------
(* The specification of the book on its own.                               *)

LEMMA BookInitInv == BookInit => BookInv
<1>. SUFFICES ASSUME BookInit PROVE BookInv
  OBVIOUS
<1>1. /\ levels = [s \in Side |-> <<>>] /\ orderLocations = <<>>
      /\ DOMAIN orderLocations = {} /\ \A s \in Side : DOMAIN levels[s] = {}
  BY DEF BookInit
<1>. QED
  BY <1>1 DEF BookInv, BookTypeOK, LevelsTypeOK, LocationsTypeOK, NoEmptyLevel, NoSpentOrder,
              IndexConsistent, IndexSound, IndexComplete, NodesDistinct

LEMMA BookUnchangedInv ==
  ASSUME BookInv, UNCHANGED bookVars
  PROVE  BookInv'
<1>1. levels' = levels /\ orderLocations' = orderLocations
  BY DEF bookVars
<1>2. BookTypeOK'
  BY <1>1 DEF BookInv, BookTypeOK, LevelsTypeOK, LocationsTypeOK
<1>3. NoEmptyLevel' /\ NoSpentOrder'
  BY <1>1 DEF BookInv, NoEmptyLevel, NoSpentOrder
<1>4. IndexSound'
  BY <1>1 DEF BookInv, IndexConsistent, IndexSound
<1>5. IndexComplete'
  <2>. SUFFICES ASSUME NEW s \in Side, NEW p \in DOMAIN levels'[s],
                       NEW i \in DOMAIN levels'[s][p]
                PROVE  LET o == levels'[s][p][i]
                       IN  /\ o.side = s /\ o.price = p
                           /\ o.orderId \in DOMAIN orderLocations'
                           /\ orderLocations'[o.orderId] = [side |-> s, price |-> p]
    BY DEF IndexComplete
  <2>1. p \in DOMAIN levels[s] /\ i \in DOMAIN levels[s][p]
    BY <1>1
  <2>2. LET o == levels[s][p][i]
        IN  /\ o.side = s /\ o.price = p
            /\ o.orderId \in DOMAIN orderLocations
            /\ orderLocations[o.orderId] = [side |-> s, price |-> p]
    BY <2>1 DEF BookInv, IndexConsistent, IndexComplete
  <2>. QED
    BY <1>1, <2>2
<1>6. NodesDistinct'
  BY <1>1 DEF BookInv, IndexConsistent, NodesDistinct
<1>. QED
  BY <1>2, <1>3, <1>4, <1>5, <1>6 DEF BookInv, IndexConsistent

LEMMA BookStepInv == BookInv /\ [BookNext]_bookVars => BookInv'
<1>. SUFFICES ASSUME BookInv, [BookNext]_bookVars
              PROVE  BookInv'
  OBVIOUS
<1>1. ASSUME NEW o \in Order, Addable(o), AddOrder(o)
      PROVE  BookInv'
  <2>1. o.remainingQuantity > 0
    BY <1>1 DEF Addable
  <2>. QED
    BY <2>1, <1>1, AddOrderInv DEF Addable, CanRest
<1>2. ASSUME NEW s \in Side, RemoveBest(s)
      PROVE  BookInv'
  BY <1>2, RemoveBestInv
<1>3. ASSUME NEW s \in Side, NEW q \in Quantity, Reducible(s, q), ReduceBest(s, q)
      PROVE  BookInv'
  <2>1. q \in Nat
    BY DEF Quantity
  <2>. QED
    BY <2>1, <1>3, ReduceBestInv DEF Reducible
<1>4. ASSUME NEW id \in OrderIds, CancelOrder(id)
      PROVE  BookInv'
  BY <1>4, CancelOrderInv
<1>5. CASE UNCHANGED bookVars
  BY <1>5, BookUnchangedInv
<1>. QED
  BY <1>1, <1>2, <1>3, <1>4, <1>5 DEF BookNext

\* The book is always well-formed.
THEOREM BookTypeCorrect == BookSpec => []BookTypeOK
<1>1. BookInv => BookTypeOK
  BY DEF BookInv
<1>. QED
  BY BookInitInv, BookStepInv, <1>1, PTL DEF BookSpec

\* No operation of the book leaves an empty price level in a map, so a map
\* with an entry always has a best order.
THEOREM BookHasNoEmptyLevel == BookSpec => []NoEmptyLevel
<1>1. BookInv => NoEmptyLevel
  BY DEF BookInv
<1>. QED
  BY BookInitInv, BookStepInv, <1>1, PTL DEF BookSpec

\* The cancellation index and the lists always describe the same orders: no
\* entry of the index dangles and no resting order is missing from it.
THEOREM BookIndexConsistent == BookSpec => []IndexConsistent
<1>1. BookInv => IndexConsistent
  BY DEF BookInv
<1>. QED
  BY BookInitInv, BookStepInv, <1>1, PTL DEF BookSpec

-----------------------------------------------------------------------------
(* What an operation does to the nodes, exactly.                           *)

\* The node at position i of the list at price p of side s is gone, and those
\* behind it have moved up.
NodeGone(s, p, i) ==
    /\ \A t \in Side : \A q \in DOMAIN levels'[t] : \A j \in DOMAIN levels'[t][q] :
          LET k == IF t = s /\ q = p /\ ~(j < i) THEN j + 1 ELSE j
          IN  /\ q \in DOMAIN levels[t] /\ k \in DOMAIN levels[t][q]
              /\ ~(t = s /\ q = p /\ k = i)
              /\ levels'[t][q][j] = levels[t][q][k]
    /\ \A t \in Side : \A q \in DOMAIN levels[t] : \A k \in DOMAIN levels[t][q] :
          ~(t = s /\ q = p /\ k = i) =>
              /\ q \in DOMAIN levels'[t]
              /\ \E j \in DOMAIN levels'[t][q] : levels'[t][q][j] = levels[t][q][k]

\* o has joined its list at the end, and the other nodes are where they were.
NodeAdded(o) ==
    /\ \A t \in Side : \A q \in DOMAIN levels'[t] : \A j \in DOMAIN levels'[t][q] :
          \/ /\ q \in DOMAIN levels[t] /\ j \in DOMAIN levels[t][q]
             /\ levels'[t][q][j] = levels[t][q][j]
          \/ /\ t = o.side /\ q = o.price /\ levels'[t][q][j] = o
             /\ j = Len(levels'[t][q])
    /\ \A t \in Side : \A q \in DOMAIN levels[t] : \A j \in DOMAIN levels[t][q] :
          /\ q \in DOMAIN levels'[t] /\ j \in DOMAIN levels'[t][q]
          /\ levels'[t][q][j] = levels[t][q][j]
    /\ /\ o.price \in DOMAIN levels'[o.side]
       /\ \E j \in DOMAIN levels'[o.side][o.price] : levels'[o.side][o.price][j] = o

Reduced(o, quantity) == [o EXCEPT !.remainingQuantity = @ - quantity]

\* Only the best node of side s is another, and it only in what it has left.
NodeReduced(s, quantity) ==
    \A t \in Side :
        /\ DOMAIN levels'[t] = DOMAIN levels[t]
        /\ \A q \in DOMAIN levels[t] :
              /\ DOMAIN levels'[t][q] = DOMAIN levels[t][q]
              /\ \A j \in DOMAIN levels[t][q] :
                    levels'[t][q][j] = IF t = s /\ q = BestPrice(s) /\ j = 1
                                       THEN Reduced(levels[t][q][j], quantity)
                                       ELSE levels[t][q][j]

\* The node removeBest* and cancelOrder take out is the only one to go.
LEMMA RemoveNodeExact ==
  ASSUME BookInv, NEW s \in Side, NEW p \in DOMAIN levels[s],
         NEW i \in DOMAIN levels[s][p],
         NEW short, WithoutNode(short, levels[s][p], i),
         levels' = SetLevel(s, p, short)
  PROVE  NodeGone(s, p, i)
<1>. DEFINE list == levels[s][p]
<1>0. /\ p \in Price /\ list \in Seq(Order) /\ short \in Seq(Order)
      /\ i \in 1 .. Len(list) /\ Len(list) \in Nat /\ Len(short) = Len(list) - 1
      /\ DOMAIN short = 1 .. Len(list) - 1 /\ DOMAIN list = 1 .. Len(list)
  BY DEF BookInv, BookTypeOK, LevelsTypeOK, WithoutNode
<1>1. /\ LevelsTypeOK'
      /\ \A t \in Side \ {s} : levels'[t] = levels[t]
      /\ short = <<>> => DOMAIN levels'[s] = DOMAIN levels[s] \ {p}
      /\ short # <<>> => /\ DOMAIN levels'[s] = DOMAIN levels[s] \cup {p}
                        /\ levels'[s][p] = short
      /\ \A q \in DOMAIN levels'[s] \ {p} : /\ q \in DOMAIN levels[s]
                                           /\ levels'[s][q] = levels[s][q]
  <2>1. LevelsTypeOK
    BY DEF BookInv, BookTypeOK
  <2>. QED
    BY <2>1, <1>0, SetLevelFacts, Zenon
<1>9. ASSUME NEW q \in DOMAIN levels[s] \ {p}
      PROVE  q \in DOMAIN levels'[s] /\ levels'[s][q] = levels[s][q]
  <2>1. q \in DOMAIN levels'[s]
    BY <1>1
  <2>. QED
    BY <1>1, <2>1
<1>2. ASSUME NEW t \in Side, NEW q \in DOMAIN levels'[t], NEW j \in DOMAIN levels'[t][q]
      PROVE  LET k == IF t = s /\ q = p /\ ~(j < i) THEN j + 1 ELSE j
             IN  /\ q \in DOMAIN levels[t] /\ k \in DOMAIN levels[t][q]
                 /\ ~(t = s /\ q = p /\ k = i)
                 /\ levels'[t][q][j] = levels[t][q][k]
  <2>1. CASE t = s /\ q = p
    <3>1. short # <<>> /\ levels'[t][q] = short
      BY <2>1, <1>1
    <3>2. j \in 1 .. Len(list) - 1
      BY <3>1, <1>0
    <3>3. short[j] = list[IF j < i THEN j ELSE j + 1]
      BY <3>2 DEF WithoutNode
    <3>4. CASE j < i
      BY <2>1, <3>1, <3>2, <3>3, <3>4, <1>0
    <3>5. CASE ~(j < i)
      BY <2>1, <3>1, <3>2, <3>3, <3>5, <1>0
    <3>. QED
      BY <3>4, <3>5
  <2>2. CASE t = s /\ q # p
    BY <2>2, <1>1
  <2>3. CASE t # s
    BY <2>3, <1>1
  <2>. QED
    BY <2>1, <2>2, <2>3
<1>3. ASSUME NEW t \in Side, NEW q \in DOMAIN levels[t], NEW k \in DOMAIN levels[t][q],
             ~(t = s /\ q = p /\ k = i)
      PROVE  /\ q \in DOMAIN levels'[t]
             /\ \E j \in DOMAIN levels'[t][q] : levels'[t][q][j] = levels[t][q][k]
  <2>1. CASE t = s /\ q = p
    <3>1. k \in 1 .. Len(list) /\ k # i
      BY <1>0, <1>3, <2>1
    <3>2. PICK j \in 1 .. Len(list) - 1 : k = IF j < i THEN j ELSE j + 1
      <4>1. CASE k < i
        BY <4>1, <3>1, <1>0
      <4>2. CASE k > i
        <5>1. k - 1 \in 1 .. Len(list) - 1 /\ ~(k - 1 < i) /\ k = (k - 1) + 1
          BY <4>2, <3>1, <1>0
        <5>. QED
          BY <5>1
      <4>. QED
        BY <4>1, <4>2, <3>1, <1>0
    <3>3. short[j] = list[k]
      BY <3>2 DEF WithoutNode
    <3>4. short # <<>>
      BY <3>2, <1>0
    <3>5. p \in DOMAIN levels'[s] /\ levels'[s][p] = short
      BY <3>4, <1>1
    <3>. QED
      BY <2>1, <3>2, <3>3, <3>5, <1>0
  <2>2. CASE t = s /\ q # p
    <3>1. q \in DOMAIN levels'[s] /\ levels'[s][q] = levels[s][q]
      BY <2>2, <1>9
    <3>. QED
      BY <2>2, <3>1
  <2>3. CASE t # s
    BY <2>3, <1>1
  <2>. QED
    BY <2>1, <2>2, <2>3
<1>. QED
  BY <1>2, <1>3 DEF NodeGone

LEMMA RemoveBestExact ==
  ASSUME BookInv, NEW s \in Side, RemoveBest(s)
  PROVE  /\ NodeGone(s, BestPrice(s), 1)
         /\ BestPrice(s) \in DOMAIN levels[s] /\ 1 \in DOMAIN levels[s][BestPrice(s)]
         /\ BestOrder(s) = levels[s][BestPrice(s)][1]
<1>. DEFINE p == BestPrice(s)
<1>1. p \in DOMAIN levels[s] /\ levels[s][p] # <<>>
  BY BestPriceIsBest DEF BookInv, RemoveBest, HasBest
<1>2. levels[s][p] \in Seq(Order)
  BY <1>1 DEF BookInv, BookTypeOK, LevelsTypeOK
<1>3. 1 \in DOMAIN levels[s][p] /\ Head(levels[s][p]) = levels[s][p][1]
  BY <1>1, <1>2
<1>4. WithoutNode(Tail(levels[s][p]), levels[s][p], 1)
  BY <1>1, <1>2, TailWithout
<1>5. levels' = SetLevel(s, p, Tail(levels[s][p]))
  BY DEF RemoveBest
<1>6. BestOrder(s) = Head(levels[s][p])
  BY DEF BestOrder
<1>. HIDE DEF p
<1>7. NodeGone(s, p, 1)
  BY <1>1, <1>3, <1>4, <1>5, RemoveNodeExact
<1>. QED
  BY <1>1, <1>3, <1>6, <1>7 DEF p

LEMMA CancelOrderExact ==
  ASSUME BookInv, NEW id \in OrderIds, CancelOrder(id)
  PROVE  \E s \in Side : \E p \in DOMAIN levels[s] : \E i \in DOMAIN levels[s][p] :
            levels[s][p][i].orderId = id /\ NodeGone(s, p, i)
<1>. DEFINE s == orderLocations[id].side
            p == orderLocations[id].price
<1>1. s \in Side /\ p \in DOMAIN levels[s]
  BY DEF CancelOrder, BookInv, BookTypeOK, LocationsTypeOK, IndexConsistent, IndexSound
<1>2. PICK i \in DOMAIN levels[s][p] :
         /\ levels[s][p][i].orderId = id
         /\ levels' = SetLevel(s, p, RemoveAt(levels[s][p], i))
  BY DEF CancelOrder
<1>3. levels[s][p] \in Seq(Order) /\ i \in 1 .. Len(levels[s][p])
  BY <1>1 DEF BookInv, BookTypeOK, LevelsTypeOK
<1>4. WithoutNode(RemoveAt(levels[s][p], i), levels[s][p], i)
  BY <1>3, RemoveAtWithout
<1>. HIDE DEF s, p
<1>5. NodeGone(s, p, i)
  BY <1>1, <1>2, <1>4, RemoveNodeExact
<1>. QED
  BY <1>1, <1>2, <1>5

LEMMA ReduceBestExact ==
  ASSUME BookInv, NEW s \in Side, NEW quantity, ReduceBest(s, quantity)
  PROVE  /\ NodeReduced(s, quantity)
         /\ BestPrice(s) \in DOMAIN levels[s] /\ 1 \in DOMAIN levels[s][BestPrice(s)]
         /\ BestOrder(s) = levels[s][BestPrice(s)][1]
<1>. DEFINE p    == BestPrice(s)
            list == levels[s][p]
            new  == [list EXCEPT ![1].remainingQuantity = @ - quantity]
<1>1. p \in DOMAIN levels[s] /\ list # <<>>
  BY BestPriceIsBest DEF BookInv, ReduceBest, HasBest
<1>2. list \in Seq(Order)
  BY <1>1 DEF BookInv, BookTypeOK, LevelsTypeOK
<1>3. 1 \in DOMAIN list /\ Head(list) = list[1]
  BY <1>1, <1>2
<1>4. /\ \A t \in Side \ {s} : levels'[t] = levels[t]
      /\ levels'[s] = [levels[s] EXCEPT ![p] = new]
  BY DEF ReduceBest, BookInv, BookTypeOK, LevelsTypeOK
<1>5. /\ DOMAIN new = DOMAIN list
      /\ \A j \in DOMAIN list : new[j] = IF j = 1 THEN Reduced(list[j], quantity) ELSE list[j]
  BY <1>2, <1>3 DEF Reduced
<1>6. BestOrder(s) = list[1]
  BY <1>3 DEF BestOrder
<1>. HIDE DEF new
<1>7. \A t \in Side : \A q \in DOMAIN levels[t] :
         levels'[t][q] = IF t = s /\ q = p THEN new ELSE levels[t][q]
  BY <1>1, <1>4
<1>8. \A t \in Side : DOMAIN levels'[t] = DOMAIN levels[t]
  BY <1>1, <1>4
<1>9. NodeReduced(s, quantity)
  <2>. SUFFICES ASSUME NEW t \in Side, NEW q \in DOMAIN levels[t]
                PROVE  /\ DOMAIN levels'[t][q] = DOMAIN levels[t][q]
                       /\ \A j \in DOMAIN levels[t][q] :
                             levels'[t][q][j] = IF t = s /\ q = p /\ j = 1
                                                THEN Reduced(levels[t][q][j], quantity)
                                                ELSE levels[t][q][j]
    BY <1>8 DEF NodeReduced
  <2>1. CASE t = s /\ q = p
    BY <2>1, <1>5, <1>7
  <2>2. CASE ~(t = s /\ q = p)
    BY <2>2, <1>7
  <2>. QED
    BY <2>1, <2>2
<1>. QED
  BY <1>1, <1>3, <1>6, <1>9

LEMMA AddOrderExact ==
  ASSUME BookInv, NEW o, CanRest(o), AddOrder(o)
  PROVE  NodeAdded(o)
<1>. DEFINE s    == o.side
            p    == o.price
            list == IF p \in DOMAIN levels[s] THEN levels[s][p] ELSE <<>>
            new  == Append(list, o)
<1>0. s \in Side /\ p \in Price /\ o \in Order
  BY DEF CanRest, Order
<1>1. list \in Seq(Order)
  BY <1>0 DEF BookInv, BookTypeOK, LevelsTypeOK
<1>2. /\ new \in Seq(Order) /\ new # <<>>
      /\ DOMAIN list = 1 .. Len(list) /\ DOMAIN new = 1 .. Len(list) + 1
      /\ \A i \in 1 .. Len(list) : new[i] = list[i]
      /\ new[Len(list) + 1] = o
      /\ Len(list) \in Nat /\ Len(new) = Len(list) + 1
  <2>. HIDE DEF list
  <2>. QED
    BY <1>0, <1>1, AppendProperties
<1>3. /\ \A t \in Side \ {s} : levels'[t] = levels[t]
      /\ DOMAIN levels'[s] = DOMAIN levels[s] \cup {p}
      /\ levels'[s][p] = new
      /\ \A q \in DOMAIN levels'[s] \ {p} : /\ q \in DOMAIN levels[s]
                                           /\ levels'[s][q] = levels[s][q]
  <2>1. LevelsTypeOK /\ levels' = SetLevel(s, p, new)
    BY DEF BookInv, BookTypeOK, AddOrder
  <2>. HIDE DEF new, s, p
  <2>. QED
    BY <2>1, <1>0, <1>2, SetLevelFacts
<1>. HIDE DEF new
<1>4. \A j \in DOMAIN list : p \in DOMAIN levels[s] /\ list = levels[s][p]
  BY <1>1
<1>5. p \in DOMAIN levels[s] => list = levels[s][p]
  OBVIOUS
<1>. HIDE DEF list
<1>6. ASSUME NEW t \in Side, NEW q \in DOMAIN levels'[t], NEW j \in DOMAIN levels'[t][q]
      PROVE  \/ /\ q \in DOMAIN levels[t] /\ j \in DOMAIN levels[t][q]
                /\ levels'[t][q][j] = levels[t][q][j]
             \/ /\ t = s /\ q = p /\ levels'[t][q][j] = o
                /\ j = Len(levels'[t][q])
  <2>1. CASE t = s /\ q = p
    <3>1. j \in 1 .. Len(list) + 1 /\ levels'[t][q] = new
      BY <2>1, <1>2, <1>3
    <3>2. CASE j = Len(list) + 1
      BY <3>1, <3>2, <2>1, <1>2
    <3>3. CASE j \in 1 .. Len(list)
      BY <3>1, <3>3, <2>1, <1>2, <1>4
    <3>. QED
      BY <3>1, <3>2, <3>3, <1>2
  <2>2. CASE t = s /\ q # p
    BY <2>2, <1>3
  <2>3. CASE t # s
    BY <2>3, <1>3
  <2>. QED
    BY <2>1, <2>2, <2>3
<1>7. ASSUME NEW t \in Side, NEW q \in DOMAIN levels[t], NEW j \in DOMAIN levels[t][q]
      PROVE  /\ q \in DOMAIN levels'[t] /\ j \in DOMAIN levels'[t][q]
             /\ levels'[t][q][j] = levels[t][q][j]
  <2>1. CASE t = s /\ q = p
    <3>1. j \in 1 .. Len(list) /\ levels'[t][q] = new /\ list = levels[t][q]
      BY <2>1, <1>2, <1>3, <1>5
    <3>. QED
      BY <3>1, <2>1, <1>2, <1>3
  <2>2. CASE t = s /\ q # p
    <3>1. q \in DOMAIN levels'[s] \ {p}
      BY <2>2, <1>3
    <3>. QED
      BY <2>2, <3>1, <1>3
  <2>3. CASE t # s
    BY <2>3, <1>3
  <2>. QED
    BY <2>1, <2>2, <2>3
<1>8. p \in DOMAIN levels'[s] /\ \E j \in DOMAIN levels'[s][p] : levels'[s][p][j] = o
  <2>1. Len(list) + 1 \in DOMAIN new
    BY <1>2
  <2>. QED
    BY <2>1, <1>2, <1>3
<1>. QED
  BY <1>6, <1>7, <1>8 DEF NodeAdded

-----------------------------------------------------------------------------
(* The same for the set of resting orders.                                 *)

LEMMA InOpenOrders ==
  \A t, x : x \in OpenOrders(t) <=>
     \E q \in DOMAIN levels[t] : \E j \in DOMAIN levels[t][q] : x = levels[t][q][j]
  BY DEF OpenOrders, ToSet

LEMMA InOpenOrdersNext ==
  \A t, x : x \in OpenOrders(t)' <=>
     \E q \in DOMAIN levels'[t] : \E j \in DOMAIN levels'[t][q] : x = levels'[t][q][j]
  BY DEF OpenOrders, ToSet

\* An id is carried by one node of the book.
LEMMA OneNodePerId ==
  ASSUME BookInv,
         NEW t \in Side, NEW q \in DOMAIN levels[t], NEW j \in DOMAIN levels[t][q],
         NEW u \in Side, NEW r \in DOMAIN levels[u], NEW k \in DOMAIN levels[u][r],
         levels[t][q][j].orderId = levels[u][r][k].orderId
  PROVE  t = u /\ q = r /\ j = k
<1>1. /\ orderLocations[levels[t][q][j].orderId] = [side |-> t, price |-> q]
      /\ orderLocations[levels[u][r][k].orderId] = [side |-> u, price |-> r]
  BY DEF BookInv, IndexConsistent, IndexComplete
<1>2. t = u /\ q = r
  BY <1>1
<1>. QED
  BY <1>2 DEF BookInv, IndexConsistent, NodesDistinct

LEMMA OpenOrdersGone ==
  ASSUME BookInv, NEW s \in Side, NEW p \in DOMAIN levels[s],
         NEW i \in DOMAIN levels[s][p], NodeGone(s, p, i)
  PROVE  \A t \in Side : OpenOrders(t)' = OpenOrders(t) \ {levels[s][p][i]}
<1>. SUFFICES ASSUME NEW t \in Side, NEW x
              PROVE  x \in OpenOrders(t)' <=> x \in OpenOrders(t) /\ x # levels[s][p][i]
  OBVIOUS
<1>1. ASSUME x \in OpenOrders(t)'
      PROVE  x \in OpenOrders(t) /\ x # levels[s][p][i]
  <2>1. PICK q \in DOMAIN levels'[t] : \E j \in DOMAIN levels'[t][q] : x = levels'[t][q][j]
    BY <1>1, InOpenOrdersNext
  <2>1a. PICK j \in DOMAIN levels'[t][q] : x = levels'[t][q][j]
    BY <2>1
  <2>. DEFINE k == IF t = s /\ q = p /\ ~(j < i) THEN j + 1 ELSE j
  <2>2. /\ q \in DOMAIN levels[t] /\ k \in DOMAIN levels[t][q]
        /\ ~(t = s /\ q = p /\ k = i) /\ x = levels[t][q][k]
    BY <2>1a DEF NodeGone
  <2>. HIDE DEF k
  <2>3. x # levels[s][p][i]
    BY <2>2, OneNodePerId
  <2>. QED
    BY <2>2, <2>3, InOpenOrders
<1>2. ASSUME x \in OpenOrders(t), x # levels[s][p][i]
      PROVE  x \in OpenOrders(t)'
  <2>1. PICK q \in DOMAIN levels[t] : \E k \in DOMAIN levels[t][q] : x = levels[t][q][k]
    BY <1>2, InOpenOrders
  <2>1a. PICK k \in DOMAIN levels[t][q] : x = levels[t][q][k]
    BY <2>1
  <2>2. ~(t = s /\ q = p /\ k = i)
    BY <1>2, <2>1a
  <2>3. q \in DOMAIN levels'[t] /\ \E j \in DOMAIN levels'[t][q] : levels'[t][q][j] = x
    BY <2>1a, <2>2 DEF NodeGone
  <2>. QED
    BY <2>3, InOpenOrdersNext
<1>. QED
  BY <1>1, <1>2

LEMMA OpenOrdersAdded ==
  ASSUME BookInv, NEW o, o.side \in Side, NodeAdded(o)
  PROVE  \A t \in Side : OpenOrders(t)' = IF t = o.side THEN OpenOrders(t) \cup {o}
                                                        ELSE OpenOrders(t)
<1>1. ASSUME NEW t \in Side, NEW x, x \in OpenOrders(t)'
      PROVE  x \in OpenOrders(t) \/ (t = o.side /\ x = o)
  <2>1. PICK q \in DOMAIN levels'[t] : \E j \in DOMAIN levels'[t][q] : x = levels'[t][q][j]
    BY <1>1, InOpenOrdersNext
  <2>1a. PICK j \in DOMAIN levels'[t][q] : x = levels'[t][q][j]
    BY <2>1
  <2>. QED
    BY <2>1a, InOpenOrders DEF NodeAdded
<1>2. ASSUME NEW t \in Side, NEW x, x \in OpenOrders(t)
      PROVE  x \in OpenOrders(t)'
  <2>1. PICK q \in DOMAIN levels[t] : \E j \in DOMAIN levels[t][q] : x = levels[t][q][j]
    BY <1>2, InOpenOrders
  <2>1a. PICK j \in DOMAIN levels[t][q] : x = levels[t][q][j]
    BY <2>1
  <2>. QED
    BY <2>1a, InOpenOrdersNext DEF NodeAdded
<1>3. o \in OpenOrders(o.side)'
  BY InOpenOrdersNext DEF NodeAdded
<1>. SUFFICES ASSUME NEW t \in Side
              PROVE  OpenOrders(t)' = IF t = o.side THEN OpenOrders(t) \cup {o} ELSE OpenOrders(t)
  OBVIOUS
<1>4. CASE t = o.side
  BY <1>1, <1>2, <1>3, <1>4
<1>5. CASE t # o.side
  BY <1>1, <1>2, <1>5
<1>. QED
  BY <1>4, <1>5

LEMMA OpenOrdersReduced ==
  ASSUME BookInv, NEW s \in Side, NEW quantity, NodeReduced(s, quantity),
         BestPrice(s) \in DOMAIN levels[s], 1 \in DOMAIN levels[s][BestPrice(s)]
  PROVE  LET m == levels[s][BestPrice(s)][1]
         IN  \A t \in Side :
                OpenOrders(t)' = IF t = s THEN (OpenOrders(t) \ {m}) \cup {Reduced(m, quantity)}
                                          ELSE OpenOrders(t)
<1>. DEFINE p == BestPrice(s)
            m == levels[s][p][1]
<1>0. \A t \in Side : \A q \in DOMAIN levels[t] : \A j \in DOMAIN levels[t][q] :
         levels'[t][q][j] = IF t = s /\ q = p /\ j = 1
                            THEN Reduced(levels[t][q][j], quantity) ELSE levels[t][q][j]
  BY DEF NodeReduced
<1>0a. \A t \in Side : /\ DOMAIN levels'[t] = DOMAIN levels[t]
                      /\ \A q \in DOMAIN levels[t] : DOMAIN levels'[t][q] = DOMAIN levels[t][q]
  BY DEF NodeReduced
<1>. HIDE DEF p
<1>1. ASSUME NEW t \in Side, NEW x, x \in OpenOrders(t)'
      PROVE  \/ x \in OpenOrders(t) /\ (t = s => x # m)
             \/ t = s /\ x = Reduced(m, quantity)
  <2>1. PICK q \in DOMAIN levels'[t] : \E j \in DOMAIN levels'[t][q] : x = levels'[t][q][j]
    BY <1>1, InOpenOrdersNext
  <2>1a. PICK j \in DOMAIN levels'[t][q] : x = levels'[t][q][j]
    BY <2>1
  <2>2. q \in DOMAIN levels[t] /\ j \in DOMAIN levels[t][q]
    BY <2>1a, <1>0a
  <2>3. CASE t = s /\ q = p /\ j = 1
    BY <2>1a, <2>2, <2>3, <1>0
  <2>4. CASE ~(t = s /\ q = p /\ j = 1)
    <3>1. x = levels[t][q][j]
      BY <2>1a, <2>2, <2>4, <1>0
    <3>2. t = s => x # m
      BY <2>2, <2>4, <3>1, OneNodePerId DEF p
    <3>. QED
      BY <2>2, <3>1, <3>2, InOpenOrders
  <2>. QED
    BY <2>3, <2>4
<1>2. ASSUME NEW t \in Side, NEW x, x \in OpenOrders(t), t = s => x # m
      PROVE  x \in OpenOrders(t)'
  <2>1. PICK q \in DOMAIN levels[t] : \E j \in DOMAIN levels[t][q] : x = levels[t][q][j]
    BY <1>2, InOpenOrders
  <2>1a. PICK j \in DOMAIN levels[t][q] : x = levels[t][q][j]
    BY <2>1
  <2>2. ~(t = s /\ q = p /\ j = 1)
    BY <1>2, <2>1a
  <2>3. q \in DOMAIN levels'[t] /\ j \in DOMAIN levels'[t][q] /\ levels'[t][q][j] = x
    BY <2>1a, <2>2, <1>0, <1>0a
  <2>. QED
    BY <2>3, InOpenOrdersNext
<1>3. Reduced(m, quantity) \in OpenOrders(s)'
  <2>1. p \in DOMAIN levels'[s] /\ 1 \in DOMAIN levels'[s][p] /\ levels'[s][p][1] = Reduced(m, quantity)
    BY <1>0, <1>0a DEF p
  <2>. QED
    BY <2>1, InOpenOrdersNext
<1>. SUFFICES ASSUME NEW t \in Side
              PROVE  OpenOrders(t)' = IF t = s THEN (OpenOrders(t) \ {m}) \cup {Reduced(m, quantity)}
                                               ELSE OpenOrders(t)
  BY DEF p
<1>4. CASE t = s
  BY <1>1, <1>2, <1>3, <1>4
<1>5. CASE t # s
  BY <1>1, <1>2, <1>5
<1>. QED
  BY <1>4, <1>5

-----------------------------------------------------------------------------
(* What an operation leaves alone.                                         *)

QueueKept ==
    \A a, b \in DOMAIN orderLocations' : Ahead(a, b)' => Ahead(a, b) \/ b \notin DOMAIN orderLocations

OthersKept ==
    \E id \in OrderIds : \A s \in Side :
        {o \in OpenOrders(s) : o.orderId # id} = {o \in OpenOrders(s)' : o.orderId # id}

\* An order of the book has one of the ids.
LEMMA OpenOrderIds ==
  ASSUME BookInv
  PROVE  \A s \in Side : \A o \in OpenOrders(s) :
            o \in Order /\ o.orderId \in OrderIds /\ o.orderId \in DOMAIN orderLocations
<1>. SUFFICES ASSUME NEW s \in Side, NEW o \in OpenOrders(s)
              PROVE  o \in Order /\ o.orderId \in OrderIds /\ o.orderId \in DOMAIN orderLocations
  OBVIOUS
<1>1. PICK q \in DOMAIN levels[s] : \E j \in DOMAIN levels[s][q] : o = levels[s][q][j]
  BY InOpenOrders
<1>2. PICK j \in DOMAIN levels[s][q] : o = levels[s][q][j]
  BY <1>1
<1>3. levels[s][q] \in Seq(Order)
  BY DEF BookInv, BookTypeOK, LevelsTypeOK
<1>4. o \in Order
  BY <1>2, <1>3
<1>5. levels[s][q][j].orderId \in DOMAIN orderLocations
  BY DEF BookInv, IndexConsistent, IndexComplete
<1>. QED
  BY <1>2, <1>4, <1>5 DEF Order

LEMMA SameId ==
  ASSUME BookInv, NEW s \in Side, NEW t \in Side,
         NEW x \in OpenOrders(s), NEW y \in OpenOrders(t), x.orderId = y.orderId
  PROVE  s = t /\ x = y
<1>1. PICK q \in DOMAIN levels[s] : \E j \in DOMAIN levels[s][q] : x = levels[s][q][j]
  BY InOpenOrders
<1>2. PICK j \in DOMAIN levels[s][q] : x = levels[s][q][j]
  BY <1>1
<1>3. PICK r \in DOMAIN levels[t] : \E k \in DOMAIN levels[t][r] : y = levels[t][r][k]
  BY InOpenOrders
<1>4. PICK k \in DOMAIN levels[t][r] : y = levels[t][r][k]
  BY <1>3
<1>. QED
  BY <1>2, <1>4, OneNodePerId

LEMMA GoneKeeps ==
  ASSUME BookInv, BookInv', NEW s \in Side, NEW p \in DOMAIN levels[s],
         NEW i \in DOMAIN levels[s][p], NodeGone(s, p, i)
  PROVE  QueueKept /\ OthersKept
<1>1. QueueKept
  <2>. SUFFICES ASSUME NEW a, NEW b, Ahead(a, b)'
                PROVE  Ahead(a, b)
    BY DEF QueueKept
  <2>1. PICK t \in Side : \E q \in DOMAIN levels'[t] : \E j, l \in DOMAIN levels'[t][q] :
           j < l /\ levels'[t][q][j].orderId = a /\ levels'[t][q][l].orderId = b
    BY DEF Ahead
  <2>2. PICK q \in DOMAIN levels'[t] : \E j, l \in DOMAIN levels'[t][q] :
           j < l /\ levels'[t][q][j].orderId = a /\ levels'[t][q][l].orderId = b
    BY <2>1
  <2>3. PICK j \in DOMAIN levels'[t][q], l \in DOMAIN levels'[t][q] :
           j < l /\ levels'[t][q][j].orderId = a /\ levels'[t][q][l].orderId = b
    BY <2>2
  <2>. DEFINE Old(m) == IF t = s /\ q = p /\ ~(m < i) THEN m + 1 ELSE m
  <2>4. /\ q \in DOMAIN levels[t] /\ Old(j) \in DOMAIN levels[t][q]
        /\ levels'[t][q][j] = levels[t][q][Old(j)]
    BY DEF NodeGone
  <2>5. Old(l) \in DOMAIN levels[t][q] /\ levels'[t][q][l] = levels[t][q][Old(l)]
    BY DEF NodeGone
  <2>6. levels'[t][q] \in Seq(Order) /\ levels[s][p] \in Seq(Order)
    BY DEF BookInv, BookTypeOK, LevelsTypeOK
  <2>7. j \in Int /\ l \in Int /\ i \in Int
    BY <2>6
  <2>8. Old(j) < Old(l)
    BY <2>3, <2>7
  <2>. HIDE DEF Old
  <2>. QED
    BY <2>3, <2>4, <2>5, <2>8 DEF Ahead
<1>2. OthersKept
  <2>. DEFINE m == levels[s][p][i]
  <2>1. m \in OpenOrders(s)
    BY InOpenOrders
  <2>2. m.orderId \in OrderIds
    BY <2>1, OpenOrderIds
  <2>3. \A t \in Side : OpenOrders(t)' = OpenOrders(t) \ {m}
    BY OpenOrdersGone
  <2>. HIDE DEF m
  <2>. QED
    BY <2>2, <2>3 DEF OthersKept
<1>. QED
  BY <1>1, <1>2

LEMMA AddedKeeps ==
  ASSUME BookInv, BookInv', NEW o, CanRest(o), NodeAdded(o)
  PROVE  QueueKept /\ OthersKept
<1>0. o.side \in Side /\ o.orderId \in OrderIds /\ o.orderId \notin DOMAIN orderLocations
  BY DEF CanRest, Order
<1>1. QueueKept
  <2>. SUFFICES ASSUME NEW a, NEW b, Ahead(a, b)', b \in DOMAIN orderLocations
                PROVE  Ahead(a, b)
    BY DEF QueueKept
  <2>1. PICK t \in Side : \E q \in DOMAIN levels'[t] : \E j, l \in DOMAIN levels'[t][q] :
           j < l /\ levels'[t][q][j].orderId = a /\ levels'[t][q][l].orderId = b
    BY DEF Ahead
  <2>2. PICK q \in DOMAIN levels'[t] : \E j, l \in DOMAIN levels'[t][q] :
           j < l /\ levels'[t][q][j].orderId = a /\ levels'[t][q][l].orderId = b
    BY <2>1
  <2>3. PICK j \in DOMAIN levels'[t][q], l \in DOMAIN levels'[t][q] :
           j < l /\ levels'[t][q][j].orderId = a /\ levels'[t][q][l].orderId = b
    BY <2>2
  <2>4. levels'[t][q] \in Seq(Order)
    BY DEF BookInv, BookTypeOK, LevelsTypeOK
  <2>5. j # Len(levels'[t][q])
    BY <2>3, <2>4
  <2>6. levels'[t][q][l] # o
    BY <2>3, <1>0
  <2>. QED
    BY <2>3, <2>5, <2>6 DEF NodeAdded, Ahead
<1>2. OthersKept
  BY <1>0, OpenOrdersAdded DEF OthersKept
<1>. QED
  BY <1>1, <1>2

LEMMA ReducedKeeps ==
  ASSUME BookInv, NEW s \in Side, NEW quantity, NodeReduced(s, quantity),
         BestPrice(s) \in DOMAIN levels[s], 1 \in DOMAIN levels[s][BestPrice(s)]
  PROVE  QueueKept /\ OthersKept
<1>. DEFINE p == BestPrice(s)
            m == levels[s][p][1]
<1>0. m \in OpenOrders(s) /\ m \in Order /\ m.orderId \in OrderIds
  BY InOpenOrders, OpenOrderIds
<1>1. \A x \in Order : Reduced(x, quantity).orderId = x.orderId
  BY DEF Reduced, Order
<1>2. QueueKept
  <2>. SUFFICES ASSUME NEW a, NEW b, Ahead(a, b)'
                PROVE  Ahead(a, b)
    BY DEF QueueKept
  <2>1. ASSUME NEW t \in Side, NEW q \in DOMAIN levels'[t], NEW j \in DOMAIN levels'[t][q]
        PROVE  /\ q \in DOMAIN levels[t] /\ j \in DOMAIN levels[t][q]
               /\ levels'[t][q][j].orderId = levels[t][q][j].orderId
    <3>1. q \in DOMAIN levels[t] /\ j \in DOMAIN levels[t][q]
      BY DEF NodeReduced
    <3>2. levels[t][q][j] \in Order
      BY <3>1 DEF BookInv, BookTypeOK, LevelsTypeOK
    <3>3. levels'[t][q][j] = Reduced(levels[t][q][j], quantity) \/ levels'[t][q][j] = levels[t][q][j]
      BY <3>1 DEF NodeReduced
    <3>. QED
      BY <1>1, <3>1, <3>2, <3>3
  <2>. QED
    BY <2>1 DEF Ahead
<1>3. OthersKept
  <2>1. \A t \in Side : OpenOrders(t)' = IF t = s THEN (OpenOrders(t) \ {m}) \cup {Reduced(m, quantity)}
                                                  ELSE OpenOrders(t)
    BY OpenOrdersReduced
  <2>2. Reduced(m, quantity).orderId = m.orderId
    BY <1>0, <1>1
  <2>. HIDE DEF m
  <2>. QED
    BY <1>0, <2>1, <2>2 DEF OthersKept
<1>. QED
  BY <1>2, <1>3

LEMMA BookStepKeeps ==
  ASSUME BookInv, BookNext
  PROVE  QueueKept /\ OthersKept
<1>0. BookInv'
  BY BookStepInv
<1>1. ASSUME NEW o \in Order, Addable(o), AddOrder(o)
      PROVE  QueueKept /\ OthersKept
  <2>1. CanRest(o)
    BY <1>1 DEF Addable, CanRest
  <2>. QED
    BY <1>0, <1>1, <2>1, AddOrderExact, AddedKeeps
<1>2. ASSUME NEW s \in Side, RemoveBest(s)
      PROVE  QueueKept /\ OthersKept
  BY <1>0, <1>2, RemoveBestExact, GoneKeeps
<1>3. ASSUME NEW s \in Side, NEW q \in Quantity, Reducible(s, q), ReduceBest(s, q)
      PROVE  QueueKept /\ OthersKept
  BY <1>3, ReduceBestExact, ReducedKeeps
<1>4. ASSUME NEW id \in OrderIds, CancelOrder(id)
      PROVE  QueueKept /\ OthersKept
  BY <1>0, <1>4, CancelOrderExact, GoneKeeps
<1>. QED
  BY <1>1, <1>2, <1>3, <1>4 DEF BookNext

\* QueueOrderKept: no operation moves an order past another of its level, and
\* addOrder puts a new one behind those already there, for any number of
\* orders and prices.
THEOREM TimePriorityKept == BookSpec => QueueOrderKept
<1>1. BookInv /\ [BookNext]_bookVars =>
        [\A a, b \in DOMAIN orderLocations' :
            Ahead(a, b)' => \/ Ahead(a, b)
                            \/ b \notin DOMAIN orderLocations]_bookVars
  BY BookStepKeeps DEF QueueKept
<1>. QED
  BY BookInitInv, BookStepInv, <1>1, PTL DEF BookSpec, QueueOrderKept

\* OthersUntouched: an operation changes at most one resting order.
THEOREM OneOrderAtATime == BookSpec => OthersUntouched
<1>1. BookInv /\ [BookNext]_bookVars => [OthersKept]_bookVars
  BY BookStepKeeps
<1>. QED
  BY BookInitInv, BookStepInv, <1>1, PTL DEF BookSpec, OthersUntouched, OthersKept

-----------------------------------------------------------------------------
(* A book snapshot.  The levels are found by their rank: that every rank   *)
(* has exactly one price is a matter of counting.                          *)

BetterThan(s, p) == {q \in DOMAIN levels[s] : Better(s, q, p)}

LEMMA RankOfPrice ==
  ASSUME BookTypeOK, NEW s \in Side, NEW p \in DOMAIN levels[s]
  PROVE  /\ IsFiniteSet(DOMAIN levels[s]) /\ Cardinality(DOMAIN levels[s]) \in Nat
         /\ Cardinality(BetterThan(s, p)) \in 0 .. Cardinality(DOMAIN levels[s]) - 1
         /\ \A q \in DOMAIN levels[s] :
               Better(s, p, q) => Cardinality(BetterThan(s, p)) < Cardinality(BetterThan(s, q))
<1>. DEFINE D == DOMAIN levels[s]
<1>1. D \subseteq Nat /\ IsFiniteSet(D)
  <2>1. D \subseteq 1 .. MaxPrice /\ MaxPrice \in Nat
    BY BookAssumption DEF BookTypeOK, LevelsTypeOK, Price
  <2>2. IsFiniteSet(1 .. MaxPrice)
    BY <2>1, FS_Interval
  <2>. QED
    BY <2>1, <2>2, FS_Subset
<1>2. ASSUME NEW S \in SUBSET D, NEW T \in SUBSET D, S \subseteq T, S # T
      PROVE  Cardinality(S) \in Nat /\ Cardinality(S) < Cardinality(T)
  <2>1. IsFiniteSet(T)
    BY <1>1, FS_Subset
  <2>2. /\ Cardinality(S) <= Cardinality(T)
        /\ Cardinality(S) # Cardinality(T)
    BY <1>2, <2>1, FS_Subset
  <2>3. Cardinality(S) \in Nat /\ Cardinality(T) \in Nat
    BY <1>1, FS_Subset, FS_CardinalityType
  <2>. QED
    BY <2>2, <2>3
<1>3. ~Better(s, p, p)
  BY <1>1 DEF Better
<1>4. Cardinality(BetterThan(s, p)) \in Nat /\ Cardinality(BetterThan(s, p)) < Cardinality(D)
  <2>1. BetterThan(s, p) \in SUBSET D /\ BetterThan(s, p) # D
    BY <1>3 DEF BetterThan
  <2>. QED
    BY <2>1, <1>2
<1>5. Cardinality(D) \in Nat
  BY <1>1, FS_CardinalityType
<1>6. ASSUME NEW q \in D, Better(s, p, q)
      PROVE  Cardinality(BetterThan(s, p)) < Cardinality(BetterThan(s, q))
  <2>1. p \in BetterThan(s, q) /\ p \notin BetterThan(s, p)
    BY <1>3, <1>6 DEF BetterThan
  <2>2. \A r \in D : Better(s, r, p) => Better(s, r, q)
    BY <1>1, <1>6 DEF Better
  <2>3. BetterThan(s, p) \in SUBSET D /\ BetterThan(s, q) \in SUBSET D
    BY DEF BetterThan
  <2>4. BetterThan(s, p) \subseteq BetterThan(s, q)
    BY <2>2 DEF BetterThan
  <2>. QED
    BY <2>1, <2>3, <2>4, <1>2
<1>. QED
  BY <1>1, <1>4, <1>5, <1>6

LEMMA EveryRankTaken ==
  ASSUME BookTypeOK, NEW s \in Side, NEW i \in 1 .. Cardinality(DOMAIN levels[s])
  PROVE  /\ NthPrice(s, i) \in DOMAIN levels[s]
         /\ Cardinality(BetterThan(s, NthPrice(s, i))) = i - 1
<1>. DEFINE D == DOMAIN levels[s]
            k == Cardinality(D)
            R == 0 .. k - 1
            rank == [p \in D |-> Cardinality(BetterThan(s, p))]
<1>1. D # {}
  BY FS_EmptySet
<1>2. IsFiniteSet(D) /\ k \in Nat /\ rank \in [D -> R]
  BY <1>1, RankOfPrice
<1>3. \A p, q \in D : p # q => Better(s, p, q) \/ Better(s, q, p)
  BY BookAssumption DEF Better, BookTypeOK, LevelsTypeOK, Price
<1>4. ASSUME NEW p \in D, NEW q \in D, p # q
      PROVE  rank[p] # rank[q]
  BY <1>2, <1>3, <1>4, RankOfPrice
<1>5. rank \in Injection(D, R)
  BY <1>2, <1>4 DEF Injection, IsInjective
<1>6. IsFiniteSet(R) /\ Cardinality(R) = k
  <2>1. k - 1 \in Int /\ 0 <= k - 1 /\ k - 1 - 0 + 1 = k
    BY <1>2
  <2>. HIDE DEF k
  <2>. QED
    BY <2>1, FS_Interval
<1>7. rank \in Surjection(D, R)
  BY <1>5, <1>6, FS_Injection
<1>8. PICK p \in D : rank[p] = i - 1
  BY <1>2, <1>7 DEF Surjection
<1>. QED
  BY <1>8 DEF NthPrice, BetterThan

-----------------------------------------------------------------------------
(* A sum over a set, as MapThenSumSet computes it: a function on its       *)
(* subsets, which takes the members one by one in an order of its own.     *)

NextOf(T) == CHOOSE o \in T : TRUE

\* f holds the sums of the remaining quantities of the sets of SS.
IsSetSum(f, SS) ==
    f = [T \in SS |-> IF T = {} THEN 0
                      ELSE NextOf(T).remainingQuantity + f[T \ {NextOf(T)}]]

\* Among sets of orders with some flaw one is smallest.
LEMMA SmallestExists ==
  ASSUME NEW S, IsFiniteSet(S), NEW Flawed \in SUBSET (SUBSET S), Flawed # {}
  PROVE  \E T \in Flawed : \A U \in Flawed : Cardinality(T) <= Cardinality(U)
<1>. DEFINE Sizes == {Cardinality(T) : T \in Flawed}
<1>1. Sizes \in SUBSET Nat
  BY FS_Subset, FS_CardinalityType
<1>2. Sizes # {}
  OBVIOUS
<1>. HIDE DEF Sizes
<1>3. PICK k \in Sizes : \A l \in Sizes : k <= l
  BY <1>1, <1>2, LeastExists
<1>. QED
  BY <1>3 DEF Sizes

LEMMA SetSumExists ==
  ASSUME NEW S, IsFiniteSet(S)
  PROVE  \E f : IsSetSum(f, SUBSET S)
<1>. DEFINE UpTo(n) == {T \in SUBSET S : Cardinality(T) <= n}
            Lacks == {n \in Nat : ~ \E f : IsSetSum(f, UpTo(n))}
<1>1. \A T \in SUBSET S : /\ IsFiniteSet(T) /\ Cardinality(T) \in Nat
                          /\ Cardinality(T) <= Cardinality(S)
  BY FS_Subset, FS_CardinalityType
<1>2. Lacks = {}
  <2>. SUFFICES ASSUME Lacks # {} PROVE FALSE
    OBVIOUS
  <2>1. PICK n \in Lacks : \A l \in Lacks : n <= l
    <3>1. Lacks \in SUBSET Nat
      OBVIOUS
    <3>. HIDE DEF Lacks
    <3>. QED
      BY <3>1, LeastExists
  <2>2. ASSUME NEW f, n # 0 => IsSetSum(f, UpTo(n - 1))
        PROVE  FALSE
    <3>. DEFINE g == [T \in UpTo(n) |->
                        IF T = {} THEN 0
                        ELSE NextOf(T).remainingQuantity + f[T \ {NextOf(T)}]]
    <3>1. ASSUME NEW T \in UpTo(n), T # {}
          PROVE  n # 0 /\ T \ {NextOf(T)} \in UpTo(n - 1)
      <4>1. NextOf(T) \in T
        BY <3>1 DEF NextOf
      <4>2. Cardinality(T \ {NextOf(T)}) = Cardinality(T) - 1
        BY <1>1, <4>1, FS_RemoveElement
      <4>. QED
        BY <1>1, <4>1, <4>2
    <3>2. ASSUME NEW T \in UpTo(n - 1), n # 0
          PROVE  g[T] = f[T]
      <4>1. T \in UpTo(n)
        BY <1>1, <3>2
      <4>2. f[T] = IF T = {} THEN 0
                   ELSE NextOf(T).remainingQuantity + f[T \ {NextOf(T)}]
        BY <2>2, <3>2 DEF IsSetSum
      <4>. QED
        BY <4>1, <4>2
    <3>3. \A T \in UpTo(n) : g[T] = IF T = {} THEN 0
                                    ELSE NextOf(T).remainingQuantity + g[T \ {NextOf(T)}]
      BY <3>1, <3>2
    <3>4. g = [T \in UpTo(n) |-> g[T]]
      OBVIOUS
    <3>5. IsSetSum(g, UpTo(n))
      <4>. HIDE DEF g, UpTo
      <4>. QED
        BY <3>3, <3>4 DEF IsSetSum
    <3>. QED
      BY <2>1, <3>5
  <2>3. CASE n = 0
    BY <2>2, <2>3
  <2>4. CASE n # 0
    <3>1. n - 1 \in Nat /\ n - 1 \notin Lacks
      <4>1. Lacks \in SUBSET Nat
        OBVIOUS
      <4>. HIDE DEF Lacks
      <4>. QED
        BY <2>1, <2>4, <4>1
    <3>. QED
      BY <2>2, <2>4, <3>1
  <2>. QED
    BY <2>3, <2>4
<1>3. UpTo(Cardinality(S)) = SUBSET S /\ Cardinality(S) \in Nat
  BY <1>1
<1>. QED
  BY <1>2, <1>3

\* Any member may be taken first.
AnyFirst(f, S) ==
    /\ f[{}] = 0
    /\ \A T \in SUBSET S : /\ f[T] \in Int
                          /\ \A o \in T : f[T] = o.remainingQuantity + f[T \ {o}]

LEMMA SetSumTakes ==
  ASSUME NEW S, IsFiniteSet(S), \A o \in S : o.remainingQuantity \in Int,
         NEW f, IsSetSum(f, SUBSET S)
  PROVE  AnyFirst(f, S)
<1>. DEFINE OK(T) == /\ f[T] \in Int
                     /\ \A o \in T : f[T] = o.remainingQuantity + f[T \ {o}]
            Flawed == {T \in SUBSET S : ~OK(T)}
<1>1. \A T \in SUBSET S :
          f[T] = IF T = {} THEN 0 ELSE NextOf(T).remainingQuantity + f[T \ {NextOf(T)}]
  BY DEF IsSetSum
<1>2. Flawed = {}
  <2>. SUFFICES ASSUME Flawed # {} PROVE FALSE
    OBVIOUS
  <2>1. PICK T \in Flawed : \A U \in Flawed : Cardinality(T) <= Cardinality(U)
    <3>1. Flawed \in SUBSET (SUBSET S)
      OBVIOUS
    <3>. HIDE DEF Flawed
    <3>. QED
      BY <3>1, SmallestExists
  <2>2. T \in SUBSET S /\ ~OK(T)
    BY <2>1
  <2>3. ASSUME NEW U \in SUBSET T, U # T PROVE OK(U)
    <3>1. IsFiniteSet(T) /\ U \in SUBSET S
      BY <2>2, FS_Subset
    <3>2. Cardinality(T) \in Nat /\ Cardinality(U) \in Nat
      BY <3>1, FS_Subset, FS_CardinalityType
    <3>3. Cardinality(U) <= Cardinality(T) /\ Cardinality(U) # Cardinality(T)
      BY <2>3, <3>1, FS_Subset
    <3>4. ~(Cardinality(T) <= Cardinality(U))
      BY <3>2, <3>3
    <3>5. U \notin Flawed
      <4>. HIDE DEF Flawed
      <4>. QED
        BY <2>1, <3>4
    <3>. HIDE DEF OK
    <3>. QED
      BY <3>1, <3>5
  <2>4. CASE T = {}
    <3>1. f[T] = 0
      BY <1>1, <2>2, <2>4
    <3>. QED
      BY <2>2, <2>4, <3>1
  <2>5. CASE T # {}
    <3>. DEFINE x == NextOf(T)
    <3>1. x \in T /\ f[T] = x.remainingQuantity + f[T \ {x}]
      BY <1>1, <2>2, <2>5 DEF NextOf
    <3>. HIDE DEF x
    <3>2. f[T \ {x}] \in Int /\ x.remainingQuantity \in Int
      BY <2>2, <2>3, <3>1
    <3>3. ASSUME NEW o \in T, o # x
          PROVE  f[T] = o.remainingQuantity + f[T \ {o}]
      <4>. DEFINE U == T \ {x, o}
      <4>1. (T \ {x}) \ {o} = U /\ (T \ {o}) \ {x} = U /\ o \in T \ {x} /\ x \in T \ {o}
        BY <3>1, <3>3
      <4>2. OK(T \ {x}) /\ OK(T \ {o}) /\ OK(U)
        BY <2>3, <3>1
      <4>3. /\ f[T \ {x}] = o.remainingQuantity + f[U]
            /\ f[T \ {o}] = x.remainingQuantity + f[U]
            /\ f[U] \in Int
        BY <4>1, <4>2
      <4>4. o.remainingQuantity \in Int /\ x.remainingQuantity \in Int
        BY <2>2, <3>1
      <4>. HIDE DEF U
      <4>. QED
        BY <3>1, <4>3, <4>4
    <3>4. f[T] \in Int
      BY <3>1, <3>2
    <3>5. \A o \in T : f[T] = o.remainingQuantity + f[T \ {o}]
      BY <3>1, <3>3
    <3>. QED
      BY <2>2, <3>4, <3>5
  <2>. QED
    BY <2>4, <2>5
<1>3. f[{}] = 0
  BY <1>1
<1>. QED
  BY <1>2, <1>3 DEF AnyFirst

LEMMA SumSetIs ==
  ASSUME NEW S, IsFiniteSet(S)
  PROVE  \E f : /\ IsSetSum(f, SUBSET S)
                /\ MapThenSumSet(LAMBDA o : o.remainingQuantity, S) = f[S]
<1>. DEFINE f == CHOOSE f : IsSetSum(f, SUBSET S)
<1>1. IsSetSum(f, SUBSET S)
  BY SetSumExists
<1>2. MapThenSumSet(LAMBDA o : o.remainingQuantity, S) = f[S]
  BY DEF MapThenSumSet, MapThenFoldSet, IsSetSum, NextOf
<1>. QED
  BY <1>1, <1>2

LEMMA LevelQuantityIs ==
  ASSUME NEW list \in Seq(Order), \A i, j \in DOMAIN list : list[i] = list[j] => i = j
  PROVE  LevelQuantity(list) = MapThenSumSet(LAMBDA o : o.remainingQuantity, ToSet(list))
<1>. DEFINE ns == [i \in DOMAIN list |-> list[i].remainingQuantity]
            First(n) == {list[i] : i \in 1 .. n}
<1>1. /\ Len(list) \in Nat /\ DOMAIN list = 1 .. Len(list)
      /\ \A i \in 1 .. Len(list) : list[i].remainingQuantity \in Int
  <2>1. \A i \in 1 .. Len(list) : list[i] \in Order
    OBVIOUS
  <2>2. \A o \in Order : o.remainingQuantity \in Int
    BY DEF Order, Quantity
  <2>. QED
    BY <2>1, <2>2
<1>2. Len(ns) = Len(list) /\ \A i \in 1 .. Len(list) : ns[i] = list[i].remainingQuantity
  BY <1>1
<1>. HIDE DEF ns
<1>3. ToSet(list) = First(Len(list)) /\ First(0) = {}
  BY <1>1 DEF ToSet
<1>4. IsFiniteSet(ToSet(list))
  <2>1. IsFiniteSet(1 .. Len(list))
    BY <1>1, FS_Interval
  <2>2. list \in Surjection(1 .. Len(list), ToSet(list))
    BY <1>1 DEF Surjection, ToSet
  <2>. QED
    BY <2>1, <2>2, FS_Surjection
<1>5. PICK f : /\ IsSetSum(f, SUBSET ToSet(list))
               /\ MapThenSumSet(LAMBDA o : o.remainingQuantity, ToSet(list)) = f[ToSet(list)]
  BY <1>4, SumSetIs
<1>6. PICK g : IsSum(g, Len(list), ns) /\ LevelQuantity(list) = g[Len(list)]
  BY <1>1, <1>2, TotalIs DEF LevelQuantity, ns
<1>7. AnyFirst(f, ToSet(list))
  <2>1. IsSetSum(f, SUBSET ToSet(list))
    BY <1>5, Zenon
  <2>2. \A o \in ToSet(list) : o.remainingQuantity \in Int
    BY <1>1 DEF ToSet
  <2>. QED
    BY <1>4, <2>1, <2>2, SetSumTakes
<1>. DEFINE Differ == {n \in 0 .. Len(list) : g[n] # f[First(n)]}
<1>8. Differ = {}
  <2>. SUFFICES ASSUME Differ # {} PROVE FALSE
    OBVIOUS
  <2>1. PICK n \in Differ : \A l \in Differ : n <= l
    <3>1. Differ \in SUBSET Nat
      OBVIOUS
    <3>. HIDE DEF Differ
    <3>. QED
      BY <3>1, LeastExists
  <2>2. n # 0
    <3>1. g[0] = 0
      BY <1>1, <1>6, SumFacts
    <3>2. f[First(0)] = 0
      <4>. HIDE DEF First
      <4>. QED
        BY <1>3, <1>7 DEF AnyFirst
    <3>. HIDE DEF First
    <3>. QED
      BY <2>1, <3>1, <3>2
  <2>3. n \in 1 .. Len(list) /\ n - 1 \in 0 .. Len(list) /\ n - 1 \notin Differ
    <3>1. n \in 0 .. Len(list) /\ Differ \subseteq Nat
      BY <2>1
    <3>. HIDE DEF Differ
    <3>. QED
      BY <1>1, <2>1, <2>2, <3>1
  <2>4. g[n] = g[n - 1] + list[n].remainingQuantity /\ g[n - 1] = f[First(n - 1)]
    BY <1>1, <1>2, <1>6, <2>3, SumFacts
  <2>5. First(n) \ {list[n]} = First(n - 1)
    <3>1. \A i \in 1 .. n - 1 : list[i] # list[n]
      BY <1>1, <2>3
    <3>2. 1 .. n = (1 .. n - 1) \cup {n}
      BY <2>3
    <3>. QED
      BY <3>1, <3>2
  <2>6. First(n) \in SUBSET ToSet(list) /\ list[n] \in First(n) /\ First(n - 1) \in SUBSET ToSet(list)
    <3>1. /\ 1 .. n \subseteq DOMAIN list /\ 1 .. n - 1 \subseteq DOMAIN list /\ n \in 1 .. n
      BY <1>1, <2>3
    <3>. QED
      BY <3>1, Zenon DEF ToSet
  <2>7. f[First(n)] = list[n].remainingQuantity + f[First(n - 1)] /\ f[First(n - 1)] \in Int
    <3>. HIDE DEF First
    <3>1. \A T \in SUBSET ToSet(list) :
             f[T] \in Int /\ \A o \in T : f[T] = o.remainingQuantity + f[T \ {o}]
      BY <1>7 DEF AnyFirst
    <3>. QED
      BY <3>1, <2>5, <2>6, Zenon
  <2>8. g[n] # f[First(n)]
    BY <2>1
  <2>9. list[n].remainingQuantity \in Int
    BY <1>1, <2>3
  <2>. HIDE DEF First
  <2>. QED
    BY <2>4, <2>7, <2>8, <2>9
<1>9. g[Len(list)] = f[First(Len(list))]
  <2>. HIDE DEF First
  <2>. QED
    BY <1>1, <1>8
<1>. HIDE DEF First
<1>. QED
  BY <1>3, <1>5, <1>6, <1>9

\* The orders of a side that carry a price are those of its level.
LEMMA LevelOrders ==
  ASSUME BookInv, NEW s \in Side
  PROVE  /\ {o.price : o \in OpenOrders(s)} = DOMAIN levels[s]
         /\ \A p \in DOMAIN levels[s] :
               /\ levels[s][p] \in Seq(Order)
               /\ {o \in OpenOrders(s) : o.price = p} = ToSet(levels[s][p])
<1>0. ASSUME NEW p \in DOMAIN levels[s], NEW i \in DOMAIN levels[s][p]
      PROVE  levels[s][p][i].price = p
  <2>1. LET o == levels[s][p][i]
        IN  /\ o.side = s /\ o.price = p
            /\ o.orderId \in DOMAIN orderLocations
            /\ orderLocations[o.orderId] = [side |-> s, price |-> p]
    BY DEF BookInv, IndexConsistent, IndexComplete
  <2>. QED
    BY <2>1
<1>. DEFINE D == DOMAIN levels[s]
            At(p) == ToSet(levels[s][p])
            All == OpenOrders(s)
<1>1. ASSUME NEW p \in D
      PROVE  /\ levels[s][p] \in Seq(Order)
             /\ \E o \in At(p) : TRUE
             /\ \A o \in At(p) : o.price = p
  <2>. DEFINE list == levels[s][p]
  <2>1. list \in Seq(Order) /\ list # <<>>
    BY DEF BookInv, BookTypeOK, LevelsTypeOK, NoEmptyLevel
  <2>2. \A i \in DOMAIN list : list[i].price = p
    BY <1>0
  <2>3. At(p) = {list[i] : i \in DOMAIN list}
    BY DEF ToSet
  <2>. HIDE DEF At, list
  <2>4. 1 \in DOMAIN list
    BY <2>1
  <2>5. (\E o \in At(p) : TRUE) /\ \A o \in At(p) : o.price = p
    <3>1. At(p) # {} /\ \A o \in At(p) : \E i \in DOMAIN list : o = list[i]
      BY <2>3, <2>4
    <3>. QED
      BY <3>1, <2>2
  <2>6. levels[s][p] \in Seq(Order)
    BY <2>1 DEF list
  <2>. QED
    BY <2>5, <2>6
<1>2. All = UNION {At(p) : p \in D}
  BY DEF OpenOrders
<1>. HIDE DEF D, At, All
<1>3. {o.price : o \in All} = D
  BY <1>1, <1>2
<1>4. ASSUME NEW p \in D
      PROVE  {o \in All : o.price = p} = At(p)
  BY <1>1, <1>2
<1>. QED
  BY <1>1, <1>3, <1>4 DEF D, At, All

LEMMA DepthSound == BookInv => DepthIsAggregate
<1>. SUFFICES ASSUME BookInv, NEW s \in Side, NEW n \in 0 .. 3
     PROVE
        LET d == Depth(s, n)
            shown == {d[i].price : i \in DOMAIN d}
            orders == OpenOrders(s)
        IN  /\ Len(d) = Min({n, Cardinality({o.price : o \in orders})})
            /\ \A i, j \in DOMAIN d : i < j => Better(s, d[i].price, d[j].price)
            /\ \A o \in orders :
                  o.price \notin shown =>
                      Len(d) = n /\ \A p \in shown : Better(s, p, o.price)
            /\ \A i \in DOMAIN d :
                  d[i].quantity =
                      MapThenSumSet(LAMBDA o : o.remainingQuantity,
                                    {o \in orders : o.price = d[i].price})
  BY DEF DepthIsAggregate
<1>. DEFINE D == DOMAIN levels[s]
            k == Cardinality(D)
            m == IF n <= k THEN n ELSE k
            d == Depth(s, n)
<1>1. BookTypeOK
  BY DEF BookInv
<1>2. IsFiniteSet(D) /\ k \in Nat
  <2>1. CASE D = {}
    BY <2>1, FS_EmptySet
  <2>2. CASE D # {}
    BY <1>1, <2>2, RankOfPrice
  <2>. QED
    BY <2>1, <2>2
<1>3. Min({n, k}) = m
  BY <1>2 DEF Min
<1>4. /\ d = [i \in 1 .. m |-> [price |-> NthPrice(s, i),
                               quantity |-> LevelQuantity(levels[s][NthPrice(s, i)])]]
      /\ m \in Nat /\ m <= k /\ m <= n
      /\ m < n => m = k
  BY <1>2, <1>3 DEF Depth
<1>. HIDE DEF d
<1>5. DOMAIN d = 1 .. m /\ Len(d) = m
  BY <1>4
<1>6. \A i \in 1 .. m : /\ d[i].price \in D
                        /\ Cardinality(BetterThan(s, d[i].price)) = i - 1
                        /\ d[i].quantity = LevelQuantity(levels[s][d[i].price])
  BY <1>1, <1>2, <1>4, EveryRankTaken
<1>. HIDE DEF m
<1>7. \A p, q \in D : /\ Cardinality(BetterThan(s, p)) \in 0 .. k - 1
                      /\ Cardinality(BetterThan(s, p)) < Cardinality(BetterThan(s, q)) => Better(s, p, q)
                      /\ Cardinality(BetterThan(s, p)) = Cardinality(BetterThan(s, q)) => p = q
  <2>1. \A p, q \in D : p # q => Better(s, p, q) \/ Better(s, q, p)
    BY <1>1, BookAssumption DEF Better, BookTypeOK, LevelsTypeOK, Price
  <2>2. \A p, q \in D : /\ Cardinality(BetterThan(s, p)) \in 0 .. k - 1
                        /\ Better(s, p, q) => Cardinality(BetterThan(s, p)) < Cardinality(BetterThan(s, q))
    BY <1>1, RankOfPrice
  <2>. HIDE DEF D, k
  <2>. QED
    BY <1>2, <2>1, <2>2
<1>8. \A i, j \in DOMAIN d : i < j => Better(s, d[i].price, d[j].price)
  <2>. SUFFICES ASSUME NEW i \in 1 .. m, NEW j \in 1 .. m, i < j
                PROVE  Better(s, d[i].price, d[j].price)
    BY <1>5
  <2>1. i - 1 < j - 1
    BY <1>4
  <2>. HIDE DEF D, k
  <2>. QED
    BY <1>6, <1>7, <2>1
<1>9. ASSUME NEW p \in D, p \notin {d[i].price : i \in DOMAIN d}
      PROVE  Len(d) = n /\ \A q \in {d[i].price : i \in DOMAIN d} : Better(s, q, p)
  <2>. DEFINE r == Cardinality(BetterThan(s, p))
  <2>1. r \in 0 .. k - 1
    BY <1>7
  <2>. HIDE DEF r, D, k
  <2>2. ~(r < m)
    <3>. SUFFICES ASSUME r < m PROVE FALSE
      OBVIOUS
    <3>1. r + 1 \in 1 .. m /\ (r + 1) - 1 = r
      BY <1>2, <1>4, <2>1
    <3>2. d[r + 1].price \in D /\ Cardinality(BetterThan(s, d[r + 1].price)) = r
      BY <1>6, <3>1
    <3>3. d[r + 1].price = p
      BY <1>7, <3>2 DEF r
    <3>. QED
      BY <1>5, <1>9, <3>1, <3>3
  <2>3. m = n
    BY <1>2, <1>4, <2>1, <2>2
  <2>4. ASSUME NEW i \in 1 .. m
        PROVE  Better(s, d[i].price, p)
    <3>1. i - 1 < r
      BY <1>2, <1>4, <2>1, <2>2
    <3>. QED
      BY <1>6, <1>7, <3>1 DEF r
  <2>. QED
    BY <1>5, <2>3, <2>4
<1>10. ASSUME NEW i \in DOMAIN d
       PROVE  d[i].quantity = MapThenSumSet(LAMBDA o : o.remainingQuantity,
                                            {o \in OpenOrders(s) : o.price = d[i].price})
  <2>. DEFINE p == d[i].price
  <2>1. p \in D /\ d[i].quantity = LevelQuantity(levels[s][p])
    BY <1>5, <1>6
  <2>. HIDE DEF p
  <2>2. levels[s][p] \in Seq(Order) /\ {o \in OpenOrders(s) : o.price = p} = ToSet(levels[s][p])
    BY <2>1, LevelOrders
  <2>3. \A j, l \in DOMAIN levels[s][p] : levels[s][p][j] = levels[s][p][l] => j = l
    BY <2>1 DEF BookInv, IndexConsistent, NodesDistinct
  <2>4. LevelQuantity(levels[s][p]) = MapThenSumSet(LAMBDA o : o.remainingQuantity, ToSet(levels[s][p]))
    BY <2>2, <2>3, LevelQuantityIs
  <2>. QED
    BY <2>1, <2>2, <2>4 DEF p
<1>11. {o.price : o \in OpenOrders(s)} = D
  BY LevelOrders
<1>. HIDE DEF D, k
<1>12. \A o \in OpenOrders(s) : o.price \in D
  BY <1>11
<1>. QED
  BY <1>3, <1>5, <1>8, <1>9, <1>10, <1>11, <1>12 DEF d, k

\* DepthIsAggregate: a snapshot lists the best n prices of a side, best first,
\* each with the whole quantity that rests there, for any book.
THEOREM DepthIsExact == BookSpec => []DepthIsAggregate
<1>. QED
  BY BookInitInv, BookStepInv, DepthSound, PTL DEF BookSpec
=============================================================================
