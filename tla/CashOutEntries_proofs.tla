----------------------- MODULE CashOutEntries_proofs -----------------------
(***************************************************************************)
(* What becomes of the rows of a cash-out workbook, for every set of       *)
(* requests, companies, files and invoices and every length of a journal.  *)
(*                                                                         *)
(* First the operators the model is made of: picking and ordering,         *)
(* flattening, folding.  Then the lines each builder makes of an entry, the*)
(* grouping by id, the numbering of journals and the rewriting of a        *)
(* journal.  Four invariants rest on these: SettleInv (what is stored and  *)
(* posted names the company of its request and settles what its vendors    *)
(* have there), KindInv (a journal holds whole entries of one kind),       *)
(* BalanceInv (what does not balance gets an error) and MoneyInv (the lines*)
(* of an entry put on every account what its rows put there).              *)
(***************************************************************************)
EXTENDS CashOutEntries, FiniteSetTheorems, SequenceTheorems, WellFoundedInduction, TLAPS

LEMMA LeastElement ==
  ASSUME NEW I, I \subseteq Nat, I # {}
  PROVE  \E x \in I : \A y \in I : x <= y
<1> DEFINE Less == {ss \in Nat \X Nat : ss[1] < ss[2]}
<1>1. IsWellFoundedOn(Less, Nat)
  BY NatLessThanWellFounded, Zenon DEF OpToRel
<1> HIDE DEF Less
<1>2. PICK x \in I : \A y \in I : <<y, x>> \notin Less
  BY <1>1, WFMin, Zenon
<1>3. ASSUME NEW y \in I PROVE x <= y
  <2>1. x \in Nat /\ y \in Nat /\ <<y, x>> \notin Less
    BY <1>2
  <2>2. QED
    BY <2>1 DEF Less
<1>4. QED
  BY <1>3

(* A set of numbers that contains the first and with each the next.        *)
LEMMA Induction ==
  ASSUME NEW n \in Nat, NEW P, 0 \in P, \A k \in 0..n : k \in P /\ k < n => k + 1 \in P
  PROVE  0..n \subseteq P
<1> SUFFICES ASSUME 0..n \ P # {} PROVE FALSE
  OBVIOUS
<1>1. PICK x \in 0..n \ P : \A y \in 0..n \ P : x <= y
  <2>1. 0..n \ P \subseteq Nat
    OBVIOUS
  <2>2. QED
    BY <2>1, LeastElement
<1>2. x \in Nat /\ x # 0 /\ x <= n
  OBVIOUS
<1>3. x - 1 \in 0..n /\ x - 1 < n /\ x - 1 \in P
  BY <1>1, <1>2
<1>4. x - 1 + 1 \in P
  BY <1>3
<1>5. QED
  BY <1>2, <1>4

-----------------------------------------------------------------------------
(* A finite set has one element for every number of elements before it.    *)
Orders(R, S) ==
  /\ \A x \in S : <<x, x>> \notin R
  /\ \A x, y \in S : x # y => <<x, y>> \in R \/ <<y, x>> \in R
  /\ \A x, y, z \in S : <<x, y>> \in R /\ <<y, z>> \in R => <<x, z>> \in R
Before(R, S, x) == {y \in S : <<y, x>> \in R}
Rank(R, S, x) == Cardinality(Before(R, S, x))

LEMMA RankGrows ==
  ASSUME NEW S, IsFiniteSet(S), NEW R, Orders(R, S), NEW x \in S
  PROVE  /\ Rank(R, S, x) \in 0..(Cardinality(S) - 1)
         /\ \A y \in S : <<x, y>> \in R => Rank(R, S, x) < Rank(R, S, y)
<1>1. IsFiniteSet(Before(R, S, x)) /\ Rank(R, S, x) \in Nat /\ Cardinality(S) \in Nat
  <2>1. Before(R, S, x) \subseteq S
    BY DEF Before
  <2>2. QED
    BY <2>1, FS_Subset, FS_CardinalityType DEF Rank
<1>2. Rank(R, S, x) < Cardinality(S)
  <2>1. Before(R, S, x) \subseteq S /\ x \notin Before(R, S, x)
    BY DEF Before, Orders
  <2>2. QED
    BY <2>1, <1>1, FS_Subset DEF Rank
<1>3. ASSUME NEW y \in S, <<x, y>> \in R PROVE Rank(R, S, x) < Rank(R, S, y)
  <2>1. Before(R, S, y) \subseteq S
    BY DEF Before
  <2>2. IsFiniteSet(Before(R, S, y)) /\ Rank(R, S, y) \in Nat
    BY <2>1, FS_Subset, FS_CardinalityType DEF Rank
  <2>3. Before(R, S, x) \subseteq Before(R, S, y)
    BY <1>3 DEF Before, Orders
  <2>4. x \in Before(R, S, y) /\ x \notin Before(R, S, x)
    BY <1>3 DEF Before, Orders
  <2>5. QED
    BY <2>2, <2>3, <2>4, <1>1, FS_Subset DEF Rank
<1>4. QED
  BY <1>1, <1>2, <1>3

LEMMA RankOnce ==
  ASSUME NEW S, IsFiniteSet(S), NEW R, Orders(R, S), NEW x \in S, NEW y \in S,
         Rank(R, S, x) = Rank(R, S, y)
  PROVE  x = y
<1> SUFFICES ASSUME x # y PROVE FALSE
  OBVIOUS
<1>1. Cardinality(S) \in Nat
  BY FS_CardinalityType
<1>2. Rank(R, S, x) \in Int /\ Rank(R, S, y) \in Int
  BY <1>1, RankGrows
<1>3. <<x, y>> \in R \/ <<y, x>> \in R
  BY DEF Orders
<1>4. Rank(R, S, x) < Rank(R, S, y) \/ Rank(R, S, y) < Rank(R, S, x)
  BY <1>3, RankGrows
<1>5. QED
  BY <1>2, <1>4

LEMMA RankHit ==
  ASSUME NEW S, IsFiniteSet(S), NEW R, Orders(R, S), NEW k \in 0..(Cardinality(S) - 1)
  PROVE  \E x \in S : Rank(R, S, x) = k
<1> DEFINE n == Cardinality(S)
           T == {Rank(R, S, x) : x \in S}
           f == [x \in S |-> Rank(R, S, x)]
<1>1. n \in Nat
  BY FS_CardinalityType
<1>2. T \subseteq 0..(n - 1)
  BY RankGrows
<1>3. \A x, y \in S : Rank(R, S, x) = Rank(R, S, y) => x = y
  BY RankOnce
<1>4. f \in Bijection(S, T)
  BY <1>3 DEF Bijection, Injection, Surjection, IsInjective
<1>5. IsFiniteSet(T) /\ Cardinality(T) = n
  BY <1>4, FS_Bijection DEF ExistsBijection
<1>6. IsFiniteSet(0..(n - 1)) /\ Cardinality(0..(n - 1)) = n
  BY <1>1, FS_Interval
<1>7. T = 0..(n - 1)
  BY <1>2, <1>5, <1>6, FS_Subset
<1>8. QED
  BY <1>7

(* What InOrder(S, before) is, for the pairs R of the comparison.          *)
Ordered(R, S) ==
  [n \in 1..Cardinality(S) |-> CHOOSE x \in S : Rank(R, S, x) = n - 1]

LEMMA OrderedIs ==
  ASSUME NEW S, IsFiniteSet(S), NEW R, Orders(R, S)
  PROVE  /\ Cardinality(S) \in Nat
         /\ Ordered(R, S) \in [1..Cardinality(S) -> S]
         /\ \A x \in S : \E n \in 1..Cardinality(S) : Ordered(R, S)[n] = x
         /\ \A n, m \in 1..Cardinality(S) :
              n < m => <<Ordered(R, S)[n], Ordered(R, S)[m]>> \in R
<1>1. Cardinality(S) \in Nat
  BY FS_CardinalityType
<1>2. ASSUME NEW n \in 1..Cardinality(S)
      PROVE  Ordered(R, S)[n] \in S /\ Rank(R, S, Ordered(R, S)[n]) = n - 1
  <2>1. n - 1 \in 0..(Cardinality(S) - 1)
    BY <1>1
  <2>2. \E x \in S : Rank(R, S, x) = n - 1
    BY <2>1, RankHit
  <2>3. Ordered(R, S)[n] = CHOOSE x \in S : Rank(R, S, x) = n - 1
    BY DEF Ordered
  <2>4. QED
    BY <2>2, <2>3
<1>3. ASSUME NEW x \in S PROVE \E n \in 1..Cardinality(S) : Ordered(R, S)[n] = x
  <2>1. Rank(R, S, x) \in 0..(Cardinality(S) - 1)
    BY RankGrows
  <2>2. PICK n \in 1..Cardinality(S) : n - 1 = Rank(R, S, x)
    <3> DEFINE r == Rank(R, S, x)
    <3> HIDE DEF r
    <3>1. r \in 0..(Cardinality(S) - 1)
      BY <2>1 DEF r
    <3>2. r + 1 \in 1..Cardinality(S) /\ (r + 1) - 1 = r
      BY <1>1, <3>1
    <3>3. QED
      BY <3>2 DEF r
  <2>3. Ordered(R, S)[n] \in S /\ Rank(R, S, Ordered(R, S)[n]) = Rank(R, S, x)
    BY <1>2, <2>2
  <2>4. Ordered(R, S)[n] = x
    BY <2>3, RankOnce
  <2>5. QED
    BY <2>4
<1>4. ASSUME NEW n \in 1..Cardinality(S), NEW m \in 1..Cardinality(S), n < m
      PROVE  <<Ordered(R, S)[n], Ordered(R, S)[m]>> \in R
  <2> DEFINE a == Ordered(R, S)[n]
             b == Ordered(R, S)[m]
  <2>1. a \in S /\ b \in S /\ Rank(R, S, a) = n - 1 /\ Rank(R, S, b) = m - 1
    BY <1>2
  <2>2. a # b
    BY <2>1, <1>1, <1>4
  <2>3. CASE <<b, a>> \in R
    <3>1. Rank(R, S, b) < Rank(R, S, a)
      BY <2>1, <2>3, RankGrows
    <3>2. QED
      BY <3>1, <2>1, <1>1, <1>4
  <2>4. QED
    BY <2>1, <2>2, <2>3 DEF Orders
<1>5. Ordered(R, S) \in [1..Cardinality(S) -> S]
  BY <1>2 DEF Ordered
<1>6. QED
  BY <1>1, <1>3, <1>4, <1>5

-----------------------------------------------------------------------------
(* Picked, and with it Where: the elements at some positions, each once,   *)
(* in their order.                                                         *)
Smaller == {p \in Int \X Int : p[1] < p[2]}
Nth(at) == Ordered(Smaller, at)

InTheirOrder(s, at) ==
  /\ Cardinality(at) \in Nat
  /\ Nth(at) \in [1..Cardinality(at) -> at]
  /\ \A i \in at : \E n \in 1..Cardinality(at) : Nth(at)[n] = i
  /\ \A n, m \in 1..Cardinality(at) : n < m => Nth(at)[n] < Nth(at)[m]
  /\ Picked(s, at) = [n \in 1..Cardinality(at) |-> s[Nth(at)[n]]]

LEMMA PickedIs ==
  ASSUME NEW s, NEW at, at \subseteq 1..Len(s), Len(s) \in Nat
  PROVE  InTheirOrder(s, at)
<1>1. IsFiniteSet(at)
  <2>1. IsFiniteSet(1..Len(s))
    BY FS_Interval
  <2>2. QED
    BY <2>1, FS_Subset
<1>2. at \subseteq Int
  OBVIOUS
<1>3. Orders(Smaller, at)
  BY <1>2 DEF Orders, Smaller
<1>4. /\ Cardinality(at) \in Nat
      /\ Nth(at) \in [1..Cardinality(at) -> at]
      /\ \A i \in at : \E n \in 1..Cardinality(at) : Nth(at)[n] = i
      /\ \A n, m \in 1..Cardinality(at) : n < m => <<Nth(at)[n], Nth(at)[m]>> \in Smaller
  BY <1>1, <1>3, OrderedIs DEF Nth
<1>6. Picked(s, at) = [n \in DOMAIN Nth(at) |-> s[Nth(at)[n]]]
  <2>1. \A x \in at : {y \in at : y < x} = Before(Smaller, at, x)
    BY <1>2 DEF Before, Smaller
  <2>2. \A x \in at : Cardinality({y \in at : y < x}) = Rank(Smaller, at, x)
    BY <2>1 DEF Rank
  <2> DEFINE A(n) == CHOOSE x \in at : Cardinality({y \in at : y < x}) = n - 1
             B(n) == CHOOSE x \in at : Rank(Smaller, at, x) = n - 1
             order == [n \in 1..Cardinality(at) |-> A(n)]
  <2>3. \A n : A(n) = B(n)
    BY <2>2
  <2>4. Picked(s, at) = [n \in DOMAIN order |-> s[order[n]]]
    BY DEF Picked, InOrder
  <2>5. Nth(at) = [n \in 1..Cardinality(at) |-> B(n)]
    BY DEF Nth, Ordered
  <2> HIDE DEF A, B
  <2>6. order = Nth(at)
    BY <2>3, <2>5
  <2>7. QED
    BY <2>4, <2>6
<1>7. \A n, m \in 1..Cardinality(at) : n < m => Nth(at)[n] < Nth(at)[m]
  BY <1>4 DEF Smaller
<1>8. QED
  BY <1>4, <1>6, <1>7 DEF InTheirOrder

-----------------------------------------------------------------------------
(* Sequences, of whatever: what they are made of.                          *)
IsSeq(s) == s \in Seq(ToSet(s))

LEMMA SeqIs ==
  ASSUME NEW s, IsSeq(s)
  PROVE  Len(s) \in Nat /\ DOMAIN s = 1..Len(s) /\ s = [i \in 1..Len(s) |-> s[i]]
BY LenProperties, ElementOfSeq DEF IsSeq

LEMMA SeqMade ==
  ASSUME NEW n \in Nat, NEW s, DOMAIN s = 1..n, s = [i \in 1..n |-> s[i]]
  PROVE  IsSeq(s) /\ Len(s) = n
<1>1. \A i \in 1..n : s[i] \in ToSet(s)
  BY DEF ToSet
<1>2. s \in Seq(ToSet(s))
  BY <1>1, IsASeq
<1>3. QED
  BY <1>2, LenProperties DEF IsSeq

LEMMA SeqTyped ==
  ASSUME NEW S, NEW s \in Seq(S)
  PROVE  IsSeq(s) /\ ToSet(s) \subseteq S
<1>1. Len(s) \in Nat /\ DOMAIN s = 1..Len(s) /\ s = [i \in 1..Len(s) |-> s[i]]
  BY LenProperties, ElementOfSeq
<1>2. \A i \in 1..Len(s) : s[i] \in S
  BY ElementOfSeq
<1>3. QED
  BY <1>1, <1>2, SeqMade DEF ToSet

LEMMA SeqWithin ==
  ASSUME NEW S, NEW s, IsSeq(s), ToSet(s) \subseteq S
  PROVE  s \in Seq(S)
BY SeqMonotonic DEF IsSeq

LEMMA EmptyIs ==
  /\ IsSeq(<<>>) /\ ToSet(<<>>) = {} /\ Len(<<>>) = 0
  /\ \A s : IsSeq(s) => (s = <<>> <=> ToSet(s) = {}) /\ (s = <<>> <=> Len(s) = 0)
<1>1. <<>> \in Seq({}) /\ Len(<<>>) = 0 /\ DOMAIN <<>> = {}
  BY EmptySeq
<1>2. ToSet(<<>>) = {}
  BY <1>1 DEF ToSet
<1>3. IsSeq(<<>>)
  BY <1>1, <1>2 DEF IsSeq
<1>4. ASSUME NEW s, IsSeq(s) PROVE (s = <<>> <=> ToSet(s) = {}) /\ (s = <<>> <=> Len(s) = 0)
  <2>1. Len(s) \in Nat /\ DOMAIN s = 1..Len(s)
    BY <1>4, SeqIs
  <2>2. Len(s) = 0 => s = <<>>
    BY <1>4, <2>1, EmptySeq DEF IsSeq
  <2>3. ToSet(s) = {} => Len(s) = 0
    <3> SUFFICES ASSUME Len(s) # 0 PROVE s[1] \in ToSet(s)
      OBVIOUS
    <3> QED
      BY <2>1 DEF ToSet
  <2>4. QED
    BY <2>2, <2>3, <1>1, <1>2
<1>5. QED
  BY <1>1, <1>2, <1>3, <1>4

LEMMA ConcatIs ==
  ASSUME NEW s, NEW t, IsSeq(s), IsSeq(t)
  PROVE  /\ IsSeq(s \o t) /\ ToSet(s \o t) = ToSet(s) \cup ToSet(t)
         /\ Len(s \o t) = Len(s) + Len(t)
<1> DEFINE S == ToSet(s) \cup ToSet(t)
<1>1. s \in Seq(S) /\ t \in Seq(S)
  BY SeqWithin
<1>2. /\ s \o t \in Seq(S) /\ Len(s \o t) = Len(s) + Len(t)
      /\ \A i \in 1..Len(s) + Len(t) :
           (s \o t)[i] = IF i <= Len(s) THEN s[i] ELSE t[i - Len(s)]
  BY <1>1, ConcatProperties
<1>3. /\ Len(s) \in Nat /\ Len(t) \in Nat
      /\ DOMAIN s = 1..Len(s) /\ DOMAIN t = 1..Len(t) /\ DOMAIN (s \o t) = 1..Len(s) + Len(t)
  BY <1>1, <1>2, LenProperties
<1>4. IsSeq(s \o t) /\ ToSet(s \o t) \subseteq S
  BY <1>2, SeqTyped
<1>5. ASSUME NEW i \in 1..Len(s) PROVE s[i] \in ToSet(s \o t)
  <2>1. i \in 1..Len(s) + Len(t) /\ (s \o t)[i] = s[i]
    BY <1>2, <1>3
  <2>2. QED
    BY <2>1, <1>3 DEF ToSet
<1>6. ASSUME NEW i \in 1..Len(t) PROVE t[i] \in ToSet(s \o t)
  <2>1. Len(s) + i \in 1..Len(s) + Len(t) /\ (s \o t)[Len(s) + i] = t[i]
    BY <1>2, <1>3
  <2>2. QED
    BY <2>1, <1>3 DEF ToSet
<1>7. QED
  BY <1>2, <1>3, <1>4, <1>5, <1>6 DEF ToSet

LEMMA AppendIs ==
  ASSUME NEW s, NEW e, IsSeq(s)
  PROVE  /\ IsSeq(Append(s, e)) /\ ToSet(Append(s, e)) = ToSet(s) \cup {e}
         /\ Len(Append(s, e)) = Len(s) + 1
<1> DEFINE S == ToSet(s) \cup {e}
<1>1. s \in Seq(S)
  BY SeqWithin
<1>2. /\ Append(s, e) \in Seq(S) /\ Len(Append(s, e)) = Len(s) + 1
      /\ \A i \in 1..Len(s) : Append(s, e)[i] = s[i]
      /\ Append(s, e)[Len(s) + 1] = e
  BY <1>1, AppendProperties
<1>3. Len(s) \in Nat /\ DOMAIN s = 1..Len(s) /\ DOMAIN Append(s, e) = 1..Len(s) + 1
  BY <1>1, <1>2, LenProperties
<1>4. IsSeq(Append(s, e)) /\ ToSet(Append(s, e)) \subseteq S
  BY <1>2, SeqTyped
<1>5. S \subseteq ToSet(Append(s, e))
  <2>1. \A i \in 1..Len(s) : i \in 1..Len(s) + 1
    BY <1>3
  <2>2. Len(s) + 1 \in 1..Len(s) + 1
    BY <1>3
  <2>3. QED
    BY <1>2, <1>3, <2>1, <2>2 DEF ToSet
<1>6. QED
  BY <1>2, <1>4, <1>5

LEMMA PickedElements ==
  ASSUME NEW s, IsSeq(s), NEW at, at \subseteq DOMAIN s
  PROVE  /\ IsSeq(Picked(s, at)) /\ ToSet(Picked(s, at)) = {s[i] : i \in at}
         /\ Len(Picked(s, at)) = Cardinality(at)
<1>1. at \subseteq 1..Len(s) /\ Len(s) \in Nat
  BY SeqIs
<1>2. InTheirOrder(s, at)
  BY <1>1, PickedIs
<1>3. IsSeq(Picked(s, at)) /\ Len(Picked(s, at)) = Cardinality(at)
  BY <1>2, SeqMade DEF InTheirOrder
<1>4. ToSet(Picked(s, at)) = {s[i] : i \in at}
  BY <1>2 DEF ToSet, InTheirOrder
<1>5. QED
  BY <1>3, <1>4

LEMMA PickedSome ==
  ASSUME NEW s, IsSeq(s), NEW at, at \subseteq DOMAIN s
  PROVE  IsSeq(Picked(s, at)) /\ ToSet(Picked(s, at)) \subseteq ToSet(s)
<1>1. IsSeq(Picked(s, at)) /\ ToSet(Picked(s, at)) = {s[i] : i \in at}
  BY PickedElements
<1>2. QED
  BY <1>1 DEF ToSet

LEMMA FlattenMade ==
  ASSUME NEW ss, NEW n \in Nat
  PROVE  \E f : f = [i \in 1..n |-> IF i = 1 THEN ss[i] ELSE f[i - 1] \o ss[i]]
<1> DEFINE Made(k, f) == f = [i \in 1..k |-> IF i = 1 THEN ss[i] ELSE f[i - 1] \o ss[i]]
           P == {k \in 0..n : \E f : Made(k, f)}
<1>1. 0 \in P
  <2>1. Made(0, [i \in 1..0 |-> i])
    OBVIOUS
  <2> HIDE DEF Made
  <2>2. QED
    BY <2>1
<1>2. ASSUME NEW k \in 0..n, k \in P, k < n PROVE k + 1 \in P
  <2>1. PICK f : Made(k, f)
    BY <1>2
  <2> DEFINE g == [i \in 1..(k + 1) |->
                     IF i <= k THEN f[i]
                     ELSE IF i = 1 THEN ss[i] ELSE f[i - 1] \o ss[i]]
  <2>2. \A i \in 1..k : f[i] = IF i = 1 THEN ss[i] ELSE f[i - 1] \o ss[i]
    BY <2>1
  <2>3. \A i \in 1..(k + 1) : i # 1 => g[i - 1] = f[i - 1]
    OBVIOUS
  <2>4. ASSUME NEW i \in 1..(k + 1)
        PROVE  g[i] = IF i = 1 THEN ss[i] ELSE g[i - 1] \o ss[i]
    <3>1. CASE i <= k
      <4>1. i \in 1..k /\ g[i] = f[i]
        BY <3>1
      <4>2. QED
        BY <4>1, <2>2, <2>3
    <3>2. CASE ~(i <= k)
      <4>1. g[i] = IF i = 1 THEN ss[i] ELSE f[i - 1] \o ss[i]
        BY <3>2
      <4>2. QED
        BY <4>1, <2>3
    <3>3. QED
      BY <3>1, <3>2
  <2>5. Made(k + 1, g)
    <3>1. g = [i \in 1..(k + 1) |-> g[i]]
      OBVIOUS
    <3> HIDE DEF g
    <3>2. QED
      BY <3>1, <2>4
  <2>6. k + 1 \in 0..n
    BY <1>2
  <2> HIDE DEF Made, g
  <2>7. QED
    BY <2>5, <2>6
<1>3. \A k \in 0..n : k \in P /\ k < n => k + 1 \in P
  BY <1>2
<1> HIDE DEF P
<1>4. 0..n \subseteq P
  BY <1>1, <1>3, Induction
<1>5. n \in P
  BY <1>4
<1> HIDE DEF Made
<1>6. \E f : Made(n, f)
  BY <1>5 DEF P
<1>7. QED
  BY <1>6 DEF Made

LEMMA FlattenIs ==
  ASSUME NEW ss, IsSeq(ss), \A n \in DOMAIN ss : IsSeq(ss[n])
  PROVE  /\ IsSeq(FlattenSeq(ss))
         /\ ToSet(FlattenSeq(ss)) = UNION {ToSet(ss[n]) : n \in DOMAIN ss}
<1>1. Len(ss) \in Nat /\ DOMAIN ss = 1..Len(ss)
  BY SeqIs
<1>2. CASE Len(ss) = 0
  <2>1. ss = <<>> /\ FlattenSeq(ss) = ss
    BY <1>2, EmptyIs DEF FlattenSeq
  <2>2. DOMAIN ss = {}
    BY <1>1, <1>2
  <2>3. QED
    BY <2>1, <2>2, EmptyIs
<1>3. CASE Len(ss) # 0
  <2> DEFINE f == CHOOSE f : f = [i \in 1..Len(ss) |-> IF i = 1 THEN ss[i] ELSE f[i - 1] \o ss[i]]
             U(k) == UNION {ToSet(ss[n]) : n \in 1..k}
             P == {k \in 0..Len(ss) : k = 0 \/ (IsSeq(f[k]) /\ ToSet(f[k]) = U(k))}
  <2>1. FlattenSeq(ss) = f[Len(ss)]
    BY <1>3 DEF FlattenSeq
  <2>2. f = [i \in 1..Len(ss) |-> IF i = 1 THEN ss[i] ELSE f[i - 1] \o ss[i]]
    BY <1>1, FlattenMade
  <2> HIDE DEF f
  <2>7. \A i \in 1..Len(ss) : f[i] = IF i = 1 THEN ss[i] ELSE f[i - 1] \o ss[i]
    BY <2>2
  <2>3. ASSUME NEW k \in 0..Len(ss), k \in P, k < Len(ss) PROVE k + 1 \in P
    <3>1. k + 1 \in 1..Len(ss) /\ IsSeq(ss[k + 1]) /\ (k + 1) - 1 = k
      BY <1>1, <2>3
    <3>2. U(k + 1) = U(k) \cup ToSet(ss[k + 1])
      <4>1. 1..(k + 1) = 1..k \cup {k + 1}
        BY <1>1
      <4>2. QED
        BY <4>1
    <3>3. CASE k = 0
      <4>1. f[k + 1] = ss[k + 1]
        BY <3>1, <3>3, <2>7
      <4>2. U(k) = {}
        BY <3>3
      <4> HIDE DEF U
      <4>3. QED
        BY <3>1, <3>2, <4>1, <4>2
    <3>4. CASE k # 0
      <4>5. k + 1 # 1 /\ k + 1 \in 0..Len(ss)
        BY <1>1, <3>1, <3>4
      <4>1. f[k + 1] = f[(k + 1) - 1] \o ss[k + 1]
        BY <3>1, <4>5, <2>7
      <4>2. IsSeq(f[k]) /\ ToSet(f[k]) = U(k)
        BY <2>3, <3>4
      <4>3. IsSeq(f[k + 1]) /\ ToSet(f[k + 1]) = U(k) \cup ToSet(ss[k + 1])
        BY <4>1, <4>2, <3>1, ConcatIs
      <4> HIDE DEF U
      <4>4. QED
        BY <4>3, <4>5, <3>2
    <3>5. QED
      BY <3>3, <3>4
  <2>4. 0 \in P
    BY <1>1
  <2>8. \A k \in 0..Len(ss) : k \in P /\ k < Len(ss) => k + 1 \in P
    BY <2>3
  <2> HIDE DEF P
  <2>9. 0..Len(ss) \subseteq P
    BY <1>1, <2>8, <2>4, Induction
  <2>5. Len(ss) \in P
    BY <1>1, <2>9
  <2>6. QED
    BY <1>1, <1>3, <2>1, <2>5 DEF P
<1>4. QED
  BY <1>2, <1>3

-----------------------------------------------------------------------------
(* Folds: MapThenFoldSet takes the largest index last, so that a fold from *)
(* the left runs through the prefixes of its sequence.                     *)
LEMMA MaxOf ==
  ASSUME NEW n \in Nat, NEW t \in SUBSET (1..n), t # {}
  PROVE  /\ Max(t) \in t /\ \A x \in t : x <= Max(t)
         /\ t \ {Max(t)} \subseteq 1..(Max(t) - 1)
<1> DEFINE I == {i \in Nat : n - i \in t}
<1>1. I \subseteq Nat /\ I # {}
  <2>1. PICK x \in t : TRUE
    OBVIOUS
  <2>2. x \in 1..n
    OBVIOUS
  <2>3. n - x \in Nat /\ n - (n - x) = x
    BY <2>2
  <2>4. n - x \in I
    BY <2>1, <2>3
  <2>5. QED
    BY <2>4
<1>2. PICK i \in I : \A k \in I : i <= k
  BY <1>1, LeastElement
<1>3. n - i \in t
  BY <1>2
<1>4. ASSUME NEW y \in t PROVE n - i >= y
  <2>1. y \in 1..n
    OBVIOUS
  <2>2. n - y \in Nat /\ n - (n - y) = y
    BY <2>1
  <2>3. n - y \in I
    BY <2>2
  <2>4. i <= n - y /\ i \in Nat
    BY <1>2, <2>3
  <2>5. QED
    BY <2>1, <2>4
<1>5. Max(t) \in t /\ \A y \in t : Max(t) >= y
  <2>1. \E x \in t : \A y \in t : x >= y
    BY <1>3, <1>4
  <2>2. QED
    BY <2>1 DEF Max
<1>6. \A x \in t : x \in Int /\ 1 <= x
  OBVIOUS
<1>7. ASSUME NEW x \in t PROVE x <= Max(t) /\ (x # Max(t) => x \in 1..(Max(t) - 1))
  <2>1. Max(t) \in Int /\ x \in Int /\ 1 <= x /\ Max(t) >= x
    BY <1>5, <1>6
  <2>2. QED
    BY <2>1
<1> HIDE DEF I
<1>8. QED
  BY <1>5, <1>7

LEMMA MaxOfPrefix ==
  ASSUME NEW n \in Nat, NEW k \in 0..n, k < n
  PROVE  /\ 1..(k + 1) # {} /\ 1..(k + 1) \in SUBSET (1..n)
         /\ Max(1..(k + 1)) = k + 1 /\ 1..(k + 1) \ {k + 1} = 1..k
<1> DEFINE t == 1..(k + 1)
<1>1. k + 1 \in t /\ t \in SUBSET (1..n)
  OBVIOUS
<1>2. Max(t) \in t /\ \A x \in t : x <= Max(t)
  BY <1>1, MaxOf
<1>3. Max(t) = k + 1
  BY <1>1, <1>2
<1>4. t \ {k + 1} = 1..k
  OBVIOUS
<1>5. QED
  BY <1>1, <1>3, <1>4

(* There is a function that runs through the subsets, whatever the step G  *)
(* is, as long as its values stay in V.                                    *)
Runs(h, n, base, G) ==
  h = [t \in SUBSET (1..n) |->
         IF t = {} THEN base ELSE G[h[t \ {Max(t)}], Max(t)]]

LEMMA FoldMade ==
  ASSUME NEW n \in Nat, NEW V, NEW base \in V, NEW G \in [V \X (1..n) -> V]
  PROVE  \E h \in [SUBSET (1..n) -> V] : Runs(h, n, base, G)
<1> DEFINE P == {k \in 0..n : \E h \in [SUBSET (1..k) -> V] : Runs(h, k, base, G)}
<1>1. 0 \in P
  <2> DEFINE h == [t \in SUBSET (1..0) |-> base]
  <2>1. h \in [SUBSET (1..0) -> V]
    OBVIOUS
  <2>2. \A t \in SUBSET (1..0) : t = {}
    OBVIOUS
  <2>3. Runs(h, 0, base, G)
    BY <2>2 DEF Runs
  <2> HIDE DEF h
  <2>4. \E f \in [SUBSET (1..0) -> V] : Runs(f, 0, base, G)
    BY <2>1, <2>3
  <2>5. 0 \in 0..n
    OBVIOUS
  <2>6. QED
    BY <2>4, <2>5
<1>2. ASSUME NEW k \in 0..n, k \in P, k < n PROVE k + 1 \in P
  <2>1. PICK f \in [SUBSET (1..k) -> V] : Runs(f, k, base, G)
    BY <1>2
  <2> DEFINE g == [t \in SUBSET (1..(k + 1)) |->
                     IF t = {} THEN base ELSE G[f[t \ {Max(t)}], Max(t)]]
  <2>2. ASSUME NEW t \in SUBSET (1..(k + 1)), t # {}
        PROVE  /\ t \ {Max(t)} \in SUBSET (1..k) /\ t \ {Max(t)} \in SUBSET (1..(k + 1))
               /\ Max(t) \in 1..n
    <3>1. k + 1 \in Nat
      OBVIOUS
    <3>2. Max(t) \in t /\ t \ {Max(t)} \subseteq 1..(Max(t) - 1)
      BY <2>2, <3>1, MaxOf
    <3>3. Max(t) \in 1..(k + 1)
      BY <3>2
    <3>4. 1..(Max(t) - 1) \subseteq 1..k /\ 1..k \subseteq 1..(k + 1)
      BY <3>3
    <3>5. QED
      BY <3>2, <3>3, <3>4, <1>2
  <2>3. \A t \in SUBSET (1..k) : f[t] = IF t = {} THEN base ELSE G[f[t \ {Max(t)}], Max(t)]
    BY <2>1 DEF Runs
  <2>4. \A t \in SUBSET (1..k) : t \in SUBSET (1..(k + 1)) /\ g[t] = f[t]
    <3>1. 1..k \subseteq 1..(k + 1)
      OBVIOUS
    <3>2. QED
      BY <3>1, <2>3
  <2>5. g \in [SUBSET (1..(k + 1)) -> V]
    <3>1. ASSUME NEW t \in SUBSET (1..(k + 1)), t # {}
          PROVE  G[f[t \ {Max(t)}], Max(t)] \in V
      <4>1. f[t \ {Max(t)}] \in V /\ Max(t) \in 1..n
        BY <2>2, <3>1
      <4>2. QED
        BY <4>1
    <3>2. QED
      BY <3>1
  <2>6. Runs(g, k + 1, base, G)
    <3>1. ASSUME NEW t \in SUBSET (1..(k + 1)), t # {}
          PROVE  f[t \ {Max(t)}] = g[t \ {Max(t)}]
      BY <3>1, <2>2, <2>4
    <3> DEFINE A(t) == IF t = {} THEN base ELSE G[f[t \ {Max(t)}], Max(t)]
               B(t) == IF t = {} THEN base ELSE G[g[t \ {Max(t)}], Max(t)]
    <3> HIDE DEF g
    <3>2. \A t \in SUBSET (1..(k + 1)) : A(t) = B(t)
      BY <3>1
    <3>3. g = [t \in SUBSET (1..(k + 1)) |-> A(t)]
      BY DEF g
    <3> HIDE DEF A, B
    <3>4. g = [t \in SUBSET (1..(k + 1)) |-> B(t)]
      BY <3>2, <3>3
    <3>5. QED
      BY <3>4 DEF Runs, B
  <2>7. k + 1 \in 0..n
    BY <1>2
  <2> HIDE DEF g
  <2>8. QED
    BY <2>5, <2>6, <2>7
<1>3. \A k \in 0..n : k \in P /\ k < n => k + 1 \in P
  BY <1>2
<1> HIDE DEF P
<1>4. 0..n \subseteq P
  BY <1>1, <1>3, Induction
<1>5. n \in P
  BY <1>4
<1>6. QED
  BY <1>5 DEF P

(* The fold of a step over a sequence, as the function h that runs through *)
(* the subsets gives it: a value for every prefix.                         *)
LEMMA PrefixesIn ==
  ASSUME NEW n \in Nat, NEW V, NEW h, h[{}] \in V,
         \A k \in 0..(n - 1) : h[1..k] \in V => h[1..(k + 1)] \in V
  PROVE  \A k \in 0..n : h[1..k] \in V
<1> DEFINE P == {k \in 0..n : h[1..k] \in V}
<1>1. 0 \in P
  <2>1. 1..0 = {} /\ 0 \in 0..n
    OBVIOUS
  <2>2. QED
    BY <2>1
<1>2. \A k \in 0..n : k \in P /\ k < n => k + 1 \in P
  OBVIOUS
<1> HIDE DEF P
<1>3. 0..n \subseteq P
  BY <1>1, <1>2, Induction
<1>4. QED
  BY <1>3 DEF P

-----------------------------------------------------------------------------
(* The companions of the withholding rows: each is a vendor row against    *)
(* one of them.                                                            *)
Companions(co, R, W) ==
  {WithholdingCompanion(co, p[1], p[2]) : p \in {r \in R : IsVendor(r)} \X W}

LEMMA AddCompanionIs ==
  ASSUME NEW co, NEW R, NEW W, NEW vendors, IsSeq(vendors),
         ToSet(vendors) \subseteq {r \in R : IsVendor(r)},
         NEW wht, NEW L, NEW acc \in [claimed : SUBSET L, built : Seq(Companions(co, R, W))],
         NEW w \in W, w.line \in L
  PROVE  AddCompanion(co, vendors, wht, acc, w)
           \in [claimed : SUBSET L, built : Seq(Companions(co, R, W))]
<1> DEFINE rest == Where(wht, LAMBDA x : x.line \notin acc.claimed)
           atFound == {i \in DOMAIN vendors : FindWithholdingLine(vendors[i], rest) = w}
           atSame == {i \in DOMAIN vendors : w.inv # NoInvoice /\ vendors[i].inv = w.inv}
           found == Picked(vendors, atFound)
           same == Picked(vendors, atSame)
           chosen == IF found # <<>> THEN found ELSE IF same # <<>> THEN same
                     ELSE IF Len(vendors) = 1 THEN vendors ELSE <<>>
<1>1. AddCompanion(co, vendors, wht, acc, w) =
        IF chosen = <<>> THEN acc
        ELSE [claimed |-> acc.claimed \cup {w.line},
              built |-> Append(acc.built, WithholdingCompanion(co, chosen[1], w))]
  BY DEF AddCompanion, Where
<1>2. IsSeq(found) /\ ToSet(found) \subseteq ToSet(vendors)
  <2>1. atFound \subseteq DOMAIN vendors
    OBVIOUS
  <2> HIDE DEF atFound
  <2>2. QED
    BY <2>1, PickedSome
<1>3. IsSeq(same) /\ ToSet(same) \subseteq ToSet(vendors)
  <2>1. atSame \subseteq DOMAIN vendors
    OBVIOUS
  <2> HIDE DEF atSame
  <2>2. QED
    BY <2>1, PickedSome
<1> HIDE DEF found, same
<1>4. IsSeq(chosen) /\ ToSet(chosen) \subseteq ToSet(vendors)
  BY <1>2, <1>3, EmptyIs
<1> HIDE DEF chosen
<1>5. CASE chosen = <<>>
  BY <1>1, <1>5
<1>6. CASE chosen # <<>>
  <2>1. chosen[1] \in ToSet(chosen)
    <3>1. Len(chosen) \in Nat /\ DOMAIN chosen = 1..Len(chosen) /\ Len(chosen) # 0
      BY <1>4, <1>6, EmptyIs, SeqIs
    <3>2. QED
      BY <3>1 DEF ToSet
  <2> DEFINE c == WithholdingCompanion(co, chosen[1], w)
  <2>2. c \in Companions(co, R, W)
    <3>1. <<chosen[1], w>> \in {r \in R : IsVendor(r)} \X W
      BY <2>1, <1>4
    <3>2. QED
      BY <3>1 DEF Companions
  <2> HIDE DEF c
  <2>3. Append(acc.built, c) \in Seq(Companions(co, R, W))
    BY <2>2, AppendProperties
  <2>4. acc.claimed \cup {w.line} \in SUBSET L
    OBVIOUS
  <2>5. AddCompanion(co, vendors, wht, acc, w) =
          [claimed |-> acc.claimed \cup {w.line}, built |-> Append(acc.built, c)]
    BY <1>1, <1>6 DEF c
  <2>6. QED
    BY <2>3, <2>4, <2>5
<1>7. QED
  BY <1>5, <1>6

LEMMA CompanionsAre ==
  ASSUME NEW co, NEW rows, IsSeq(rows), NEW wht, IsSeq(wht)
  PROVE  /\ IsSeq(BuildCashOutWithholdingCompanions(co, rows, wht))
         /\ ToSet(BuildCashOutWithholdingCompanions(co, rows, wht))
              \subseteq Companions(co, ToSet(rows), ToSet(wht))
<1> DEFINE R == ToSet(rows)
           W == ToSet(wht)
           L == {w.line : w \in W}
           V == [claimed : SUBSET L, built : Seq(Companions(co, R, W))]
           n == Len(wht)
           base == [claimed |-> {}, built |-> <<>>]
           atTrade == {i \in DOMAIN rows : rows[i].acct \in TradeVendors}
           atVendor == {i \in DOMAIN rows : IsVendor(rows[i])}
           vendors == IF Picked(rows, atTrade) # <<>> THEN Picked(rows, atTrade)
                      ELSE Picked(rows, atVendor)
           step(a, i) == AddCompanion(co, vendors, wht, a, wht[i])
           run == CHOOSE f : f = [t \in SUBSET (DOMAIN wht) |->
                                    IF t = {} THEN base ELSE step(f[t \ {Max(t)}], Max(t))]
<1>1. BuildCashOutWithholdingCompanions(co, rows, wht) = run[DOMAIN wht].built
  BY DEF BuildCashOutWithholdingCompanions, FoldLeft, MapThenFoldSet, Where
<1>2. IsSeq(vendors) /\ ToSet(vendors) \subseteq {r \in R : IsVendor(r)}
  <2>1. atTrade \subseteq DOMAIN rows /\ atVendor \subseteq DOMAIN rows
    OBVIOUS
  <2>2. \A i \in atTrade \cup atVendor : rows[i] \in R /\ IsVendor(rows[i])
    BY DEF ToSet, IsVendor, Vendors
  <2> HIDE DEF atTrade, atVendor
  <2>3. /\ IsSeq(Picked(rows, atTrade)) /\ IsSeq(Picked(rows, atVendor))
        /\ ToSet(Picked(rows, atTrade)) = {rows[i] : i \in atTrade}
        /\ ToSet(Picked(rows, atVendor)) = {rows[i] : i \in atVendor}
    BY <2>1, PickedElements
  <2>4. QED
    BY <2>2, <2>3
<1> HIDE DEF vendors
<1>3. n \in Nat /\ DOMAIN wht = 1..n /\ \A i \in 1..n : wht[i] \in W /\ wht[i].line \in L
  BY SeqIs DEF ToSet
<1>4. base \in V
  <2>1. <<>> \in Seq(Companions(co, R, W))
    BY EmptySeq
  <2>2. QED
    BY <2>1
<1>5. ASSUME NEW a \in V, NEW i \in 1..n PROVE step(a, i) \in V
  <2>1. wht[i] \in W /\ wht[i].line \in L
    BY <1>3
  <2> HIDE DEF R, W, L
  <2>2. QED
    BY <1>2, <2>1, AddCompanionIs
<1> DEFINE G == [p \in V \X (1..n) |-> step(p[1], p[2])]
<1> HIDE DEF V, base, step
<1>6. G \in [V \X (1..n) -> V]
  BY <1>5
<1>7. PICK h \in [SUBSET (1..n) -> V] : Runs(h, n, base, G)
  <2> HIDE DEF G, n
  <2>1. QED
    BY <1>3, <1>4, <1>6, FoldMade
<1>8. h = [t \in SUBSET (1..n) |-> IF t = {} THEN base ELSE step(h[t \ {Max(t)}], Max(t))]
  <2>1. ASSUME NEW t \in SUBSET (1..n), t # {}
        PROVE  G[h[t \ {Max(t)}], Max(t)] = step(h[t \ {Max(t)}], Max(t))
    <3>1. Max(t) \in 1..n /\ h[t \ {Max(t)}] \in V
      <4>1. Max(t) \in t
        BY <1>3, <2>1, MaxOf
      <4>2. QED
        BY <4>1
    <3>2. QED
      BY <3>1
  <2>2. h = [t \in SUBSET (1..n) |-> IF t = {} THEN base ELSE G[h[t \ {Max(t)}], Max(t)]]
    BY <1>7 DEF Runs
  <2> HIDE DEF G
  <2> DEFINE A(t) == IF t = {} THEN base ELSE G[h[t \ {Max(t)}], Max(t)]
             B(t) == IF t = {} THEN base ELSE step(h[t \ {Max(t)}], Max(t))
  <2>3. \A t \in SUBSET (1..n) : A(t) = B(t)
    BY <2>1
  <2>4. h = [t \in SUBSET (1..n) |-> A(t)]
    BY <2>2
  <2> HIDE DEF A, B
  <2>5. h = [t \in SUBSET (1..n) |-> B(t)]
    BY <2>3, <2>4
  <2>6. QED
    BY <2>5 DEF B
<1>9. run = [t \in SUBSET (1..n) |-> IF t = {} THEN base ELSE step(run[t \ {Max(t)}], Max(t))]
  BY <1>3, <1>8
<1> HIDE DEF run, n
<1>10. run[{}] \in V
  BY <1>4, <1>9
<1>11. \A k \in 0..(n - 1) : run[1..k] \in V => run[1..(k + 1)] \in V
  <2> SUFFICES ASSUME NEW k \in 0..(n - 1), run[1..k] \in V PROVE run[1..(k + 1)] \in V
    OBVIOUS
  <2>1. k \in 0..n /\ k < n /\ k + 1 \in 1..n
    BY <1>3
  <2>2. /\ 1..(k + 1) # {} /\ 1..(k + 1) \in SUBSET (1..n)
        /\ Max(1..(k + 1)) = k + 1 /\ 1..(k + 1) \ {k + 1} = 1..k
    BY <1>3, <2>1, MaxOfPrefix
  <2>3. run[1..(k + 1)] = step(run[1..k], k + 1)
    BY <1>9, <2>2
  <2>4. QED
    BY <1>5, <2>1, <2>3
<1>12. run[1..n] \in V
  <2>1. \A k \in 0..n : run[1..k] \in V
    BY <1>3, <1>10, <1>11, PrefixesIn
  <2>2. QED
    BY <1>3, <2>1
<1>13. run[DOMAIN wht].built \in Seq(Companions(co, R, W))
  BY <1>3, <1>12 DEF V
<1>14. QED
  BY <1>1, <1>13, SeqTyped

-----------------------------------------------------------------------------
(* What every line of a file is, as long as it has no error: it comes from *)
(* a row of its entry, names the company, and settles what it says it is   *)
(* about if its safe type settles anything.                                *)
IsLine(l) ==
  l = [uid |-> l.uid, safe |-> l.safe, type |-> l.type, month |-> l.month,
       route |-> l.route, co |-> l.co, acct |-> l.acct, off |-> l.off, d |-> l.d,
       c |-> l.c, inv |-> l.inv, mark |-> l.mark, error |-> l.error,
       journal |-> l.journal]
ComesFrom(r, l) ==
  /\ l.uid = r.uid /\ l.safe = r.safe /\ l.type = r.type /\ l.month = r.month
  /\ l.route = JournalNameOf(r.safe)
SaysWhatItSettles(l) ==
  /\ l.acct \in Withholding => l.safe \in Settling
  /\ l.acct \in Vendors /\ l.safe \in Settling /\ l.inv # NoInvoice /\ l.mark = NoInvoice
       => l.acct \in CustodyVendors
Good(co, R, l) ==
  /\ IsLine(l)
  /\ \/ l.error = TRUE /\ l.month \in Nat /\ \E r \in R : l.uid = r.uid
     \/ /\ l.error = FALSE /\ \E r \in R : ComesFrom(r, l)
        /\ l.co = co /\ SaysWhatItSettles(l)
AllGood(co, R, s) == IsSeq(s) /\ \A l \in ToSet(s) : Good(co, R, l)

(* What the validation of the source has shown of the rows.                *)
Sound(r) ==
  /\ r.acct \in Withholding => r.safe \in Settling
  /\ r.safe = "Vendor Payment" /\ r.acct \in TradeVendors => r.inv # NoInvoice

LEMMA ErrorLineGood ==
  ASSUME NEW co, NEW R, NEW r \in R
  PROVE  Good(co, R, ErrorLine(r))
BY DEF Good, ErrorLine, IsLine

LEMMA SourceLineGood ==
  ASSUME NEW co, NEW R, NEW r \in R, Sound(r), NEW inv,
         r.inv = NoInvoice \/ inv = r.inv
  PROVE  Good(co, R, BuildSourceLineOutbound(co, r, inv))
<1> DEFINE l == BuildSourceLineOutbound(co, r, inv)
<1>1. /\ IsLine(l) /\ l.error = FALSE /\ ComesFrom(r, l) /\ l.co = co
      /\ l.acct = r.acct /\ l.safe = r.safe /\ l.inv = r.inv
      /\ l.mark = IF IsVendor(r) /\ r.safe \in Settling THEN InvoiceMark(r, inv) ELSE NoInvoice
  BY DEF BuildSourceLineOutbound, IsLine, ComesFrom
<1> HIDE DEF l
<1>2. SaysWhatItSettles(l)
  BY <1>1 DEF SaysWhatItSettles, Sound, InvoiceMark, IsVendor
<1>3. QED
  BY <1>1, <1>2 DEF Good, l

LEMMA OutboundGood ==
  ASSUME NEW co, NEW R, NEW v \in R, IsVendor(v), NEW o, NEW amount,
         IsWithholdingLedgerLine(o) \/ v.acct \in CustodyVendors \/ v.inv # NoInvoice
  PROVE  Good(co, R, BuildLineOutbound(co, v, o, amount))
<1> DEFINE l == BuildLineOutbound(co, v, o, amount)
<1>1. /\ IsLine(l) /\ l.error = FALSE /\ ComesFrom(v, l) /\ l.co = co
      /\ l.acct = v.acct
      /\ l.inv = IF v.inv = NoInvoice THEN o.inv ELSE v.inv
      /\ l.mark = InvoiceMark(v, IF v.inv = NoInvoice /\ IsWithholdingLedgerLine(o)
                                 THEN o.inv ELSE v.inv)
  BY DEF BuildLineOutbound, IsLine, ComesFrom
<1> HIDE DEF l
<1>2. l.acct \notin Withholding
  BY <1>1, CashOutAssumption DEF IsVendor, AllLedgers
<1>3. SaysWhatItSettles(l)
  BY <1>1, <1>2 DEF SaysWhatItSettles, InvoiceMark
<1>4. QED
  BY <1>1, <1>3 DEF Good, l

LEMMA AllGoodConcat ==
  ASSUME NEW co, NEW R, NEW s, NEW t, AllGood(co, R, s), AllGood(co, R, t)
  PROVE  AllGood(co, R, s \o t)
BY ConcatIs DEF AllGood

LEMMA AllGoodFlatten ==
  ASSUME NEW co, NEW R, NEW ss, IsSeq(ss), \A n \in DOMAIN ss : AllGood(co, R, ss[n])
  PROVE  AllGood(co, R, FlattenSeq(ss))
<1>1. \A n \in DOMAIN ss : IsSeq(ss[n])
  BY DEF AllGood
<1>2. /\ IsSeq(FlattenSeq(ss))
      /\ ToSet(FlattenSeq(ss)) = UNION {ToSet(ss[n]) : n \in DOMAIN ss}
  BY <1>1, FlattenIs
<1>3. QED
  BY <1>2 DEF AllGood

LEMMA GoodMore ==
  ASSUME NEW co, NEW R, NEW S, R \subseteq S, NEW s, AllGood(co, R, s)
  PROVE  AllGood(co, S, s)
BY DEF AllGood, Good

LEMMA OneError ==
  ASSUME NEW co, NEW R, NEW r \in R
  PROVE  AllGood(co, R, <<ErrorLine(r)>>)
<1> DEFINE e == ErrorLine(r)
<1>1. Good(co, R, e)
  BY ErrorLineGood
<1> HIDE DEF e
<1>2. DOMAIN <<e>> = 1..1 /\ <<e>>[1] = e /\ <<e>> = [i \in 1..1 |-> <<e>>[i]]
  OBVIOUS
<1>3. IsSeq(<<e>>)
  BY <1>2, SeqMade
<1>4. ToSet(<<e>>) = {e}
  BY <1>2 DEF ToSet
<1>5. QED
  BY <1>1, <1>3, <1>4 DEF AllGood, e

-----------------------------------------------------------------------------
(* The builders, one by one.                                               *)
LEMMA SourceLinesGood ==
  ASSUME NEW co, NEW R, NEW rows, IsSeq(rows), ToSet(rows) \subseteq R,
         \A r \in R : Sound(r)
  PROVE  AllGood(co, R, SourceLines(co, rows))
<1> DEFINE s == SourceLines(co, rows)
<1>1. Len(rows) \in Nat /\ DOMAIN rows = 1..Len(rows)
  BY SeqIs
<1>2. s = [i \in 1..Len(rows) |-> s[i]] /\ DOMAIN s = 1..Len(rows)
  BY <1>1 DEF SourceLines
<1>3. ASSUME NEW i \in 1..Len(rows) PROVE Good(co, R, s[i])
  <2>1. s[i] = BuildSourceLineOutbound(co, rows[i], rows[i].inv)
    BY <1>1 DEF SourceLines
  <2>2. rows[i] \in R
    BY <1>1 DEF ToSet
  <2>3. QED
    BY <2>1, <2>2, SourceLineGood
<1> HIDE DEF s
<1>4. IsSeq(s)
  BY <1>1, <1>2, SeqMade
<1>5. QED
  BY <1>2, <1>3, <1>4 DEF AllGood, ToSet, s

LEMMA CompanionSeqGood ==
  ASSUME NEW co, NEW R, NEW v \in R, IsVendor(v), NEW mine, IsSeq(mine),
         \A w \in ToSet(mine) : IsWithholdingLedgerLine(w)
  PROVE  AllGood(co, R, [n \in DOMAIN mine |-> WithholdingCompanion(co, v, mine[n])])
<1> DEFINE s == [n \in DOMAIN mine |-> WithholdingCompanion(co, v, mine[n])]
<1>1. Len(mine) \in Nat /\ DOMAIN mine = 1..Len(mine)
  BY SeqIs
<1>2. s = [i \in 1..Len(mine) |-> s[i]] /\ DOMAIN s = 1..Len(mine)
  BY <1>1
<1>3. ASSUME NEW i \in 1..Len(mine) PROVE Good(co, R, s[i])
  <2>1. s[i] = BuildLineOutbound(co, v, mine[i], mine[i].c)
    BY <1>1 DEF WithholdingCompanion
  <2>2. IsWithholdingLedgerLine(mine[i])
    BY <1>1 DEF ToSet
  <2>3. QED
    BY <2>1, <2>2, OutboundGood
<1> HIDE DEF s
<1>4. IsSeq(s)
  BY <1>1, <1>2, SeqMade
<1>5. AllGood(co, R, s)
  BY <1>2, <1>3, <1>4 DEF AllGood, ToSet
<1>6. QED
  BY <1>5 DEF s

LEMMA FirstOf ==
  ASSUME NEW s, IsSeq(s), s # <<>>
  PROVE  1 \in DOMAIN s /\ s[1] \in ToSet(s)
<1>1. Len(s) \in Nat /\ DOMAIN s = 1..Len(s) /\ Len(s) # 0
  BY EmptyIs, SeqIs
<1>2. QED
  BY <1>1 DEF ToSet

LEMMA WithholdingOnlyGood ==
  ASSUME NEW co, NEW R, NEW vendors, IsSeq(vendors), vendors # <<>>,
         \A v \in ToSet(vendors) : v \in R /\ IsVendor(v),
         NEW wht, IsSeq(wht), \A w \in ToSet(wht) : IsWithholdingLedgerLine(w)
  PROVE  AllGood(co, R, BuildWithholdingOnlyVendorPaymentLines(co, vendors, wht))
<1> DEFINE alloc == AllocateWhtLinesToVendors(vendors, wht)
           mine(v) == Picked(wht, {i \in DOMAIN wht : alloc.to[i] = v.line})
           own(v) == [n \in DOMAIN mine(v) |-> WithholdingCompanion(co, v, mine(v)[n])]
           ss == [i \in DOMAIN vendors |-> own(vendors[i])]
<1>1. BuildWithholdingOnlyVendorPaymentLines(co, vendors, wht) =
        IF Debits(vendors) # Credits(wht) \/ ~alloc.ok
        THEN <<ErrorLine(vendors[1])>> ELSE FlattenSeq(ss)
  BY DEF BuildWithholdingOnlyVendorPaymentLines
<1> HIDE DEF alloc
<1>2. AllGood(co, R, <<ErrorLine(vendors[1])>>)
  BY FirstOf, OneError
<1>3. ASSUME NEW v \in ToSet(vendors) PROVE AllGood(co, R, own(v))
  <2> DEFINE at == {i \in DOMAIN wht : alloc.to[i] = v.line}
  <2>1. at \subseteq DOMAIN wht
    OBVIOUS
  <2> HIDE DEF at
  <2>2. IsSeq(Picked(wht, at)) /\ ToSet(Picked(wht, at)) \subseteq ToSet(wht)
    BY <2>1, PickedSome
  <2>3. AllGood(co, R, [n \in DOMAIN Picked(wht, at) |->
                          WithholdingCompanion(co, v, Picked(wht, at)[n])])
    BY <2>2, CompanionSeqGood
  <2>4. QED
    BY <2>3 DEF at
<1> HIDE DEF own
<1>4. Len(vendors) \in Nat /\ DOMAIN vendors = 1..Len(vendors)
  BY SeqIs
<1>5. IsSeq(ss)
  BY <1>4, SeqMade
<1>6. \A n \in DOMAIN ss : AllGood(co, R, ss[n])
  BY <1>3 DEF ToSet
<1> HIDE DEF ss
<1>7. QED
  BY <1>1, <1>2, <1>5, <1>6, AllGoodFlatten

LEMMA MergeGood ==
  ASSUME NEW co, NEW R, NEW vendors, IsSeq(vendors), vendors # <<>>,
         \A v \in ToSet(vendors) :
           v \in R /\ IsVendor(v) /\ (v.acct \in CustodyVendors \/ v.inv # NoInvoice),
         NEW payment,
         NEW wht, IsSeq(wht), \A w \in ToSet(wht) : IsWithholdingLedgerLine(w)
  PROVE  AllGood(co, R, MergeVendorPaymentLinesWithOffset(co, vendors, payment, wht))
<1> DEFINE alloc == AllocateWhtLinesToVendors(vendors, wht)
           mine(v) == Picked(wht, {i \in DOMAIN wht : alloc.to[i] = v.line})
           main(v) == IF v.d > Credits(mine(v)) \/ mine(v) = <<>>
                      THEN <<BuildLineOutbound(co, v, payment, v.d - Credits(mine(v)))>>
                      ELSE <<>>
           own(v) == main(v) \o [n \in DOMAIN mine(v) |-> WithholdingCompanion(co, v, mine(v)[n])]
           ss == [i \in DOMAIN vendors |-> own(vendors[i])]
<1>1. \/ MergeVendorPaymentLinesWithOffset(co, vendors, payment, wht) = <<ErrorLine(vendors[1])>>
      \/ MergeVendorPaymentLinesWithOffset(co, vendors, payment, wht) = FlattenSeq(ss)
  BY DEF MergeVendorPaymentLinesWithOffset
<1> HIDE DEF alloc
<1>2. AllGood(co, R, <<ErrorLine(vendors[1])>>)
  BY FirstOf, OneError
<1>3. ASSUME NEW v \in ToSet(vendors) PROVE AllGood(co, R, own(v))
  <2> DEFINE at == {i \in DOMAIN wht : alloc.to[i] = v.line}
             amount == v.d - Credits(mine(v))
             e == BuildLineOutbound(co, v, payment, amount)
  <2>1. at \subseteq DOMAIN wht
    OBVIOUS
  <2> HIDE DEF at
  <2>2. IsSeq(Picked(wht, at)) /\ ToSet(Picked(wht, at)) \subseteq ToSet(wht)
    BY <2>1, PickedSome
  <2>3. AllGood(co, R, [n \in DOMAIN Picked(wht, at) |->
                          WithholdingCompanion(co, v, Picked(wht, at)[n])])
    BY <2>2, CompanionSeqGood
  <2>4. AllGood(co, R, [n \in DOMAIN mine(v) |-> WithholdingCompanion(co, v, mine(v)[n])])
    BY <2>3 DEF at
  <2>5. AllGood(co, R, main(v))
    <3>1. main(v) = <<e>> \/ main(v) = <<>>
      OBVIOUS
    <3> HIDE DEF amount
    <3>2. Good(co, R, e)
      BY OutboundGood
    <3> HIDE DEF e, main
    <3>3. AllGood(co, R, <<e>>)
      <4>1. DOMAIN <<e>> = 1..1 /\ <<e>>[1] = e /\ <<e>> = [i \in 1..1 |-> <<e>>[i]]
        OBVIOUS
      <4>2. IsSeq(<<e>>)
        BY <4>1, SeqMade
      <4>3. ToSet(<<e>>) = {e}
        BY <4>1 DEF ToSet
      <4>4. QED
        BY <3>2, <4>2, <4>3 DEF AllGood
    <3>4. AllGood(co, R, <<>>)
      BY EmptyIs DEF AllGood
    <3>5. QED
      BY <3>1, <3>3, <3>4
  <2> HIDE DEF main, mine
  <2>6. QED
    BY <2>4, <2>5, AllGoodConcat
<1> HIDE DEF own
<1>4. Len(vendors) \in Nat /\ DOMAIN vendors = 1..Len(vendors)
  BY SeqIs
<1>5. IsSeq(ss)
  BY <1>4, SeqMade
<1>6. \A n \in DOMAIN ss : AllGood(co, R, ss[n])
  BY <1>3 DEF ToSet
<1> HIDE DEF ss
<1>7. QED
  BY <1>1, <1>2, <1>5, <1>6, AllGoodFlatten

LEMMA BuildVendorPaymentGood ==
  ASSUME NEW co, NEW R, \A r \in R : Sound(r),
         NEW rows, IsSeq(rows), rows # <<>>, ToSet(rows) \subseteq R,
         \A r \in ToSet(rows) :
           IsVendorDebit(r) => r.acct \in CustodyVendors \/ r.inv # NoInvoice
  PROVE  AllGood(co, R, BuildVendorPaymentLines(co, rows))
<1> DEFINE atWht == {i \in DOMAIN rows : IsWithholdingLedgerLine(rows[i])}
           atVendor == {i \in DOMAIN rows : IsVendorDebit(rows[i])}
           atOffset == {i \in DOMAIN rows : IsPaymentOffset(rows[i])}
           wht == Picked(rows, atWht)
           vendors == Picked(rows, atVendor)
           offsets == Picked(rows, atOffset)
<1>1. BuildVendorPaymentLines(co, rows) =
        IF IsMainAccountOnlyLedgerGroup(rows) THEN SourceLines(co, rows)
        ELSE IF vendors = <<>> \/ Len(offsets) > 1 THEN <<ErrorLine(rows[1])>>
        ELSE IF offsets # <<>>
          THEN MergeVendorPaymentLinesWithOffset(co, vendors, offsets[1], wht)
        ELSE IF wht # <<>> THEN BuildWithholdingOnlyVendorPaymentLines(co, vendors, wht)
        ELSE SourceLines(co, vendors)
  BY DEF BuildVendorPaymentLines, Where
<1>2. atWht \subseteq DOMAIN rows /\ atVendor \subseteq DOMAIN rows
  OBVIOUS
<1>3. IsSeq(wht) /\ IsSeq(vendors)
  <2> HIDE DEF atWht, atVendor
  <2>1. QED
    BY <1>2, PickedSome
<1>4. ToSet(wht) = {rows[i] : i \in atWht} /\ ToSet(vendors) = {rows[i] : i \in atVendor}
  <2> HIDE DEF atWht, atVendor
  <2>1. QED
    BY <1>2, PickedElements
<1>5. \A w \in ToSet(wht) : IsWithholdingLedgerLine(w)
  BY <1>4
<1>6. \A v \in ToSet(vendors) : v \in ToSet(rows) /\ IsVendorDebit(v)
  BY <1>4 DEF ToSet
<1> HIDE DEF wht, vendors, offsets
<1>7. \A v \in ToSet(vendors) :
        v \in R /\ IsVendor(v) /\ (v.acct \in CustodyVendors \/ v.inv # NoInvoice)
  BY <1>6 DEF IsVendorDebit
<1>8. AllGood(co, R, SourceLines(co, rows)) /\ AllGood(co, R, SourceLines(co, vendors))
  BY <1>3, <1>7, SourceLinesGood
<1>9. AllGood(co, R, <<ErrorLine(rows[1])>>)
  BY FirstOf, OneError
<1>10. vendors # <<>> =>
         /\ AllGood(co, R, MergeVendorPaymentLinesWithOffset(co, vendors, offsets[1], wht))
         /\ AllGood(co, R, BuildWithholdingOnlyVendorPaymentLines(co, vendors, wht))
  BY <1>3, <1>5, <1>7, MergeGood, WithholdingOnlyGood
<1>11. QED
  BY <1>1, <1>8, <1>9, <1>10

LEMMA PreservedGood ==
  ASSUME NEW co, NEW R, \A r \in R : Sound(r),
         NEW rows, IsSeq(rows), ToSet(rows) \subseteq R, NEW wht
  PROVE  AllGood(co, R, PreservedLines(co, rows, wht))
<1> DEFINE at == {i \in DOMAIN rows : ~IsWithholdingLedgerLine(rows[i])}
           kept == Picked(rows, at)
           inv(r) == IF r.inv = NoInvoice /\ IsVendor(r) /\ wht # <<>>
                     THEN FindWithholdingLine(r, wht).inv ELSE r.inv
           s == PreservedLines(co, rows, wht)
<1>1. s = [i \in DOMAIN kept |-> BuildSourceLineOutbound(co, kept[i], inv(kept[i]))]
  BY DEF PreservedLines, Where
<1>2. IsSeq(kept) /\ ToSet(kept) \subseteq R
  <2>1. at \subseteq DOMAIN rows
    OBVIOUS
  <2> HIDE DEF at
  <2>2. QED
    BY <2>1, PickedSome
<1> HIDE DEF kept
<1>3. Len(kept) \in Nat /\ DOMAIN kept = 1..Len(kept)
  BY <1>2, SeqIs
<1>4. s = [i \in 1..Len(kept) |-> s[i]] /\ DOMAIN s = 1..Len(kept)
  BY <1>1, <1>3
<1>5. ASSUME NEW i \in 1..Len(kept) PROVE Good(co, R, s[i])
  <2>1. s[i] = BuildSourceLineOutbound(co, kept[i], inv(kept[i]))
    BY <1>1, <1>3
  <2>2. kept[i] \in R
    BY <1>2, <1>3 DEF ToSet
  <2>3. kept[i].inv = NoInvoice \/ inv(kept[i]) = kept[i].inv
    OBVIOUS
  <2> HIDE DEF inv
  <2>4. QED
    BY <2>1, <2>2, <2>3, SourceLineGood
<1> HIDE DEF s
<1>6. IsSeq(s)
  BY <1>3, <1>4, SeqMade
<1>7. AllGood(co, R, s)
  BY <1>4, <1>5, <1>6 DEF AllGood, ToSet
<1>8. QED
  BY <1>7 DEF s

LEMMA CompanionsGood ==
  ASSUME NEW co, NEW R, NEW rows, IsSeq(rows), ToSet(rows) \subseteq R,
         NEW wht, IsSeq(wht), \A w \in ToSet(wht) : IsWithholdingLedgerLine(w)
  PROVE  AllGood(co, R, BuildCashOutWithholdingCompanions(co, rows, wht))
<1> DEFINE s == BuildCashOutWithholdingCompanions(co, rows, wht)
<1>1. IsSeq(s) /\ ToSet(s) \subseteq Companions(co, ToSet(rows), ToSet(wht))
  BY CompanionsAre
<1>2. ASSUME NEW l \in Companions(co, ToSet(rows), ToSet(wht)) PROVE Good(co, R, l)
  <2>1. PICK p \in {r \in ToSet(rows) : IsVendor(r)} \X ToSet(wht) :
          l = WithholdingCompanion(co, p[1], p[2])
    BY DEF Companions
  <2>2. p[1] \in R /\ IsVendor(p[1]) /\ IsWithholdingLedgerLine(p[2])
    OBVIOUS
  <2>3. QED
    BY <2>1, <2>2, OutboundGood DEF WithholdingCompanion
<1> HIDE DEF s
<1>3. AllGood(co, R, s)
  BY <1>1, <1>2 DEF AllGood
<1>4. QED
  BY <1>3 DEF s

Split(rows) == {i \in DOMAIN rows : InSplit(rows, rows[i])}

LEMMA SplitGood ==
  ASSUME NEW co, NEW R, \A r \in R : Sound(r),
         NEW rows, IsSeq(rows), ToSet(rows) \subseteq R, SplitsCustodySettlement(rows)
  PROVE  /\ AllGood(co, R, BuildCustodySettlementCashOutLines(co, rows))
         /\ AllGood(co, R, BuildVendorPaymentLines(co, Picked(rows, Split(rows))))
<1> DEFINE atInvoice == {i \in DOMAIN rows :
                           IsStandardVendorInvoiceSettlementLine(rows[i]) /\ rows[i].d > 0}
           atPaid == {i \in DOMAIN rows : IsCashOutSettlementOffsetSource(rows[i])}
           at == {i \in DOMAIN rows : InSplit(rows, rows[i])}
           atKept == {i \in DOMAIN rows : ~InSplit(rows, rows[i])}
<1>1. /\ BuildCustodySettlementCashOutLines(co, rows) =
           SourceLines(co, Picked(rows, atKept)) \o BuildVendorPaymentLines(co, Picked(rows, at))
      /\ InvoiceVendors(rows) = Picked(rows, atInvoice)
  BY DEF BuildCustodySettlementCashOutLines, InvoiceVendors, Where
<1>2. Picked(rows, atInvoice) # <<>>
  BY <1>1 DEF SplitsCustodySettlement
<1>3. /\ atInvoice \subseteq DOMAIN rows /\ at \subseteq DOMAIN rows
      /\ atKept \subseteq DOMAIN rows
  OBVIOUS
<1>4. /\ IsSeq(Picked(rows, atInvoice))
      /\ ToSet(Picked(rows, atInvoice)) = {rows[i] : i \in atInvoice}
      /\ IsSeq(Picked(rows, at)) /\ ToSet(Picked(rows, at)) = {rows[i] : i \in at}
      /\ IsSeq(Picked(rows, atKept)) /\ ToSet(Picked(rows, atKept)) \subseteq ToSet(rows)
  <2> HIDE DEF atInvoice, at, atKept
  <2>1. QED
    BY <1>3, PickedElements, PickedSome
<1>5. ASSUME NEW r PROVE Contains(InvoiceVendors(rows), r) <=> \E i \in atInvoice : r = rows[i]
  <2> DEFINE v == Picked(rows, atInvoice)
  <2>1. Len(v) \in Nat /\ DOMAIN v = 1..Len(v) /\ ToSet(v) = {rows[i] : i \in atInvoice}
    BY <1>4, SeqIs
  <2> HIDE DEF v, atInvoice
  <2>2. Contains(v, r) <=> r \in ToSet(v)
    BY <2>1 DEF Contains, ToSet
  <2>3. QED
    BY <1>1, <2>1, <2>2 DEF v
<1>6. \A r \in ToSet(Picked(rows, at)) : r \in ToSet(rows) /\ InSplit(rows, r)
  BY <1>4 DEF ToSet
<1>7. ASSUME NEW r \in ToSet(Picked(rows, at)), IsVendorDebit(r)
      PROVE  r.inv # NoInvoice
  <2>1. ~IsCashOutSettlementOffsetSource(r) /\ ~IsWithholdingLedgerLine(r)
    BY <1>7, CashOutAssumption
       DEF IsVendorDebit, IsVendor, IsCashOutSettlementOffsetSource, IsWithholdingLedgerLine,
           AllLedgers
  <2>2. \E i \in atInvoice : r = rows[i]
    BY <1>5, <1>6, <2>1 DEF InSplit
  <2>3. QED
    BY <2>2 DEF IsStandardVendorInvoiceSettlementLine
<1>8. Picked(rows, at) # <<>>
  <2>1. PICK i \in atInvoice : TRUE
    <3> HIDE DEF atInvoice
    <3>1. QED
      BY <1>2, <1>4, EmptyIs
  <2>2. Contains(InvoiceVendors(rows), rows[i])
    BY <1>5
  <2>3. i \in at
    BY <2>2 DEF InSplit
  <2> HIDE DEF at
  <2>4. ToSet(Picked(rows, at)) # {}
    BY <1>4, <2>3
  <2>5. QED
    BY <2>4, EmptyIs
<1> HIDE DEF at, atKept, atInvoice
<1>9. AllGood(co, R, BuildVendorPaymentLines(co, Picked(rows, at)))
  <2> DEFINE s == Picked(rows, at)
  <2>1. IsSeq(s) /\ s # <<>> /\ ToSet(s) \subseteq R
    BY <1>4, <1>6, <1>8
  <2>2. \A r \in ToSet(s) : IsVendorDebit(r) => r.acct \in CustodyVendors \/ r.inv # NoInvoice
    BY <1>7
  <2> HIDE DEF s
  <2>3. AllGood(co, R, BuildVendorPaymentLines(co, s))
    BY <2>1, <2>2, BuildVendorPaymentGood
  <2>4. QED
    BY <2>3 DEF s
<1>10. AllGood(co, R, SourceLines(co, Picked(rows, atKept)))
  BY <1>4, SourceLinesGood
<1>11. AllGood(co, R, BuildCustodySettlementCashOutLines(co, rows))
  BY <1>1, <1>9, <1>10, AllGoodConcat
<1>12. Split(rows) = at
  BY DEF Split, at
<1>13. QED
  BY <1>9, <1>11, <1>12

LEMMA BuildLinesGood ==
  ASSUME NEW co, NEW R, \A r \in R : Sound(r),
         NEW rows, IsSeq(rows), rows # <<>>, ToSet(rows) \subseteq R,
         \A r \in ToSet(rows) : r.safe = rows[1].safe
  PROVE  AllGood(co, R, BuildLines(co, rows))
<1> DEFINE at == {i \in DOMAIN rows : IsWithholdingLedgerLine(rows[i])}
           wht == Picked(rows, at)
<1>1. BuildLines(co, rows) =
        IF rows[1].safe = "Vendor Payment" THEN BuildVendorPaymentLines(co, rows)
        ELSE IF SplitsCustodySettlement(rows)
          THEN BuildCustodySettlementCashOutLines(co, rows)
        ELSE PreservedLines(co, rows, wht)
               \o BuildCashOutWithholdingCompanions(co, rows, wht)
  BY DEF BuildLines, Where
<1>2. IsSeq(wht) /\ \A w \in ToSet(wht) : IsWithholdingLedgerLine(w)
  <2>1. at \subseteq DOMAIN rows /\ \A i \in at : IsWithholdingLedgerLine(rows[i])
    OBVIOUS
  <2> HIDE DEF at
  <2>2. IsSeq(wht) /\ ToSet(wht) = {rows[i] : i \in at}
    BY <2>1, PickedElements
  <2>3. QED
    BY <2>1, <2>2
<1> HIDE DEF wht
<1>3. AllGood(co, R, PreservedLines(co, rows, wht)
                       \o BuildCashOutWithholdingCompanions(co, rows, wht))
  <2>1. AllGood(co, R, PreservedLines(co, rows, wht))
    BY PreservedGood
  <2>2. AllGood(co, R, BuildCashOutWithholdingCompanions(co, rows, wht))
    BY <1>2, CompanionsGood
  <2>3. QED
    BY <2>1, <2>2, AllGoodConcat
<1>4. SplitsCustodySettlement(rows) =>
        AllGood(co, R, BuildCustodySettlementCashOutLines(co, rows))
  BY SplitGood
<1>5. rows[1].safe = "Vendor Payment" => AllGood(co, R, BuildVendorPaymentLines(co, rows))
  <2> SUFFICES ASSUME rows[1].safe = "Vendor Payment"
               PROVE  AllGood(co, R, BuildVendorPaymentLines(co, rows))
    OBVIOUS
  <2>1. \A r \in ToSet(rows) :
          IsVendorDebit(r) => r.acct \in CustodyVendors \/ r.inv # NoInvoice
    BY DEF Sound, IsVendorDebit, IsVendor, Vendors
  <2>2. QED
    BY <2>1, BuildVendorPaymentGood
<1>6. QED
  BY <1>1, <1>3, <1>4, <1>5

LEMMA UpTo ==
  ASSUME NEW n \in Nat
  PROVE  IsFiniteSet(1..n) /\ Cardinality(1..n) = n
<1>1. IsFiniteSet(1..n) /\ Cardinality(1..n) = IF 1 > n THEN 0 ELSE n - 1 + 1
  BY FS_Interval
<1>2. QED
  BY <1>1

-----------------------------------------------------------------------------
(* The entries of a sequence of rows, or of lines: one for each UniqueId,  *)
(* with everything that has it.                                            *)
Openers(rows) == {i \in DOMAIN rows : \A k \in 1..(i - 1) : rows[k].uid # rows[i].uid}
WithId(rows, id) == {i \in DOMAIN rows : rows[i].uid = id}
Entries(rows, E) ==
  /\ IsSeq(E)
  /\ \A n \in DOMAIN E :
       /\ IsSeq(E[n]) /\ E[n] # <<>> /\ E[n] = Picked(rows, WithId(rows, E[n][1].uid))
       /\ ToSet(E[n]) = {r \in ToSet(rows) : r.uid = E[n][1].uid}
  /\ \A r \in ToSet(rows) : \E n \in DOMAIN E : E[n][1].uid = r.uid
  /\ \A n, m \in DOMAIN E : n # m => E[n][1].uid # E[m][1].uid

LEMMA EntriesAre ==
  ASSUME NEW rows, IsSeq(rows)
  PROVE  Entries(rows, BuildUniqueIdMap(rows))
<1> DEFINE at == Openers(rows)
           first == Picked(rows, at)
           E == BuildUniqueIdMap(rows)
           N == Cardinality(at)
<1>1. E = [n \in DOMAIN first |-> Picked(rows, WithId(rows, first[n].uid))]
  BY DEF BuildUniqueIdMap, Where, Openers, WithId
<1>2. Len(rows) \in Nat /\ DOMAIN rows = 1..Len(rows)
  BY SeqIs
<1>3. at \subseteq 1..Len(rows)
  BY <1>2 DEF Openers
<1>4. InTheirOrder(rows, at)
  <2> HIDE DEF at
  <2>1. QED
    BY <1>2, <1>3, PickedIs
<1> HIDE DEF E, at, first
<1>5. /\ N \in Nat /\ DOMAIN first = 1..N
      /\ \A n \in 1..N : Nth(at)[n] \in at /\ first[n] = rows[Nth(at)[n]]
      /\ \A i \in at : \E n \in 1..N : Nth(at)[n] = i
      /\ \A n, m \in 1..N : n < m => Nth(at)[n] < Nth(at)[m]
  BY <1>4 DEF InTheirOrder, first
<1>6. DOMAIN E = 1..N /\ E = [n \in 1..N |-> E[n]]
  BY <1>1, <1>5
<1>7. IsSeq(E)
  BY <1>5, <1>6, SeqMade
<1>8. ASSUME NEW n \in 1..N
      PROVE  /\ IsSeq(E[n]) /\ E[n] # <<>> /\ E[n][1].uid = first[n].uid
             /\ E[n] = Picked(rows, WithId(rows, first[n].uid))
             /\ ToSet(E[n]) = {r \in ToSet(rows) : r.uid = first[n].uid}
  <2> DEFINE id == first[n].uid
             mine == WithId(rows, id)
  <2>1. E[n] = Picked(rows, mine)
    BY <1>1, <1>5
  <2>2. mine \subseteq DOMAIN rows
    BY DEF WithId
  <2>3. Nth(at)[n] \in mine
    BY <1>2, <1>3, <1>5 DEF WithId
  <2>4. {rows[i] : i \in mine} = {r \in ToSet(rows) : r.uid = id}
    BY DEF WithId, ToSet
  <2> HIDE DEF id, mine
  <2>5. IsSeq(E[n]) /\ ToSet(E[n]) = {rows[i] : i \in mine}
    BY <2>1, <2>2, PickedElements
  <2>6. E[n] # <<>>
    BY <2>3, <2>5, EmptyIs
  <2>7. E[n][1] \in ToSet(E[n])
    BY <2>5, <2>6, FirstOf
  <2>8. QED
    BY <2>1, <2>4, <2>5, <2>6, <2>7 DEF id, mine
<1>9. ASSUME NEW r \in ToSet(rows) PROVE \E n \in 1..N : first[n].uid = r.uid
  <2>1. PICK j \in DOMAIN rows : r = rows[j]
    BY DEF ToSet
  <2> DEFINE I == {i \in 1..Len(rows) : rows[i].uid = r.uid}
  <2>2. I \subseteq Nat /\ I # {}
    BY <1>2, <2>1
  <2>3. PICK i \in I : \A y \in I : i <= y
    <3> HIDE DEF I
    <3>1. QED
      BY <2>2, LeastElement
  <2>4. \A k \in 1..(i - 1) : rows[k].uid # rows[i].uid
    <3> SUFFICES ASSUME NEW k \in 1..(i - 1), rows[k].uid = rows[i].uid PROVE FALSE
      OBVIOUS
    <3>1. k \in I
      BY <1>2
    <3>2. QED
      BY <1>2, <2>3, <3>1
  <2>5. i \in at
    BY <1>2, <2>4 DEF at, Openers
  <2>6. QED
    BY <1>5, <2>5
<1>10. ASSUME NEW n \in 1..N, NEW m \in 1..N, n < m PROVE first[n].uid # first[m].uid
  <2>1. /\ Nth(at)[n] \in at /\ Nth(at)[m] \in at /\ Nth(at)[n] < Nth(at)[m]
        /\ first[n] = rows[Nth(at)[n]] /\ first[m] = rows[Nth(at)[m]]
    BY <1>5, <1>10
  <2> DEFINE i == Nth(at)[n]
             j == Nth(at)[m]
  <2>2. i \in 1..(j - 1)
    <3>1. i \in 1..Len(rows) /\ j \in 1..Len(rows) /\ i < j
      BY <1>3, <2>1
    <3> HIDE DEF i, j
    <3>2. QED
      BY <1>2, <3>1
  <2>3. rows[i].uid # rows[j].uid
    BY <2>1, <2>2 DEF at, Openers
  <2>4. QED
    BY <2>1, <2>3
<1>11. \A n, m \in 1..N : n # m => first[n].uid # first[m].uid
  BY <1>5, <1>10
<1>12. Entries(rows, E)
  BY <1>6, <1>7, <1>8, <1>9, <1>11 DEF Entries
<1>13. QED
  BY <1>12 DEF E

LEMMA InvoiceLinesGood ==
  ASSUME NEW co, NEW rows, IsSeq(rows), \A r \in ToSet(rows) : Sound(r),
         \A r, t \in ToSet(rows) : r.uid = t.uid => r.safe = t.safe
  PROVE  AllGood(co, ToSet(rows), BuildInvoiceLines(co, rows))
<1> DEFINE E == BuildUniqueIdMap(rows)
           ss == [n \in DOMAIN E |-> BuildLines(co, E[n])]
<1>1. BuildInvoiceLines(co, rows) = FlattenSeq(ss)
  BY DEF BuildInvoiceLines
<1>2. Entries(rows, E)
  BY EntriesAre
<1> HIDE DEF E
<1>3. ASSUME NEW n \in DOMAIN E PROVE AllGood(co, ToSet(rows), BuildLines(co, E[n]))
  <2> DEFINE e == E[n]
  <2>1. IsSeq(e) /\ e # <<>> /\ ToSet(e) = {r \in ToSet(rows) : r.uid = e[1].uid}
    BY <1>2 DEF Entries
  <2> HIDE DEF e
  <2>2. e[1] \in ToSet(e)
    BY <2>1, FirstOf
  <2>3. ToSet(e) \subseteq ToSet(rows) /\ \A r \in ToSet(e) : r.safe = e[1].safe
    BY <2>1, <2>2
  <2>4. AllGood(co, ToSet(rows), BuildLines(co, e))
    BY <2>1, <2>3, BuildLinesGood
  <2>5. QED
    BY <2>4 DEF e
<1>4. Len(E) \in Nat /\ DOMAIN E = 1..Len(E)
  BY <1>2, SeqIs DEF Entries
<1>5. IsSeq(ss)
  BY <1>4, SeqMade
<1>6. QED
  BY <1>1, <1>3, <1>5, AllGoodFlatten

(* LowerKey orders any set of positions whose keys are four numbers that   *)
(* end in the position.                                                    *)
KeysOf(E) == [n \in DOMAIN E |-> SortKey(E, n)]
Lower(E) == {p \in (DOMAIN E) \X (DOMAIN E) : LowerKey(KeysOf(E)[p[1]], KeysOf(E)[p[2]])}

LEMMA LowerIs ==
  ASSUME NEW E, NEW x \in DOMAIN E, NEW y \in DOMAIN E
  PROVE  <<x, y>> \in Lower(E) <=> LowerKey(KeysOf(E)[x], KeysOf(E)[y])
<1> DEFINE K == KeysOf(E)
           q == <<x, y>>
<1> HIDE DEF K
<1>1. q \in (DOMAIN E) \X (DOMAIN E) /\ q[1] = x /\ q[2] = y
  OBVIOUS
<1> HIDE DEF q
<1>2. q \in Lower(E) <=> LowerKey(K[q[1]], K[q[2]])
  BY <1>1, Zenon DEF Lower, K
<1>3. QED
  BY <1>1, <1>2 DEF q, K

LEMMA LowerKeyIs ==
  ASSUME NEW k, NEW l
  PROVE  LowerKey(k, l) <=>
           \/ k[1] < l[1]
           \/ k[1] = l[1] /\ k[2] < l[2]
           \/ k[1] = l[1] /\ k[2] = l[2] /\ k[3] < l[3]
           \/ k[1] = l[1] /\ k[2] = l[2] /\ k[3] = l[3] /\ k[4] < l[4]
<1>1. /\ 1..(1 - 1) = {} /\ 1..(2 - 1) = {1} /\ 1..(3 - 1) = {1, 2} /\ 1..(4 - 1) = {1, 2, 3}
      /\ 1..4 = {1, 2, 3, 4}
  OBVIOUS
<1>2. LowerKey(k, l) <=>
        \E i \in {1, 2, 3, 4} : k[i] < l[i] /\ \A j \in 1..(i - 1) : k[j] = l[j]
  BY <1>1 DEF LowerKey
<1>3. QED
  BY <1>1, <1>2

LEMMA SortedAre ==
  ASSUME NEW ls, IsSeq(ls), \A l \in ToSet(ls) : l.month \in Nat
  PROVE  Entries(ls, SortedEntries(ls))
<1> DEFINE E == BuildUniqueIdMap(ls)
           N == Len(E)
           K == KeysOf(E)
           order == Ordered(Lower(E), DOMAIN E)
<1>1. Entries(ls, E)
  BY EntriesAre
<1>2. N \in Nat /\ DOMAIN E = 1..N
  BY <1>1, SeqIs DEF Entries
<1>3. \A n \in DOMAIN E : E[n][1] \in ToSet(ls)
  <2> SUFFICES ASSUME NEW n \in DOMAIN E PROVE E[n][1] \in ToSet(ls)
    OBVIOUS
  <2> HIDE DEF E
  <2>1. IsSeq(E[n]) /\ E[n] # <<>> /\ ToSet(E[n]) \subseteq ToSet(ls)
    BY <1>1 DEF Entries
  <2>2. QED
    BY <2>1, FirstOf
<1>4. SortedEntries(ls) = [n \in DOMAIN order |-> E[order[n]]]
  <2> DEFINE D == DOMAIN E
             A(n) == CHOOSE x \in D :
                       Cardinality({y \in D : LowerKey(SortKey(E, y), SortKey(E, x))}) = n - 1
             B(n) == CHOOSE x \in D : Rank(Lower(E), D, x) = n - 1
             o == [n \in 1..Cardinality(D) |-> A(n)]
  <2>1. SortedEntries(ls) = [n \in DOMAIN o |-> E[o[n]]]
    BY DEF SortedEntries, InOrder
  <2>2. order = [n \in 1..Cardinality(D) |-> B(n)]
    BY DEF Ordered
  <2> HIDE DEF E
  <2>3. \A x \in D : {y \in D : LowerKey(SortKey(E, y), SortKey(E, x))} = Before(Lower(E), D, x)
    <3> SUFFICES ASSUME NEW x \in D
                 PROVE  {y \in D : LowerKey(SortKey(E, y), SortKey(E, x))} =
                          Before(Lower(E), D, x)
      OBVIOUS
    <3>1. \A y \in D : KeysOf(E)[y] = SortKey(E, y)
      BY DEF KeysOf
    <3>2. \A y \in D : <<y, x>> \in Lower(E) <=> LowerKey(SortKey(E, y), SortKey(E, x))
      BY <3>1, LowerIs
    <3>3. QED
      BY <3>2 DEF Before
  <2>4. \A x \in D : Cardinality({y \in D : LowerKey(SortKey(E, y), SortKey(E, x))}) =
                       Rank(Lower(E), D, x)
    BY <2>3 DEF Rank
  <2>5. \A n : A(n) = B(n)
    BY <2>4
  <2> HIDE DEF A, B
  <2>6. o = order
    BY <2>2, <2>5
  <2>7. QED
    BY <2>1, <2>6
<1> HIDE DEF E, order
<1>5. \A n \in DOMAIN E :
        /\ K[n][1] \in Int /\ K[n][2] \in Int /\ K[n][3] \in Int /\ K[n][4] = n
  <2> SUFFICES ASSUME NEW n \in DOMAIN E
               PROVE  /\ K[n][1] \in Int /\ K[n][2] \in Int /\ K[n][3] \in Int
                      /\ K[n][4] = n
    OBVIOUS
  <2>1. K[n] = <<CashVoucherTypeBucket(E[n][1].type), RouteOrder(E, E[n][1].route),
                 E[n][1].month, n>>
    BY DEF KeysOf, SortKey
  <2>2. CashVoucherTypeBucket(E[n][1].type) \in Int
    BY DEF CashVoucherTypeBucket
  <2>3. E[n][1].month \in Int
    BY <1>3
  <2>4. RouteOrder(E, E[n][1].route) \in Int
    <3> DEFINE rt == E[n][1].route
               I == {k \in DOMAIN E : E[k][1].route = rt}
    <3>1. I \subseteq Nat /\ I # {}
      BY <1>2
    <3>2. PICK k \in I : \A m \in I : k <= m
      <4> HIDE DEF I
      <4>1. QED
        BY <3>1, LeastElement
    <3>3. \A m \in 1..(k - 1) : E[m][1].route # rt
      <4> SUFFICES ASSUME NEW m \in 1..(k - 1), E[m][1].route = rt PROVE FALSE
        OBVIOUS
      <4>1. m \in I
        BY <1>2
      <4>2. QED
        BY <1>2, <3>2, <4>1
    <3>4. \E j \in DOMAIN E : E[j][1].route = rt /\ \A m \in 1..(j - 1) : E[m][1].route # rt
      BY <3>2, <3>3
    <3> HIDE DEF rt
    <3>5. RouteOrder(E, rt) \in DOMAIN E
      BY <3>4 DEF RouteOrder
    <3>6. QED
      BY <1>2, <3>5 DEF rt
  <2>5. QED
    BY <2>1, <2>2, <2>3, <2>4
<1>6. Orders(Lower(E), DOMAIN E)
  <2>1. \A x, y \in DOMAIN E : <<x, y>> \in Lower(E) <=>
           \/ K[x][1] < K[y][1]
           \/ K[x][1] = K[y][1] /\ K[x][2] < K[y][2]
           \/ K[x][1] = K[y][1] /\ K[x][2] = K[y][2] /\ K[x][3] < K[y][3]
           \/ K[x][1] = K[y][1] /\ K[x][2] = K[y][2] /\ K[x][3] = K[y][3] /\ x < y
    <3> HIDE DEF K
    <3> SUFFICES ASSUME NEW x \in DOMAIN E, NEW y \in DOMAIN E
                 PROVE  <<x, y>> \in Lower(E) <=>
           \/ K[x][1] < K[y][1]
           \/ K[x][1] = K[y][1] /\ K[x][2] < K[y][2]
           \/ K[x][1] = K[y][1] /\ K[x][2] = K[y][2] /\ K[x][3] < K[y][3]
           \/ K[x][1] = K[y][1] /\ K[x][2] = K[y][2] /\ K[x][3] = K[y][3] /\ x < y
      OBVIOUS
    <3>1. <<x, y>> \in Lower(E) <=> LowerKey(K[x], K[y])
      BY LowerIs DEF K
    <3>2. QED
      BY <3>1, <1>5, LowerKeyIs
  <2> HIDE DEF K
  <2>2. \A x \in DOMAIN E : <<x, x>> \notin Lower(E)
    BY <2>1, <1>2, <1>5
  <2>3. ASSUME NEW x \in DOMAIN E, NEW y \in DOMAIN E, x # y
        PROVE  <<x, y>> \in Lower(E) \/ <<y, x>> \in Lower(E)
    <3>1. x \in Int /\ y \in Int
      BY <1>2
    <3>2. /\ K[x][1] \in Int /\ K[x][2] \in Int /\ K[x][3] \in Int
          /\ K[y][1] \in Int /\ K[y][2] \in Int /\ K[y][3] \in Int
      BY <1>5
    <3>3. QED
      BY <2>1, <2>3, <3>1, <3>2
  <2>4. ASSUME NEW x \in DOMAIN E, NEW y \in DOMAIN E, NEW z \in DOMAIN E,
               <<x, y>> \in Lower(E), <<y, z>> \in Lower(E)
        PROVE  <<x, z>> \in Lower(E)
    <3>1. x \in Int /\ y \in Int /\ z \in Int
      BY <1>2
    <3>2. /\ K[x][1] \in Int /\ K[x][2] \in Int /\ K[x][3] \in Int
          /\ K[y][1] \in Int /\ K[y][2] \in Int /\ K[y][3] \in Int
          /\ K[z][1] \in Int /\ K[z][2] \in Int /\ K[z][3] \in Int
      BY <1>5
    <3>3. QED
      BY <2>1, <2>4, <3>1, <3>2
  <2>5. QED
    BY <2>2, <2>3, <2>4 DEF Orders
<1>7. IsFiniteSet(DOMAIN E) /\ Cardinality(DOMAIN E) = N
  BY <1>2, UpTo
<1>8. /\ order \in [1..N -> 1..N]
      /\ \A x \in 1..N : \E n \in 1..N : order[n] = x
      /\ \A n, m \in 1..N : n < m => <<order[n], order[m]>> \in Lower(E)
  BY <1>2, <1>6, <1>7, OrderedIs DEF order
<1>9. \A n, m \in 1..N : n # m => order[n] # order[m]
  <2>1. \A n, m \in 1..N : n < m => order[n] # order[m]
    BY <1>2, <1>6, <1>8 DEF Orders
  <2>2. QED
    BY <1>2, <2>1
<1> DEFINE S == SortedEntries(ls)
<1>10. S = [n \in 1..N |-> E[order[n]]]
  BY <1>4, <1>8
<1> HIDE DEF S
<1>11. DOMAIN S = 1..N /\ S = [n \in 1..N |-> S[n]] /\ \A n \in 1..N : S[n] = E[order[n]]
  BY <1>10
<1>12. IsSeq(S)
  BY <1>2, <1>11, SeqMade
<1>13. Entries(ls, S)
  <2>1. \A n \in 1..N : order[n] \in DOMAIN E
    BY <1>2, <1>8
  <2>2. \A n \in DOMAIN S :
          /\ IsSeq(S[n]) /\ S[n] # <<>> /\ S[n] = Picked(ls, WithId(ls, S[n][1].uid))
          /\ ToSet(S[n]) = {r \in ToSet(ls) : r.uid = S[n][1].uid}
    BY <1>1, <1>11, <2>1 DEF Entries
  <2>3. \A r \in ToSet(ls) : \E n \in DOMAIN S : S[n][1].uid = r.uid
    <3> SUFFICES ASSUME NEW r \in ToSet(ls) PROVE \E n \in DOMAIN S : S[n][1].uid = r.uid
      OBVIOUS
    <3>1. PICK k \in 1..N : E[k][1].uid = r.uid
      BY <1>1, <1>2 DEF Entries
    <3>2. PICK n \in 1..N : order[n] = k
      BY <1>8
    <3>3. QED
      BY <1>11, <3>1, <3>2
  <2>4. \A n, m \in DOMAIN S : n # m => S[n][1].uid # S[m][1].uid
    BY <1>1, <1>9, <1>11, <2>1 DEF Entries
  <2>5. QED
    BY <1>12, <2>2, <2>3, <2>4 DEF Entries
<1>14. QED
  BY <1>13 DEF S

-----------------------------------------------------------------------------
(* The numbering: a run of NumberEntry over the sorted entries.            *)
At(l, j) == [l EXCEPT !.journal = j]
Numbered(L) == UNION {{At(l, j) : l \in L} : j \in Nat}
Routes(L) == {l.route : l \in L} \cup {""}
InJournal(e, j) == [i \in DOMAIN e |-> At(e[i], j)]
Numberings(L) ==
  [n : Nat, month : Int, route : Routes(L), bucket : Int,
   count : Nat, out : Seq(Numbered(L))]
NoEntry == [n |-> 0, month |-> -1, route |-> "", bucket |-> -1, count |-> 0, out |-> <<>>]

EntryNumbered(L, a, e, b) ==
  /\ b \in Numberings(L)
  /\ b.n = IF OpensJournal(a, e) THEN a.n + 1 ELSE a.n
  /\ b.count = Len(e) + IF OpensJournal(a, e) THEN 0 ELSE a.count
  /\ b.month = e[1].month /\ b.route = e[1].route
  /\ b.bucket = CashVoucherTypeBucket(e[1].type) /\ b.out = a.out \o InJournal(e, b.n)

LEMMA NumberEntryIs ==
  ASSUME NEW L, \A l \in L : l.month \in Nat,
         NEW e, IsSeq(e), e # <<>>, ToSet(e) \subseteq L, NEW acc \in Numberings(L)
  PROVE  EntryNumbered(L, acc, e, NumberEntry(acc, e))
<1> DEFINE opens == OpensJournal(acc, e)
           n == IF opens THEN acc.n + 1 ELSE acc.n
           new == [i \in DOMAIN e |-> At(e[i], n)]
           b == CashVoucherTypeBucket(e[1].type)
           c == Len(e) + IF opens THEN 0 ELSE acc.count
<1> HIDE DEF opens
<1>1. NumberEntry(acc, e) =
        [n |-> n, month |-> e[1].month, route |-> e[1].route, bucket |-> b,
         count |-> c, out |-> acc.out \o new]
  BY DEF NumberEntry, At, opens
<1>2. Len(e) \in Nat /\ DOMAIN e = 1..Len(e) /\ e[1] \in L
  BY SeqIs, FirstOf
<1>3. /\ acc.n \in Nat /\ acc.count \in Nat /\ acc.out \in Seq(Numbered(L))
  BY DEF Numberings
<1>4. n \in Nat /\ c \in Nat /\ b \in Int
  BY <1>2, <1>3 DEF CashVoucherTypeBucket
<1> HIDE DEF n, b, c
<1>5. new \in Seq(Numbered(L))
  <2>1. ASSUME NEW i \in 1..Len(e) PROVE At(e[i], n) \in Numbered(L)
    <3>1. e[i] \in L
      BY <1>2 DEF ToSet
    <3>2. QED
      BY <1>4, <3>1 DEF Numbered
  <2>2. \A i \in 1..Len(e) : new[i] \in Numbered(L)
    BY <1>2, <2>1
  <2>3. new = [i \in 1..Len(e) |-> new[i]] /\ DOMAIN new = 1..Len(e)
    BY <1>2
  <2> HIDE DEF new
  <2>4. QED
    BY <1>2, <2>2, <2>3, IsASeq
<1> HIDE DEF new
<1>6. acc.out \o new \in Seq(Numbered(L))
  BY <1>3, <1>5, ConcatProperties
<1>7. e[1].route \in Routes(L) /\ e[1].month \in Int
  <2>1. e[1].month \in Nat
    BY <1>2
  <2>2. e[1].route \in Routes(L)
    BY <1>2 DEF Routes
  <2>3. QED
    BY <2>1, <2>2
<1> DEFINE o == acc.out \o new
<1> HIDE DEF o
<1>8. NumberEntry(acc, e) \in Numberings(L)
  <2>1. NumberEntry(acc, e) =
          [n |-> n, month |-> e[1].month, route |-> e[1].route, bucket |-> b,
           count |-> c, out |-> o]
    BY <1>1 DEF o
  <2>2. o \in Seq(Numbered(L))
    BY <1>6 DEF o
  <2> DEFINE m == e[1].month
             rt == e[1].route
  <2> HIDE DEF m, rt
  <2>3. NumberEntry(acc, e) =
          [n |-> n, month |-> m, route |-> rt, bucket |-> b, count |-> c, out |-> o]
    BY <2>1 DEF m, rt
  <2>4. m \in Int /\ rt \in Routes(L)
    BY <1>7 DEF m, rt
  <2>5. QED
    BY <2>2, <2>3, <2>4, <1>4 DEF Numberings
<1>9. /\ NumberEntry(acc, e).n = n /\ NumberEntry(acc, e).count = c
      /\ NumberEntry(acc, e).month = e[1].month /\ NumberEntry(acc, e).route = e[1].route
      /\ NumberEntry(acc, e).bucket = b /\ NumberEntry(acc, e).out = acc.out \o new
  BY <1>1
<1>10. QED
  BY <1>8, <1>9 DEF n, c, b, new, opens, InJournal, EntryNumbered

LEMMA InJournalIs ==
  ASSUME NEW e, IsSeq(e), NEW j
  PROVE  /\ IsSeq(InJournal(e, j)) /\ ToSet(InJournal(e, j)) = {At(l, j) : l \in ToSet(e)}
         /\ Len(InJournal(e, j)) = Len(e)
<1>1. Len(e) \in Nat /\ DOMAIN e = 1..Len(e)
  BY SeqIs
<1> DEFINE s == InJournal(e, j)
<1>2. DOMAIN s = 1..Len(e) /\ s = [i \in 1..Len(e) |-> s[i]]
  BY <1>1 DEF InJournal
<1>3. \A i \in DOMAIN e : s[i] = At(e[i], j)
  BY DEF InJournal
<1> HIDE DEF s
<1>4. IsSeq(s) /\ Len(s) = Len(e)
  BY <1>1, <1>2, SeqMade
<1>5. ToSet(s) = {At(l, j) : l \in ToSet(e)}
  BY <1>1, <1>2, <1>3 DEF ToSet
<1>6. QED
  BY <1>4, <1>5 DEF s

(* What UpdateCashBatchAndVoucher goes through, entry by entry.            *)
Numbering(ls, acc) ==
  LET S == SortedEntries(ls)
  IN /\ \A k \in 0..Len(S) : acc[k] \in Numberings(ToSet(ls))
     /\ acc[0] = NoEntry
     /\ \A k \in 0..(Len(S) - 1) : acc[k + 1] = NumberEntry(acc[k], S[k + 1])
     /\ UpdateCashBatchAndVoucher(ls) = acc[Len(S)].out

LEMMA NumberingRuns ==
  ASSUME NEW ls, IsSeq(ls), \A l \in ToSet(ls) : l.month \in Nat
  PROVE  \E acc : Numbering(ls, acc)
<1> DEFINE L == ToSet(ls)
           V == Numberings(L)
           S == SortedEntries(ls)
           n == Len(S)
           base == NoEntry
           step(a, i) == NumberEntry(a, S[i])
           run == CHOOSE f : f = [t \in SUBSET (DOMAIN S) |->
                                    IF t = {} THEN base ELSE step(f[t \ {Max(t)}], Max(t))]
<1>1. UpdateCashBatchAndVoucher(ls) = run[DOMAIN S].out
  BY DEF UpdateCashBatchAndVoucher, FoldLeft, MapThenFoldSet, NoEntry
<1>2. Entries(ls, S)
  BY SortedAre
<1> HIDE DEF S
<1>3. n \in Nat /\ DOMAIN S = 1..n
  BY <1>2, SeqIs DEF Entries
<1>4. base \in V
  <2>1. <<>> \in Seq(Numbered(L))
    BY EmptySeq
  <2>2. "" \in Routes(L) /\ -1 \in Int
    BY DEF Routes
  <2>3. QED
    BY <2>1, <2>2 DEF Numberings, NoEntry
<1>5. ASSUME NEW a \in V, NEW i \in 1..n PROVE step(a, i) \in V
  <2>1. IsSeq(S[i]) /\ S[i] # <<>> /\ ToSet(S[i]) \subseteq L
    BY <1>2, <1>3 DEF Entries
  <2>2. QED
    BY <2>1, NumberEntryIs DEF EntryNumbered
<1> DEFINE G == [p \in V \X (1..n) |-> step(p[1], p[2])]
<1> HIDE DEF V, base, step
<1>6. G \in [V \X (1..n) -> V]
  BY <1>5
<1>7. PICK h \in [SUBSET (1..n) -> V] : Runs(h, n, base, G)
  <2> HIDE DEF G, n
  <2>1. QED
    BY <1>3, <1>4, <1>6, FoldMade
<1>8. h = [t \in SUBSET (1..n) |-> IF t = {} THEN base ELSE step(h[t \ {Max(t)}], Max(t))]
  <2>1. ASSUME NEW t \in SUBSET (1..n), t # {}
        PROVE  G[h[t \ {Max(t)}], Max(t)] = step(h[t \ {Max(t)}], Max(t))
    <3>1. Max(t) \in 1..n /\ h[t \ {Max(t)}] \in V
      <4>1. Max(t) \in t
        BY <1>3, <2>1, MaxOf
      <4>2. QED
        BY <4>1
    <3>2. QED
      BY <3>1
  <2>2. h = [t \in SUBSET (1..n) |-> IF t = {} THEN base ELSE G[h[t \ {Max(t)}], Max(t)]]
    BY <1>7 DEF Runs
  <2> HIDE DEF G
  <2> DEFINE A(t) == IF t = {} THEN base ELSE G[h[t \ {Max(t)}], Max(t)]
             B(t) == IF t = {} THEN base ELSE step(h[t \ {Max(t)}], Max(t))
  <2>3. \A t \in SUBSET (1..n) : A(t) = B(t)
    BY <2>1
  <2>4. h = [t \in SUBSET (1..n) |-> A(t)]
    BY <2>2
  <2> HIDE DEF A, B
  <2>5. h = [t \in SUBSET (1..n) |-> B(t)]
    BY <2>3, <2>4
  <2>6. QED
    BY <2>5 DEF B
<1>9. run = [t \in SUBSET (1..n) |-> IF t = {} THEN base ELSE step(run[t \ {Max(t)}], Max(t))]
  BY <1>3, <1>8
<1> HIDE DEF run, n
<1>10. run[{}] = base
  BY <1>9
<1>11. ASSUME NEW k \in 0..(n - 1) PROVE run[1..(k + 1)] = step(run[1..k], k + 1)
  <2>1. k \in 0..n /\ k < n /\ k + 1 \in 1..n
    BY <1>3
  <2>2. /\ 1..(k + 1) # {} /\ 1..(k + 1) \in SUBSET (1..n)
        /\ Max(1..(k + 1)) = k + 1 /\ 1..(k + 1) \ {k + 1} = 1..k
    BY <1>3, <2>1, MaxOfPrefix
  <2>3. QED
    BY <1>9, <2>2
<1>12. \A k \in 0..n : run[1..k] \in V
  <2>1. ASSUME NEW k \in 0..(n - 1), run[1..k] \in V PROVE run[1..(k + 1)] \in V
    <3>1. k + 1 \in 1..n
      BY <1>3
    <3>2. QED
      BY <1>5, <1>11, <2>1, <3>1
  <2>2. QED
    BY <1>3, <1>4, <1>10, <2>1, PrefixesIn
<1> DEFINE acc == [k \in 0..n |-> run[1..k]]
<1>13. acc[0] = base
  <2>1. 1..0 = {} /\ 0 \in 0..n
    BY <1>3
  <2>2. QED
    BY <1>10, <2>1
<1>14. \A k \in 0..(n - 1) : acc[k + 1] = step(acc[k], k + 1)
  <2> SUFFICES ASSUME NEW k \in 0..(n - 1) PROVE acc[k + 1] = step(acc[k], k + 1)
    OBVIOUS
  <2>1. k \in 0..n /\ k + 1 \in 0..n
    BY <1>3
  <2>2. QED
    BY <1>11, <2>1
<1>15. n \in 0..n
  BY <1>3
<1>16. UpdateCashBatchAndVoucher(ls) = acc[n].out
  BY <1>1, <1>3, <1>15
<1>17. \A k \in 0..n : acc[k] \in V
  BY <1>12
<1> HIDE DEF acc
<1>18. Numbering(ls, acc)
  BY <1>13, <1>14, <1>16, <1>17 DEF Numbering, step, base, n, V, S
<1>19. QED
  BY <1>18

(* Every line is numbered, and nothing else.                               *)
LEMMA NumberedAre ==
  ASSUME NEW ls, IsSeq(ls), \A l \in ToSet(ls) : l.month \in Nat
  PROVE  /\ IsSeq(UpdateCashBatchAndVoucher(ls))
         /\ ToSet(UpdateCashBatchAndVoucher(ls)) \subseteq Numbered(ToSet(ls))
         /\ \A l \in ToSet(ls) : \E j \in Nat : At(l, j) \in ToSet(UpdateCashBatchAndVoucher(ls))
<1> DEFINE L == ToSet(ls)
           S == SortedEntries(ls)
           n == Len(S)
<1>1. PICK acc : Numbering(ls, acc)
  BY NumberingRuns
<1>2. Entries(ls, S)
  BY SortedAre
<1>3. /\ \A k \in 0..n : acc[k] \in Numberings(L)
      /\ acc[0] = NoEntry
      /\ \A k \in 0..(n - 1) : acc[k + 1] = NumberEntry(acc[k], S[k + 1])
      /\ UpdateCashBatchAndVoucher(ls) = acc[n].out
  BY <1>1 DEF Numbering
<1> HIDE DEF S
<1>4. n \in Nat /\ DOMAIN S = 1..n
  BY <1>2, SeqIs DEF Entries
<1>5. ASSUME NEW k \in 0..n PROVE acc[k].out \in Seq(Numbered(L)) /\ acc[k].n \in Nat
  BY <1>3 DEF Numberings
<1> HIDE DEF n
<1> DEFINE P == {k \in 0..n : \A m \in 1..k : \A l \in ToSet(S[m]) :
                                \E j \in Nat : At(l, j) \in ToSet(acc[k].out)}
<1>6. 0 \in P
  BY <1>4
<1>7. ASSUME NEW k \in 0..n, k \in P, k < n PROVE k + 1 \in P
  <2>1. k \in 0..(n - 1) /\ k + 1 \in 0..n /\ k + 1 \in 1..n
    BY <1>4, <1>7
  <2> DEFINE a == acc[k]
             e == S[k + 1]
  <2>2. a \in Numberings(L) /\ acc[k + 1] = NumberEntry(a, e)
    BY <1>3, <2>1
  <2>3. IsSeq(e) /\ e # <<>> /\ ToSet(e) \subseteq L
    BY <1>2, <1>4, <2>1 DEF Entries
  <2> HIDE DEF e
  <2> DEFINE j == acc[k + 1].n
             new == InJournal(e, j)
  <2>4. acc[k + 1].out = a.out \o new
    <3>1. \A l \in L : l.month \in Nat
      OBVIOUS
    <3> HIDE DEF a, L
    <3>2. NumberEntry(a, e).out = a.out \o InJournal(e, NumberEntry(a, e).n)
      BY <2>2, <2>3, <3>1, NumberEntryIs DEF EntryNumbered
    <3>3. QED
      BY <2>2, <3>2
  <2>5. j \in Nat /\ a.out \in Seq(Numbered(L))
    BY <1>5, <2>1
  <2> HIDE DEF j
  <2>6. IsSeq(new) /\ ToSet(new) = {At(l, j) : l \in ToSet(e)}
    BY <2>3, InJournalIs
  <2> HIDE DEF new
  <2>7. IsSeq(a.out)
    BY <2>5, SeqTyped
  <2>8. ToSet(acc[k + 1].out) = ToSet(a.out) \cup {At(l, j) : l \in ToSet(e)}
    BY <2>4, <2>6, <2>7, ConcatIs
  <2>9. ASSUME NEW m \in 1..(k + 1), NEW l \in ToSet(S[m])
        PROVE  \E i \in Nat : At(l, i) \in ToSet(acc[k + 1].out)
    <3> SUFFICES \E i \in Nat : At(l, i) \in ToSet(a.out) \cup {At(x, j) : x \in ToSet(e)}
      BY <2>8
    <3>1. CASE m = k + 1
      BY <2>5, <3>1 DEF e
    <3>2. CASE m # k + 1
      <4>1. m \in 1..k
        BY <3>2, <1>4
      <4>2. \E i \in Nat : At(l, i) \in ToSet(a.out)
        BY <1>7, <4>1
      <4>3. QED
        BY <4>2
    <3>3. QED
      BY <3>1, <3>2
  <2>10. QED
    BY <2>1, <2>9
<1>8. \A k \in 0..n : k \in P /\ k < n => k + 1 \in P
  BY <1>7
<1> HIDE DEF P
<1>9. 0..n \subseteq P
  BY <1>4, <1>6, <1>8, Induction
<1>10. n \in P /\ n \in 0..n
  BY <1>4, <1>9
<1> DEFINE out == acc[n].out
<1>11. IsSeq(out) /\ ToSet(out) \subseteq Numbered(L)
  BY <1>5, <1>10, SeqTyped
<1>12. \A l \in L : \E j \in Nat : At(l, j) \in ToSet(out)
  <2> SUFFICES ASSUME NEW l \in L PROVE \E j \in Nat : At(l, j) \in ToSet(out)
    OBVIOUS
  <2>1. PICK m \in 1..n : S[m][1].uid = l.uid
    BY <1>2, <1>4 DEF Entries
  <2>2. l \in ToSet(S[m])
    BY <1>2, <1>4, <2>1 DEF Entries
  <2>3. QED
    BY <1>10, <2>2 DEF P
<1>13. QED
  BY <1>3, <1>11, <1>12 DEF n

-----------------------------------------------------------------------------
(* The journals of a batch: the lines of each number and route, rewritten. *)
JournalKey(l) == <<l.journal, l.route>>
KeyOpeners(ls) ==
  {i \in DOMAIN ls : \A k \in 1..(i - 1) : JournalKey(ls[k]) # JournalKey(ls[i])}
WithKey(ls, key) == {i \in DOMAIN ls : JournalKey(ls[i]) = key}
Groups(ls, G) ==
  /\ IsSeq(G)
  /\ \A n \in DOMAIN G :
       /\ IsSeq(G[n]) /\ G[n] # <<>> /\ G[n] = Picked(ls, WithKey(ls, JournalKey(G[n][1])))
       /\ ToSet(G[n]) = {l \in ToSet(ls) : JournalKey(l) = JournalKey(G[n][1])}
  /\ \A l \in ToSet(ls) : \E n \in DOMAIN G : JournalKey(G[n][1]) = JournalKey(l)
  /\ \A n, m \in DOMAIN G : n # m => JournalKey(G[n][1]) # JournalKey(G[m][1])

LEMMA GroupsAre ==
  ASSUME NEW ls, IsSeq(ls)
  PROVE  Groups(ls, GroupRecordsByJournalBatchNumber(ls))
<1> DEFINE at == KeyOpeners(ls)
           first == Picked(ls, at)
           G == GroupRecordsByJournalBatchNumber(ls)
           N == Cardinality(at)
<1>1. G = [n \in DOMAIN first |-> Picked(ls, WithKey(ls, JournalKey(first[n])))]
  BY DEF GroupRecordsByJournalBatchNumber, Where, KeyOpeners, WithKey, JournalKey
<1>2. Len(ls) \in Nat /\ DOMAIN ls = 1..Len(ls)
  BY SeqIs
<1>3. at \subseteq 1..Len(ls)
  BY <1>2 DEF KeyOpeners
<1>4. InTheirOrder(ls, at)
  <2> HIDE DEF at
  <2>1. QED
    BY <1>2, <1>3, PickedIs
<1> HIDE DEF G, at, first
<1>5. /\ N \in Nat /\ DOMAIN first = 1..N
      /\ \A n \in 1..N : Nth(at)[n] \in at /\ first[n] = ls[Nth(at)[n]]
      /\ \A i \in at : \E n \in 1..N : Nth(at)[n] = i
      /\ \A n, m \in 1..N : n < m => Nth(at)[n] < Nth(at)[m]
  BY <1>4 DEF InTheirOrder, first
<1>6. DOMAIN G = 1..N /\ G = [n \in 1..N |-> G[n]]
  BY <1>1, <1>5
<1>7. IsSeq(G)
  BY <1>5, <1>6, SeqMade
<1>8. ASSUME NEW n \in 1..N
      PROVE  /\ IsSeq(G[n]) /\ G[n] # <<>> /\ JournalKey(G[n][1]) = JournalKey(first[n])
             /\ G[n] = Picked(ls, WithKey(ls, JournalKey(first[n])))
             /\ ToSet(G[n]) = {l \in ToSet(ls) : JournalKey(l) = JournalKey(first[n])}
  <2> DEFINE key == JournalKey(first[n])
             mine == WithKey(ls, key)
  <2>1. G[n] = Picked(ls, mine)
    BY <1>1, <1>5
  <2>2. mine \subseteq DOMAIN ls
    BY DEF WithKey
  <2>3. Nth(at)[n] \in mine
    BY <1>2, <1>3, <1>5 DEF WithKey
  <2>4. {ls[i] : i \in mine} = {l \in ToSet(ls) : JournalKey(l) = key}
    BY DEF WithKey, ToSet
  <2> HIDE DEF key, mine
  <2>5. IsSeq(G[n]) /\ ToSet(G[n]) = {ls[i] : i \in mine}
    BY <2>1, <2>2, PickedElements
  <2>6. G[n] # <<>>
    BY <2>3, <2>5, EmptyIs
  <2>7. G[n][1] \in ToSet(G[n])
    BY <2>5, <2>6, FirstOf
  <2>8. QED
    BY <2>1, <2>4, <2>5, <2>6, <2>7 DEF key, mine
<1>9. ASSUME NEW n \in 1..N, NEW m \in 1..N, n < m
      PROVE  JournalKey(first[n]) # JournalKey(first[m])
  <2>1. /\ Nth(at)[n] \in at /\ Nth(at)[m] \in at /\ Nth(at)[n] < Nth(at)[m]
        /\ first[n] = ls[Nth(at)[n]] /\ first[m] = ls[Nth(at)[m]]
    BY <1>5, <1>9
  <2> DEFINE i == Nth(at)[n]
             j == Nth(at)[m]
  <2>2. i \in 1..(j - 1)
    <3>1. i \in 1..Len(ls) /\ j \in 1..Len(ls) /\ i < j
      BY <1>3, <2>1
    <3> HIDE DEF i, j
    <3>2. QED
      BY <1>2, <3>1
  <2>3. JournalKey(ls[i]) # JournalKey(ls[j])
    BY <2>1, <2>2 DEF at, KeyOpeners
  <2>4. QED
    BY <2>1, <2>3
<1>10. \A n, m \in 1..N : n # m => JournalKey(first[n]) # JournalKey(first[m])
  BY <1>5, <1>9
<1>11. ASSUME NEW l \in ToSet(ls) PROVE \E n \in 1..N : JournalKey(first[n]) = JournalKey(l)
  <2>1. PICK j \in DOMAIN ls : l = ls[j]
    BY DEF ToSet
  <2> DEFINE I == {i \in 1..Len(ls) : JournalKey(ls[i]) = JournalKey(l)}
  <2>2. I \subseteq Nat /\ I # {}
    BY <1>2, <2>1
  <2>3. PICK i \in I : \A y \in I : i <= y
    <3> HIDE DEF I
    <3>1. QED
      BY <2>2, LeastElement
  <2>4. \A k \in 1..(i - 1) : JournalKey(ls[k]) # JournalKey(ls[i])
    <3> SUFFICES ASSUME NEW k \in 1..(i - 1), JournalKey(ls[k]) = JournalKey(ls[i]) PROVE FALSE
      OBVIOUS
    <3>1. k \in I
      BY <1>2
    <3>2. QED
      BY <1>2, <2>3, <3>1
  <2>5. i \in at
    BY <1>2, <2>4 DEF at, KeyOpeners
  <2>6. QED
    BY <1>5, <2>5
<1>12. Groups(ls, G)
  BY <1>6, <1>7, <1>8, <1>10, <1>11 DEF Groups
<1>13. QED
  BY <1>12 DEF G

(* A posted line x of the lines g of a journal: a line l as it is, or the  *)
(* line l of a withholding account against a vendor line v of its entry.   *)
IsWithholdingAccount(l) == IsCashOutLedgerWithholdingMainAccount(l)
SameEntry(x, l) ==
  /\ x.uid = l.uid /\ x.safe = l.safe /\ x.type = l.type /\ x.month = l.month
  /\ x.route = l.route /\ x.co = l.co /\ x.journal = l.journal
RewrittenFrom(g, x, l, v) ==
  /\ SameEntry(x, l) /\ v.acct \in Vendors /\ v.uid = l.uid
  /\ x.acct = v.acct /\ x.off = l.acct /\ x.mark = RewrittenMark(g, v)
Rewritten(g, x) ==
  \E l \in ToSet(g) : \/ ~IsWithholdingAccount(l) /\ x = l
                      \/ /\ IsWithholdingAccount(l)
                         /\ \E v \in ToSet(g) : RewrittenFrom(g, x, l, v)

LEMMA RewriteIs ==
  ASSUME NEW g, IsSeq(g), \A l \in ToSet(g) : IsLine(l)
  PROVE  /\ IsSeq(RewriteCashOutLedgerWithholdingLines(g))
         /\ \A x \in ToSet(RewriteCashOutLedgerWithholdingLines(g)) : Rewritten(g, x)
         /\ Len(RewriteCashOutLedgerWithholdingLines(g)) <= Len(g)
<1> DEFINE atVendor(l) == {i \in DOMAIN g : g[i].acct \in Vendors /\ g[i].uid = l.uid}
           vendors(l) == Picked(g, atVendor(l))
           atTrade(l) == {i \in DOMAIN vendors(l) : vendors(l)[i].acct \in TradeVendors}
           atMarked(l) == {i \in DOMAIN vendors(l) : vendors(l)[i].inv # NoInvoice}
           trade(l) == Picked(vendors(l), atTrade(l))
           marked(l) == Picked(vendors(l), atMarked(l))
           cp(l) == IF trade(l) # <<>> THEN trade(l)[1]
                    ELSE IF marked(l) # <<>> THEN marked(l)[1] ELSE vendors(l)[1]
           at == {i \in DOMAIN g : IsWithholdingAccount(g[i]) => vendors(g[i]) # <<>>}
           kept == Picked(g, at)
           rewrite(l) ==
             IF ~IsWithholdingAccount(l) THEN l
             ELSE [l EXCEPT !.acct = cp(l).acct, !.off = l.acct,
                            !.d = IF l.c > 0 THEN l.c ELSE l.d, !.c = 0,
                            !.mark = RewrittenMark(g, cp(l))]
           s == RewriteCashOutLedgerWithholdingLines(g)
<1>1. s = [i \in DOMAIN kept |-> rewrite(kept[i])]
  BY DEF RewriteCashOutLedgerWithholdingLines, Where, IsWithholdingAccount
<1>2. Len(g) \in Nat /\ DOMAIN g = 1..Len(g)
  BY SeqIs
<1>3. ASSUME NEW l, vendors(l) # <<>>
      PROVE  cp(l) \in ToSet(g) /\ cp(l).acct \in Vendors /\ cp(l).uid = l.uid
  <2>1. atVendor(l) \subseteq DOMAIN g
    OBVIOUS
  <2>2. \A i \in atVendor(l) : g[i] \in ToSet(g) /\ g[i].acct \in Vendors /\ g[i].uid = l.uid
    BY DEF ToSet
  <2> HIDE DEF atVendor
  <2>3. IsSeq(vendors(l)) /\ ToSet(vendors(l)) = {g[i] : i \in atVendor(l)}
    BY <2>1, PickedElements
  <2> HIDE DEF vendors
  <2>4. atTrade(l) \subseteq DOMAIN vendors(l) /\ atMarked(l) \subseteq DOMAIN vendors(l)
    OBVIOUS
  <2> HIDE DEF atTrade, atMarked
  <2>5. /\ IsSeq(trade(l)) /\ ToSet(trade(l)) \subseteq ToSet(vendors(l))
        /\ IsSeq(marked(l)) /\ ToSet(marked(l)) \subseteq ToSet(vendors(l))
    BY <2>3, <2>4, PickedSome
  <2> HIDE DEF trade, marked
  <2>6. cp(l) \in ToSet(vendors(l))
    <3>1. trade(l) # <<>> => trade(l)[1] \in ToSet(trade(l))
      BY <2>5, FirstOf
    <3>2. marked(l) # <<>> => marked(l)[1] \in ToSet(marked(l))
      BY <2>5, FirstOf
    <3>3. vendors(l)[1] \in ToSet(vendors(l))
      BY <1>3, <2>3, FirstOf
    <3>4. QED
      BY <2>5, <3>1, <3>2, <3>3
  <2> HIDE DEF cp
  <2>7. QED
    BY <2>2, <2>3, <2>6
<1>4. at \subseteq DOMAIN g /\ \A i \in at : IsWithholdingAccount(g[i]) => vendors(g[i]) # <<>>
  OBVIOUS
<1> HIDE DEF vendors, cp, at
<1>5. /\ IsSeq(kept) /\ ToSet(kept) = {g[i] : i \in at} /\ Len(kept) = Cardinality(at)
  BY <1>4, PickedElements
<1>6. Len(kept) <= Len(g)
  <2>1. IsFiniteSet(1..Len(g)) /\ Cardinality(1..Len(g)) = Len(g)
    BY <1>2, UpTo
  <2>2. Cardinality(at) <= Cardinality(1..Len(g))
    BY <1>2, <1>4, <2>1, FS_Subset
  <2>3. QED
    BY <1>5, <2>1, <2>2
<1> HIDE DEF kept
<1>7. Len(kept) \in Nat /\ DOMAIN kept = 1..Len(kept)
  BY <1>5, SeqIs
<1>8. ASSUME NEW l \in ToSet(kept) PROVE Rewritten(g, rewrite(l))
  <2>1. l \in ToSet(g) /\ IsLine(l) /\ (IsWithholdingAccount(l) => vendors(l) # <<>>)
    BY <1>4, <1>5 DEF ToSet
  <2>2. CASE ~IsWithholdingAccount(l)
    BY <2>1, <2>2 DEF Rewritten
  <2>3. CASE IsWithholdingAccount(l)
    <3> DEFINE v == cp(l)
               mk == RewrittenMark(g, v)
               x == [l EXCEPT !.acct = v.acct, !.off = l.acct,
                              !.d = IF l.c > 0 THEN l.c ELSE l.d, !.c = 0, !.mark = mk]
    <3>1. v \in ToSet(g) /\ v.acct \in Vendors /\ v.uid = l.uid
      BY <1>3, <2>1, <2>3
    <3>2. rewrite(l) = x
      BY <2>3
    <3> HIDE DEF v, mk
    <3>3. SameEntry(x, l) /\ x.acct = v.acct /\ x.off = l.acct /\ x.mark = mk
      BY <2>1 DEF IsLine, SameEntry
    <3> HIDE DEF x
    <3>4. RewrittenFrom(g, x, l, v)
      BY <3>1, <3>3 DEF RewrittenFrom, mk
    <3>5. Rewritten(g, x)
      BY <2>1, <2>3, <3>1, <3>4 DEF Rewritten
    <3>6. QED
      BY <3>2, <3>5
  <2>4. QED
    BY <2>2, <2>3
<1> HIDE DEF rewrite
<1>9. DOMAIN s = 1..Len(kept) /\ s = [i \in 1..Len(kept) |-> s[i]]
      /\ \A i \in 1..Len(kept) : s[i] = rewrite(kept[i])
  BY <1>1, <1>7
<1> HIDE DEF s
<1>10. IsSeq(s) /\ Len(s) = Len(kept)
  BY <1>7, <1>9, SeqMade
<1>11. \A x \in ToSet(s) : Rewritten(g, x)
  BY <1>7, <1>8, <1>9 DEF ToSet
<1>12. QED
  BY <1>6, <1>10, <1>11 DEF s

-----------------------------------------------------------------------------
(* What a file is when its lines are made.                                 *)
Typed(r) == r.month \in Nat /\ r.d \in Nat /\ r.c \in Nat
Checked(rows) ==
  /\ IsSeq(rows) /\ \A r \in ToSet(rows) : Typed(r) /\ Sound(r)
  /\ \A r, t \in ToSet(rows) : r.uid = t.uid => r.safe = t.safe

LEMMA RowsAre ==
  ASSUME NEW rows \in Workbook
  PROVE  /\ IsSeq(AssignMissingUniqueIds(rows))
         /\ \A r \in ToSet(AssignMissingUniqueIds(rows)) : Typed(r)
<1> DEFINE s == AssignMissingUniqueIds(rows)
<1>1. rows \in Seq(Row)
  BY DEF Workbook
<1>2. Len(rows) \in Nat /\ DOMAIN rows = 1..Len(rows) /\ \A i \in 1..Len(rows) : rows[i] \in Row
  BY <1>1, LenProperties, ElementOfSeq
<1>3. DOMAIN s = 1..Len(rows) /\ s = [i \in 1..Len(rows) |-> s[i]]
  BY <1>2 DEF AssignMissingUniqueIds
<1>4. ASSUME NEW i \in 1..Len(rows) PROVE Typed(s[i])
  <2>1. rows[i] \in Row
    BY <1>2
  <2>2. s[i] = IF rows[i].uid # 0 THEN rows[i]
               ELSE [rows[i] EXCEPT !.uid = VoucherNumber(rows, i)]
    BY <1>2 DEF AssignMissingUniqueIds
  <2>3. QED
    BY <2>1, <2>2 DEF Row, Typed
<1> HIDE DEF s
<1>5. IsSeq(s) /\ \A r \in ToSet(s) : Typed(r)
  BY <1>2, <1>3, <1>4, SeqMade DEF ToSet
<1>6. QED
  BY <1>5 DEF s

(* The validation of the source leaves entries of one safe type, with an   *)
(* invoice for every trade vendor of a Vendor Payment and withholding only *)
(* where something is settled.                                             *)
LEMMA ValidatedRows ==
  ASSUME NEW co, NEW rows, IsSeq(rows), \A r \in ToSet(rows) : Typed(r),
         ValidateCashOutSource(co, rows)
  PROVE  Checked(rows)
<1> DEFINE E == BuildUniqueIdMap(rows)
<1>1. Entries(rows, E)
  BY EntriesAre
<1>2. /\ \A i \in DOMAIN rows :
          /\ IsWithholdingLedgerLine(rows[i]) => rows[i].safe \in Settling
          /\ SettlementTargetKnown(co, rows[i])
      /\ \A n \in DOMAIN E : \A i \in DOMAIN E[n] : E[n][i].safe = E[n][1].safe
  BY DEF ValidateCashOutSource
<1> HIDE DEF E
<1>3. \A r \in ToSet(rows) : Sound(r)
  BY <1>2 DEF Sound, SettlementTargetKnown, IsWithholdingLedgerLine, ToSet
<1>4. ASSUME NEW r \in ToSet(rows), NEW t \in ToSet(rows), r.uid = t.uid
      PROVE  r.safe = t.safe
  <2>1. PICK n \in DOMAIN E : E[n][1].uid = r.uid
    BY <1>1 DEF Entries
  <2>2. r \in ToSet(E[n]) /\ t \in ToSet(E[n])
    BY <1>1, <1>4, <2>1 DEF Entries
  <2>3. QED
    BY <1>2, <2>2 DEF ToSet
<1>5. QED
  BY <1>3, <1>4 DEF Checked

LEMMA GoodMonth ==
  ASSUME NEW co, NEW R, \A r \in R : Typed(r), NEW l, Good(co, R, l)
  PROVE  l.month \in Nat
BY DEF Good, ComesFrom, Typed

LEMMA GoodNumbered ==
  ASSUME NEW co, NEW R, NEW l, Good(co, R, l), NEW j
  PROVE  Good(co, R, At(l, j))
<1> DEFINE x == At(l, j)
<1>1. /\ IsLine(x) /\ x.uid = l.uid /\ x.safe = l.safe /\ x.type = l.type /\ x.month = l.month
      /\ x.route = l.route /\ x.co = l.co /\ x.acct = l.acct /\ x.inv = l.inv
      /\ x.mark = l.mark /\ x.error = l.error
  BY DEF Good, IsLine, At
<1> HIDE DEF x
<1>2. Good(co, R, x)
  BY <1>1 DEF Good, ComesFrom, SaysWhatItSettles
<1>3. QED
  BY <1>2 DEF x

LEMMA FormatGood ==
  ASSUME NEW co, NEW rows, Checked(rows)
  PROVE  AllGood(co, ToSet(rows), UpdateCashBatchAndVoucher(BuildInvoiceLines(co, rows)))
<1> DEFINE R == ToSet(rows)
           built == BuildInvoiceLines(co, rows)
           out == UpdateCashBatchAndVoucher(built)
<1>1. AllGood(co, R, built)
  BY InvoiceLinesGood DEF Checked
<1>2. \A r \in R : Typed(r)
  BY DEF Checked
<1> HIDE DEF built, R
<1>3. IsSeq(built) /\ \A l \in ToSet(built) : l.month \in Nat
  BY <1>1, <1>2, GoodMonth DEF AllGood
<1>4. IsSeq(out) /\ ToSet(out) \subseteq Numbered(ToSet(built))
  BY <1>3, NumberedAre
<1> HIDE DEF out
<1>5. ASSUME NEW x \in ToSet(out) PROVE Good(co, R, x)
  <2>1. PICK j \in Nat : x \in {At(l, j) : l \in ToSet(built)}
    BY <1>4 DEF Numbered
  <2>2. PICK l \in ToSet(built) : x = At(l, j)
    BY <2>1
  <2>3. QED
    BY <1>1, <2>2, GoodNumbered DEF AllGood
<1>6. AllGood(co, R, out)
  BY <1>4, <1>5 DEF AllGood
<1>7. QED
  BY <1>6 DEF R, out, built

(* The validation before the batch is stored sets errors and no more.      *)
LEMMA GoodMarked ==
  ASSUME NEW co, NEW R, \A r \in R : Typed(r), NEW l, Good(co, R, l),
         NEW e \in BOOLEAN, l.error => e
  PROVE  Good(co, R, [l EXCEPT !.error = e])
<1> DEFINE x == [l EXCEPT !.error = e]
<1>1. l.month \in Nat
  BY GoodMonth
<1>2. /\ IsLine(x) /\ x.uid = l.uid /\ x.safe = l.safe /\ x.type = l.type /\ x.month = l.month
      /\ x.route = l.route /\ x.co = l.co /\ x.acct = l.acct /\ x.inv = l.inv
      /\ x.mark = l.mark /\ x.error = e
  BY DEF Good, IsLine
<1> HIDE DEF x
<1>3. \E r \in R : l.uid = r.uid
  BY DEF Good, ComesFrom
<1>4. CASE e = TRUE
  <2>1. Good(co, R, x)
    BY <1>1, <1>2, <1>3, <1>4 DEF Good
  <2>2. QED
    BY <2>1 DEF x
<1>5. CASE e = FALSE
  <2>1. l.error = FALSE
    BY <1>5 DEF Good
  <2>2. Good(co, R, x)
    BY <1>2, <1>5, <2>1 DEF Good, ComesFrom, SaysWhatItSettles
  <2>3. QED
    BY <2>2 DEF x
<1>6. QED
  BY <1>4, <1>5

-----------------------------------------------------------------------------
(* What is posted settles what the stored lines settle, or, against a      *)
(* vendor line, what that line settles.                                    *)
Settles(co, l) ==
  /\ l.co = co
  /\ l.mark # NoInvoice /\ (l.safe \in Settling \/ l.off \notin OtherWithholding)
       => <<co, l.mark, l.acct>> \in Invoiced
Stored(co, rows, ls) ==
  /\ AllGood(co, ToSet(rows), ls)
  /\ \A l \in ToSet(ls) : /\ l.error = FALSE
                          /\ l.mark # NoInvoice => <<co, l.mark, l.acct>> \in Invoiced

LEMMA RewrittenSettles ==
  ASSUME NEW co, NEW rows, Checked(rows), NEW ls, Stored(co, rows, ls),
         NEW g, ToSet(g) \subseteq ToSet(ls), NEW x, Rewritten(g, x)
  PROVE  Settles(co, x)
<1>1. PICK l \in ToSet(g) : \/ ~IsWithholdingAccount(l) /\ x = l
                            \/ /\ IsWithholdingAccount(l)
                               /\ \E v \in ToSet(g) : RewrittenFrom(g, x, l, v)
  BY DEF Rewritten
<1>2. \A y \in ToSet(g) :
        /\ y.co = co /\ SaysWhatItSettles(y)
        /\ \E r \in ToSet(rows) : y.uid = r.uid /\ y.safe = r.safe
        /\ y.mark # NoInvoice => <<co, y.mark, y.acct>> \in Invoiced
  BY DEF Stored, AllGood, Good, ComesFrom
<1>3. ASSUME NEW y \in ToSet(g), NEW z \in ToSet(g), y.uid = z.uid PROVE y.safe = z.safe
  <2>1. PICK r \in ToSet(rows) : y.uid = r.uid /\ y.safe = r.safe
    BY <1>2
  <2>2. PICK t \in ToSet(rows) : z.uid = t.uid /\ z.safe = t.safe
    BY <1>2
  <2>3. QED
    BY <1>3, <2>1, <2>2 DEF Checked
<1>4. CASE x = l
  BY <1>2, <1>4 DEF Settles
<1>5. CASE IsWithholdingAccount(l) /\ \E v \in ToSet(g) : RewrittenFrom(g, x, l, v)
  <2>1. PICK v \in ToSet(g) : RewrittenFrom(g, x, l, v)
    BY <1>5
  <2>2. /\ x.co = l.co /\ x.safe = l.safe /\ v.acct \in Vendors /\ v.uid = l.uid
        /\ x.acct = v.acct /\ x.off = l.acct /\ x.mark = RewrittenMark(g, v)
    BY <2>1 DEF RewrittenFrom, SameEntry
  <2>3. v.safe = l.safe /\ x.co = co
    BY <1>2, <1>3, <2>2
  <2>4. l.acct \notin OtherWithholding => l.acct \in Withholding
    BY <1>5 DEF IsWithholdingAccount, IsCashOutLedgerWithholdingMainAccount
  <2>5. ASSUME x.mark # NoInvoice, x.safe \in Settling \/ x.off \notin OtherWithholding
        PROVE  <<co, x.mark, x.acct>> \in Invoiced
    <3>1. v.safe \in Settling
      <4>1. x.off \notin OtherWithholding => l.safe \in Settling
        BY <1>2, <2>2, <2>4 DEF SaysWhatItSettles
      <4>2. QED
        BY <2>2, <2>3, <2>5, <4>1
    <3>2. CASE v.mark # NoInvoice
      <4>1. x.mark = v.mark
        BY <2>2, <3>2 DEF RewrittenMark
      <4>2. QED
        BY <1>2, <2>2, <3>2, <4>1
    <3>3. CASE v.mark = NoInvoice /\ v.inv # NoInvoice
      <4>1. v.acct \in CustodyVendors
        BY <1>2, <2>2, <3>1, <3>3 DEF SaysWhatItSettles
      <4>2. x.mark = InvoiceMark(v, v.inv)
        BY <2>2, <3>3 DEF RewrittenMark
      <4>3. QED
        BY <2>5, <4>1, <4>2 DEF InvoiceMark
    <3>4. CASE v.mark = NoInvoice /\ v.inv = NoInvoice
      <4>1. x.mark = NoInvoice
        BY <2>2, <3>1, <3>4 DEF RewrittenMark
      <4>2. QED
        BY <2>5, <4>1
    <3>5. QED
      BY <3>2, <3>3, <3>4
  <2>6. QED
    BY <2>3, <2>5 DEF Settles
<1>6. QED
  BY <1>1, <1>4, <1>5

LEMMA JournalsAre ==
  ASSUME NEW ls, IsSeq(ls), \A l \in ToSet(ls) : IsLine(l)
  PROVE  LET G == GroupRecordsByJournalBatchNumber(ls)
             J == MapToJournals(ls)
         IN /\ Groups(ls, G) /\ IsSeq(J) /\ DOMAIN J = DOMAIN G
            /\ \A n \in DOMAIN G :
                 /\ IsSeq(J[n]) /\ Len(J[n]) <= Len(G[n]) /\ ToSet(G[n]) \subseteq ToSet(ls)
                 /\ \A x \in ToSet(J[n]) : Rewritten(G[n], x)
<1> DEFINE G == GroupRecordsByJournalBatchNumber(ls)
           J == MapToJournals(ls)
<1>1. Groups(ls, G)
  BY GroupsAre
<1>2. J = [n \in DOMAIN G |-> RewriteCashOutLedgerWithholdingLines(G[n])]
  BY DEF MapToJournals
<1> HIDE DEF G, J
<1>3. Len(G) \in Nat /\ DOMAIN G = 1..Len(G)
  BY <1>1, SeqIs DEF Groups
<1>4. IsSeq(J) /\ DOMAIN J = DOMAIN G
  BY <1>2, <1>3, SeqMade
<1>5. ASSUME NEW n \in DOMAIN G
      PROVE  /\ IsSeq(J[n]) /\ Len(J[n]) <= Len(G[n]) /\ ToSet(G[n]) \subseteq ToSet(ls)
             /\ \A x \in ToSet(J[n]) : Rewritten(G[n], x)
  <2>1. IsSeq(G[n]) /\ ToSet(G[n]) \subseteq ToSet(ls)
    BY <1>1 DEF Groups
  <2>2. J[n] = RewriteCashOutLedgerWithholdingLines(G[n])
    BY <1>2
  <2>3. QED
    BY <2>1, <2>2, RewriteIs
<1>6. QED
  BY <1>1, <1>4, <1>5 DEF G, J

LEMMA PostedSettles ==
  ASSUME NEW co, NEW rows, Checked(rows), NEW ls, Stored(co, rows, ls)
  PROVE  \A x \in ToSet(FlattenSeq(MapToJournals(ls))) : Settles(co, x)
<1> DEFINE G == GroupRecordsByJournalBatchNumber(ls)
           J == MapToJournals(ls)
<1>1. IsSeq(ls) /\ \A l \in ToSet(ls) : IsLine(l)
  BY DEF Stored, AllGood, Good
<1>2. /\ IsSeq(J) /\ DOMAIN J = DOMAIN G
      /\ \A n \in DOMAIN G :
           /\ IsSeq(J[n]) /\ ToSet(G[n]) \subseteq ToSet(ls)
           /\ \A x \in ToSet(J[n]) : Rewritten(G[n], x)
  BY <1>1, JournalsAre
<1> HIDE DEF G, J
<1>3. ToSet(FlattenSeq(J)) = UNION {ToSet(J[n]) : n \in DOMAIN J}
  BY <1>2, FlattenIs
<1>4. ASSUME NEW n \in DOMAIN J, NEW x \in ToSet(J[n]) PROVE Settles(co, x)
  <2>1. ToSet(G[n]) \subseteq ToSet(ls) /\ Rewritten(G[n], x)
    BY <1>2
  <2>2. QED
    BY <2>1, RewrittenSettles
<1>5. \A x \in ToSet(FlattenSeq(J)) : Settles(co, x)
  BY <1>3, <1>4
<1>6. QED
  BY <1>5 DEF J

-----------------------------------------------------------------------------
(* The states of a request, and what its lines are in each of them.  The   *)
(* company that is asked, and that the lines name, is that of the request  *)
(* as long as it has the processor to itself.                              *)
Formatted(u) == pc[u] \in {"lookup", "stored", "posted"}
FilesTyped ==
  /\ file \in Workbooks
  /\ pc \in [Uploads -> {"idle", "warmup", "source", "refused", "rates", "lookup", "stored",
                         "posted"}]
  /\ DOMAIN asked = Uploads /\ DOMAIN lines = Uploads /\ DOMAIN journals = Uploads
OwnCompany ==
  \A u \in Uploads \ shared :
    /\ Inside(u) => company = CompanyOf[u]
    /\ pc[u] \in {"source", "rates", "lookup", "stored", "posted"} => asked[u] = CompanyOf[u]
RowsChecked ==
  \A u \in Uploads : pc[u] = "rates" \/ Formatted(u) => Checked(Rows(u))
LinesGood ==
  \A u \in Uploads \ shared :
    /\ Formatted(u) => AllGood(CompanyOf[u], ToSet(Rows(u)), lines[u])
    /\ pc[u] \in {"stored", "posted"} =>
         \A l \in ToSet(lines[u]) :
           l.error = FALSE /\ l.mark # NoInvoice => <<CompanyOf[u], l.mark, l.acct>> \in Invoiced
JournalsOfLines ==
  \A u \in Uploads :
    IF pc[u] = "posted"
    THEN journals[u] = MapToJournals(lines[u]) /\ ErrorCount(u) = 0
    ELSE journals[u] = <<>>
SettleInv == FilesTyped /\ OwnCompany /\ RowsChecked /\ LinesGood /\ JournalsOfLines

LEMMA NoErrors ==
  ASSUME NEW u \in Uploads, IsSeq(lines[u]), ErrorCount(u) = 0,
         \A l \in ToSet(lines[u]) : l.error \in BOOLEAN
  PROVE  \A l \in ToSet(lines[u]) : l.error = FALSE
<1> DEFINE s == lines[u]
           bad == {i \in DOMAIN s : s[i].error}
<1>1. Len(s) \in Nat /\ DOMAIN s = 1..Len(s)
  BY SeqIs
<1>2. Cardinality(bad) = 0
  BY DEF ErrorCount
<1>3. bad \subseteq 1..Len(s)
  BY <1>1
<1> HIDE DEF bad
<1>4. IsFiniteSet(bad)
  BY <1>1, <1>3, UpTo, FS_Subset
<1>5. bad = {}
  BY <1>2, <1>4, FS_EmptySet
<1>6. QED
  BY <1>5 DEF bad, ToSet

LEMMA GoodErrors ==
  ASSUME NEW co, NEW R, NEW s, AllGood(co, R, s)
  PROVE  IsSeq(s) /\ \A l \in ToSet(s) : l.error \in BOOLEAN
BY DEF AllGood, Good

LEMMA SettleInvImplies == SettleInv => SettlesInItsCompany
<1> SUFFICES ASSUME SettleInv, NEW u \in Uploads \ shared, Accepted(u)
             PROVE  \A l \in ToSet(lines[u]) \cup ToSet(PostedLines(u)) : Settles(CompanyOf[u], l)
  BY DEF SettlesInItsCompany, Settles
<1> DEFINE co == CompanyOf[u]
<1>1. pc[u] \in {"stored", "posted"} /\ ErrorCount(u) = 0
  BY DEF Accepted
<1>2. Checked(Rows(u)) /\ AllGood(co, ToSet(Rows(u)), lines[u])
  BY <1>1 DEF SettleInv, RowsChecked, LinesGood, Formatted
<1>3. \A l \in ToSet(lines[u]) : l.error = FALSE
  BY <1>1, <1>2, GoodErrors, NoErrors
<1>4. \A l \in ToSet(lines[u]) : l.mark # NoInvoice => <<co, l.mark, l.acct>> \in Invoiced
  BY <1>1, <1>3 DEF SettleInv, LinesGood
<1>5. Stored(co, Rows(u), lines[u])
  BY <1>2, <1>3, <1>4 DEF Stored
<1>6. \A l \in ToSet(lines[u]) : Settles(co, l)
  BY <1>2, <1>3, <1>4 DEF Settles, AllGood, Good
<1>7. \A l \in ToSet(PostedLines(u)) : Settles(co, l)
  <2>1. CASE pc[u] = "posted"
    <3>1. PostedLines(u) = FlattenSeq(MapToJournals(lines[u]))
      BY <2>1 DEF SettleInv, JournalsOfLines, PostedLines
    <3>2. QED
      BY <1>2, <1>5, <3>1, PostedSettles
  <2>2. CASE pc[u] = "stored"
    <3>1. PostedLines(u) = FlattenSeq(<<>>)
      BY <2>2 DEF SettleInv, JournalsOfLines, PostedLines
    <3>2. DOMAIN <<>> = {} /\ IsSeq(<<>>)
      BY EmptyIs
    <3>3. ToSet(FlattenSeq(<<>>)) = UNION {ToSet(<<>>[n]) : n \in DOMAIN <<>>}
      BY <3>2, FlattenIs
    <3>4. QED
      BY <3>1, <3>2, <3>3
  <2>3. QED
    BY <1>1, <2>1, <2>2
<1>8. QED
  BY <1>6, <1>7

-----------------------------------------------------------------------------
LEMMA SettleInit == Init => SettleInv
<1> SUFFICES ASSUME Init PROVE SettleInv
  OBVIOUS
<1>1. FilesTyped /\ OwnCompany /\ RowsChecked /\ JournalsOfLines
  BY DEF Init, FilesTyped, OwnCompany, RowsChecked, JournalsOfLines, Inside, Formatted
<1>2. LinesGood
  BY DEF Init, LinesGood, Formatted
<1>3. QED
  BY <1>1, <1>2 DEF SettleInv

(* Whoever enters while another is inside makes both of them shared.       *)
LEMMA BeginSettles ==
  ASSUME SettleInv, NEW u \in Uploads, Begin(u)
  PROVE  SettleInv'
<1>1. /\ pc[u] = "idle" /\ company' = CompanyOf[u] /\ pc' = [pc EXCEPT ![u] = "warmup"]
      /\ file' = file /\ asked' = asked /\ lines' = lines /\ journals' = journals
  BY DEF Begin, Goto
<1>2. /\ FilesTyped' /\ DOMAIN pc = Uploads /\ pc'[u] = "warmup"
      /\ \A v \in Uploads : v # u => pc'[v] = pc[v]
  BY <1>1 DEF SettleInv, FilesTyped
<1>3. /\ shared \subseteq shared'
      /\ \A v \in Uploads \ {u} : Inside(v) => v \in shared'
  <2> DEFINE others == {v \in Uploads \ {u} : Inside(v)}
  <2>1. shared' = IF others = {} THEN shared ELSE shared \cup others \cup {u}
    BY DEF Begin
  <2>2. \A v \in Uploads \ {u} : Inside(v) => v \in others
    OBVIOUS
  <2> HIDE DEF others
  <2>3. QED
    BY <2>1, <2>2
<1>4. OwnCompany'
  <2> SUFFICES ASSUME NEW v \in Uploads, v \notin shared'
               PROVE  /\ Inside(v)' => company' = CompanyOf[v]
                      /\ pc'[v] \in {"source", "rates", "lookup", "stored", "posted"} =>
                           asked'[v] = CompanyOf[v]
    BY DEF OwnCompany
  <2>1. CASE v = u
    BY <1>1, <1>2, <2>1
  <2>2. CASE v # u
    <3>1. pc'[v] = pc[v] /\ v \notin shared /\ ~Inside(v)
      BY <1>2, <1>3, <2>2
    <3>2. QED
      BY <1>1, <3>1 DEF SettleInv, OwnCompany, Inside
  <2>3. QED
    BY <2>1, <2>2
<1>5. Rows(u)' = Rows(u) /\ \A v \in Uploads : Rows(v)' = Rows(v) /\ ErrorCount(v)' = ErrorCount(v)
  BY <1>1 DEF Rows, ErrorCount
<1>6. RowsChecked'
  BY <1>2, <1>5 DEF SettleInv, RowsChecked, Formatted
<1>7. LinesGood'
  BY <1>1, <1>2, <1>3, <1>5 DEF SettleInv, LinesGood, Formatted
<1>8. JournalsOfLines'
  BY <1>1, <1>2, <1>5 DEF SettleInv, JournalsOfLines
<1>9. QED
  BY <1>2, <1>4, <1>6, <1>7, <1>8 DEF SettleInv

LEMMA AskSourceSettles ==
  ASSUME SettleInv, NEW u \in Uploads, AskSource(u)
  PROVE  SettleInv'
<1>1. /\ pc[u] = "warmup" /\ asked' = [asked EXCEPT ![u] = company]
      /\ pc' = [pc EXCEPT ![u] = "source"]
      /\ file' = file /\ company' = company /\ lines' = lines /\ journals' = journals
      /\ shared' = shared
  BY DEF AskSource, Goto
<1>2. /\ FilesTyped' /\ pc'[u] = "source" /\ asked'[u] = company
      /\ \A v \in Uploads : v # u => pc'[v] = pc[v] /\ asked'[v] = asked[v]
  BY <1>1 DEF SettleInv, FilesTyped
<1>3. OwnCompany'
  BY <1>1, <1>2 DEF SettleInv, OwnCompany, Inside
<1>4. \A v \in Uploads : Rows(v)' = Rows(v) /\ ErrorCount(v)' = ErrorCount(v)
  BY <1>1 DEF Rows, ErrorCount
<1>5. RowsChecked'
  BY <1>2, <1>4 DEF SettleInv, RowsChecked, Formatted
<1>6. LinesGood'
  BY <1>1, <1>2, <1>4 DEF SettleInv, LinesGood, Formatted
<1>7. JournalsOfLines'
  BY <1>1, <1>2, <1>4 DEF SettleInv, JournalsOfLines
<1>8. QED
  BY <1>2, <1>3, <1>5, <1>6, <1>7 DEF SettleInv

LEMMA ValidateSourceSettles ==
  ASSUME SettleInv, NEW u \in Uploads, ValidateSource(u)
  PROVE  SettleInv'
<1> DEFINE to == IF ValidateCashOutSource(asked[u], Rows(u)) THEN "rates" ELSE "refused"
<1>1. /\ pc[u] = "source" /\ pc' = [pc EXCEPT ![u] = to]
      /\ file' = file /\ company' = company /\ asked' = asked /\ lines' = lines
      /\ journals' = journals /\ shared' = shared
  BY DEF ValidateSource, Goto
<1>2. to \in {"rates", "refused"} /\ (to = "rates" => ValidateCashOutSource(asked[u], Rows(u)))
  OBVIOUS
<1> HIDE DEF to
<1>3. FilesTyped' /\ pc'[u] = to /\ \A v \in Uploads : v # u => pc'[v] = pc[v]
  BY <1>1, <1>2 DEF SettleInv, FilesTyped
<1>4. OwnCompany'
  BY <1>1, <1>2, <1>3 DEF SettleInv, OwnCompany, Inside
<1>5. \A v \in Uploads : Rows(v)' = Rows(v) /\ ErrorCount(v)' = ErrorCount(v)
  BY <1>1 DEF Rows, ErrorCount
<1>6. to = "rates" => Checked(Rows(u))
  <2>1. file[u] \in Workbook
    BY CashOutAssumption DEF SettleInv, FilesTyped
  <2>2. IsSeq(Rows(u)) /\ \A r \in ToSet(Rows(u)) : Typed(r)
    BY <2>1, RowsAre DEF Rows
  <2>3. QED
    BY <1>2, <2>2, ValidatedRows
<1>7. RowsChecked'
  BY <1>2, <1>3, <1>5, <1>6 DEF SettleInv, RowsChecked, Formatted
<1>8. LinesGood'
  BY <1>1, <1>2, <1>3, <1>5 DEF SettleInv, LinesGood, Formatted
<1>9. JournalsOfLines'
  BY <1>1, <1>2, <1>3, <1>5 DEF SettleInv, JournalsOfLines
<1>10. QED
  BY <1>3, <1>4, <1>7, <1>8, <1>9 DEF SettleInv

LEMMA FormatSettles ==
  ASSUME SettleInv, NEW u \in Uploads, Format(u)
  PROVE  SettleInv'
<1> DEFINE new == UpdateCashBatchAndVoucher(BuildInvoiceLines(company, Rows(u)))
<1>1. /\ pc[u] = "rates" /\ pc' = [pc EXCEPT ![u] = "lookup"]
      /\ lines' = [lines EXCEPT ![u] = new] /\ asked' = [asked EXCEPT ![u] = company]
      /\ file' = file /\ company' = company /\ journals' = journals /\ shared' = shared
  BY DEF Format, Goto
<1> HIDE DEF new
<1>2. /\ FilesTyped' /\ pc'[u] = "lookup" /\ asked'[u] = company /\ lines'[u] = new
      /\ \A v \in Uploads : v # u => /\ pc'[v] = pc[v] /\ asked'[v] = asked[v]
                                     /\ lines'[v] = lines[v]
  BY <1>1 DEF SettleInv, FilesTyped
<1>3. OwnCompany'
  BY <1>1, <1>2 DEF SettleInv, OwnCompany, Inside
<1>4. \A v \in Uploads : Rows(v)' = Rows(v) /\ (v # u => ErrorCount(v)' = ErrorCount(v))
  BY <1>1, <1>2 DEF Rows, ErrorCount
<1>5. RowsChecked'
  BY <1>1, <1>2, <1>4 DEF SettleInv, RowsChecked, Formatted
<1>6. u \notin shared => AllGood(CompanyOf[u], ToSet(Rows(u)), new)
  <2>1. Checked(Rows(u))
    BY <1>1 DEF SettleInv, RowsChecked
  <2>2. AllGood(company, ToSet(Rows(u)), new)
    BY <2>1, FormatGood DEF new
  <2>3. u \notin shared => company = CompanyOf[u]
    BY <1>1 DEF SettleInv, OwnCompany, Inside
  <2>4. QED
    BY <2>2, <2>3
<1>7. LinesGood'
  BY <1>1, <1>2, <1>4, <1>6 DEF SettleInv, LinesGood, Formatted
<1>8. JournalsOfLines'
  BY <1>1, <1>2, <1>4 DEF SettleInv, JournalsOfLines
<1>9. QED
  BY <1>2, <1>3, <1>5, <1>7, <1>8 DEF SettleInv

LEMMA ValidateSettles ==
  ASSUME SettleInv, NEW u \in Uploads, Validate(u)
  PROVE  SettleInv'
<1> DEFINE old == lines[u]
           co == CompanyOf[u]
           bad(l) == \/ l.error
                     \/ l.uid \in unbalanced
                     \/ l.mark # NoInvoice /\ <<asked[u], l.mark, l.acct>> \notin Invoiced
           new == [i \in DOMAIN old |-> [old[i] EXCEPT !.error = bad(old[i])]]
<1>1. /\ pc[u] = "lookup" /\ pc' = [pc EXCEPT ![u] = "stored"]
      /\ lines' = [lines EXCEPT ![u] = new] /\ asked' = asked
      /\ file' = file /\ company' = company /\ journals' = journals /\ shared' = shared
  BY DEF Validate, Goto, Invalid, SettleInv, FilesTyped
<1>2. /\ FilesTyped' /\ pc'[u] = "stored" /\ lines'[u] = new
      /\ \A v \in Uploads : v # u => pc'[v] = pc[v] /\ lines'[v] = lines[v]
  <2> HIDE DEF new
  <2>1. QED
    BY <1>1 DEF SettleInv, FilesTyped
<1>3. OwnCompany'
  <2> HIDE DEF new
  <2>1. QED
    BY <1>1, <1>2 DEF SettleInv, OwnCompany, Inside
<1>4. \A v \in Uploads : Rows(v)' = Rows(v) /\ (v # u => ErrorCount(v)' = ErrorCount(v))
  <2> HIDE DEF new
  <2>1. QED
    BY <1>1, <1>2 DEF Rows, ErrorCount
<1>5. RowsChecked'
  <2> HIDE DEF new
  <2>1. QED
    BY <1>1, <1>2, <1>4 DEF SettleInv, RowsChecked, Formatted
<1>6. ASSUME u \notin shared
      PROVE  /\ AllGood(co, ToSet(Rows(u)), new)
             /\ \A l \in ToSet(new) :
                  l.error = FALSE /\ l.mark # NoInvoice => <<co, l.mark, l.acct>> \in Invoiced
  <2>1. Checked(Rows(u)) /\ AllGood(co, ToSet(Rows(u)), old) /\ asked[u] = co
    BY <1>1, <1>6 DEF SettleInv, RowsChecked, LinesGood, OwnCompany, Formatted
  <2>2. IsSeq(old) /\ Len(old) \in Nat /\ DOMAIN old = 1..Len(old)
    BY <2>1, SeqIs DEF AllGood
  <2>3. ASSUME NEW i \in 1..Len(old)
        PROVE  /\ Good(co, ToSet(Rows(u)), new[i])
               /\ new[i].error = FALSE /\ new[i].mark # NoInvoice
                    => <<co, new[i].mark, new[i].acct>> \in Invoiced
    <3> DEFINE l == old[i]
               e == bad(l)
               x == [l EXCEPT !.error = e]
    <3>1. new[i] = x
      BY <2>2
    <3>2. Good(co, ToSet(Rows(u)), l)
      BY <2>1, <2>2 DEF AllGood, ToSet
    <3>3. e \in BOOLEAN /\ (l.error => e)
      BY <3>2 DEF Good
    <3>4. e = FALSE /\ l.mark # NoInvoice => <<co, l.mark, l.acct>> \in Invoiced
      BY <2>1
    <3> HIDE DEF l, e
    <3>5. Good(co, ToSet(Rows(u)), x)
      <4>1. \A r \in ToSet(Rows(u)) : Typed(r)
        BY <2>1 DEF Checked
      <4>2. QED
        BY <3>2, <3>3, <4>1, GoodMarked
    <3>6. x.error = e /\ x.mark = l.mark /\ x.acct = l.acct
      BY <3>2 DEF Good, IsLine
    <3> HIDE DEF x
    <3>7. QED
      BY <3>1, <3>4, <3>5, <3>6
  <2>4. DOMAIN new = 1..Len(old) /\ new = [i \in 1..Len(old) |-> new[i]]
    BY <2>2
  <2> HIDE DEF new
  <2>5. IsSeq(new)
    BY <2>2, <2>4, SeqMade
  <2>6. QED
    BY <2>3, <2>4, <2>5 DEF AllGood, ToSet
<1> HIDE DEF new
<1>7. LinesGood'
  BY <1>1, <1>2, <1>4, <1>6 DEF SettleInv, LinesGood, Formatted
<1>8. JournalsOfLines'
  BY <1>1, <1>2, <1>4 DEF SettleInv, JournalsOfLines
<1>9. QED
  BY <1>2, <1>3, <1>5, <1>7, <1>8 DEF SettleInv

LEMMA PostSettles ==
  ASSUME SettleInv, NEW u \in Uploads, Post(u)
  PROVE  SettleInv'
<1> DEFINE new == MapToJournals(lines[u])
<1>1. /\ pc[u] = "stored" /\ pc' = [pc EXCEPT ![u] = "posted"] /\ ErrorCount(u) = 0
      /\ journals' = [journals EXCEPT ![u] = new]
      /\ file' = file /\ company' = company /\ asked' = asked /\ lines' = lines
      /\ shared' = shared
  BY DEF Post, Goto
<1> HIDE DEF new
<1>2. /\ FilesTyped' /\ pc'[u] = "posted" /\ journals'[u] = new
      /\ \A v \in Uploads : v # u => pc'[v] = pc[v] /\ journals'[v] = journals[v]
  BY <1>1 DEF SettleInv, FilesTyped
<1>3. OwnCompany'
  BY <1>1, <1>2 DEF SettleInv, OwnCompany, Inside
<1>4. \A v \in Uploads : Rows(v)' = Rows(v) /\ ErrorCount(v)' = ErrorCount(v)
  BY <1>1 DEF Rows, ErrorCount
<1>5. RowsChecked'
  BY <1>1, <1>2, <1>4 DEF SettleInv, RowsChecked, Formatted
<1>6. LinesGood'
  BY <1>1, <1>2, <1>4 DEF SettleInv, LinesGood, Formatted
<1>7. JournalsOfLines'
  BY <1>1, <1>2, <1>4 DEF SettleInv, JournalsOfLines, new
<1>8. QED
  BY <1>2, <1>3, <1>5, <1>6, <1>7 DEF SettleInv

LEMMA SettleStep == SettleInv /\ [Next]_vars => SettleInv'
<1> SUFFICES ASSUME SettleInv, [Next]_vars PROVE SettleInv'
  OBVIOUS
<1>1. ASSUME NEW u \in Uploads,
             \/ Begin(u) \/ AskSource(u) \/ ValidateSource(u)
             \/ Format(u) \/ Validate(u) \/ Post(u)
      PROVE  SettleInv'
  BY <1>1, BeginSettles, AskSourceSettles, ValidateSourceSettles, FormatSettles,
     ValidateSettles, PostSettles
<1>2. CASE UNCHANGED vars
  BY <1>2 DEF vars, SettleInv, FilesTyped, OwnCompany, RowsChecked, LinesGood, JournalsOfLines,
              Inside, Formatted, Rows, ErrorCount
<1>3. QED
  BY <1>1, <1>2 DEF Next

(* What a file of its own posts, for any workbooks, companies and          *)
(* processor schedule, names its company and settles invoices that its     *)
(* vendors have there: through the builders of the lines, the numbering,   *)
(* the look-up and the rewriting of withholding on posting.                *)
THEOREM PostsInItsCompany == Spec => []SettlesInItsCompany
<1>1. Spec => []SettleInv
  BY SettleInit, SettleStep, PTL DEF Spec
<1>2. QED
  BY <1>1, SettleInvImplies, PTL

-----------------------------------------------------------------------------
(* Journals of one kind: how many lines a number has, and which.           *)
With(s, j) == {i \in DOMAIN s : s[i].journal = j}
Bucket(l) == CashVoucherTypeBucket(l.type)
SameKind(x, y) == x.month = y.month /\ Bucket(x) = Bucket(y)
Uniform(L) == \A x, y \in L : x.uid = y.uid => SameKind(x, y)
(* The entries of a numbered sequence stay together, journals are of one   *)
(* kind if entries are, and only a single entry makes one longer.          *)
Together(s) == \A x, y \in ToSet(s) : x.uid = y.uid => x.journal = y.journal
Bounded(s) ==
  \A j \in Nat : \/ Cardinality(With(s, j)) <= MaxLines
                 \/ \A x, y \in ToSet(s) : x.journal = j /\ y.journal = j => x.uid = y.uid
Pure(s) == \A x, y \in ToSet(s) : x.journal = y.journal => SameKind(x, y)
Ranked(s) ==
  /\ IsSeq(s) /\ \A l \in ToSet(s) : l.journal \in Nat
  /\ Together(s) /\ Bounded(s) /\ (Uniform(ToSet(s)) => Pure(s))

LEMMA AtIs ==
  ASSUME NEW l, IsLine(l), NEW j
  PROVE  /\ IsLine(At(l, j)) /\ At(l, j).journal = j /\ At(l, j).uid = l.uid
         /\ At(l, j).route = l.route /\ At(l, j).month = l.month /\ At(l, j).type = l.type
         /\ At(l, j).error = l.error
BY DEF IsLine, At

LEMMA WithIs ==
  ASSUME NEW s, IsSeq(s), NEW j
  PROVE  IsFiniteSet(With(s, j)) /\ Cardinality(With(s, j)) \in Nat
<1>1. Len(s) \in Nat /\ With(s, j) \subseteq 1..Len(s)
  BY SeqIs DEF With
<1>2. QED
  BY <1>1, UpTo, FS_Subset, FS_CardinalityType

(* One more entry adds its length to its journal and nothing to others.    *)
LEMMA WithOneMore ==
  ASSUME NEW s, IsSeq(s), NEW e, IsSeq(e), \A l \in ToSet(e) : IsLine(l), NEW j
  PROVE  LET t == s \o InJournal(e, j)
         IN /\ Cardinality(With(t, j)) = Cardinality(With(s, j)) + Len(e)
            /\ \A m : m # j => With(t, m) = With(s, m)
<1> DEFINE new == InJournal(e, j)
           t == s \o new
           p == Len(s)
           q == Len(e)
           I == (p + 1)..(p + q)
<1>1. /\ IsSeq(new) /\ ToSet(new) = {At(l, j) : l \in ToSet(e)} /\ Len(new) = q
  BY InJournalIs
<1> HIDE DEF new
<1>2. /\ p \in Nat /\ q \in Nat /\ DOMAIN s = 1..p /\ DOMAIN new = 1..q
  BY <1>1, SeqIs
<1>3. /\ IsSeq(t) /\ DOMAIN t = 1..(p + q)
  <2>1. IsSeq(t) /\ Len(t) = p + q
    BY <1>1, ConcatIs
  <2>2. QED
    BY <2>1, SeqIs
<1>4. /\ \A i \in 1..p : t[i] = s[i]
      /\ \A i \in 1..q : t[p + i] = new[i]
  <2>1. s \in Seq(ToSet(s) \cup ToSet(new)) /\ new \in Seq(ToSet(s) \cup ToSet(new))
    BY <1>1, SeqWithin
  <2>2. \A i \in 1..(p + q) : t[i] = IF i <= p THEN s[i] ELSE new[i - p]
    BY <1>1, <2>1, ConcatProperties
  <2> HIDE DEF t, p, q
  <2>3. ASSUME NEW i \in 1..p PROVE t[i] = s[i]
    BY <1>2, <2>2
  <2>4. ASSUME NEW i \in 1..q PROVE t[p + i] = new[i]
    <3> DEFINE k == p + i
    <3>1. k \in 1..(p + q) /\ ~(k <= p) /\ k - p = i
      BY <1>2
    <3> HIDE DEF k
    <3>2. t[k] = new[k - p]
      BY <2>2, <3>1
    <3>3. QED
      BY <3>1, <3>2 DEF k
  <2>5. QED
    BY <2>3, <2>4
<1>5. \A i \in 1..q : new[i].journal = j
  <2>1. \A l \in ToSet(e) : At(l, j).journal = j
    BY AtIs
  <2>2. \A x \in ToSet(new) : x.journal = j
    BY <1>1, <2>1
  <2>3. \A i \in 1..q : new[i] \in ToSet(new)
    BY <1>2 DEF ToSet
  <2>4. QED
    BY <2>2, <2>3
<1> HIDE DEF t, p, q
<1>6. \A i \in I : t[i].journal = j /\ i \in 1..(p + q) /\ i \notin 1..p
  <2> SUFFICES ASSUME NEW i \in I
               PROVE  t[i].journal = j /\ i \in 1..(p + q) /\ i \notin 1..p
    OBVIOUS
  <2> DEFINE k == i - p
  <2>1. k \in 1..q /\ p + k = i /\ i \in 1..(p + q) /\ i \notin 1..p
    BY <1>2
  <2> HIDE DEF k
  <2>2. t[p + k] = new[k]
    BY <1>4, <2>1
  <2>3. QED
    BY <1>5, <2>1, <2>2
<1>7. 1..(p + q) = (1..p) \cup I
  BY <1>2
<1> HIDE DEF I
<1>8. With(t, j) = With(s, j) \cup I
  BY <1>2, <1>3, <1>4, <1>6, <1>7 DEF With
<1>9. \A m : m # j => With(t, m) = With(s, m)
  BY <1>2, <1>3, <1>4, <1>6, <1>7 DEF With
<1>10. With(s, j) \cap I = {}
  BY <1>2, <1>6 DEF With
<1>11. IsFiniteSet(I) /\ Cardinality(I) = q
  <2>1. IsFiniteSet(I) /\ Cardinality(I) = IF p + 1 > p + q THEN 0 ELSE p + q - (p + 1) + 1
    BY <1>2, FS_Interval DEF I
  <2>2. QED
    BY <1>2, <2>1
<1>12. Cardinality(With(t, j)) = Cardinality(With(s, j)) + q
  <2>1. IsFiniteSet(With(s, j)) /\ Cardinality(With(s, j)) \in Nat
    BY WithIs
  <2>2. Cardinality(With(s, j) \cup I) =
          Cardinality(With(s, j)) + Cardinality(I) - Cardinality(With(s, j) \cap I)
    BY <1>11, <2>1, FS_Union
  <2>3. Cardinality(With(s, j) \cap I) = 0
    BY <1>10, FS_EmptySet
  <2>4. QED
    BY <1>2, <1>8, <1>11, <2>1, <2>2, <2>3
<1>13. QED
  BY <1>9, <1>12 DEF t, q, new

(* The state of the numbering after the entries with the given ids.        *)
Chain(L, ids, a) ==
  /\ IsSeq(a.out) /\ \A x \in ToSet(a.out) : IsLine(x) /\ x.uid \in ids
  /\ \A x \in ToSet(a.out) : x.journal \in Nat /\ x.journal <= a.n
  /\ Together(a.out) /\ Bounded(a.out) /\ a.count = Cardinality(With(a.out, a.n))
  /\ Uniform(L) =>
       /\ Pure(a.out)
       /\ \A x \in ToSet(a.out) : x.journal = a.n => x.month = a.month /\ Bucket(x) = a.bucket

LEMMA ChainGrows ==
  ASSUME NEW L, \A l \in L : IsLine(l) /\ l.month \in Nat,
         NEW e, IsSeq(e), e # <<>>, ToSet(e) \subseteq L, \A l \in ToSet(e) : l.uid = e[1].uid,
         NEW a \in Numberings(L), NEW ids, e[1].uid \notin ids, Chain(L, ids, a)
  PROVE  Chain(L, ids \cup {e[1].uid}, NumberEntry(a, e))
<1> DEFINE b == NumberEntry(a, e)
           id == e[1].uid
           opens == OpensJournal(a, e)
           s == a.out
           t == b.out
           new == InJournal(e, b.n)
<1>1. /\ b \in Numberings(L)
      /\ b.n = IF opens THEN a.n + 1 ELSE a.n
      /\ b.count = Len(e) + IF opens THEN 0 ELSE a.count
      /\ b.month = e[1].month /\ b.bucket = CashVoucherTypeBucket(e[1].type)
      /\ t = s \o new
  <2>1. \A l \in L : l.month \in Nat
    OBVIOUS
  <2>2. EntryNumbered(L, a, e, NumberEntry(a, e))
    BY <2>1, NumberEntryIs
  <2>3. QED
    BY <2>2 DEF EntryNumbered
<1>2. /\ opens \in BOOLEAN
      /\ ~opens => /\ a.month = e[1].month /\ a.bucket = CashVoucherTypeBucket(e[1].type)
                   /\ ~(a.count + Len(e) > MaxLines)
  BY DEF OpensJournal
<1> HIDE DEF b, opens
<1>3. a.n \in Nat /\ a.count \in Nat /\ b.n \in Nat
  BY <1>1 DEF Numberings
<1>4. e[1] \in ToSet(e) /\ Len(e) \in Nat /\ e[1] \in L
  BY FirstOf, SeqIs
<1>5. /\ IsSeq(s) /\ \A x \in ToSet(s) : IsLine(x) /\ x.uid \in ids
      /\ \A x \in ToSet(s) : x.journal \in Nat /\ x.journal <= a.n
      /\ Together(s) /\ Bounded(s) /\ a.count = Cardinality(With(s, a.n))
      /\ Uniform(L) =>
           /\ Pure(s)
           /\ \A x \in ToSet(s) : x.journal = a.n => x.month = a.month /\ Bucket(x) = a.bucket
  BY DEF Chain
<1> HIDE DEF s
<1>6. /\ IsSeq(new) /\ ToSet(new) = {At(l, b.n) : l \in ToSet(e)}
      /\ IsSeq(t) /\ ToSet(t) = ToSet(s) \cup ToSet(new)
  <2>1. IsSeq(new) /\ ToSet(new) = {At(l, b.n) : l \in ToSet(e)}
    BY InJournalIs
  <2> HIDE DEF new, t
  <2>2. QED
    BY <1>1, <1>5, <2>1, ConcatIs
<1>7. /\ Cardinality(With(t, b.n)) = Cardinality(With(s, b.n)) + Len(e)
      /\ \A m : m # b.n => With(t, m) = With(s, m)
  <2>1. \A l \in ToSet(e) : IsLine(l)
    OBVIOUS
  <2> DEFINE j == b.n
             w == s \o InJournal(e, j)
  <2>2. w = t
    BY <1>1
  <2> HIDE DEF j, t
  <2>3. /\ Cardinality(With(w, j)) = Cardinality(With(s, j)) + Len(e)
        /\ \A m : m # j => With(w, m) = With(s, m)
    BY <1>5, <2>1, WithOneMore
  <2> HIDE DEF w
  <2>4. QED
    BY <2>2, <2>3 DEF j
<1>8. \A x \in ToSet(new) : /\ IsLine(x) /\ x.uid = id /\ x.journal = b.n
                            /\ \E l \in ToSet(e) : x.month = l.month /\ x.type = l.type
  <2> SUFFICES ASSUME NEW l \in ToSet(e)
               PROVE  /\ IsLine(At(l, b.n)) /\ At(l, b.n).uid = id /\ At(l, b.n).journal = b.n
                      /\ \E k \in ToSet(e) : At(l, b.n).month = k.month /\ At(l, b.n).type = k.type
    BY <1>6
  <2>1. IsLine(l) /\ l.uid = id
    OBVIOUS
  <2>2. QED
    BY <2>1, AtIs
<1> HIDE DEF new, t, id
<1>9. \A x \in ToSet(s) : x.uid # id
  BY <1>5 DEF id
<1>10. opens => \A x \in ToSet(s) : x.journal # b.n
  BY <1>1, <1>3, <1>5
<1>11. IsSeq(t) /\ \A x \in ToSet(t) : IsLine(x) /\ x.uid \in ids \cup {id}
  BY <1>5, <1>6, <1>8
<1>12. \A x \in ToSet(t) : x.journal \in Nat /\ x.journal <= b.n
  <2>1. \A x \in ToSet(s) : x.journal \in Nat /\ x.journal <= b.n
    BY <1>1, <1>3, <1>5
  <2>2. QED
    BY <1>3, <1>6, <1>8, <2>1
<1>13. Together(t)
  BY <1>5, <1>6, <1>8, <1>9 DEF Together
<1>14. b.count = Cardinality(With(t, b.n))
  <2>1. CASE opens
    <3>1. With(s, b.n) = {}
      BY <1>10, <2>1 DEF With, ToSet
    <3>2. Cardinality(With(s, b.n)) = 0
      BY <3>1, FS_EmptySet
    <3>3. QED
      BY <1>1, <1>4, <1>7, <2>1, <3>2
  <2>2. CASE ~opens
    BY <1>1, <1>3, <1>4, <1>5, <1>7, <2>2
  <2>3. QED
    BY <2>1, <2>2
<1>15. Bounded(t)
  <2> SUFFICES ASSUME NEW j \in Nat
               PROVE  \/ Cardinality(With(t, j)) <= MaxLines
                      \/ \A x, y \in ToSet(t) : x.journal = j /\ y.journal = j => x.uid = y.uid
    BY DEF Bounded
  <2>1. CASE j # b.n
    <3>1. With(t, j) = With(s, j)
      BY <1>7, <2>1
    <3>2. \A x \in ToSet(t) : x.journal = j => x \in ToSet(s)
      BY <1>6, <1>8, <2>1
    <3>3. QED
      BY <1>5, <3>1, <3>2 DEF Bounded
  <2>2. CASE j = b.n /\ opens
    <3>1. \A x \in ToSet(t) : x.journal = j => x.uid = id
      BY <1>6, <1>8, <1>10, <2>2
    <3>2. QED
      BY <3>1
  <2>3. CASE j = b.n /\ ~opens
    <3>1. Cardinality(With(t, j)) = a.count + Len(e)
      BY <1>1, <1>3, <1>4, <1>14, <2>3
    <3>2. MaxLines \in Nat
      BY CashOutAssumption
    <3>3. QED
      BY <1>2, <1>3, <1>4, <2>3, <3>1, <3>2
  <2>4. QED
    BY <1>2, <2>1, <2>2, <2>3
<1>16. ASSUME Uniform(L)
       PROVE  /\ Pure(t)
              /\ \A x \in ToSet(t) : x.journal = b.n => x.month = b.month /\ Bucket(x) = b.bucket
  <2>1. \A x \in ToSet(new) : x.month = b.month /\ Bucket(x) = b.bucket
    <3>1. \A l \in ToSet(e) : SameKind(l, e[1])
      BY <1>4, <1>16 DEF Uniform
    <3>2. QED
      BY <1>1, <1>8, <3>1 DEF SameKind, Bucket
  <2>2. \A x \in ToSet(s) : x.journal = b.n => x.month = b.month /\ Bucket(x) = b.bucket
    <3>1. CASE opens
      BY <1>10, <3>1
    <3>2. CASE ~opens
      BY <1>1, <1>2, <1>5, <1>16, <3>2
    <3>3. QED
      BY <1>2, <3>1, <3>2
  <2>3. \A x \in ToSet(t) : x.journal = b.n => x.month = b.month /\ Bucket(x) = b.bucket
    BY <1>6, <2>1, <2>2
  <2>4. ASSUME NEW x \in ToSet(t), NEW y \in ToSet(t), x.journal = y.journal PROVE SameKind(x, y)
    <3>1. CASE x.journal = b.n
      BY <2>3, <2>4, <3>1 DEF SameKind
    <3>2. CASE x.journal # b.n
      <4>1. x \in ToSet(s) /\ y \in ToSet(s)
        BY <1>6, <1>8, <2>4, <3>2
      <4>2. QED
        BY <1>5, <1>16, <2>4, <4>1 DEF Pure
    <3>3. QED
      BY <3>1, <3>2
  <2>5. QED
    BY <2>3, <2>4 DEF Pure
<1>17. QED
  BY <1>11, <1>12, <1>13, <1>14, <1>15, <1>16 DEF Chain, b, t, id

LEMMA NumberedRanked ==
  ASSUME NEW ls, IsSeq(ls), \A l \in ToSet(ls) : IsLine(l) /\ l.month \in Nat
  PROVE  Ranked(UpdateCashBatchAndVoucher(ls))
<1> DEFINE L == ToSet(ls)
           S == SortedEntries(ls)
           n == Len(S)
<1>1. PICK acc : Numbering(ls, acc)
  BY NumberingRuns
<1>2. Entries(ls, S)
  BY SortedAre
<1>3. /\ \A k \in 0..n : acc[k] \in Numberings(L)
      /\ acc[0] = NoEntry
      /\ \A k \in 0..(n - 1) : acc[k + 1] = NumberEntry(acc[k], S[k + 1])
      /\ UpdateCashBatchAndVoucher(ls) = acc[n].out
  BY <1>1 DEF Numbering
<1>4. \A l \in L : IsLine(l) /\ l.month \in Nat
  OBVIOUS
<1> HIDE DEF S, L
<1>6. n \in Nat /\ DOMAIN S = 1..n
  BY <1>2, SeqIs DEF Entries
<1> HIDE DEF n
<1> DEFINE Ids(k) == {S[m][1].uid : m \in 1..k}
           P == {k \in 0..n : Chain(L, Ids(k), acc[k])}
<1>7. ASSUME NEW k \in 0..n PROVE IsSeq(acc[k].out)
  BY <1>3, SeqTyped DEF Numberings
<1>8. 0 \in P
  <2>1. NoEntry.out = <<>> /\ NoEntry.n = 0 /\ NoEntry.count = 0
    BY DEF NoEntry
  <2>2. IsSeq(<<>>) /\ ToSet(<<>>) = {} /\ DOMAIN <<>> = {}
    BY EmptyIs
  <2>3. \A j : Cardinality(With(<<>>, j)) = 0
    <3>1. \A j : With(<<>>, j) = {}
      BY <2>2 DEF With
    <3>2. QED
      BY <3>1, FS_EmptySet
  <2>4. Together(<<>>) /\ Pure(<<>>)
    BY <2>2 DEF Together, Pure
  <2>5. Bounded(<<>>)
    BY <2>2, <2>3 DEF Bounded
  <2>6. Chain(L, Ids(0), NoEntry)
    BY <2>1, <2>2, <2>3, <2>4, <2>5 DEF Chain
  <2>7. 0 \in 0..n
    BY <1>6
  <2>8. QED
    BY <1>3, <2>6, <2>7
<1>9. ASSUME NEW k \in 0..n, k \in P, k < n PROVE k + 1 \in P
  <2>1. k \in 0..(n - 1) /\ k + 1 \in 0..n /\ k + 1 \in 1..n
    BY <1>6, <1>9
  <2> DEFINE a == acc[k]
             e == S[k + 1]
             id == e[1].uid
  <2>2. a \in Numberings(L) /\ acc[k + 1] = NumberEntry(a, e)
    BY <1>3, <2>1
  <2>3. IsSeq(e) /\ e # <<>> /\ ToSet(e) = {l \in ToSet(ls) : l.uid = id}
    BY <1>2, <1>6, <2>1 DEF Entries
  <2>4. id \notin Ids(k)
    <3> SUFFICES ASSUME NEW m \in 1..k PROVE S[m][1].uid # id
      OBVIOUS
    <3>1. m \in 1..n /\ m # k + 1
      BY <1>6, <2>1
    <3>2. QED
      BY <1>2, <1>6, <2>1, <3>1 DEF Entries
  <2>5. Ids(k + 1) = Ids(k) \cup {id}
    <3>1. 1..(k + 1) = (1..k) \cup {k + 1}
      BY <1>6
    <3>2. QED
      BY <3>1
  <2>6. Chain(L, Ids(k), a)
    BY <1>9
  <2> HIDE DEF a, e, id, Ids
  <2>7. ToSet(e) \subseteq L /\ \A l \in ToSet(e) : l.uid = id
    BY <2>3 DEF L
  <2>8. Chain(L, Ids(k) \cup {id}, NumberEntry(a, e))
    BY <1>4, <2>2, <2>3, <2>4, <2>6, <2>7, ChainGrows DEF id
  <2>9. Chain(L, Ids(k + 1), acc[k + 1])
    BY <2>2, <2>5, <2>8
  <2>10. QED
    BY <2>1, <2>9
<1>10. \A k \in 0..n : k \in P /\ k < n => k + 1 \in P
  BY <1>9
<1> HIDE DEF P
<1>11. 0..n \subseteq P
  BY <1>6, <1>8, <1>10, Induction
<1>12. Chain(L, Ids(n), acc[n])
  <2>1. n \in 0..n
    BY <1>6
  <2>2. n \in P
    BY <1>11, <2>1
  <2> HIDE DEF Ids
  <2>3. QED
    BY <2>2 DEF P
<1> DEFINE out == acc[n].out
<1> HIDE DEF Ids
<1>13. /\ IsSeq(out) /\ \A x \in ToSet(out) : x.journal \in Nat
       /\ Together(out) /\ Bounded(out) /\ (Uniform(L) => Pure(out))
  BY <1>12 DEF Chain
<1>14. out = UpdateCashBatchAndVoucher(ls)
  BY <1>3
<1>15. Uniform(ToSet(out)) => Uniform(L)
  <2> SUFFICES ASSUME Uniform(ToSet(out)), NEW x \in L, NEW y \in L, x.uid = y.uid
               PROVE  SameKind(x, y)
    BY DEF Uniform
  <2>1. \A l \in L : \E j \in Nat : At(l, j) \in ToSet(out)
    BY <1>4, <1>14, NumberedAre DEF L
  <2> HIDE DEF out
  <2>2. PICK i \in Nat : At(x, i) \in ToSet(out)
    BY <2>1
  <2>3. PICK j \in Nat : At(y, j) \in ToSet(out)
    BY <2>1
  <2>4. /\ At(x, i).uid = x.uid /\ At(x, i).month = x.month /\ At(x, i).type = x.type
        /\ At(y, j).uid = y.uid /\ At(y, j).month = y.month /\ At(y, j).type = y.type
    BY <1>4, AtIs
  <2>5. SameKind(At(x, i), At(y, j))
    BY <2>2, <2>3, <2>4 DEF Uniform
  <2>6. QED
    BY <2>4, <2>5 DEF SameKind, Bucket
<1> HIDE DEF out
<1>16. Ranked(out)
  BY <1>13, <1>15 DEF Ranked
<1>17. QED
  BY <1>14, <1>16

(* Errors do not move a line to another journal.                           *)
LEMMA RankedMarked ==
  ASSUME NEW s, Ranked(s), NEW t, DOMAIN t = DOMAIN s, IsSeq(t),
         \A i \in DOMAIN s : /\ t[i].uid = s[i].uid /\ t[i].journal = s[i].journal
                             /\ t[i].month = s[i].month /\ t[i].type = s[i].type
  PROVE  Ranked(t)
<1> DEFINE Like(x, y) == /\ x.uid = y.uid /\ x.journal = y.journal
                         /\ x.month = y.month /\ x.type = y.type
<1>1. \A y \in ToSet(t) : \E x \in ToSet(s) : Like(y, x)
  BY DEF ToSet
<1>2. \A x \in ToSet(s) : \E y \in ToSet(t) : Like(y, x)
  BY DEF ToSet
<1>3. \A j : With(t, j) = With(s, j)
  BY DEF With
<1>4. IsSeq(s) /\ (\A l \in ToSet(s) : l.journal \in Nat)
      /\ Together(s) /\ Bounded(s) /\ (Uniform(ToSet(s)) => Pure(s))
  BY DEF Ranked
<1>5. \A y \in ToSet(t) : y.journal \in Nat
  BY <1>1, <1>4
<1>6. ASSUME NEW x \in ToSet(t), NEW y \in ToSet(t), x.uid = y.uid PROVE x.journal = y.journal
  <2>1. PICK v \in ToSet(s) : Like(x, v)
    BY <1>1
  <2>2. PICK w \in ToSet(s) : Like(y, w)
    BY <1>1
  <2>3. QED
    BY <1>4, <1>6, <2>1, <2>2 DEF Together
<1>7. ASSUME NEW j \in Nat
      PROVE  \/ Cardinality(With(t, j)) <= MaxLines
             \/ \A x, y \in ToSet(t) : x.journal = j /\ y.journal = j => x.uid = y.uid
  <2>1. CASE Cardinality(With(s, j)) <= MaxLines
    BY <1>3, <2>1
  <2>2. CASE \A x, y \in ToSet(s) : x.journal = j /\ y.journal = j => x.uid = y.uid
    <3>1. ASSUME NEW x \in ToSet(t), NEW y \in ToSet(t), x.journal = j, y.journal = j
          PROVE  x.uid = y.uid
      <4>1. PICK v \in ToSet(s) : Like(x, v)
        BY <1>1
      <4>2. PICK w \in ToSet(s) : Like(y, w)
        BY <1>1
      <4>3. QED
        BY <2>2, <3>1, <4>1, <4>2
    <3>2. QED
      BY <3>1
  <2>3. QED
    BY <1>4, <2>1, <2>2 DEF Bounded
<1>8. ASSUME Uniform(ToSet(t)), NEW x \in ToSet(t), NEW y \in ToSet(t), x.journal = y.journal
      PROVE  SameKind(x, y)
  <2>1. Uniform(ToSet(s))
    <3> SUFFICES ASSUME NEW v \in ToSet(s), NEW w \in ToSet(s), v.uid = w.uid
                 PROVE  SameKind(v, w)
      BY DEF Uniform
    <3>1. PICK p \in ToSet(t) : Like(p, v)
      BY <1>2
    <3>2. PICK q \in ToSet(t) : Like(q, w)
      BY <1>2
    <3>3. SameKind(p, q)
      BY <1>8, <3>1, <3>2 DEF Uniform
    <3>4. QED
      BY <3>1, <3>2, <3>3 DEF SameKind, Bucket
  <2>2. PICK v \in ToSet(s) : Like(x, v)
    BY <1>1
  <2>3. PICK w \in ToSet(s) : Like(y, w)
    BY <1>1
  <2>4. SameKind(v, w)
    BY <1>4, <1>8, <2>1, <2>2, <2>3 DEF Pure
  <2>5. QED
    BY <2>2, <2>3, <2>4 DEF SameKind, Bucket
<1>9. QED
  BY <1>4, <1>5, <1>6, <1>7, <1>8 DEF Ranked, Together, Bounded, Pure

(* The lines of every request, whatever company they name.                 *)
FormattedWell(u) ==
  /\ \E co : AllGood(co, ToSet(Rows(u)), lines[u])
  /\ Ranked(lines[u])
KindInv == \A u \in Uploads : Formatted(u) => FormattedWell(u)

LEMMA KindFormat ==
  ASSUME SettleInv, NEW u \in Uploads, Format(u)
  PROVE  FormattedWell(u)'
<1> DEFINE built == BuildInvoiceLines(company, Rows(u))
           R == ToSet(Rows(u))
           new == UpdateCashBatchAndVoucher(built)
<1>1. lines'[u] = new /\ pc[u] = "rates" /\ Rows(u)' = Rows(u)
  BY DEF Format, SettleInv, FilesTyped, Rows
<1>2. Checked(Rows(u))
  BY <1>1 DEF SettleInv, RowsChecked
<1>3. AllGood(company, R, built)
  BY <1>2, InvoiceLinesGood DEF Checked
<1>4. IsSeq(built) /\ \A l \in ToSet(built) : IsLine(l) /\ l.month \in Nat
  <2>1. \A r \in R : Typed(r)
    BY <1>2 DEF Checked
  <2> HIDE DEF built, R
  <2>2. QED
    BY <1>3, <2>1, GoodMonth DEF AllGood, Good
<1>5. AllGood(company, R, new)
  BY <1>2, FormatGood
<1> HIDE DEF built
<1>6. Ranked(new)
  BY <1>4, NumberedRanked
<1> HIDE DEF new
<1>7. QED
  BY <1>1, <1>5, <1>6 DEF FormattedWell

LEMMA KindValidate ==
  ASSUME SettleInv, NEW u \in Uploads, Validate(u), FormattedWell(u)
  PROVE  FormattedWell(u)'
<1> DEFINE old == lines[u]
           bad(l) == \/ l.error
                     \/ l.uid \in unbalanced
                     \/ l.mark # NoInvoice /\ <<asked[u], l.mark, l.acct>> \notin Invoiced
           new == [i \in DOMAIN old |-> [old[i] EXCEPT !.error = bad(old[i])]]
           R == ToSet(Rows(u))
<1>1. lines'[u] = new /\ pc[u] = "lookup" /\ Rows(u)' = Rows(u)
  BY DEF Validate, Invalid, SettleInv, FilesTyped, Rows
<1>2. Checked(Rows(u))
  BY <1>1 DEF SettleInv, RowsChecked, Formatted
<1>3. PICK co : AllGood(co, R, old)
  BY DEF FormattedWell
<1>4. IsSeq(old) /\ Len(old) \in Nat /\ DOMAIN old = 1..Len(old)
  BY <1>3, SeqIs DEF AllGood
<1>5. ASSUME NEW i \in 1..Len(old)
      PROVE  /\ Good(co, R, new[i])
             /\ new[i].uid = old[i].uid /\ new[i].journal = old[i].journal
             /\ new[i].month = old[i].month /\ new[i].type = old[i].type
  <2> DEFINE l == old[i]
             e == bad(l)
             x == [l EXCEPT !.error = e]
  <2>1. new[i] = x
    BY <1>4
  <2>2. Good(co, R, l)
    BY <1>3, <1>4 DEF AllGood, ToSet
  <2>3. e \in BOOLEAN /\ (l.error => e)
    BY <2>2 DEF Good
  <2>4. \A r \in R : Typed(r)
    BY <1>2 DEF Checked
  <2> HIDE DEF l, e, R
  <2>5. Good(co, R, x)
    BY <2>2, <2>3, <2>4, GoodMarked
  <2>6. x.uid = l.uid /\ x.journal = l.journal /\ x.month = l.month /\ x.type = l.type
    BY <2>2 DEF Good, IsLine
  <2> HIDE DEF x
  <2>7. QED
    BY <2>1, <2>5, <2>6 DEF l
<1>6. DOMAIN new = 1..Len(old) /\ new = [i \in 1..Len(old) |-> new[i]]
  BY <1>4
<1> HIDE DEF new, R
<1>7. IsSeq(new)
  BY <1>4, <1>6, SeqMade
<1>8. AllGood(co, R, new)
  BY <1>5, <1>6, <1>7 DEF AllGood, ToSet
<1>9. Ranked(new)
  <2>1. Ranked(old)
    BY DEF FormattedWell
  <2> HIDE DEF old
  <2>2. QED
    BY <1>4, <1>5, <1>6, <1>7, <2>1, RankedMarked
<1>10. QED
  BY <1>1, <1>8, <1>9 DEF FormattedWell, R

LEMMA KindStep == SettleInv /\ KindInv /\ [Next]_vars => KindInv'
<1> SUFFICES ASSUME SettleInv, KindInv, [Next]_vars, NEW v \in Uploads, Formatted(v)'
             PROVE  FormattedWell(v)'
  BY DEF KindInv
<1>1. ASSUME lines'[v] = lines[v], file' = file, Formatted(v)
      PROVE  FormattedWell(v)'
  <2>1. FormattedWell(v) /\ Rows(v)' = Rows(v)
    BY <1>1 DEF KindInv, Rows
  <2>2. QED
    BY <1>1, <2>1 DEF FormattedWell
<1>2. ASSUME NEW u \in Uploads,
             \/ Begin(u) \/ AskSource(u) \/ ValidateSource(u)
             \/ Format(u) \/ Validate(u) \/ Post(u)
      PROVE  FormattedWell(v)'
  <2>1. CASE Begin(u) \/ AskSource(u) \/ ValidateSource(u)
    <3>1. lines'[v] = lines[v] /\ file' = file
      BY <2>1 DEF Begin, AskSource, ValidateSource
    <3>2. Formatted(v)
      BY <2>1 DEF Begin, AskSource, ValidateSource, Goto, Formatted, SettleInv, FilesTyped
    <3>3. QED
      BY <1>1, <3>1, <3>2
  <2>2. CASE Format(u)
    <3>1. v # u => lines'[v] = lines[v] /\ file' = file /\ Formatted(v)
      BY <2>2 DEF Format, Goto, Formatted, SettleInv, FilesTyped
    <3>2. QED
      BY <1>1, <2>2, <3>1, KindFormat
  <2>3. CASE Validate(u)
    <3>1. v # u => lines'[v] = lines[v] /\ file' = file /\ Formatted(v)
      BY <2>3 DEF Validate, Goto, Formatted, SettleInv, FilesTyped
    <3>2. FormattedWell(u)
      BY <2>3 DEF KindInv, Validate, Formatted
    <3>3. QED
      BY <1>1, <2>3, <3>1, <3>2, KindValidate
  <2>4. CASE Post(u)
    <3>1. lines'[v] = lines[v] /\ file' = file
      BY <2>4 DEF Post
    <3>2. Formatted(v)
      BY <2>4 DEF Post, Goto, Formatted, SettleInv, FilesTyped
    <3>3. QED
      BY <1>1, <3>1, <3>2
  <2>5. QED
    BY <1>2, <2>1, <2>2, <2>3, <2>4
<1>3. CASE UNCHANGED vars
  <2>1. lines'[v] = lines[v] /\ file' = file /\ Formatted(v)
    BY <1>3 DEF vars, Formatted
  <2>2. QED
    BY <1>1, <2>1
<1>4. QED
  BY <1>2, <1>3 DEF Next

(* A posted line stands in the journal, and has the route, month and type, *)
(* of a line of its entry.                                                 *)
LEMMA KindInvImplies == SettleInv /\ KindInv => JournalsHomogeneous
<1> SUFFICES ASSUME SettleInv, KindInv, NEW u \in Uploads
             PROVE  /\ \A n \in DOMAIN journals[u] :
                         LET js == ToSet(journals[u][n])
                         IN /\ \A k, l \in js :
                                 /\ k.route = l.route
                                 /\ OneKind(Rows(u)) =>
                                      /\ k.month = l.month
                                      /\ CashVoucherTypeBucket(k.type) =
                                           CashVoucherTypeBucket(l.type)
                            /\ Len(journals[u][n]) <= MaxLines \/ \A k, l \in js : k.uid = l.uid
                    /\ \A n, m \in DOMAIN journals[u] : n # m =>
                         {l.uid : l \in ToSet(journals[u][n])}
                           \cap {l.uid : l \in ToSet(journals[u][m])} = {}
  BY DEF JournalsHomogeneous
<1>1. CASE pc[u] # "posted"
  <2>1. journals[u] = <<>> /\ DOMAIN <<>> = {}
    BY <1>1, EmptyIs DEF SettleInv, JournalsOfLines
  <2>2. QED
    BY <2>1
<1>2. CASE pc[u] = "posted"
  <2> DEFINE ls == lines[u]
             J == journals[u]
             G == GroupRecordsByJournalBatchNumber(ls)
             R == ToSet(Rows(u))
  <2>1. J = MapToJournals(ls) /\ ErrorCount(u) = 0 /\ Checked(Rows(u)) /\ FormattedWell(u)
    BY <1>2 DEF SettleInv, KindInv, JournalsOfLines, RowsChecked, Formatted
  <2>2. PICK co : AllGood(co, R, ls)
    BY <2>1 DEF FormattedWell
  <2>3. /\ IsSeq(ls) /\ Ranked(ls)
        /\ \A l \in ToSet(ls) : /\ IsLine(l) /\ l.error = FALSE
                                /\ \E r \in R : ComesFrom(r, l)
    <3>1. \A l \in ToSet(ls) : l.error = FALSE
      BY <2>1, <2>2, GoodErrors, NoErrors
    <3>2. QED
      BY <2>1, <2>2, <3>1 DEF FormattedWell, AllGood, Good
  <2>4. /\ Groups(ls, G) /\ IsSeq(J) /\ DOMAIN J = DOMAIN G
        /\ \A n \in DOMAIN G :
             /\ IsSeq(J[n]) /\ Len(J[n]) <= Len(G[n]) /\ ToSet(G[n]) \subseteq ToSet(ls)
             /\ \A x \in ToSet(J[n]) : Rewritten(G[n], x)
    BY <2>1, <2>3, JournalsAre
  <2> HIDE DEF G, J, R, ls
  <2>5. ASSUME NEW n \in DOMAIN J, NEW x \in ToSet(J[n])
        PROVE  \E l \in ToSet(ls) : SameEntry(x, l) /\ JournalKey(l) = JournalKey(G[n][1])
    <3>1. PICK l \in ToSet(G[n]) : SameEntry(x, l)
      <4>1. Rewritten(G[n], x)
        BY <2>4
      <4>2. QED
        BY <4>1 DEF Rewritten, RewrittenFrom, SameEntry
    <3>2. l \in ToSet(ls) /\ JournalKey(l) = JournalKey(G[n][1])
      BY <2>4, <3>1 DEF Groups
    <3>3. QED
      BY <3>1, <3>2
  <2>6. ASSUME NEW x \in ToSet(ls), NEW y \in ToSet(ls), x.uid = y.uid
        PROVE  JournalKey(x) = JournalKey(y)
    <3>1. x.journal = y.journal
      BY <2>3, <2>6 DEF Ranked, Together
    <3>2. x.route = y.route
      <4>1. PICK r \in R : ComesFrom(r, x)
        BY <2>3
      <4>2. PICK t \in R : ComesFrom(t, y)
        BY <2>3
      <4>3. r.safe = t.safe
        BY <2>1, <2>6, <4>1, <4>2 DEF Checked, ComesFrom, R
      <4>4. QED
        BY <4>1, <4>2, <4>3 DEF ComesFrom
    <3>3. QED
      BY <3>1, <3>2 DEF JournalKey
  <2>7. ASSUME NEW n \in DOMAIN J, NEW k \in ToSet(J[n]), NEW l \in ToSet(J[n])
        PROVE  /\ k.route = l.route
               /\ OneKind(Rows(u)) =>
                    /\ k.month = l.month
                    /\ CashVoucherTypeBucket(k.type) = CashVoucherTypeBucket(l.type)
    <3>1. PICK v \in ToSet(ls) : SameEntry(k, v) /\ JournalKey(v) = JournalKey(G[n][1])
      BY <2>5
    <3>2. PICK w \in ToSet(ls) : SameEntry(l, w) /\ JournalKey(w) = JournalKey(G[n][1])
      BY <2>5
    <3>3. v.route = w.route /\ v.journal = w.journal
      BY <3>1, <3>2 DEF JournalKey
    <3>4. OneKind(Rows(u)) => Uniform(ToSet(ls))
      <4> SUFFICES ASSUME OneKind(Rows(u)), NEW x \in ToSet(ls), NEW y \in ToSet(ls), x.uid = y.uid
                   PROVE  SameKind(x, y)
        BY DEF Uniform
      <4>1. PICK r \in R : ComesFrom(r, x)
        BY <2>3
      <4>2. PICK t \in R : ComesFrom(t, y)
        BY <2>3
      <4>3. PICK i \in DOMAIN Rows(u) : r = Rows(u)[i]
        BY DEF R, ToSet
      <4>4. PICK j \in DOMAIN Rows(u) : t = Rows(u)[j]
        BY DEF R, ToSet
      <4>5. SameKind(r, t)
        BY <4>1, <4>2, <4>3, <4>4 DEF OneKind, ComesFrom, SameKind, Bucket
      <4>6. QED
        BY <4>1, <4>2, <4>5 DEF ComesFrom, SameKind, Bucket
    <3>5. OneKind(Rows(u)) => SameKind(v, w)
      BY <2>3, <3>3, <3>4 DEF Ranked, Pure
    <3>6. QED
      BY <3>1, <3>2, <3>3, <3>5 DEF SameEntry, SameKind, Bucket
  <2>8. ASSUME NEW n \in DOMAIN J
        PROVE  Len(J[n]) <= MaxLines \/ \A k, l \in ToSet(J[n]) : k.uid = l.uid
    <3> DEFINE j == G[n][1].journal
    <3>1. /\ IsSeq(G[n]) /\ G[n] # <<>> /\ Len(J[n]) <= Len(G[n]) /\ IsSeq(J[n])
          /\ G[n] = Picked(ls, WithKey(ls, JournalKey(G[n][1])))
          /\ ToSet(G[n]) \subseteq ToSet(ls)
      BY <2>4 DEF Groups
    <3>2. G[n][1] \in ToSet(ls) /\ j \in Nat
      BY <2>3, <3>1, FirstOf DEF Ranked
    <3>3. CASE Cardinality(With(ls, j)) <= MaxLines
      <4> DEFINE at == WithKey(ls, JournalKey(G[n][1]))
      <4>1. at \subseteq With(ls, j) /\ at \subseteq DOMAIN ls
        BY DEF WithKey, With, JournalKey
      <4>2. G[n] = Picked(ls, at)
        BY <3>1
      <4> HIDE DEF at
      <4>3. Len(G[n]) = Cardinality(at)
        BY <2>3, <4>1, <4>2, PickedElements
      <4>4. IsFiniteSet(With(ls, j)) /\ Cardinality(With(ls, j)) \in Nat
        BY <2>3, WithIs
      <4>5. Cardinality(at) <= Cardinality(With(ls, j)) /\ Cardinality(at) \in Nat
        BY <4>1, <4>4, FS_Subset, FS_CardinalityType
      <4>6. Len(J[n]) \in Nat /\ MaxLines \in Nat
        BY <3>1, SeqIs, CashOutAssumption
      <4>7. QED
        BY <3>1, <3>3, <4>3, <4>4, <4>5, <4>6
    <3>4. CASE \A x, y \in ToSet(ls) : x.journal = j /\ y.journal = j => x.uid = y.uid
      <4>1. \A x \in ToSet(J[n]) : \E l \in ToSet(ls) : x.uid = l.uid /\ l.journal = j
        BY <2>5 DEF SameEntry, JournalKey
      <4>2. \A k, l \in ToSet(J[n]) : k.uid = l.uid
        BY <3>4, <4>1
      <4>3. QED
        BY <4>2
    <3>5. QED
      BY <2>3, <3>2, <3>3, <3>4 DEF Ranked, Bounded
  <2>9. ASSUME NEW n \in DOMAIN J, NEW m \in DOMAIN J, n # m,
               NEW k \in ToSet(J[n]), NEW l \in ToSet(J[m])
        PROVE  k.uid # l.uid
    <3> SUFFICES ASSUME k.uid = l.uid PROVE FALSE
      OBVIOUS
    <3>1. PICK v \in ToSet(ls) : SameEntry(k, v) /\ JournalKey(v) = JournalKey(G[n][1])
      BY <2>5
    <3>2. PICK w \in ToSet(ls) : SameEntry(l, w) /\ JournalKey(w) = JournalKey(G[m][1])
      BY <2>5
    <3>3. JournalKey(v) = JournalKey(w)
      BY <2>6, <3>1, <3>2 DEF SameEntry
    <3>4. QED
      BY <2>4, <2>9, <3>1, <3>2, <3>3 DEF Groups
  <2>10. QED
    BY <2>7, <2>8, <2>9 DEF J
<1>3. QED
  BY <1>1, <1>2

(* Numbering, for any lines and any MaxLines, keeps an entry in one        *)
(* journal and a journal within the limit unless it is one entry; posting  *)
(* keeps journals of one route; and one month and bucket for an entry are  *)
(* one month and bucket for its journal.                                   *)
THEOREM PostsWholeEntries == Spec => []JournalsHomogeneous
<1>1. Spec => []SettleInv
  BY SettleInit, SettleStep, PTL DEF Spec
<1>2. Init => KindInv
  BY DEF Init, KindInv, Formatted
<1>3. Spec => []KindInv
  BY <1>1, <1>2, KindStep, PTL DEF Spec
<1>4. QED
  BY <1>1, <1>3, KindInvImplies, PTL

-----------------------------------------------------------------------------
(* Sums.  SumFunctionOnSet picks its summands in an order nobody knows;    *)
(* here is what it comes to whatever that order is.                        *)
Inductive(S, Q) ==
  {} \in Q /\ \A T \in SUBSET S : \A x \in S \ T : T \in Q => T \cup {x} \in Q

LEMMA SetInduction ==
  ASSUME NEW S, IsFiniteSet(S), NEW Q, Inductive(S, Q)
  PROVE  \A T \in SUBSET S : T \in Q
<1>0. {} \in Q /\ \A T \in SUBSET S : \A x \in S \ T : T \in Q => T \cup {x} \in Q
  BY DEF Inductive
<1> SUFFICES ASSUME NEW A \in SUBSET S, A \notin Q PROVE FALSE
  OBVIOUS
<1> DEFINE I == {Cardinality(T) : T \in (SUBSET S) \ Q}
<1>1. \A T \in SUBSET S : IsFiniteSet(T) /\ Cardinality(T) \in Nat
  BY FS_Subset, FS_CardinalityType
<1>2. PICK k \in I : \A m \in I : k <= m
  <2>1. I \subseteq Nat /\ I # {}
    BY <1>1
  <2> HIDE DEF I
  <2>2. QED
    BY <2>1, LeastElement
<1>3. PICK T \in (SUBSET S) \ Q : Cardinality(T) = k
  OBVIOUS
<1>4. PICK x \in T : TRUE
  BY <1>0, <1>3
<1> DEFINE U == T \ {x}
<1>5. U \in SUBSET S /\ x \in S \ U /\ T = U \cup {x} /\ Cardinality(U) = Cardinality(T) - 1
  <2>1. T \in SUBSET S /\ x \in T
    BY <1>3, <1>4
  <2>2. Cardinality(U) = Cardinality(T) - 1
    BY <1>1, <2>1, FS_RemoveElement
  <2>3. QED
    BY <2>1, <2>2
<1>6. Cardinality(U) \in Nat /\ Cardinality(T) \in Nat
  BY <1>1, <1>5
<1> HIDE DEF U
<1>7. U \notin Q
  BY <1>0, <1>3, <1>5
<1>8. Cardinality(U) \in I
  BY <1>5, <1>7
<1>9. k <= Cardinality(U)
  BY <1>2, <1>8
<1>10. QED
  BY <1>3, <1>5, <1>6, <1>9

Over(g, S) == SumFunctionOnSet(g, S)
Choice(T) == CHOOSE x \in T : TRUE
Summing(g, S, h) ==
  h = [t \in SUBSET S |-> IF t = {} THEN 0 ELSE g[Choice(t)] + h[t \ {Choice(t)}]]

LEMMA OverMeans ==
  ASSUME NEW g, NEW S
  PROVE  Over(g, S) = (CHOOSE h : Summing(g, S, h))[S]
BY DEF Over, SumFunctionOnSet, FoldFunctionOnSet, MapThenFoldSet, Summing, Choice

(* Such a function there is, and only one.                                 *)
LEMMA SummingMade ==
  ASSUME NEW S, IsFiniteSet(S), NEW g, \A x \in S : g[x] \in Int
  PROVE  \E h \in [SUBSET S -> Int] : Summing(g, S, h)
<1> DEFINE n == Cardinality(S)
           Small(k) == {T \in SUBSET S : Cardinality(T) <= k}
           Makes(h, k) ==
             \A t \in Small(k) :
               h[t] = IF t = {} THEN 0 ELSE g[Choice(t)] + h[t \ {Choice(t)}]
           P == {k \in 0..n : \E h \in [SUBSET S -> Int] : Makes(h, k)}
<1>1. \A T \in SUBSET S : IsFiniteSet(T) /\ Cardinality(T) \in 0..n
  BY FS_Subset, FS_CardinalityType
<1>2. ASSUME NEW T \in SUBSET S, T # {}
      PROVE  /\ Choice(T) \in T /\ T \ {Choice(T)} \in SUBSET S
             /\ Cardinality(T \ {Choice(T)}) = Cardinality(T) - 1
  <2>1. Choice(T) \in T
    BY <1>2 DEF Choice
  <2>2. QED
    BY <1>1, <2>1, FS_RemoveElement
<1>3. 0 \in P
  <2> DEFINE h == [t \in SUBSET S |-> 0]
  <2>1. h \in [SUBSET S -> Int]
    OBVIOUS
  <2>2. \A t \in Small(0) : t = {}
    <3>1. \A t \in Small(0) : t \in SUBSET S /\ Cardinality(t) = 0
      BY <1>1
    <3>2. QED
      BY <1>1, <3>1, FS_EmptySet
  <2>3. Makes(h, 0)
    BY <2>2
  <2>4. n \in Nat
    BY FS_CardinalityType
  <2> HIDE DEF h, Makes
  <2>5. QED
    BY <2>1, <2>3, <2>4
<1>4. ASSUME NEW k \in 0..n, k \in P, k < n PROVE k + 1 \in P
  <2>1. PICK f \in [SUBSET S -> Int] : Makes(f, k)
    BY <1>4
  <2> DEFINE h == [t \in SUBSET S |->
                     IF t = {} THEN 0 ELSE g[Choice(t)] + f[t \ {Choice(t)}]]
  <2>2. h \in [SUBSET S -> Int]
    <3>1. ASSUME NEW t \in SUBSET S, t # {}
          PROVE  g[Choice(t)] + f[t \ {Choice(t)}] \in Int
      <4>1. g[Choice(t)] \in Int /\ f[t \ {Choice(t)}] \in Int
        BY <3>1, <1>2
      <4>2. QED
        BY <4>1
    <3>2. QED
      BY <3>1
  <2>3. \A t \in Small(k) : h[t] = f[t]
    BY <2>1
  <2>4. ASSUME NEW t \in Small(k + 1), t # {}
        PROVE  h[t \ {Choice(t)}] = f[t \ {Choice(t)}]
    <3>1. t \in SUBSET S /\ Cardinality(t) <= k + 1 /\ Cardinality(t) \in Nat
      BY <1>1
    <3>2. t \ {Choice(t)} \in Small(k)
      BY <1>2, <2>4, <3>1
    <3>3. QED
      BY <2>3, <3>2
  <2>5. Makes(h, k + 1)
    BY <2>4
  <2> HIDE DEF h, Makes
  <2>6. k + 1 \in 0..n
    BY <1>4, FS_CardinalityType
  <2>7. QED
    BY <2>2, <2>5, <2>6
<1>5. n \in Nat /\ \A k \in 0..n : k \in P /\ k < n => k + 1 \in P
  BY <1>4, FS_CardinalityType
<1> HIDE DEF P, n
<1>6. n \in P
  BY <1>3, <1>5, Induction
<1>7. PICK h \in [SUBSET S -> Int] : Makes(h, n)
  BY <1>6 DEF P
<1>8. \A t \in SUBSET S : h[t] = IF t = {} THEN 0 ELSE g[Choice(t)] + h[t \ {Choice(t)}]
  <2>1. \A t \in SUBSET S : t \in Small(n)
    BY <1>1, <1>5
  <2> HIDE DEF Small
  <2>2. QED
    BY <1>7, <2>1
<1>9. Summing(g, S, h)
  BY <1>8 DEF Summing
<1>10. QED
  BY <1>9

LEMMA SummingOnce ==
  ASSUME NEW S, IsFiniteSet(S), NEW g, NEW T \in SUBSET S,
         NEW h, Summing(g, S, h), NEW k, Summing(g, T, k)
  PROVE  \A t \in SUBSET T : h[t] = k[t]
<1> SUFFICES ASSUME NEW A \in SUBSET T, h[A] # k[A] PROVE FALSE
  OBVIOUS
<1> DEFINE I == {Cardinality(t) : t \in {s \in SUBSET T : h[s] # k[s]}}
<1>1. \A t \in SUBSET T : t \in SUBSET S /\ IsFiniteSet(t) /\ Cardinality(t) \in Nat
  BY FS_Subset, FS_CardinalityType
<1>2. PICK m \in I : \A j \in I : m <= j
  <2>1. I \subseteq Nat /\ I # {}
    BY <1>1
  <2> HIDE DEF I
  <2>2. QED
    BY <2>1, LeastElement
<1>3. PICK t \in SUBSET T : h[t] # k[t] /\ Cardinality(t) = m
  BY <1>2
<1>4. t # {}
  BY <1>1, <1>3 DEF Summing
<1>5. Choice(t) \in t
  BY <1>4 DEF Choice
<1> DEFINE u == t \ {Choice(t)}
<1>6. u \in SUBSET T /\ Cardinality(u) = Cardinality(t) - 1
  BY <1>1, <1>5, FS_RemoveElement
<1>7. h[t] = g[Choice(t)] + h[u] /\ k[t] = g[Choice(t)] + k[u]
  BY <1>1, <1>3, <1>4 DEF Summing
<1> HIDE DEF u
<1>8. h[u] # k[u]
  BY <1>3, <1>7
<1>9. Cardinality(u) \in I
  BY <1>6, <1>8
<1>10. QED
  BY <1>1, <1>2, <1>3, <1>6, <1>9

LEMMA OverIs ==
  ASSUME NEW S, IsFiniteSet(S), NEW g, \A x \in S : g[x] \in Int
  PROVE  /\ \A T \in SUBSET S : Over(g, T) \in Int
         /\ Over(g, {}) = 0
         /\ \A T \in SUBSET S : T # {} =>
              Over(g, T) = g[Choice(T)] + Over(g, T \ {Choice(T)})
<1>1. PICK h \in [SUBSET S -> Int] : Summing(g, S, h)
  BY SummingMade
<1>2. ASSUME NEW T \in SUBSET S PROVE Over(g, T) = h[T]
  <2>1. IsFiniteSet(T) /\ \A x \in T : g[x] \in Int
    BY FS_Subset
  <2>2. \E k : Summing(g, T, k)
    BY <2>1, SummingMade
  <2> DEFINE k == CHOOSE f : Summing(g, T, f)
  <2>3. Summing(g, T, k)
    BY <2>2
  <2>4. Over(g, T) = k[T]
    BY OverMeans
  <2> HIDE DEF k
  <2>5. QED
    BY <1>1, <2>3, <2>4, SummingOnce
<1>3. \A T \in SUBSET S : h[T] = IF T = {} THEN 0 ELSE g[Choice(T)] + h[T \ {Choice(T)}]
  BY <1>1 DEF Summing
<1>4. \A T \in SUBSET S : Over(g, T) \in Int
  BY <1>2
<1>5. Over(g, {}) = 0
  BY <1>2, <1>3
<1>6. QED
  BY <1>2, <1>3, <1>4, <1>5

(* Any element may be taken out first.                                     *)
LEMMA OverLess ==
  ASSUME NEW S, IsFiniteSet(S), NEW g, \A x \in S : g[x] \in Int
  PROVE  \A T \in SUBSET S : \A x \in T : Over(g, T) = g[x] + Over(g, T \ {x})
<1> DEFINE P == {k \in 0..Cardinality(S) :
                   \A T \in SUBSET S : Cardinality(T) = k =>
                     \A x \in T : Over(g, T) = g[x] + Over(g, T \ {x})}
<1>1. \A T \in SUBSET S : IsFiniteSet(T) /\ Cardinality(T) \in 0..Cardinality(S)
  BY FS_Subset, FS_CardinalityType
<1>2. 0 \in P
  <2>1. \A T \in SUBSET S : Cardinality(T) = 0 => T = {}
    BY <1>1, FS_EmptySet
  <2>2. Cardinality(S) \in Nat
    BY FS_CardinalityType
  <2>3. QED
    BY <2>1, <2>2
<1>3. ASSUME NEW k \in 0..Cardinality(S), k \in P, k < Cardinality(S) PROVE k + 1 \in P
  <2>1. ASSUME NEW T \in SUBSET S, Cardinality(T) = k + 1, NEW x \in T
        PROVE  Over(g, T) = g[x] + Over(g, T \ {x})
    <3> DEFINE c == Choice(T)
    <3>1. c \in T
      BY DEF Choice
    <3>2. Over(g, T) = g[c] + Over(g, T \ {c})
      BY OverIs
    <3> HIDE DEF c
    <3>3. CASE x = c
      BY <3>2, <3>3
    <3>4. CASE x # c
      <4> DEFINE A == T \ {c}
                 B == T \ {x}
                 C == T \ {x, c}
      <4>1. /\ A \in SUBSET S /\ B \in SUBSET S /\ C \in SUBSET S /\ x \in A /\ c \in B
            /\ A \ {x} = C /\ B \ {c} = C
        BY <3>1, <3>4
      <4>2. Cardinality(A) = k /\ Cardinality(B) = k
        BY <1>1, <2>1, <3>1, FS_RemoveElement
      <4>3. Over(g, C) \in Int /\ g[x] \in Int /\ g[c] \in Int
        BY <4>1, <3>1, OverIs
      <4>4. \A D \in SUBSET S : Cardinality(D) = k =>
              \A y \in D : Over(g, D) = g[y] + Over(g, D \ {y})
        BY <1>3
      <4>5. Over(g, T) = g[c] + Over(g, A)
        BY <3>2
      <4> HIDE DEF A, B, C
      <4>6. Over(g, A) = g[x] + Over(g, C) /\ Over(g, B) = g[c] + Over(g, C)
        BY <4>1, <4>2, <4>4
      <4>7. Over(g, T) = g[x] + Over(g, B)
        BY <4>3, <4>5, <4>6
      <4>8. QED
        BY <4>7 DEF B
    <3>5. QED
      BY <3>3, <3>4
  <2>2. k + 1 \in 0..Cardinality(S)
    BY <1>3, FS_CardinalityType
  <2>3. QED
    BY <2>1, <2>2
<1>4. Cardinality(S) \in Nat /\ \A k \in 0..Cardinality(S) :
        k \in P /\ k < Cardinality(S) => k + 1 \in P
  BY <1>3, FS_CardinalityType
<1> HIDE DEF P
<1>5. 0..Cardinality(S) \subseteq P
  BY <1>2, <1>4, Induction
<1>6. QED
  BY <1>1, <1>5 DEF P

(* What the proofs below use of a sum.                                     *)
LEMMA OverAdd ==
  ASSUME NEW S, IsFiniteSet(S), NEW g, \A x \in S : g[x] \in Int
  PROVE  /\ \A T \in SUBSET S : Over(g, T) \in Int
         /\ Over(g, {}) = 0
         /\ \A T \in SUBSET S : \A x \in S \ T : Over(g, T \cup {x}) = Over(g, T) + g[x]
<1>1. ASSUME NEW T \in SUBSET S, NEW x \in S \ T
      PROVE  Over(g, T \cup {x}) = Over(g, T) + g[x]
  <2>1. T \cup {x} \in SUBSET S /\ x \in T \cup {x} /\ (T \cup {x}) \ {x} = T
    OBVIOUS
  <2>2. Over(g, T \cup {x}) = g[x] + Over(g, T)
    BY <2>1, OverLess
  <2>3. Over(g, T) \in Int /\ g[x] \in Int
    BY OverIs
  <2>4. QED
    BY <2>2, <2>3
<1>2. QED
  BY <1>1, OverIs

LEMMA OverSame ==
  ASSUME NEW S, IsFiniteSet(S), NEW g, \A x \in S : g[x] \in Int,
         NEW k, \A x \in S : k[x] = g[x]
  PROVE  Over(k, S) = Over(g, S)
<1> DEFINE Q == {T \in SUBSET S : Over(k, T) = Over(g, T)}
<1>1. \A x \in S : k[x] \in Int
  OBVIOUS
<1>2. {} \in Q
  BY <1>1, OverAdd
<1>3. \A T \in SUBSET S : \A x \in S \ T : T \in Q => T \cup {x} \in Q
  BY <1>1, OverAdd
<1> HIDE DEF Q
<1>4. S \in Q
  <2>1. Inductive(S, Q)
    BY <1>2, <1>3 DEF Inductive
  <2>2. QED
    BY <2>1, SetInduction
<1>5. QED
  BY <1>4 DEF Q

LEMMA OverUnion ==
  ASSUME NEW A, NEW B, IsFiniteSet(A), IsFiniteSet(B), A \cap B = {},
         NEW g, \A x \in A \cup B : g[x] \in Int
  PROVE  Over(g, A \cup B) = Over(g, A) + Over(g, B)
<1> DEFINE S == A \cup B
           Q == {T \in SUBSET B : Over(g, A \cup T) = Over(g, A) + Over(g, T)}
<1>1. IsFiniteSet(S) /\ \A x \in S : g[x] \in Int
  BY FS_Union
<1>2. Over(g, A) \in Int /\ \A T \in SUBSET B : Over(g, T) \in Int
  BY <1>1, OverAdd
<1>3. {} \in Q
  <2>1. A \cup {} = A /\ Over(g, {}) = 0
    BY <1>1, OverAdd
  <2>2. QED
    BY <1>2, <2>1
<1>4. ASSUME NEW T \in SUBSET B, NEW x \in B \ T, T \in Q PROVE T \cup {x} \in Q
  <2>1. /\ A \cup T \in SUBSET S /\ T \in SUBSET S /\ x \in S \ (A \cup T) /\ x \in S \ T
        /\ A \cup (T \cup {x}) = (A \cup T) \cup {x}
    OBVIOUS
  <2>2. /\ Over(g, (A \cup T) \cup {x}) = Over(g, A \cup T) + g[x]
        /\ Over(g, T \cup {x}) = Over(g, T) + g[x]
    <3> DEFINE U == A \cup T
    <3>1. \A V \in SUBSET S : \A y \in S \ V : Over(g, V \cup {y}) = Over(g, V) + g[y]
      <4> HIDE DEF S
      <4>1. QED
        BY <1>1, OverAdd
    <3>2. U \in SUBSET S /\ x \in S \ U
      BY <2>1
    <3> HIDE DEF S, U
    <3>3. Over(g, U \cup {x}) = Over(g, U) + g[x]
      BY <3>1, <3>2
    <3>4. Over(g, T \cup {x}) = Over(g, T) + g[x]
      BY <2>1, <3>1
    <3>5. QED
      BY <3>3, <3>4 DEF U
  <2>3. g[x] \in Int
    BY <1>1
  <2>4. Over(g, A \cup (T \cup {x})) = Over(g, A) + Over(g, T \cup {x})
    BY <1>2, <1>4, <2>1, <2>2, <2>3
  <2>5. QED
    BY <2>4
<1>5. \A T \in SUBSET B : \A x \in B \ T : T \in Q => T \cup {x} \in Q
  BY <1>4
<1> HIDE DEF Q
<1>6. B \in Q
  <2>1. Inductive(B, Q)
    BY <1>3, <1>5 DEF Inductive
  <2>2. QED
    BY <2>1, SetInduction
<1>7. QED
  BY <1>6 DEF Q

(* ... counted along another set.                                          *)
LEMMA OverImage ==
  ASSUME NEW S, IsFiniteSet(S), NEW b, \A x, y \in S : x # y => b[x] # b[y],
         NEW g, \A x \in S : g[b[x]] \in Int
  PROVE  Over(g, {b[x] : x \in S}) = Over([x \in S |-> g[b[x]]], S)
<1> DEFINE k == [x \in S |-> g[b[x]]]
           I(T) == {b[x] : x \in T}
           Q == {T \in SUBSET S : Over(g, I(T)) = Over(k, T)}
<1>1. IsFiniteSet(I(S)) /\ \A y \in I(S) : g[y] \in Int
  <2> DEFINE f == [x \in S |-> b[x]]
  <2>1. f \in Surjection(S, I(S))
    BY DEF Surjection
  <2> HIDE DEF f, I
  <2>2. IsFiniteSet(I(S))
    BY <2>1, FS_Surjection
  <2>3. \A y \in I(S) : g[y] \in Int
    BY DEF I
  <2>4. QED
    BY <2>2, <2>3
<1>2. \A x \in S : k[x] \in Int
  OBVIOUS
<1>3. {} \in Q
  <2>1. I({}) = {}
    OBVIOUS
  <2>2. Over(g, {}) = 0 /\ Over(k, {}) = 0
    BY <1>1, <1>2, OverAdd
  <2>3. QED
    BY <2>1, <2>2
<1>4. ASSUME NEW T \in SUBSET S, NEW x \in S \ T, T \in Q PROVE T \cup {x} \in Q
  <2>1. /\ I(T) \in SUBSET I(S) /\ b[x] \in I(S) \ I(T) /\ I(T \cup {x}) = I(T) \cup {b[x]}
    OBVIOUS
  <2> HIDE DEF I, k
  <2>2. Over(g, I(T) \cup {b[x]}) = Over(g, I(T)) + g[b[x]]
    BY <1>1, <2>1, OverAdd
  <2>3. Over(k, T \cup {x}) = Over(k, T) + k[x]
    BY <1>2, OverAdd
  <2>4. k[x] = g[b[x]]
    BY DEF k
  <2>5. QED
    BY <1>4, <2>1, <2>2, <2>3, <2>4
<1>5. \A T \in SUBSET S : \A x \in S \ T : T \in Q => T \cup {x} \in Q
  BY <1>4
<1> HIDE DEF Q
<1>6. S \in Q
  <2>1. Inductive(S, Q)
    BY <1>3, <1>5 DEF Inductive
  <2>2. QED
    BY <2>1, SetInduction
<1>7. QED
  BY <1>6 DEF Q

LEMMA OverZero ==
  ASSUME NEW S, IsFiniteSet(S), NEW g, \A x \in S : g[x] = 0
  PROVE  Over(g, S) = 0
<1> DEFINE Q == {T \in SUBSET S : Over(g, T) = 0}
<1>1. \A x \in S : g[x] \in Int
  OBVIOUS
<1>2. {} \in Q
  BY <1>1, OverAdd
<1>3. \A T \in SUBSET S : \A x \in S \ T : T \in Q => T \cup {x} \in Q
  BY <1>1, OverAdd
<1> HIDE DEF Q
<1>4. Inductive(S, Q)
  BY <1>2, <1>3 DEF Inductive
<1>5. S \in Q
  BY <1>4, SetInduction
<1>6. QED
  BY <1>5 DEF Q

LEMMA OverPlus ==
  ASSUME NEW S, IsFiniteSet(S), NEW g, NEW k, \A x \in S : g[x] \in Int /\ k[x] \in Int
  PROVE  /\ Over([x \in S |-> g[x] + k[x]], S) = Over(g, S) + Over(k, S)
         /\ Over([x \in S |-> g[x] - k[x]], S) = Over(g, S) - Over(k, S)
<1> DEFINE p == [x \in S |-> g[x] + k[x]]
           m == [x \in S |-> g[x] - k[x]]
           Q == {T \in SUBSET S : /\ Over(p, T) = Over(g, T) + Over(k, T)
                                  /\ Over(m, T) = Over(g, T) - Over(k, T)}
<1>1. \A x \in S : /\ p[x] \in Int /\ m[x] \in Int /\ g[x] \in Int /\ k[x] \in Int
                   /\ p[x] = g[x] + k[x] /\ m[x] = g[x] - k[x]
  OBVIOUS
<1> HIDE DEF p, m
<1>2. {} \in Q
  BY <1>1, OverAdd
<1>3. ASSUME NEW T \in SUBSET S, NEW x \in S \ T, T \in Q PROVE T \cup {x} \in Q
  <2>1. /\ Over(g, T \cup {x}) = Over(g, T) + g[x] /\ Over(k, T \cup {x}) = Over(k, T) + k[x]
        /\ Over(g, T) \in Int /\ Over(k, T) \in Int
    BY <1>1, OverAdd
  <2>2. Over(p, T \cup {x}) = Over(p, T) + p[x] /\ Over(m, T \cup {x}) = Over(m, T) + m[x]
    BY <1>1, OverAdd
  <2>3. /\ Over(p, T \cup {x}) = Over(g, T \cup {x}) + Over(k, T \cup {x})
        /\ Over(m, T \cup {x}) = Over(g, T \cup {x}) - Over(k, T \cup {x})
    BY <1>1, <1>3, <2>1, <2>2
  <2>4. T \cup {x} \in SUBSET S
    OBVIOUS
  <2>5. QED
    BY <2>3, <2>4
<1> HIDE DEF Q
<1>4. Inductive(S, Q)
  BY <1>2, <1>3 DEF Inductive
<1>5. S \in Q
  BY <1>4, SetInduction
<1>6. QED
  BY <1>5 DEF Q, p, m

(* A sum of numbers is none less than each of them.                        *)
LEMMA OverNat ==
  ASSUME NEW S, IsFiniteSet(S), NEW g, \A x \in S : g[x] \in Nat
  PROVE  /\ Over(g, S) \in Nat
         /\ Over(g, S) = 0 => \A x \in S : g[x] = 0
<1> DEFINE Q == {T \in SUBSET S : Over(g, T) \in Nat /\ \A x \in T : g[x] <= Over(g, T)}
<1>1. \A x \in S : g[x] \in Int
  OBVIOUS
<1>2. {} \in Q
  BY <1>1, OverAdd
<1>3. ASSUME NEW T \in SUBSET S, NEW x \in S \ T, T \in Q PROVE T \cup {x} \in Q
  <2>1. Over(g, T \cup {x}) = Over(g, T) + g[x] /\ g[x] \in Nat /\ Over(g, T) \in Nat
    BY <1>1, <1>3, OverAdd
  <2>2. \A y \in T \cup {x} : g[y] <= Over(g, T \cup {x})
    <3>1. \A y \in T : g[y] <= Over(g, T) /\ g[y] \in Nat
      BY <1>3
    <3>2. QED
      BY <2>1, <3>1
  <2>3. QED
    BY <2>1, <2>2
<1> HIDE DEF Q
<1>4. Inductive(S, Q)
  BY <1>2, <1>3 DEF Inductive
<1>5. S \in Q
  BY <1>4, SetInduction
<1>6. QED
  BY <1>5 DEF Q

(* What is zero need not be added.                                         *)
LEMMA OverRest ==
  ASSUME NEW S, IsFiniteSet(S), NEW g, \A x \in S : g[x] \in Int,
         NEW T \in SUBSET S, \A x \in S \ T : g[x] = 0
  PROVE  Over(g, S) = Over(g, T)
<1> DEFINE U == S \ T
<1>1. IsFiniteSet(T) /\ IsFiniteSet(U) /\ T \cap U = {} /\ T \cup U = S
  BY FS_Subset
<1>2. \A x \in U : g[x] = 0
  OBVIOUS
<1> HIDE DEF U
<1>3. Over(g, T \cup U) = Over(g, T) + Over(g, U)
  BY <1>1, OverUnion
<1>4. Over(g, U) = 0
  BY <1>1, <1>2, OverZero
<1>5. Over(g, T) \in Int
  BY OverAdd
<1>6. S = T \cup U
  BY <1>1
<1>7. Over(g, S) = Over(g, T) + Over(g, U)
  BY <1>3, <1>6, Zenon
<1>8. QED
  BY <1>4, <1>5, <1>7

(* A sum over disjoint parts, part by part.                                *)
Parts(P, N) == UNION {P[n] : n \in N}

LEMMA OverParts ==
  ASSUME NEW N, IsFiniteSet(N), NEW P, \A n \in N : IsFiniteSet(P[n]),
         \A n, m \in N : n # m => P[n] \cap P[m] = {},
         NEW g, \A x \in Parts(P, N) : g[x] \in Int
  PROVE  /\ IsFiniteSet(Parts(P, N))
         /\ Over(g, Parts(P, N)) = Over([n \in N |-> Over(g, P[n])], N)
<1> DEFINE k == [n \in N |-> Over(g, P[n])]
           Q == {M \in SUBSET N : /\ IsFiniteSet(Parts(P, M))
                                  /\ Over(g, Parts(P, M)) = Over(k, M)}
<1>0. \A n \in N : \A x \in P[n] : g[x] \in Int
  BY DEF Parts
<1>1. \A n \in N : k[n] \in Int /\ k[n] = Over(g, P[n])
  <2>1. ASSUME NEW n \in N PROVE Over(g, P[n]) \in Int
    BY <1>0, OverAdd
  <2>2. QED
    BY <2>1
<1> HIDE DEF k
<1>2. {} \in Q
  <2>1. Parts(P, {}) = {} /\ IsFiniteSet({})
    BY FS_EmptySet DEF Parts
  <2>2. \A x \in {} : g[x] \in Int
    OBVIOUS
  <2>3. Over(g, {}) = 0
    BY <2>1, <2>2, OverAdd
  <2>4. Over(k, {}) = 0
    BY <1>1, OverAdd
  <2>5. QED
    BY <2>1, <2>3, <2>4
<1>3. ASSUME NEW M \in SUBSET N, NEW n \in N \ M, M \in Q PROVE M \cup {n} \in Q
  <2> DEFINE A == Parts(P, M)
             B == P[n]
  <2>1. Parts(P, M \cup {n}) = A \cup B /\ A \cap B = {} /\ \A x \in A \cup B : g[x] \in Int
    <3>1. \A x \in A : \E m \in M : x \in P[m]
      BY DEF Parts
    <3>2. Parts(P, M \cup {n}) = A \cup B
      BY DEF Parts
    <3>3. A \cap B = {}
      BY <3>1
    <3>4. \A x \in A \cup B : g[x] \in Int
      BY <1>0, <3>1
    <3>5. QED
      BY <3>2, <3>3, <3>4
  <2>2. IsFiniteSet(A) /\ IsFiniteSet(B) /\ Over(g, A) = Over(k, M) /\ Over(g, B) = k[n]
    BY <1>1, <1>3
  <2> HIDE DEF A, B
  <2>3. IsFiniteSet(A \cup B)
    BY <2>2, FS_Union
  <2>4. Over(g, A \cup B) = Over(g, A) + Over(g, B)
    BY <2>1, <2>2, OverUnion
  <2>5. Over(k, M \cup {n}) = Over(k, M) + k[n]
    BY <1>1, OverAdd
  <2>6. QED
    BY <2>1, <2>2, <2>3, <2>4, <2>5
<1> HIDE DEF Q
<1>4. Inductive(N, Q)
  BY <1>2, <1>3 DEF Inductive
<1>5. N \in Q
  BY <1>4, SetInduction
<1>6. QED
  BY <1>5 DEF Q, k

-----------------------------------------------------------------------------
(* The sum over a sequence of the number f gives each element.             *)
Values(s, f) == [i \in DOMAIN s |-> f[s[i]]]
Total(s, f) == Over(Values(s, f), DOMAIN s)
Measured(s, f) == \A x \in ToSet(s) : f[x] \in Int

LEMMA ValuesAre ==
  ASSUME NEW s, IsSeq(s), NEW f, Measured(s, f)
  PROVE  /\ IsFiniteSet(DOMAIN s) /\ \A i \in DOMAIN s : Values(s, f)[i] \in Int
         /\ Total(s, f) \in Int
         /\ \A at \in SUBSET (DOMAIN s) : Over(Values(s, f), at) \in Int
<1>1. IsFiniteSet(DOMAIN s)
  BY SeqIs, UpTo
<1>2. \A i \in DOMAIN s : Values(s, f)[i] \in Int
  BY DEF Values, Measured, ToSet
<1>3. \A at \in SUBSET (DOMAIN s) : Over(Values(s, f), at) \in Int
  BY <1>1, <1>2, OverAdd
<1>4. QED
  BY <1>1, <1>2, <1>3 DEF Total

LEMMA TotalPicked ==
  ASSUME NEW s, IsSeq(s), NEW f, Measured(s, f), NEW at, at \subseteq DOMAIN s
  PROVE  Total(Picked(s, at), f) = Over(Values(s, f), at)
<1> DEFINE n == Cardinality(at)
           b == Nth(at)
           g == Values(s, f)
<1>1. InTheirOrder(s, at)
  BY SeqIs, PickedIs
<1>2. /\ n \in Nat /\ b \in [1..n -> at] /\ \A i \in at : \E m \in 1..n : b[m] = i
      /\ \A m, k \in 1..n : m < k => b[m] < b[k]
      /\ Picked(s, at) = [m \in 1..n |-> s[b[m]]]
  BY <1>1 DEF InTheirOrder
<1>3. at \subseteq Nat
  BY SeqIs
<1> HIDE DEF n, b, g
<1>4. \A m, k \in 1..n : m # k => b[m] # b[k]
  <2>1. ASSUME NEW m \in 1..n, NEW k \in 1..n, m # k PROVE b[m] # b[k]
    <3>1. b[m] \in Nat /\ b[k] \in Nat /\ (m < k \/ k < m)
      BY <1>2, <1>3, <2>1
    <3>2. QED
      BY <1>2, <3>1
  <2>2. QED
    BY <2>1
<1>5. {b[m] : m \in 1..n} = at
  BY <1>2
<1>6. \A m \in 1..n : g[b[m]] \in Int /\ g[b[m]] = f[s[b[m]]]
  BY <1>2, ValuesAre DEF g, Values
<1>7. IsFiniteSet(1..n)
  BY <1>2, UpTo
<1>8. Over(g, at) = Over([m \in 1..n |-> g[b[m]]], 1..n)
  BY <1>4, <1>5, <1>6, <1>7, OverImage
<1>9. Values(Picked(s, at), f) = [m \in 1..n |-> g[b[m]]] /\ DOMAIN Picked(s, at) = 1..n
  BY <1>2, <1>6 DEF Values
<1>10. QED
  BY <1>8, <1>9 DEF Total, g

LEMMA TotalConcat ==
  ASSUME NEW s, IsSeq(s), NEW t, IsSeq(t), NEW f, Measured(s, f), Measured(t, f)
  PROVE  Total(s \o t, f) = Total(s, f) + Total(t, f) /\ Measured(s \o t, f)
<1> DEFINE S == ToSet(s) \cup ToSet(t)
           u == s \o t
           n == Len(s)
           m == Len(t)
           v == Values(u, f)
           b == [i \in 1..m |-> n + i]
           B == {b[i] : i \in 1..m}
<1>1. s \in Seq(S) /\ t \in Seq(S)
  BY SeqWithin
<1>2. /\ u \in Seq(S) /\ Len(u) = n + m
      /\ \A i \in 1..n + m : u[i] = IF i <= n THEN s[i] ELSE t[i - n]
  BY <1>1, ConcatProperties
<1>3. n \in Nat /\ m \in Nat /\ DOMAIN s = 1..n /\ DOMAIN t = 1..m /\ DOMAIN u = 1..n + m
  BY <1>1, <1>2, LenProperties
<1>4. IsSeq(u) /\ Measured(u, f)
  BY ConcatIs DEF Measured
<1> HIDE DEF u, n, m, v
<1>5. /\ \A i \in 1..n : v[i] = Values(s, f)[i]
      /\ \A i \in 1..m : b[i] = n + i /\ b[i] \in 1..n + m /\ v[b[i]] = Values(t, f)[i]
  <2>1. \A i \in 1..n : i \in 1..n + m /\ u[i] = s[i]
    BY <1>2, <1>3
  <2>2. \A i \in 1..m : n + i \in 1..n + m /\ u[n + i] = t[i]
    BY <1>2, <1>3
  <2>3. QED
    BY <1>3, <2>1, <2>2 DEF v, Values
<1>6. 1..n + m = 1..n \cup B /\ 1..n \cap B = {}
  <2>1. \A i \in 1..n + m : i \in 1..n \/ (i - n \in 1..m /\ i = b[i - n])
    BY <1>3
  <2>2. \A i \in 1..m : b[i] \notin 1..n /\ b[i] \in 1..n + m
    BY <1>3
  <2>3. 1..n \subseteq 1..n + m
    BY <1>3
  <2> HIDE DEF b
  <2>4. QED
    BY <2>1, <2>2, <2>3
<1>7. \A i \in 1..n + m : v[i] \in Int
  BY <1>3, <1>4, ValuesAre DEF v
<1>8. \A i, k \in 1..m : i # k => b[i] # b[k]
  BY <1>3
<1>9. IsFiniteSet(1..n) /\ IsFiniteSet(1..m) /\ IsFiniteSet(1..n + m)
  BY <1>3, UpTo
<1> HIDE DEF b
<1>10. Over(v, B) = Over([i \in 1..m |-> v[b[i]]], 1..m)
  <2>1. \A i \in 1..m : v[b[i]] \in Int
    BY <1>5, <1>7
  <2>2. QED
    BY <1>8, <1>9, <2>1, OverImage
<1>11. [i \in 1..m |-> v[b[i]]] = Values(t, f)
  BY <1>3, <1>5 DEF Values
<1>12. IsFiniteSet(B)
  <2>1. B \in SUBSET (1..n + m)
    BY <1>6
  <2>2. QED
    BY <1>9, <2>1, FS_Subset
<1>13. Over(v, 1..n) = Over(Values(s, f), 1..n)
  <2>1. \A i \in 1..n : Values(s, f)[i] \in Int
    BY <1>3, ValuesAre
  <2>2. QED
    BY <1>5, <1>9, <2>1, OverSame
<1> HIDE DEF B
<1>14. Over(v, 1..n \cup B) = Over(v, 1..n) + Over(v, B)
  <2>1. \A i \in 1..n \cup B : v[i] \in Int
    BY <1>6, <1>7
  <2>2. QED
    BY <1>6, <1>9, <1>12, <2>1, OverUnion
<1>15. Over(v, 1..n + m) = Over(v, 1..n \cup B)
  BY <1>6, Zenon
<1>16. Total(u, f) = Total(s, f) + Total(t, f)
  BY <1>3, <1>10, <1>11, <1>13, <1>14, <1>15 DEF Total, v
<1>17. QED
  BY <1>4, <1>16 DEF u

LEMMA TotalEmpty ==
  ASSUME NEW f
  PROVE  Total(<<>>, f) = 0 /\ Measured(<<>>, f)
<1>1. DOMAIN <<>> = {} /\ IsFiniteSet({})
  BY FS_EmptySet
<1>2. Over(Values(<<>>, f), {}) = 0
  <2>1. \A x \in {} : Values(<<>>, f)[x] \in Int
    OBVIOUS
  <2>2. QED
    BY <1>1, <2>1, OverAdd
<1>3. Measured(<<>>, f)
  BY EmptyIs DEF Measured
<1>4. QED
  BY <1>1, <1>2, <1>3 DEF Total

LEMMA TotalOne ==
  ASSUME NEW x, NEW f, f[x] \in Int
  PROVE  Total(<<x>>, f) = f[x] /\ IsSeq(<<x>>) /\ Measured(<<x>>, f)
<1> DEFINE s == <<x>>
           v == Values(s, f)
<1>1. DOMAIN s = 1..1 /\ s[1] = x /\ ToSet(s) = {x}
  BY DEF ToSet
<1>2. IsSeq(s) /\ Measured(s, f)
  BY <1>1 DEF IsSeq, Measured
<1>3. v[1] = f[x]
  BY <1>1 DEF Values
<1>4. \A i \in {1} : v[i] \in Int
  BY <1>3
<1>5. DOMAIN s = {1} /\ {} \cup {1} = {1}
  BY <1>1
<1> HIDE DEF s, v
<1> DEFINE S == {1}
<1>6. IsFiniteSet(S) /\ (\A i \in S : v[i] \in Int) /\ S \ {1} = {} /\ S \in SUBSET S /\ 1 \in S
  BY <1>4, FS_Singleton
<1> HIDE DEF S
<1>7. Over(v, {1}) = f[x]
  <2>1. Over(v, S) = v[1] + Over(v, S \ {1}) /\ Over(v, {}) = 0
    BY <1>6, OverLess, OverAdd
  <2>2. Over(v, S) = v[1]
    BY <1>3, <1>6, <2>1
  <2>3. QED
    BY <1>3, <2>2 DEF S
<1>8. Total(s, f) = f[x]
  BY <1>5, <1>7 DEF Total, v
<1>9. QED
  BY <1>2, <1>8 DEF s

LEMMA TotalSame ==
  ASSUME NEW s, IsSeq(s), NEW f, Measured(s, f), NEW t, NEW k, DOMAIN t = DOMAIN s,
         \A i \in DOMAIN s : k[t[i]] = f[s[i]]
  PROVE  Total(t, k) = Total(s, f)
<1>1. Values(t, k) = Values(s, f)
  BY DEF Values
<1>2. QED
  BY <1>1 DEF Total

LEMMA FlattenRuns ==
  ASSUME NEW ss, IsSeq(ss), ss # <<>>
  PROVE  \E h : /\ h[1] = ss[1] /\ FlattenSeq(ss) = h[Len(ss)]
                /\ \A k \in 1..Len(ss) : k < Len(ss) => h[k + 1] = h[k] \o ss[k + 1]
<1> DEFINE n == Len(ss)
           h == CHOOSE h : h = [i \in 1..n |-> IF i = 1 THEN ss[i] ELSE h[i - 1] \o ss[i]]
<1>1. n \in Nat /\ DOMAIN ss = 1..n /\ n # 0
  BY SeqIs, EmptyIs
<1>2. FlattenSeq(ss) = h[n]
  BY <1>1 DEF FlattenSeq
<1>3. h = [i \in 1..n |-> IF i = 1 THEN ss[i] ELSE h[i - 1] \o ss[i]]
  BY <1>1, FlattenMade
<1> HIDE DEF h, n
<1>4. \A i \in 1..n : h[i] = IF i = 1 THEN ss[i] ELSE h[i - 1] \o ss[i]
  BY <1>3
<1>5. 1 \in 1..n /\ \A k \in 1..n : k < n => k + 1 \in 1..n /\ k + 1 # 1 /\ (k + 1) - 1 = k
  BY <1>1
<1>6. h[1] = ss[1] /\ \A k \in 1..n : k < n => h[k + 1] = h[k] \o ss[k + 1]
  BY <1>4, <1>5
<1>7. QED
  BY <1>2, <1>6 DEF n

LEMMA TotalFlatten ==
  ASSUME NEW ss, IsSeq(ss), NEW f, \A n \in DOMAIN ss : IsSeq(ss[n]) /\ Measured(ss[n], f)
  PROVE  Total(FlattenSeq(ss), f) = Over([n \in DOMAIN ss |-> Total(ss[n], f)], DOMAIN ss)
<1> DEFINE n == Len(ss)
           t == [m \in DOMAIN ss |-> Total(ss[m], f)]
<1>1. n \in Nat /\ DOMAIN ss = 1..n
  BY SeqIs
<1>2. \A m \in 1..n : IsSeq(ss[m]) /\ Measured(ss[m], f) /\ t[m] = Total(ss[m], f) /\ t[m] \in Int
  BY <1>1, ValuesAre
<1>3. IsFiniteSet(1..n)
  BY <1>1, UpTo
<1> HIDE DEF t
<1>4. CASE ss = <<>>
  <2>1. FlattenSeq(ss) = <<>> /\ n = 0
    BY <1>4, EmptyIs DEF FlattenSeq
  <2>2. DOMAIN ss = {} /\ Over(t, {}) = 0
    BY <1>1, <1>2, <1>3, <2>1, OverAdd
  <2>3. QED
    BY <2>1, <2>2, TotalEmpty DEF t
<1>5. CASE ss # <<>>
  <2>1. PICK h : /\ h[1] = ss[1] /\ FlattenSeq(ss) = h[n]
                 /\ \A k \in 1..n : k < n => h[k + 1] = h[k] \o ss[k + 1]
    BY <1>5, FlattenRuns
  <2> HIDE DEF n
  <2> DEFINE P == {k \in 0..n : k = 0 \/ /\ IsSeq(h[k]) /\ Measured(h[k], f)
                                         /\ Total(h[k], f) = Over(t, 1..k)}
  <2>2. 0 \in P
    BY <1>1
  <2>3. ASSUME NEW k \in 0..n, k \in P, k < n PROVE k + 1 \in P
    <3>1. k + 1 \in 1..n /\ k + 1 \notin 1..k /\ 1..(k + 1) = 1..k \cup {k + 1}
          /\ 1..k \in SUBSET (1..n)
      BY <1>1, <2>3
    <3>2. Over(t, 1..(k + 1)) = Over(t, 1..k) + t[k + 1]
      <4>1. \A i \in 1..n : t[i] \in Int
        BY <1>2
      <4>2. k + 1 \in 1..n \ 1..k
        BY <3>1
      <4>3. Over(t, 1..k \cup {k + 1}) = Over(t, 1..k) + t[k + 1]
        <5> DEFINE S == 1..n
                   T == 1..k
        <5> HIDE DEF S
        <5>1. \A U \in SUBSET S : \A x \in S \ U : Over(t, U \cup {x}) = Over(t, U) + t[x]
          <6>1. IsFiniteSet(S) /\ \A i \in S : t[i] \in Int
            BY <1>3, <4>1 DEF S
          <6>2. QED
            BY <6>1, OverAdd, ZenonT(60)
        <5>2. T \in SUBSET S /\ k + 1 \in S \ T
          BY <3>1, <4>2 DEF S
        <5> HIDE DEF T
        <5>3. Over(t, T \cup {k + 1}) = Over(t, T) + t[k + 1]
          BY <5>1, <5>2
        <5>4. QED
          BY <5>3 DEF T
      <4>4. QED
        BY <3>1, <4>3
    <3>3. CASE k = 0
      <4>1. Over(t, 1..0) = 0 /\ 1..k = 1..0
        <5>1. 1..0 = {}
          OBVIOUS
        <5>2. \A i \in 1..n : t[i] \in Int
          BY <1>2
        <5>3. Over(t, {}) = 0
          BY <1>3, <5>2, OverAdd
        <5>4. QED
          BY <3>3, <5>1, <5>3
      <4>2. h[k + 1] = ss[k + 1]
        BY <2>1, <3>3
      <4>3. Total(h[k + 1], f) = t[k + 1] /\ t[k + 1] \in Int /\ IsSeq(h[k + 1])
            /\ Measured(h[k + 1], f)
        BY <1>2, <3>1, <4>2
      <4>4. Over(t, 1..(k + 1)) = t[k + 1]
        BY <3>2, <4>1, <4>3
      <4>5. QED
        BY <1>1, <2>3, <3>1, <4>3, <4>4
    <3>4. CASE k # 0
      <4>1. k \in 1..n /\ IsSeq(h[k]) /\ Measured(h[k], f) /\ Total(h[k], f) = Over(t, 1..k)
        BY <2>3, <3>4
      <4>2. h[k + 1] = h[k] \o ss[k + 1]
        BY <2>1, <2>3, <4>1
      <4>3. IsSeq(ss[k + 1]) /\ Measured(ss[k + 1], f) /\ t[k + 1] = Total(ss[k + 1], f)
        BY <1>2, <3>1
      <4>4. /\ Total(h[k + 1], f) = Total(h[k], f) + Total(ss[k + 1], f)
            /\ Measured(h[k + 1], f) /\ IsSeq(h[k + 1])
        BY <4>1, <4>2, <4>3, TotalConcat, ConcatIs
      <4>5. QED
        BY <1>1, <2>3, <3>1, <3>2, <4>1, <4>3, <4>4
    <3>5. QED
      BY <3>3, <3>4
  <2>4. \A k \in 0..n : k \in P /\ k < n => k + 1 \in P
    BY <2>3
  <2> HIDE DEF P
  <2>5. n \in P
    <3>1. 0..n \subseteq P
      BY <1>1, <2>2, <2>4, Induction
    <3>2. QED
      BY <1>1, <3>1
  <2>6. n # 0
    BY <1>5, EmptyIs DEF n
  <2>7. QED
    BY <1>1, <2>1, <2>5, <2>6 DEF P, t
<1>6. QED
  BY <1>4, <1>5

(* The parts of a sequence that positions at[n] pick from it: together     *)
(* they are the whole.                                                     *)
LEMMA TotalParts ==
  ASSUME NEW s, IsSeq(s), NEW f, Measured(s, f), NEW N, IsFiniteSet(N),
         NEW at, \A n \in N : at[n] \subseteq DOMAIN s,
         \A n, m \in N : n # m => at[n] \cap at[m] = {},
         \A i \in DOMAIN s : f[s[i]] = 0 \/ \E n \in N : i \in at[n]
  PROVE  Total(s, f) = Over([n \in N |-> Total(Picked(s, at[n]), f)], N)
<1> DEFINE v == Values(s, f)
           p == [n \in N |-> Over(v, at[n])]
           q == [n \in N |-> Total(Picked(s, at[n]), f)]
<1>1. IsFiniteSet(DOMAIN s) /\ \A i \in DOMAIN s : v[i] \in Int
  BY ValuesAre
<1>2. p = q
  <2>1. ASSUME NEW n \in N PROVE Total(Picked(s, at[n]), f) = Over(v, at[n])
    BY TotalPicked
  <2> HIDE DEF v
  <2>2. QED
    BY <2>1
<1>3. \A i \in DOMAIN s : v[i] = f[s[i]]
  BY DEF Values
<1> HIDE DEF v, q
<1>4. \A n \in N : IsFiniteSet(at[n])
  BY <1>1, FS_Subset
<1>5. Parts(at, N) \subseteq DOMAIN s /\ \A i \in DOMAIN s \ Parts(at, N) : v[i] = 0
  BY <1>3 DEF Parts
<1>6. Over(v, DOMAIN s) = Over(v, Parts(at, N))
  BY <1>1, <1>5, OverRest
<1>7. \A i \in Parts(at, N) : v[i] \in Int
  BY <1>1, <1>5
<1>8. Over(v, Parts(at, N)) = Over(p, N)
  BY <1>4, <1>7, OverParts
<1>9. QED
  BY <1>2, <1>6, <1>8 DEF Total, v, q

-----------------------------------------------------------------------------
(* The ids that rows without one get: those of one voucher the same, those *)
(* of two vouchers different ones.                                         *)
OpenerOf(rows, i) ==
  IF OpensVoucher(rows, i) THEN i
  ELSE CHOOSE k \in 1..i : OpensVoucher(rows, k) /\ rows[k].voucher = rows[i].voucher
OpenedUpTo(rows, o) == {k \in 1..o : OpensVoucher(rows, k)}

LEMMA OpenerIs ==
  ASSUME NEW rows, IsSeq(rows), \A k \in DOMAIN rows : rows[k].uid = 0, NEW i \in DOMAIN rows
  PROVE  /\ OpenerOf(rows, i) \in 1..i /\ OpensVoucher(rows, OpenerOf(rows, i))
         /\ rows[OpenerOf(rows, i)].voucher = rows[i].voucher
<1>1. Len(rows) \in Nat /\ DOMAIN rows = 1..Len(rows) /\ i \in 1..i /\ i \in Nat
  BY SeqIs
<1>2. CASE OpensVoucher(rows, i)
  BY <1>1, <1>2 DEF OpenerOf
<1>3. CASE ~OpensVoucher(rows, i)
  <2> DEFINE I == {k \in 1..i : rows[k].voucher = rows[i].voucher}
  <2>1. I \subseteq Nat /\ i \in I
    BY <1>1
  <2>2. PICK k \in I : \A m \in I : k <= m
    <3> HIDE DEF I
    <3>1. QED
      BY <2>1, LeastElement
  <2>3. \A m \in 1..(k - 1) : m \in 1..i /\ m \notin I /\ m \in DOMAIN rows
    BY <1>1, <2>2
  <2>4. rows[k].uid = 0
    BY <1>1, <2>2
  <2>5. OpensVoucher(rows, k)
    BY <2>2, <2>3, <2>4 DEF OpensVoucher
  <2>6. \E m \in 1..i : OpensVoucher(rows, m) /\ rows[m].voucher = rows[i].voucher
    BY <2>2, <2>5
  <2>7. OpenerOf(rows, i) =
          CHOOSE m \in 1..i : OpensVoucher(rows, m) /\ rows[m].voucher = rows[i].voucher
    BY <1>3 DEF OpenerOf
  <2> HIDE DEF I
  <2>8. QED
    BY <2>6, <2>7
<1>4. QED
  BY <1>2, <1>3

LEMMA OpenedOnce ==
  ASSUME NEW rows, NEW o \in Nat, NEW p \in Nat, o < p, OpensVoucher(rows, p)
  PROVE  Cardinality(OpenedUpTo(rows, o)) # Cardinality(OpenedUpTo(rows, p))
<1> DEFINE A == OpenedUpTo(rows, o)
           B == OpenedUpTo(rows, p)
<1>1. A \in SUBSET B /\ B \in SUBSET (1..p) /\ p \in B /\ p \notin A
  BY DEF OpenedUpTo
<1>2. IsFiniteSet(1..p)
  BY UpTo
<1> HIDE DEF A, B
<1>3. IsFiniteSet(B)
  BY <1>1, <1>2, FS_Subset
<1>4. Cardinality(B) = Cardinality(A) => B = A
  BY <1>1, <1>3, FS_Subset
<1>5. Cardinality(A) # Cardinality(B)
  BY <1>1, <1>4
<1>6. QED
  BY <1>5 DEF A, B

LEMMA OneOpening ==
  ASSUME NEW rows, NEW o \in Nat, NEW p \in Nat, o # 0, p # 0,
         rows[o].uid = 0, rows[p].uid = 0, OpensVoucher(rows, o), OpensVoucher(rows, p)
  PROVE  /\ Cardinality(OpenedUpTo(rows, o)) = Cardinality(OpenedUpTo(rows, p)) <=> o = p
         /\ rows[o].voucher # "" /\ rows[o].voucher = rows[p].voucher => o = p
<1>1. Cardinality(OpenedUpTo(rows, o)) = Cardinality(OpenedUpTo(rows, p)) => o = p
  <2>1. o < p => Cardinality(OpenedUpTo(rows, o)) # Cardinality(OpenedUpTo(rows, p))
    BY OpenedOnce
  <2>2. p < o => Cardinality(OpenedUpTo(rows, o)) # Cardinality(OpenedUpTo(rows, p))
    BY OpenedOnce
  <2>3. o = p \/ o < p \/ p < o
    OBVIOUS
  <2>4. QED
    BY <2>1, <2>2, <2>3
<1>2. ASSUME rows[o].voucher # "", rows[o].voucher = rows[p].voucher PROVE o = p
  <2>1. \A m \in 1..(p - 1) : rows[m].uid # 0 \/ rows[m].voucher # rows[p].voucher
    BY <1>2 DEF OpensVoucher
  <2>2. \A m \in 1..(o - 1) : rows[m].uid # 0 \/ rows[m].voucher # rows[o].voucher
    BY <1>2 DEF OpensVoucher
  <2>3. o < p => o \in 1..(p - 1)
    OBVIOUS
  <2>4. p < o => p \in 1..(o - 1)
    OBVIOUS
  <2>5. o = p \/ o < p \/ p < o
    OBVIOUS
  <2>6. QED
    BY <1>2, <2>1, <2>2, <2>3, <2>4, <2>5
<1>3. QED
  BY <1>1, <1>2

LEMMA Within ==
  ASSUME NEW n \in Nat, NEW i \in 1..n
  PROVE  i \in Nat /\ \A o \in 1..i : o \in Nat /\ o # 0 /\ o \in 1..n
OBVIOUS

LEMMA VoucherNumberIs ==
  ASSUME NEW rows, IsSeq(rows), \A k \in DOMAIN rows : rows[k].uid = 0,
         NEW i \in DOMAIN rows, rows[i].voucher # "", NEW k \in DOMAIN rows
  PROVE  VoucherNumber(rows, k) = VoucherNumber(rows, i) <=> rows[k].voucher = rows[i].voucher
<1>1. Len(rows) \in Nat /\ DOMAIN rows = 1..Len(rows) /\ i \in Nat /\ k \in Nat
  <2>1. Len(rows) \in Nat /\ DOMAIN rows = 1..Len(rows)
    BY SeqIs
  <2>2. i \in 1..Len(rows) /\ k \in 1..Len(rows)
    BY <2>1, Zenon
  <2>3. i \in Nat /\ k \in Nat
    BY <2>1, <2>2, Within, Zenon
  <2>4. QED
    BY <2>1, <2>3, Zenon
<1>2. PICK o \in 1..i : /\ o = OpenerOf(rows, i) /\ OpensVoucher(rows, o)
                        /\ rows[o].voucher = rows[i].voucher
  BY OpenerIs
<1>3. PICK p \in 1..k : /\ p = OpenerOf(rows, k) /\ OpensVoucher(rows, p)
                        /\ rows[p].voucher = rows[k].voucher
  BY OpenerIs
<1>4. /\ o \in Nat /\ p \in Nat /\ o # 0 /\ p # 0
      /\ o \in DOMAIN rows /\ p \in DOMAIN rows
  <2>1. i \in 1..Len(rows) /\ k \in 1..Len(rows) /\ Len(rows) \in Nat
    BY <1>1, Zenon
  <2>2. /\ o \in Nat /\ p \in Nat /\ o # 0 /\ p # 0
        /\ o \in 1..Len(rows) /\ p \in 1..Len(rows)
    BY <2>1, Within, Zenon
  <2>3. QED
    BY <1>1, <2>2, Zenon
<1>5. rows[o].uid = 0 /\ rows[p].uid = 0
  BY <1>4
<1>6. /\ Cardinality(OpenedUpTo(rows, o)) = Cardinality(OpenedUpTo(rows, p)) <=> o = p
      /\ rows[o].voucher # "" /\ rows[o].voucher = rows[p].voucher => o = p
  BY <1>2, <1>3, <1>4, <1>5, OneOpening
<1>7. /\ VoucherNumber(rows, i) = Cardinality(OpenedUpTo(rows, OpenerOf(rows, i)))
      /\ VoucherNumber(rows, k) = Cardinality(OpenedUpTo(rows, OpenerOf(rows, k)))
  BY DEF VoucherNumber, OpenerOf, OpenedUpTo
<1>8. QED
  BY <1>2, <1>3, <1>6, <1>7

(* So the rows of an entry are those that were written with one id, or in  *)
(* one voucher, unless the file has ids for some rows only.                *)
Mixed(rows) == \E i, k \in DOMAIN rows : rows[i].uid = 0 /\ rows[k].uid # 0
WrittenTogether(rows, i) == {k \in DOMAIN rows : WrittenId(rows[k]) = WrittenId(rows[i])}

LEMMA AssignedAre ==
  ASSUME NEW rows \in Workbook
  PROVE  LET all == AssignMissingUniqueIds(rows)
         IN /\ IsSeq(rows) /\ IsSeq(all) /\ DOMAIN all = DOMAIN rows
            /\ \A i \in DOMAIN rows :
                 /\ all[i].uid = IF rows[i].uid # 0 THEN rows[i].uid ELSE VoucherNumber(rows, i)
                 /\ all[i].d = rows[i].d /\ all[i].c = rows[i].c /\ all[i].acct = rows[i].acct
                 /\ all[i].safe = rows[i].safe /\ all[i].line = i
                 /\ all[i].inv = rows[i].inv
                 /\ all[i].d \in Nat /\ all[i].c \in Nat
<1> DEFINE all == AssignMissingUniqueIds(rows)
<1>1. rows \in Seq(Row) /\ \A i \in DOMAIN rows : rows[i] \in Row /\ rows[i].line = i
  BY DEF Workbook
<1>2. IsSeq(rows)
  BY <1>1, SeqTyped
<1>3. IsSeq(all)
  BY RowsAre
<1>4. DOMAIN all = DOMAIN rows
  BY DEF AssignMissingUniqueIds
<1>5. ASSUME NEW i \in DOMAIN rows
      PROVE  /\ all[i].uid = IF rows[i].uid # 0 THEN rows[i].uid ELSE VoucherNumber(rows, i)
             /\ all[i].d = rows[i].d /\ all[i].c = rows[i].c /\ all[i].acct = rows[i].acct
             /\ all[i].safe = rows[i].safe /\ all[i].line = i /\ all[i].inv = rows[i].inv
             /\ all[i].d \in Nat /\ all[i].c \in Nat
  <2> DEFINE n == VoucherNumber(rows, i)
  <2>1. all[i] = IF rows[i].uid # 0 THEN rows[i] ELSE [rows[i] EXCEPT !.uid = n]
    BY DEF AssignMissingUniqueIds
  <2>2. rows[i] \in Row /\ rows[i].line = i
    BY <1>1
  <2> HIDE DEF n, all
  <2>3. /\ all[i].uid = IF rows[i].uid # 0 THEN rows[i].uid ELSE n
        /\ all[i].d = rows[i].d /\ all[i].c = rows[i].c /\ all[i].acct = rows[i].acct
        /\ all[i].safe = rows[i].safe /\ all[i].line = i /\ all[i].inv = rows[i].inv
        /\ all[i].d \in Nat /\ all[i].c \in Nat
    BY <2>1, <2>2 DEF Row
  <2>4. QED
    BY <2>3 DEF n
<1>6. QED
  BY <1>2, <1>3, <1>4, <1>5

LEMMA EntryAsWritten ==
  ASSUME NEW rows \in Workbook, ~Mixed(rows), NEW i \in DOMAIN rows,
         rows[i].uid # 0 \/ rows[i].voucher # ""
  PROVE  WithId(AssignMissingUniqueIds(rows), AssignMissingUniqueIds(rows)[i].uid)
           = WrittenTogether(rows, i)
<1> DEFINE all == AssignMissingUniqueIds(rows)
<1>1. /\ IsSeq(rows) /\ DOMAIN all = DOMAIN rows
      /\ \A k \in DOMAIN rows :
           all[k].uid = IF rows[k].uid # 0 THEN rows[k].uid ELSE VoucherNumber(rows, k)
  BY AssignedAre
<1> HIDE DEF all
<1>2. ASSUME NEW k \in DOMAIN rows
      PROVE  all[k].uid = all[i].uid <=> WrittenId(rows[k]) = WrittenId(rows[i])
  <2>1. CASE rows[i].uid # 0
    <3>1. rows[k].uid # 0
      BY <2>1 DEF Mixed
    <3>2. QED
      BY <1>1, <2>1, <3>1 DEF WrittenId
  <2>2. CASE rows[i].uid = 0
    <3>1. \A m \in DOMAIN rows : rows[m].uid = 0
      BY <2>2 DEF Mixed
    <3>2. rows[i].voucher # "" /\ rows[k].uid = 0
      BY <2>2, <3>1
    <3>3. VoucherNumber(rows, k) = VoucherNumber(rows, i) <=> rows[k].voucher = rows[i].voucher
      BY <1>1, <3>1, <3>2, VoucherNumberIs
    <3>4. all[k].uid = VoucherNumber(rows, k) /\ all[i].uid = VoucherNumber(rows, i)
      BY <1>1, <2>2, <3>2
    <3>5. QED
      BY <2>2, <3>2, <3>3, <3>4 DEF WrittenId
  <2>3. QED
    BY <2>1, <2>2
<1>3. WithId(all, all[i].uid) = WrittenTogether(rows, i)
  BY <1>1, <1>2 DEF WithId, WrittenTogether
<1>4. QED
  BY <1>3 DEF all

-----------------------------------------------------------------------------
(* The allocation of withholding: every row that is given is given to a    *)
(* vendor row of its invoice that has as much left.                        *)
Money(s) == \A x \in ToSet(s) : x.d \in Nat /\ x.c \in Nat
LinesIn(s) == {s[i].line : i \in DOMAIN s}
DebitPerLine(vendors) ==
  [l \in LinesIn(vendors) |-> Debits(Where(vendors, LAMBDA v : v.line = l))]
Allocations(L) == [ok : BOOLEAN, left : [L -> Int], to : Seq(L)]
NothingAllocated(vendors) == [ok |-> TRUE, left |-> DebitPerLine(vendors), to |-> <<>>]
Gives(vendors, a, w, b) ==
  b.ok = TRUE =>
    /\ a.ok = TRUE /\ w.inv # NoInvoice
    /\ \E v \in ToSet(vendors) : /\ CanHold(v, w, a.left[v.line])
                                 /\ b.left = [a.left EXCEPT ![v.line] = @ - w.c]
                                 /\ b.to = Append(a.to, v.line)

LEMMA SumsAre ==
  ASSUME NEW s, IsSeq(s), Money(s)
  PROVE  /\ Debits(s) \in Nat /\ Credits(s) \in Nat
         /\ Debits(s) = Over([i \in DOMAIN s |-> s[i].d], DOMAIN s)
         /\ Credits(s) = Over([i \in DOMAIN s |-> s[i].c], DOMAIN s)
<1> DEFINE d == [i \in DOMAIN s |-> s[i].d]
           c == [i \in DOMAIN s |-> s[i].c]
<1>1. Debits(s) = Over(d, DOMAIN s) /\ Credits(s) = Over(c, DOMAIN s)
  BY DEF Debits, Credits, SumFunction, Over
<1>2. IsFiniteSet(DOMAIN s)
  BY SeqIs, UpTo
<1>3. \A i \in DOMAIN s : d[i] \in Nat /\ c[i] \in Nat
  BY DEF Money, ToSet
<1> HIDE DEF d, c
<1>4. Over(d, DOMAIN s) \in Nat /\ Over(c, DOMAIN s) \in Nat
  BY <1>2, <1>3, OverNat
<1>5. QED
  BY <1>1, <1>4 DEF d, c

LEMMA DebitPerLineIs ==
  ASSUME NEW vendors, IsSeq(vendors), Money(vendors)
  PROVE  DebitPerLine(vendors) \in [LinesIn(vendors) -> Nat]
<1>1. ASSUME NEW l \in LinesIn(vendors)
      PROVE  Debits(Where(vendors, LAMBDA v : v.line = l)) \in Nat
  <2> DEFINE at == {i \in DOMAIN vendors : vendors[i].line = l}
             s == Picked(vendors, at)
  <2>1. at \subseteq DOMAIN vendors
    OBVIOUS
  <2>2. Where(vendors, LAMBDA v : v.line = l) = s
    BY DEF Where
  <2> HIDE DEF at
  <2>3. IsSeq(s) /\ ToSet(s) \subseteq ToSet(vendors)
    BY <2>1, PickedSome
  <2>4. Money(s)
    BY <2>3 DEF Money
  <2> HIDE DEF s
  <2>5. Debits(s) \in Nat
    BY <2>3, <2>4, SumsAre
  <2>6. QED
    BY <2>2, <2>5
<1>2. QED
  BY <1>1 DEF DebitPerLine

LEMMA AllocateIs ==
  ASSUME NEW vendors, IsSeq(vendors), NEW acc \in Allocations(LinesIn(vendors)),
         NEW w, w.c \in Nat
  PROVE  /\ Allocate(vendors, acc, w) \in Allocations(LinesIn(vendors))
         /\ Gives(vendors, acc, w, Allocate(vendors, acc, w))
<1> DEFINE at == {i \in DOMAIN vendors : CanHold(vendors[i], w, acc.left[vendors[i].line])}
           able == Picked(vendors, at)
           b == Allocate(vendors, acc, w)
           L == LinesIn(vendors)
           no == [acc EXCEPT !.ok = FALSE]
           yes(l) == [acc EXCEPT !.left[l] = @ - w.c, !.to = Append(@, l)]
<1>1. b = IF ~acc.ok \/ w.inv = NoInvoice \/ able = <<>> THEN no ELSE yes(able[1].line)
  BY DEF Allocate, Where
<1>2. at \subseteq DOMAIN vendors
  OBVIOUS
<1>3. IsSeq(able) /\ ToSet(able) = {vendors[i] : i \in at}
  <2> HIDE DEF at
  <2>1. QED
    BY <1>2, PickedElements
<1>4. /\ acc = [ok |-> acc.ok, left |-> acc.left, to |-> acc.to]
      /\ acc.ok \in BOOLEAN /\ acc.left \in [L -> Int] /\ acc.to \in Seq(L)
  BY DEF Allocations
<1>5. no \in Allocations(L) /\ no.ok = FALSE
  BY <1>4 DEF Allocations
<1> HIDE DEF able
<1>6. ASSUME able # <<>> PROVE able[1] \in ToSet(vendors)
                               /\ CanHold(able[1], w, acc.left[able[1].line])
  <2>1. able[1] \in ToSet(able)
    BY <1>3, <1>6, FirstOf
  <2>2. QED
    BY <1>2, <1>3, <2>1 DEF ToSet
<1>7. ASSUME NEW v \in ToSet(vendors)
      PROVE  /\ yes(v.line) \in Allocations(L)
             /\ yes(v.line).left = [acc.left EXCEPT ![v.line] = @ - w.c]
             /\ yes(v.line).to = Append(acc.to, v.line)
  <2> DEFINE l == v.line
             y == yes(l)
  <2>1. l \in L
    BY DEF ToSet, LinesIn
  <2>2. y = [ok |-> acc.ok, left |-> [acc.left EXCEPT ![l] = @ - w.c], to |-> Append(acc.to, l)]
    <3> DEFINE left == [acc.left EXCEPT ![l] = @ - w.c]
               to == Append(acc.to, l)
    <3>1. y = [[acc EXCEPT !.left = left] EXCEPT !.to = to]
      OBVIOUS
    <3> HIDE DEF l, left, to, y
    <3>2. y = [ok |-> acc.ok, left |-> left, to |-> to]
      BY <1>4, <3>1
    <3>3. QED
      BY <3>2 DEF left, to
  <2> HIDE DEF l, y, L
  <2>3. Append(acc.to, l) \in Seq(L)
    BY <1>4, <2>1, AppendProperties
  <2>4. [acc.left EXCEPT ![l] = @ - w.c] \in [L -> Int]
    BY <1>4, <2>1
  <2>5. y \in Allocations(L)
    BY <1>4, <2>2, <2>3, <2>4 DEF Allocations
  <2>6. QED
    BY <2>2, <2>5 DEF y, l
<1> HIDE DEF b, no, yes, L
<1>8. b \in Allocations(L)
  BY <1>1, <1>5, <1>6, <1>7
<1>9. Gives(vendors, acc, w, b)
  BY <1>1, <1>4, <1>5, <1>6, <1>7 DEF Gives
<1>10. QED
  BY <1>8, <1>9 DEF b, L

Allocating(vendors, wht, acc) ==
  /\ \A k \in 0..Len(wht) : acc[k] \in Allocations(LinesIn(vendors))
  /\ acc[0] = NothingAllocated(vendors)
  /\ \A k \in 0..(Len(wht) - 1) : Gives(vendors, acc[k], wht[k + 1], acc[k + 1])
  /\ AllocateWhtLinesToVendors(vendors, wht) = acc[Len(wht)]

LEMMA AllocationRuns ==
  ASSUME NEW vendors, IsSeq(vendors), Money(vendors), NEW wht, IsSeq(wht), Money(wht)
  PROVE  \E acc : Allocating(vendors, wht, acc)
<1> DEFINE V == Allocations(LinesIn(vendors))
           S == wht
           n == Len(S)
           base == NothingAllocated(vendors)
           step(a, i) == Allocate(vendors, a, wht[i])
           run == CHOOSE f : f = [t \in SUBSET (DOMAIN S) |->
                                    IF t = {} THEN base ELSE step(f[t \ {Max(t)}], Max(t))]
<1>1. AllocateWhtLinesToVendors(vendors, wht) = run[DOMAIN S]
  BY DEF AllocateWhtLinesToVendors, FoldLeft, MapThenFoldSet, NothingAllocated, DebitPerLine,
         LinesIn
<1>2. IsSeq(S)
  OBVIOUS
<1> HIDE DEF S
<1>3. n \in Nat /\ DOMAIN S = 1..n
  BY <1>2, SeqIs
<1>4. base \in V
  <2> DEFINE L == LinesIn(vendors)
  <2>1. <<>> \in Seq(L)
    BY EmptySeq
  <2>2. DebitPerLine(vendors) \in [L -> Int]
    <3>1. DebitPerLine(vendors) \in [L -> Nat]
      BY DebitPerLineIs
    <3>2. QED
      BY <3>1
  <2>3. QED
    BY <2>1, <2>2 DEF NothingAllocated, Allocations
<1>5. ASSUME NEW a \in V, NEW i \in 1..n
      PROVE  step(a, i) \in V /\ Gives(vendors, a, wht[i], step(a, i))
  <2>1. wht[i].c \in Nat
    BY <1>3 DEF S, Money, ToSet
  <2>2. QED
    BY <2>1, AllocateIs
<1> DEFINE G == [p \in V \X (1..n) |-> step(p[1], p[2])]
<1> HIDE DEF V, base, step
<1>6. G \in [V \X (1..n) -> V]
  BY <1>5
<1>7. PICK h \in [SUBSET (1..n) -> V] : Runs(h, n, base, G)
  <2> HIDE DEF G, n
  <2>1. QED
    BY <1>3, <1>4, <1>6, FoldMade
<1>8. h = [t \in SUBSET (1..n) |-> IF t = {} THEN base ELSE step(h[t \ {Max(t)}], Max(t))]
  <2>1. ASSUME NEW t \in SUBSET (1..n), t # {}
        PROVE  G[h[t \ {Max(t)}], Max(t)] = step(h[t \ {Max(t)}], Max(t))
    <3>1. Max(t) \in 1..n /\ h[t \ {Max(t)}] \in V
      <4>1. Max(t) \in t
        BY <1>3, <2>1, MaxOf
      <4>2. QED
        BY <4>1
    <3>2. QED
      BY <3>1
  <2>2. h = [t \in SUBSET (1..n) |-> IF t = {} THEN base ELSE G[h[t \ {Max(t)}], Max(t)]]
    BY <1>7 DEF Runs
  <2> HIDE DEF G
  <2> DEFINE A(t) == IF t = {} THEN base ELSE G[h[t \ {Max(t)}], Max(t)]
             B(t) == IF t = {} THEN base ELSE step(h[t \ {Max(t)}], Max(t))
  <2>3. \A t \in SUBSET (1..n) : A(t) = B(t)
    BY <2>1
  <2>4. h = [t \in SUBSET (1..n) |-> A(t)]
    BY <2>2
  <2> HIDE DEF A, B
  <2>5. h = [t \in SUBSET (1..n) |-> B(t)]
    BY <2>3, <2>4
  <2>6. QED
    BY <2>5 DEF B
<1>9. run = [t \in SUBSET (1..n) |-> IF t = {} THEN base ELSE step(run[t \ {Max(t)}], Max(t))]
  BY <1>3, <1>8
<1> HIDE DEF run, n
<1>10. run[{}] = base
  BY <1>9
<1>11. ASSUME NEW k \in 0..(n - 1) PROVE run[1..(k + 1)] = step(run[1..k], k + 1)
  <2>1. k \in 0..n /\ k < n /\ k + 1 \in 1..n
    BY <1>3
  <2>2. /\ 1..(k + 1) # {} /\ 1..(k + 1) \in SUBSET (1..n)
        /\ Max(1..(k + 1)) = k + 1 /\ 1..(k + 1) \ {k + 1} = 1..k
    BY <1>3, <2>1, MaxOfPrefix
  <2>3. QED
    BY <1>9, <2>2
<1>12. \A k \in 0..n : run[1..k] \in V
  <2>1. ASSUME NEW k \in 0..(n - 1), run[1..k] \in V PROVE run[1..(k + 1)] \in V
    <3>1. k + 1 \in 1..n
      BY <1>3
    <3>2. QED
      BY <1>5, <1>11, <2>1, <3>1
  <2>2. QED
    BY <1>3, <1>4, <1>10, <2>1, PrefixesIn
<1> DEFINE all == [k \in 0..n |-> run[1..k]]
<1>13. all[0] = base
  <2>1. 1..0 = {} /\ 0 \in 0..n
    BY <1>3
  <2>2. QED
    BY <1>10, <2>1
<1>14. \A k \in 0..(n - 1) : all[k + 1] = step(all[k], k + 1)
  <2> SUFFICES ASSUME NEW k \in 0..(n - 1) PROVE all[k + 1] = step(all[k], k + 1)
    OBVIOUS
  <2>1. k \in 0..n /\ k + 1 \in 0..n
    BY <1>3
  <2>2. QED
    BY <1>11, <2>1
<1>15. n \in 0..n
  BY <1>3
<1>16. AllocateWhtLinesToVendors(vendors, wht) = all[n]
  BY <1>1, <1>3, <1>15
<1>17. \A k \in 0..n : all[k] \in V
  BY <1>12
<1>18. \A k \in 0..(n - 1) : Gives(vendors, all[k], wht[k + 1], all[k + 1])
  <2> SUFFICES ASSUME NEW k \in 0..(n - 1) PROVE Gives(vendors, all[k], wht[k + 1], all[k + 1])
    OBVIOUS
  <2>1. all[k] \in V /\ k + 1 \in 1..n
    BY <1>3, <1>17
  <2>2. QED
    BY <1>5, <1>14, <2>1
<1> HIDE DEF all
<1>19. Allocating(vendors, wht, all)
  BY <1>13, <1>16, <1>17, <1>18 DEF Allocating, base, n, V, S
<1>20. QED
  BY <1>19

LEMMA AllocationGives ==
  ASSUME NEW vendors, IsSeq(vendors), Money(vendors), NEW wht, IsSeq(wht), Money(wht),
         AllocateWhtLinesToVendors(vendors, wht).ok = TRUE
  PROVE  /\ AllocateWhtLinesToVendors(vendors, wht).to \in Seq(LinesIn(vendors))
         /\ Len(AllocateWhtLinesToVendors(vendors, wht).to) = Len(wht)
<1> DEFINE n == Len(wht)
           L == LinesIn(vendors)
<1>1. PICK acc : Allocating(vendors, wht, acc)
  BY AllocationRuns
<1>2. n \in Nat
  BY SeqIs
<1>3. /\ \A k \in 0..n : acc[k] \in Allocations(L)
      /\ acc[0] = NothingAllocated(vendors)
      /\ \A k \in 0..(n - 1) : Gives(vendors, acc[k], wht[k + 1], acc[k + 1])
      /\ AllocateWhtLinesToVendors(vendors, wht) = acc[n]
  BY <1>1 DEF Allocating
<1> DEFINE P == {k \in 0..n : acc[k].ok = TRUE => Len(acc[k].to) = k}
<1> HIDE DEF n, L
<1>4. 0 \in P
  BY <1>2, <1>3 DEF NothingAllocated
<1>5. ASSUME NEW k \in 0..n, k \in P, k < n PROVE k + 1 \in P
  <2> DEFINE a == acc[k]
             b == acc[k + 1]
  <2>1. k \in 0..(n - 1) /\ k + 1 \in 0..n /\ k \in 0..n /\ k \in Nat
    BY <1>2, <1>5
  <2>2. /\ Gives(vendors, a, wht[k + 1], b) /\ a \in Allocations(L)
        /\ a.ok = TRUE => Len(a.to) = k
    BY <1>3, <1>5, <2>1
  <2> HIDE DEF a, b
  <2>3. ASSUME b.ok = TRUE PROVE Len(b.to) = k + 1
    <3>1. PICK v \in ToSet(vendors) : b.to = Append(a.to, v.line)
      BY <2>2, <2>3 DEF Gives
    <3>2. a.to \in Seq(L) /\ Len(a.to) = k
      BY <2>2, <2>3 DEF Gives, Allocations
    <3>3. v.line \in L
      BY DEF L, LinesIn, ToSet
    <3>4. Len(Append(a.to, v.line)) = Len(a.to) + 1
      BY <3>2, <3>3, AppendProperties
    <3>5. QED
      BY <3>1, <3>2, <3>4
  <2>4. QED
    BY <2>1, <2>3 DEF b
<1>6. \A k \in 0..n : k \in P /\ k < n => k + 1 \in P
  BY <1>5
<1> HIDE DEF P
<1>7. 0..n \subseteq P
  BY <1>2, <1>4, <1>6, Induction
<1>8. acc[n] \in Allocations(L) /\ (acc[n].ok = TRUE => Len(acc[n].to) = n)
  BY <1>2, <1>3, <1>7 DEF P
<1>9. QED
  BY <1>3, <1>8 DEF Allocations, L, n

-----------------------------------------------------------------------------
(* Every entry becomes a line, but withholding that settles custody alone. *)
LEMMA FlattenSome ==
  ASSUME NEW ss, IsSeq(ss), \A n \in DOMAIN ss : IsSeq(ss[n]),
         NEW m \in DOMAIN ss, ss[m] # <<>>
  PROVE  FlattenSeq(ss) # <<>>
<1>1. ToSet(FlattenSeq(ss)) = UNION {ToSet(ss[n]) : n \in DOMAIN ss} /\ IsSeq(FlattenSeq(ss))
  BY FlattenIs
<1>2. ToSet(ss[m]) # {}
  BY EmptyIs
<1>3. ToSet(FlattenSeq(ss)) # {}
  BY <1>1, <1>2
<1>4. QED
  BY <1>1, <1>3, EmptyIs

LEMMA MappedIs ==
  ASSUME NEW s, IsSeq(s), NEW t, DOMAIN t = DOMAIN s, t = [i \in DOMAIN s |-> t[i]]
  PROVE  IsSeq(t) /\ Len(t) = Len(s) /\ (s # <<>> => t # <<>>)
<1>1. Len(s) \in Nat /\ DOMAIN s = 1..Len(s)
  BY SeqIs
<1>2. IsSeq(t) /\ Len(t) = Len(s)
  BY <1>1, SeqMade
<1>3. QED
  BY <1>2, EmptyIs

LEMMA SomeSourceLine ==
  ASSUME NEW co, NEW rows, IsSeq(rows), rows # <<>>
  PROVE  SourceLines(co, rows) # <<>>
<1> DEFINE t == SourceLines(co, rows)
<1>1. DOMAIN t = DOMAIN rows /\ t = [i \in DOMAIN rows |-> t[i]]
  BY DEF SourceLines
<1> HIDE DEF t
<1>2. t # <<>>
  BY <1>1, MappedIs
<1>3. QED
  BY <1>2 DEF t

LEMMA SomeMergedLine ==
  ASSUME NEW co, NEW vendors, IsSeq(vendors), vendors # <<>>, NEW payment,
         NEW wht, IsSeq(wht)
  PROVE  MergeVendorPaymentLinesWithOffset(co, vendors, payment, wht) # <<>>
<1> DEFINE alloc == AllocateWhtLinesToVendors(vendors, wht)
           mine(v) == Picked(wht, {i \in DOMAIN wht : alloc.to[i] = v.line})
           main(v) == IF v.d > Credits(mine(v)) \/ mine(v) = <<>>
                      THEN <<BuildLineOutbound(co, v, payment, v.d - Credits(mine(v)))>>
                      ELSE <<>>
           own(v) == main(v) \o [n \in DOMAIN mine(v) |-> WithholdingCompanion(co, v, mine(v)[n])]
           ss == [i \in DOMAIN vendors |-> own(vendors[i])]
<1>1. \/ MergeVendorPaymentLinesWithOffset(co, vendors, payment, wht) = <<ErrorLine(vendors[1])>>
      \/ MergeVendorPaymentLinesWithOffset(co, vendors, payment, wht) = FlattenSeq(ss)
  BY DEF MergeVendorPaymentLinesWithOffset
<1> HIDE DEF alloc
<1>2. <<ErrorLine(vendors[1])>> # <<>>
  OBVIOUS
<1>3. ASSUME NEW v PROVE IsSeq(own(v)) /\ own(v) # <<>>
  <2> DEFINE at == {i \in DOMAIN wht : alloc.to[i] = v.line}
             own1 == Picked(wht, at)
             e == BuildLineOutbound(co, v, payment, v.d - Credits(own1))
             first == IF v.d > Credits(own1) \/ own1 = <<>> THEN <<e>> ELSE <<>>
             c == [n \in DOMAIN own1 |-> WithholdingCompanion(co, v, own1[n])]
  <2>1. own(v) = first \o c
    OBVIOUS
  <2>2. at \subseteq DOMAIN wht
    OBVIOUS
  <2> HIDE DEF at, e, own
  <2>3. IsSeq(own1)
    BY <2>2, PickedSome
  <2> HIDE DEF own1
  <2>4. DOMAIN c = DOMAIN own1 /\ c = [n \in DOMAIN own1 |-> c[n]]
    OBVIOUS
  <2> HIDE DEF c
  <2>5. IsSeq(c) /\ (own1 # <<>> => c # <<>>)
    BY <2>3, <2>4, MappedIs
  <2>6. IsSeq(<<e>>) /\ <<e>> # <<>> /\ IsSeq(<<>>)
    <3>1. DOMAIN <<e>> = 1..1 /\ <<e>> = [i \in 1..1 |-> <<e>>[i]]
      OBVIOUS
    <3>2. QED
      BY <3>1, SeqMade, EmptyIs
  <2>7. IsSeq(first) /\ (own1 = <<>> => first # <<>>)
    BY <2>6
  <2> HIDE DEF first
  <2>8. /\ IsSeq(first \o c) /\ Len(first \o c) = Len(first) + Len(c)
        /\ Len(first) \in Nat /\ Len(c) \in Nat
    BY <2>5, <2>7, ConcatIs, SeqIs
  <2>9. Len(first) # 0 \/ Len(c) # 0
    BY <2>5, <2>7, EmptyIs
  <2>10. Len(first \o c) # 0
    BY <2>8, <2>9
  <2>11. QED
    BY <2>1, <2>8, <2>10, EmptyIs
<1> HIDE DEF own
<1>4. DOMAIN ss = DOMAIN vendors /\ ss = [i \in DOMAIN vendors |-> ss[i]]
  OBVIOUS
<1>5. \A i \in DOMAIN ss : IsSeq(ss[i]) /\ ss[i] # <<>>
  BY <1>3
<1> HIDE DEF ss
<1>6. IsSeq(ss)
  BY <1>4, MappedIs
<1>7. 1 \in DOMAIN ss
  BY <1>4, FirstOf
<1>8. FlattenSeq(ss) # <<>>
  BY <1>5, <1>6, <1>7, FlattenSome
<1>9. QED
  BY <1>1, <1>2, <1>8

LEMMA SomeWithholdingLine ==
  ASSUME NEW co, NEW vendors, IsSeq(vendors), Money(vendors), NEW wht, IsSeq(wht), Money(wht),
         wht # <<>>
  PROVE  BuildWithholdingOnlyVendorPaymentLines(co, vendors, wht) # <<>>
<1> DEFINE alloc == AllocateWhtLinesToVendors(vendors, wht)
           mine(v) == Picked(wht, {i \in DOMAIN wht : alloc.to[i] = v.line})
           own(v) == [n \in DOMAIN mine(v) |-> WithholdingCompanion(co, v, mine(v)[n])]
           ss == [i \in DOMAIN vendors |-> own(vendors[i])]
<1>1. BuildWithholdingOnlyVendorPaymentLines(co, vendors, wht) =
        IF Debits(vendors) # Credits(wht) \/ ~alloc.ok THEN <<ErrorLine(vendors[1])>>
        ELSE FlattenSeq(ss)
  BY DEF BuildWithholdingOnlyVendorPaymentLines
<1>2. <<ErrorLine(vendors[1])>> # <<>>
  OBVIOUS
<1>3. alloc.ok \in BOOLEAN
  <2>1. PICK acc : Allocating(vendors, wht, acc)
    BY AllocationRuns
  <2>2. Len(wht) \in 0..Len(wht)
    <3>1. Len(wht) \in Nat
      BY SeqIs
    <3>2. QED
      BY <3>1
  <2>3. alloc \in Allocations(LinesIn(vendors))
    BY <2>1, <2>2 DEF Allocating
  <2> HIDE DEF alloc
  <2>4. QED
    BY <2>3 DEF Allocations
<1>4. alloc.ok = TRUE => alloc.to \in Seq(LinesIn(vendors)) /\ Len(alloc.to) = Len(wht)
  BY AllocationGives
<1> HIDE DEF alloc
<1>5. ASSUME NEW v PROVE IsSeq(own(v)) /\ (mine(v) # <<>> => own(v) # <<>>)
  <2> DEFINE at == {i \in DOMAIN wht : alloc.to[i] = v.line}
             own1 == Picked(wht, at)
             c == [n \in DOMAIN own1 |-> WithholdingCompanion(co, v, own1[n])]
  <2>1. own(v) = c /\ mine(v) = own1
    OBVIOUS
  <2>2. at \subseteq DOMAIN wht
    OBVIOUS
  <2> HIDE DEF at, own, mine
  <2>3. IsSeq(own1)
    BY <2>2, PickedSome
  <2> HIDE DEF own1
  <2>4. DOMAIN c = DOMAIN own1 /\ c = [n \in DOMAIN own1 |-> c[n]]
    OBVIOUS
  <2> HIDE DEF c
  <2>5. IsSeq(c) /\ (own1 # <<>> => c # <<>>)
    BY <2>3, <2>4, MappedIs
  <2>6. QED
    BY <2>1, <2>5
<1> HIDE DEF own
<1>6. ASSUME alloc.ok = TRUE PROVE FlattenSeq(ss) # <<>>
  <2>1. 1 \in DOMAIN wht /\ Len(wht) \in Nat /\ DOMAIN wht = 1..Len(wht)
    BY FirstOf, SeqIs
  <2>2. alloc.to[1] \in LinesIn(vendors)
    <3>1. 1 \in DOMAIN alloc.to
      BY <1>4, <1>6, <2>1, LenProperties, Zenon
    <3>2. QED
      BY <1>4, <1>6, <3>1, ElementOfSeq
  <2>3. PICK k \in DOMAIN vendors : alloc.to[1] = vendors[k].line
    BY <2>2 DEF LinesIn
  <2>4. mine(vendors[k]) # <<>>
    <3> DEFINE at == {i \in DOMAIN wht : alloc.to[i] = vendors[k].line}
    <3>1. at \subseteq DOMAIN wht /\ 1 \in at
      BY <2>1, <2>3
    <3> HIDE DEF at
    <3>2. IsSeq(Picked(wht, at)) /\ ToSet(Picked(wht, at)) = {wht[i] : i \in at}
      BY <3>1, PickedElements
    <3>3. Picked(wht, at) # <<>>
      BY <3>1, <3>2, EmptyIs
    <3>4. QED
      BY <3>3 DEF at
  <2> HIDE DEF mine
  <2>5. DOMAIN ss = DOMAIN vendors /\ ss = [i \in DOMAIN vendors |-> ss[i]]
    OBVIOUS
  <2>6. /\ \A i \in DOMAIN ss : IsSeq(ss[i])
        /\ k \in DOMAIN ss /\ ss[k] # <<>>
    BY <1>5, <2>4
  <2> HIDE DEF ss
  <2>7. IsSeq(ss)
    BY <2>5, MappedIs
  <2>8. QED
    BY <2>6, <2>7, FlattenSome
<1> HIDE DEF ss
<1>7. QED
  BY <1>1, <1>2, <1>3, <1>6

LEMMA SomeVendorPaymentLine ==
  ASSUME NEW co, NEW rows, IsSeq(rows), rows # <<>>, Money(rows)
  PROVE  BuildVendorPaymentLines(co, rows) # <<>>
<1> DEFINE atWht == {i \in DOMAIN rows : IsWithholdingLedgerLine(rows[i])}
           atVendor == {i \in DOMAIN rows : IsVendorDebit(rows[i])}
           atOffset == {i \in DOMAIN rows : IsPaymentOffset(rows[i])}
           wht == Picked(rows, atWht)
           vendors == Picked(rows, atVendor)
           offsets == Picked(rows, atOffset)
<1>1. BuildVendorPaymentLines(co, rows) =
        IF IsMainAccountOnlyLedgerGroup(rows) THEN SourceLines(co, rows)
        ELSE IF vendors = <<>> \/ Len(offsets) > 1 THEN <<ErrorLine(rows[1])>>
        ELSE IF offsets # <<>>
          THEN MergeVendorPaymentLinesWithOffset(co, vendors, offsets[1], wht)
        ELSE IF wht # <<>> THEN BuildWithholdingOnlyVendorPaymentLines(co, vendors, wht)
        ELSE SourceLines(co, vendors)
  BY DEF BuildVendorPaymentLines, Where
<1>2. atWht \subseteq DOMAIN rows /\ atVendor \subseteq DOMAIN rows
  OBVIOUS
<1> HIDE DEF atWht, atVendor
<1>3. /\ IsSeq(wht) /\ ToSet(wht) \subseteq ToSet(rows)
      /\ IsSeq(vendors) /\ ToSet(vendors) \subseteq ToSet(rows)
  BY <1>2, PickedSome
<1> HIDE DEF wht, vendors, offsets
<1>4. Money(wht) /\ Money(vendors)
  BY <1>3 DEF Money
<1>5. SourceLines(co, rows) # <<>> /\ <<ErrorLine(rows[1])>> # <<>>
  BY SomeSourceLine
<1>6. vendors # <<>> =>
        /\ SourceLines(co, vendors) # <<>>
        /\ MergeVendorPaymentLinesWithOffset(co, vendors, offsets[1], wht) # <<>>
  BY <1>3, SomeSourceLine, SomeMergedLine
<1>7. wht # <<>> => BuildWithholdingOnlyVendorPaymentLines(co, vendors, wht) # <<>>
  BY <1>3, <1>4, SomeWithholdingLine
<1>8. QED
  BY <1>1, <1>5, <1>6, <1>7

LEMMA SomeLine ==
  ASSUME NEW co, NEW rows, IsSeq(rows), rows # <<>>, Money(rows),
         \A r \in ToSet(rows) : Sound(r) /\ r.safe = rows[1].safe
  PROVE  BuildLines(co, rows) # <<>> \/ BecomesNoLine(rows)
<1> DEFINE atWht == {i \in DOMAIN rows : IsWithholdingLedgerLine(rows[i])}
           atKept == {i \in DOMAIN rows : ~IsWithholdingLedgerLine(rows[i])}
           atPaid == {i \in DOMAIN rows : IsCashOutSettlementOffsetSource(rows[i])}
           in == {i \in DOMAIN rows : InSplit(rows, rows[i])}
           out == {i \in DOMAIN rows : ~InSplit(rows, rows[i])}
           wht == Picked(rows, atWht)
<1>1. BuildLines(co, rows) =
        IF rows[1].safe = "Vendor Payment" THEN BuildVendorPaymentLines(co, rows)
        ELSE IF SplitsCustodySettlement(rows)
          THEN SourceLines(co, Picked(rows, out)) \o BuildVendorPaymentLines(co, Picked(rows, in))
        ELSE PreservedLines(co, rows, wht) \o BuildCashOutWithholdingCompanions(co, rows, wht)
  BY DEF BuildLines, BuildCustodySettlementCashOutLines, Where
<1>2. /\ atWht \subseteq DOMAIN rows /\ atKept \subseteq DOMAIN rows
      /\ atPaid \subseteq DOMAIN rows /\ in \subseteq DOMAIN rows /\ out \subseteq DOMAIN rows
  OBVIOUS
<1>3. ASSUME SplitsCustodySettlement(rows)
      PROVE  SourceLines(co, Picked(rows, out)) \o BuildVendorPaymentLines(co, Picked(rows, in))
               # <<>>
  <2>1. Len(Picked(rows, atPaid)) = 1
    BY <1>3 DEF SplitsCustodySettlement, Where
  <2>2. PICK i \in atPaid : TRUE
    <3> HIDE DEF atPaid
    <3>1. IsSeq(Picked(rows, atPaid)) /\ ToSet(Picked(rows, atPaid)) = {rows[i] : i \in atPaid}
      BY <1>2, PickedElements
    <3> DEFINE paid == Picked(rows, atPaid)
    <3> HIDE DEF paid
    <3>2. ToSet(paid) # {}
      <4>1. Len(paid) = 1 /\ IsSeq(paid)
        BY <2>1, <3>1 DEF paid
      <4>2. Len(paid) # 0
        BY <4>1
      <4>3. QED
        BY <4>1, <4>2, EmptyIs
    <3>3. QED
      BY <3>1, <3>2 DEF paid
  <2>3. i \in in
    BY <2>2 DEF InSplit
  <2> HIDE DEF in, out
  <2>4. /\ IsSeq(Picked(rows, in)) /\ ToSet(Picked(rows, in)) = {rows[k] : k \in in}
        /\ IsSeq(Picked(rows, out)) /\ ToSet(Picked(rows, out)) \subseteq ToSet(rows)
        /\ ToSet(Picked(rows, in)) \subseteq ToSet(rows)
    BY <1>2, PickedElements, PickedSome
  <2>5. Picked(rows, in) # <<>> /\ Money(Picked(rows, in))
    BY <2>3, <2>4, EmptyIs DEF Money
  <2>6. BuildVendorPaymentLines(co, Picked(rows, in)) # <<>>
    BY <2>4, <2>5, SomeVendorPaymentLine
  <2>7. IsSeq(BuildVendorPaymentLines(co, Picked(rows, in)))
    <3> DEFINE R == ToSet(rows)
    <3>1. AllGood(co, R, BuildVendorPaymentLines(co, Picked(rows, Split(rows))))
      BY <1>3, SplitGood
    <3>2. Split(rows) = in
      BY DEF Split, in
    <3>3. QED
      BY <3>1, <3>2 DEF AllGood
  <2> DEFINE s == SourceLines(co, Picked(rows, out))
             t == BuildVendorPaymentLines(co, Picked(rows, in))
  <2>8. IsSeq(s)
    BY <2>4, SourceLinesGood DEF AllGood
  <2> HIDE DEF s, t
  <2>9. Len(s \o t) = Len(s) + Len(t) /\ Len(s) \in Nat /\ Len(t) \in Nat /\ IsSeq(s \o t)
    BY <2>7, <2>8, ConcatIs, SeqIs DEF t
  <2>10. Len(t) # 0
    BY <2>6, <2>7, EmptyIs DEF t
  <2>11. s \o t # <<>>
    BY <2>9, <2>10, EmptyIs
  <2>12. QED
    BY <2>11 DEF s, t
<1>4. rows[1].safe = "Vendor Payment" => BuildVendorPaymentLines(co, rows) # <<>>
  BY SomeVendorPaymentLine
<1>5. ASSUME rows[1].safe # "Vendor Payment", ~BecomesNoLine(rows)
      PROVE  PreservedLines(co, rows, wht) \o BuildCashOutWithholdingCompanions(co, rows, wht)
               # <<>>
  <2>1. PICK i \in DOMAIN rows : ~IsWithholdingLedgerLine(rows[i])
    <3>1. PICK i \in DOMAIN rows :
            ~(IsWithholdingLedgerLine(rows[i]) /\ rows[i].safe = "Custody Settlement")
      BY <1>5 DEF BecomesNoLine
    <3>2. rows[i] \in ToSet(rows)
      BY DEF ToSet
    <3>3. Sound(rows[i]) /\ rows[i].safe # "Vendor Payment"
      BY <1>5, <3>2
    <3>4. QED
      BY <3>1, <3>3 DEF Sound, IsWithholdingLedgerLine, Settling
  <2>2. i \in atKept
    BY <2>1
  <2> DEFINE kept == Picked(rows, atKept)
             p == PreservedLines(co, rows, wht)
             c == BuildCashOutWithholdingCompanions(co, rows, wht)
  <2>3. DOMAIN p = DOMAIN kept /\ p = [k \in DOMAIN kept |-> p[k]]
    BY DEF PreservedLines, Where
  <2>4. IsSeq(wht) /\ IsSeq(kept) /\ kept # <<>>
    <3> HIDE DEF atWht, atKept
    <3>1. /\ IsSeq(wht)
          /\ IsSeq(kept) /\ ToSet(kept) = {rows[k] : k \in atKept}
      BY <1>2, PickedElements, PickedSome
    <3>2. QED
      BY <2>2, <3>1, EmptyIs
  <2>5. IsSeq(c)
    BY <2>4, CompanionsAre
  <2> HIDE DEF p, c, kept, atKept
  <2>6. IsSeq(p) /\ p # <<>>
    BY <2>3, <2>4, MappedIs
  <2>7. Len(p \o c) = Len(p) + Len(c) /\ Len(p) \in Nat /\ Len(c) \in Nat /\ IsSeq(p \o c)
    BY <2>5, <2>6, ConcatIs, SeqIs
  <2>8. Len(p) # 0
    BY <2>6, EmptyIs
  <2>9. p \o c # <<>>
    BY <2>7, <2>8, EmptyIs
  <2>10. QED
    BY <2>9 DEF p, c
<1> HIDE DEF wht, in, out
<1>6. QED
  BY <1>1, <1>3, <1>4, <1>5

(* ... which names the entry.                                              *)
LEMMA SomeInvoiceLine ==
  ASSUME NEW co, NEW rows, Checked(rows), NEW n \in DOMAIN BuildUniqueIdMap(rows),
         ~BecomesNoLine(BuildUniqueIdMap(rows)[n])
  PROVE  \E l \in ToSet(UpdateCashBatchAndVoucher(BuildInvoiceLines(co, rows))) :
           l.uid = BuildUniqueIdMap(rows)[n][1].uid
<1> DEFINE E == BuildUniqueIdMap(rows)
           ss == [m \in DOMAIN E |-> BuildLines(co, E[m])]
           built == BuildInvoiceLines(co, rows)
           e == E[n]
<1>1. built = FlattenSeq(ss)
  BY DEF BuildInvoiceLines
<1>2. Entries(rows, E) /\ n \in DOMAIN E /\ ~BecomesNoLine(e)
  BY EntriesAre DEF Checked
<1> HIDE DEF E
<1>3. ASSUME NEW m \in DOMAIN E
      PROVE  /\ IsSeq(E[m]) /\ E[m] # <<>> /\ Money(E[m])
             /\ \A r \in ToSet(E[m]) : Sound(r) /\ r.safe = E[m][1].safe /\ r.uid = E[m][1].uid
             /\ AllGood(co, ToSet(E[m]), BuildLines(co, E[m]))
  <2> DEFINE x == E[m]
  <2>1. IsSeq(x) /\ x # <<>> /\ ToSet(x) = {r \in ToSet(rows) : r.uid = x[1].uid}
    BY <1>2 DEF Entries
  <2> HIDE DEF x
  <2>2. x[1] \in ToSet(x)
    BY <2>1, FirstOf
  <2>3. \A r \in ToSet(x) : /\ r \in ToSet(rows) /\ Sound(r) /\ Typed(r)
                            /\ r.safe = x[1].safe /\ r.uid = x[1].uid
    BY <2>1, <2>2 DEF Checked
  <2>4. AllGood(co, ToSet(x), BuildLines(co, x))
    BY <2>1, <2>3, BuildLinesGood
  <2>5. Money(x)
    BY <2>3 DEF Money, Typed
  <2>6. QED
    BY <2>1, <2>3, <2>4, <2>5 DEF x
<1>4. PICK l \in ToSet(BuildLines(co, e)) : l.uid = e[1].uid
  <2>1. BuildLines(co, e) # <<>>
    BY <1>2, <1>3, SomeLine
  <2>2. IsSeq(BuildLines(co, e)) /\ \A l \in ToSet(BuildLines(co, e)) : Good(co, ToSet(e), l)
    BY <1>2, <1>3 DEF AllGood
  <2>3. PICK l \in ToSet(BuildLines(co, e)) : TRUE
    BY <2>1, <2>2, EmptyIs
  <2>4. PICK r \in ToSet(e) : l.uid = r.uid
    BY <2>2, <2>3 DEF Good, ComesFrom
  <2>5. QED
    BY <1>2, <1>3, <2>4
<1>5. l \in ToSet(built)
  <2>1. DOMAIN ss = DOMAIN E /\ ss = [m \in DOMAIN E |-> ss[m]]
    OBVIOUS
  <2>2. \A m \in DOMAIN ss : IsSeq(ss[m])
    BY <1>3 DEF AllGood
  <2>3. ss[n] = BuildLines(co, e) /\ n \in DOMAIN ss
    BY <1>2
  <2> HIDE DEF ss, built
  <2>4. IsSeq(ss)
    BY <1>2, <2>1, MappedIs DEF Entries
  <2>5. ToSet(built) = UNION {ToSet(ss[m]) : m \in DOMAIN ss}
    BY <1>1, <2>2, <2>4, FlattenIs
  <2>6. QED
    BY <1>4, <2>3, <2>5
<1>6. AllGood(co, ToSet(rows), built)
  BY InvoiceLinesGood DEF Checked
<1> HIDE DEF built
<1>7. IsSeq(built) /\ \A x \in ToSet(built) : x.month \in Nat /\ IsLine(x)
  BY <1>6, GoodMonth DEF AllGood, Good, Checked
<1>8. PICK j \in Nat : At(l, j) \in ToSet(UpdateCashBatchAndVoucher(built))
  BY <1>5, <1>7, NumberedAre
<1>9. At(l, j).uid = l.uid
  BY <1>5, <1>7 DEF At, IsLine
<1>10. QED
  BY <1>4, <1>8, <1>9 DEF built, E

-----------------------------------------------------------------------------
(* AcceptedBalances.  The rows of an entry and the rows as they were       *)
(* written differ in the id only.                                          *)
LEMMA EntryAlike ==
  ASSUME NEW rows \in Workbook, NEW at, at \subseteq DOMAIN rows
  PROVE  LET all == AssignMissingUniqueIds(rows)
         IN /\ Debits(Picked(rows, at)) = Debits(Picked(all, at))
            /\ Credits(Picked(rows, at)) = Credits(Picked(all, at))
            /\ BecomesNoLine(Picked(all, at)) => BecomesNoLine(Picked(rows, at))
<1> DEFINE all == AssignMissingUniqueIds(rows)
           n == Cardinality(at)
           b == Nth(at)
           x == Picked(rows, at)
           y == Picked(all, at)
<1>1. /\ IsSeq(rows) /\ IsSeq(all) /\ DOMAIN all = DOMAIN rows
      /\ \A i \in DOMAIN rows :
           /\ all[i].d = rows[i].d /\ all[i].c = rows[i].c /\ all[i].acct = rows[i].acct
           /\ all[i].safe = rows[i].safe
  BY AssignedAre
<1> HIDE DEF all
<1>2. InTheirOrder(rows, at) /\ InTheirOrder(all, at)
  BY <1>1, SeqIs, PickedIs
<1>3. /\ n \in Nat /\ b \in [1..n -> at]
      /\ x = [m \in 1..n |-> rows[b[m]]] /\ y = [m \in 1..n |-> all[b[m]]]
  BY <1>2 DEF InTheirOrder
<1> HIDE DEF n, b, x, y
<1>4. /\ DOMAIN x = 1..n /\ DOMAIN y = 1..n
      /\ \A m \in 1..n : /\ x[m].d = y[m].d /\ x[m].c = y[m].c /\ x[m].acct = y[m].acct
                         /\ x[m].safe = y[m].safe
  BY <1>1, <1>3
<1>5. /\ [m \in DOMAIN x |-> x[m].d] = [m \in DOMAIN y |-> y[m].d]
      /\ [m \in DOMAIN x |-> x[m].c] = [m \in DOMAIN y |-> y[m].c]
  BY <1>4
<1>6. Debits(x) = Debits(y) /\ Credits(x) = Credits(y)
  BY <1>5, Zenon DEF Debits, Credits
<1>7. BecomesNoLine(y) => BecomesNoLine(x)
  BY <1>4 DEF BecomesNoLine, IsWithholdingLedgerLine
<1>8. QED
  BY <1>6, <1>7 DEF x, y, all

(* An entry that does not balance is in the set the errors are set from    *)
(* when its file is validated: nobody else was in the processor to replace *)
(* it; and it has a line to set one on.                                    *)
Due(u) == CheckInvoiceBalancedAfterFx(Rows(u))
EntriesOf(u) == BuildUniqueIdMap(Rows(u))
Alone(u) == \A v \in Uploads \ {u} : ~Inside(v)
Marked(u) == \A l \in ToSet(lines[u]) : l.error = FALSE => l.uid \notin Due(u)
Shown(u) ==
  \A n \in DOMAIN EntriesOf(u) :
    \/ BecomesNoLine(EntriesOf(u)[n])
    \/ \E l \in ToSet(lines[u]) : l.uid = EntriesOf(u)[n][1].uid
BalanceInv ==
  \A u \in Uploads \ shared :
    /\ Inside(u) => Alone(u)
    /\ pc[u] = "lookup" => unbalanced = Due(u)
    /\ pc[u] \in {"stored", "posted"} => Marked(u)
    /\ Formatted(u) => Shown(u)

LEMMA DueIs ==
  ASSUME NEW rows, NEW n \in DOMAIN BuildUniqueIdMap(rows),
         BuildUniqueIdMap(rows)[n][1].uid \notin CheckInvoiceBalancedAfterFx(rows)
  PROVE  Debits(BuildUniqueIdMap(rows)[n]) = Credits(BuildUniqueIdMap(rows)[n])
<1> DEFINE E == BuildUniqueIdMap(rows)
           D == {m \in DOMAIN E : Debits(E[m]) # Credits(E[m])}
<1>1. E[n][1].uid \notin {E[m][1].uid : m \in D}
  BY DEF CheckInvoiceBalancedAfterFx
<1> HIDE DEF E
<1>2. n \notin D
  BY <1>1
<1>3. QED
  BY <1>2 DEF E

LEMMA BalanceInvImplies == SettleInv /\ BalanceInv => AcceptedBalances
<1> SUFFICES ASSUME SettleInv, BalanceInv, NEW u \in Uploads \ shared, Accepted(u),
                    ~Mixed(file[u]), NEW i \in DOMAIN file[u],
                    file[u][i].uid # 0 \/ file[u][i].voucher # ""
             PROVE  LET mine == Picked(file[u], WrittenTogether(file[u], i))
                    IN Debits(mine) = Credits(mine) \/ BecomesNoLine(mine)
  BY DEF AcceptedBalances, Mixed, Where, WrittenTogether
<1> DEFINE rows == file[u]
           all == Rows(u)
           E == EntriesOf(u)
           at == WrittenTogether(rows, i)
           mine == Picked(rows, at)
<1>1. rows \in Workbook
  BY CashOutAssumption DEF SettleInv, FilesTyped
<1>2. IsSeq(all) /\ DOMAIN all = DOMAIN rows /\ all = AssignMissingUniqueIds(rows)
  BY <1>1, AssignedAre DEF Rows
<1>3. WithId(all, all[i].uid) = at
  BY <1>1, <1>2, EntryAsWritten
<1>4. PICK n \in DOMAIN E : E[n][1].uid = all[i].uid /\ E[n] = Picked(all, at)
  <2>1. Entries(all, E)
    BY <1>2, EntriesAre DEF EntriesOf
  <2> HIDE DEF all, E, at
  <2>2. all[i] \in ToSet(all)
    BY <1>2 DEF ToSet
  <2>3. PICK n \in DOMAIN E : E[n][1].uid = all[i].uid
    BY <2>1, <2>2 DEF Entries
  <2>4. E[n] = Picked(all, WithId(all, E[n][1].uid))
    BY <2>1 DEF Entries
  <2>5. QED
    BY <1>3, <2>3, <2>4
<1>5. /\ Debits(mine) = Debits(E[n]) /\ Credits(mine) = Credits(E[n])
      /\ BecomesNoLine(E[n]) => BecomesNoLine(mine)
  <2>1. at \subseteq DOMAIN rows
    BY DEF WrittenTogether
  <2> DEFINE given == AssignMissingUniqueIds(rows)
             whole == Picked(given, at)
  <2>2. /\ Debits(mine) = Debits(whole) /\ Credits(mine) = Credits(whole)
        /\ BecomesNoLine(whole) => BecomesNoLine(mine)
    BY <1>1, <2>1, EntryAlike
  <2>3. E[n] = whole
    BY <1>2, <1>4, Zenon
  <2> HIDE DEF whole, mine, E
  <2>4. QED
    BY <2>2, <2>3
<1>6. pc[u] \in {"stored", "posted"} /\ ErrorCount(u) = 0 /\ Formatted(u)
  BY DEF Accepted, Formatted
<1>7. Marked(u) /\ Shown(u)
  BY <1>6 DEF BalanceInv
<1>8. \A l \in ToSet(lines[u]) : l.error = FALSE
  <2>1. AllGood(CompanyOf[u], ToSet(Rows(u)), lines[u])
    BY <1>6 DEF SettleInv, LinesGood
  <2>2. QED
    BY <1>6, <2>1, GoodErrors, NoErrors
<1>9. ASSUME ~BecomesNoLine(E[n]) PROVE Debits(E[n]) = Credits(E[n])
  <2>1. PICK l \in ToSet(lines[u]) : l.uid = E[n][1].uid
    BY <1>7, <1>9 DEF Shown
  <2>2. E[n][1].uid \notin Due(u)
    BY <1>7, <1>8, <2>1 DEF Marked
  <2>3. QED
    BY <2>2, DueIs DEF Due, EntriesOf
<1>10. QED
  BY <1>5, <1>9

LEMMA BalanceInit == Init => BalanceInv
<1> SUFFICES ASSUME Init PROVE BalanceInv
  OBVIOUS
<1>1. \A u \in Uploads : pc[u] = "idle"
  BY DEF Init
<1>2. QED
  BY <1>1 DEF BalanceInv, Inside, Formatted

(* What a step says of the others.                                         *)
LEMMA OthersKept ==
  ASSUME SettleInv, NEW u \in Uploads,
         file' = file, NEW to, pc' = [pc EXCEPT ![u] = to],
         NEW new, lines' = lines \/ lines' = [lines EXCEPT ![u] = new]
  PROVE  /\ pc'[u] = to /\ Due(u)' = Due(u) /\ EntriesOf(u)' = EntriesOf(u)
         /\ lines' = [lines EXCEPT ![u] = new] => lines'[u] = new
         /\ lines' = lines => (Marked(u)' <=> Marked(u)) /\ (Shown(u)' <=> Shown(u))
         /\ \A v \in Uploads \ {u} :
              /\ pc'[v] = pc[v] /\ Due(v)' = Due(v)
              /\ Marked(v)' <=> Marked(v)
              /\ Shown(v)' <=> Shown(v)
<1>1. \A v \in Uploads : Rows(v)' = Rows(v) /\ Due(v)' = Due(v) /\ EntriesOf(v)' = EntriesOf(v)
  BY DEF Rows, Due, EntriesOf
<1>2. DOMAIN pc = Uploads /\ DOMAIN lines = Uploads
  BY DEF SettleInv, FilesTyped
<1>3. pc'[u] = to /\ \A v \in Uploads \ {u} : pc'[v] = pc[v] /\ lines'[v] = lines[v]
  BY <1>2
<1>4. lines' = [lines EXCEPT ![u] = new] => lines'[u] = new
  BY <1>2
<1>5. \A v \in Uploads \ {u} : (Marked(v)' <=> Marked(v)) /\ (Shown(v)' <=> Shown(v))
  BY <1>1, <1>3 DEF Marked, Shown
<1>6. lines' = lines => (Marked(u)' <=> Marked(u)) /\ (Shown(u)' <=> Shown(u))
  BY <1>1 DEF Marked, Shown
<1>7. QED
  BY <1>1, <1>3, <1>4, <1>5, <1>6

LEMMA BeginBalances ==
  ASSUME SettleInv, BalanceInv, NEW u \in Uploads, Begin(u)
  PROVE  BalanceInv'
<1>1. /\ pc' = [pc EXCEPT ![u] = "warmup"] /\ file' = file /\ lines' = lines
      /\ unbalanced' = unbalanced
  BY DEF Begin, Goto
<1>2. /\ pc'[u] = "warmup"
      /\ \A v \in Uploads \ {u} : /\ pc'[v] = pc[v] /\ Due(v)' = Due(v)
                                  /\ Marked(v)' <=> Marked(v)
                                  /\ Shown(v)' <=> Shown(v)
  BY <1>1, OthersKept
<1>3. /\ shared \subseteq shared'
      /\ \A v \in Uploads \ {u} : Inside(v) => u \in shared' /\ v \in shared'
  <2> DEFINE others == {v \in Uploads \ {u} : Inside(v)}
  <2>1. shared' = IF others = {} THEN shared ELSE shared \cup others \cup {u}
    BY DEF Begin
  <2>2. \A v \in Uploads \ {u} : Inside(v) => v \in others
    OBVIOUS
  <2> HIDE DEF others
  <2>3. QED
    BY <2>1, <2>2
<1>4. \A v \in Uploads \ {u} : (Inside(v)' <=> Inside(v)) /\ (Formatted(v)' <=> Formatted(v))
  BY <1>2 DEF Inside, Formatted
<1>5. ASSUME NEW v \in Uploads \ shared'
      PROVE  /\ Inside(v)' => Alone(v)'
             /\ pc'[v] = "lookup" => unbalanced' = Due(v)'
             /\ pc'[v] \in {"stored", "posted"} => Marked(v)'
             /\ Formatted(v)' => Shown(v)'
  <2>1. CASE v = u
    <3>1. Alone(u)'
      BY <1>3, <1>4, <1>5, <2>1 DEF Alone
    <3>2. QED
      BY <1>2, <2>1, <3>1 DEF Formatted
  <2>2. CASE v # u
    <3>1. v \in Uploads \ shared /\ ~Inside(v)
      BY <1>3, <1>5, <2>2
    <3>2. QED
      BY <1>1, <1>2, <1>4, <2>2, <3>1 DEF BalanceInv
  <2>3. QED
    BY <2>1, <2>2
<1>6. QED
  BY <1>5 DEF BalanceInv

(* Asking and a refused or accepted validation change neither field.       *)
LEMMA OnwardBalances ==
  ASSUME SettleInv, BalanceInv, NEW u \in Uploads, Inside(u),
         NEW to \in {"source", "rates", "refused"}, pc' = [pc EXCEPT ![u] = to],
         file' = file, lines' = lines, unbalanced' = unbalanced, shared' = shared
  PROVE  BalanceInv'
<1>1. /\ pc'[u] = to
      /\ \A v \in Uploads \ {u} : /\ pc'[v] = pc[v] /\ Due(v)' = Due(v)
                                  /\ Marked(v)' <=> Marked(v)
                                  /\ Shown(v)' <=> Shown(v)
  BY OthersKept
<1>2. /\ \A v \in Uploads \ {u} : (Inside(v)' <=> Inside(v)) /\ (Formatted(v)' <=> Formatted(v))
      /\ ~Formatted(u)' /\ \A v \in Uploads : Inside(v)' => Inside(v)
  BY <1>1 DEF Inside, Formatted
<1>3. \A v \in Uploads : Alone(v) => Alone(v)'
  BY <1>2 DEF Alone
<1>4. ASSUME NEW v \in Uploads \ shared
      PROVE  /\ Inside(v)' => Alone(v)'
             /\ pc'[v] = "lookup" => unbalanced' = Due(v)'
             /\ pc'[v] \in {"stored", "posted"} => Marked(v)'
             /\ Formatted(v)' => Shown(v)'
  <2>1. CASE v = u
    BY <1>1, <1>2, <1>3, <2>1 DEF BalanceInv
  <2>2. CASE v # u
    BY <1>1, <1>2, <1>3, <2>2 DEF BalanceInv
  <2>3. QED
    BY <2>1, <2>2
<1>5. QED
  BY <1>4 DEF BalanceInv

LEMMA FormatBalances ==
  ASSUME SettleInv, BalanceInv, NEW u \in Uploads, Format(u)
  PROVE  BalanceInv'
<1> DEFINE new == UpdateCashBatchAndVoucher(BuildInvoiceLines(company, Rows(u)))
<1>1. /\ pc[u] = "rates" /\ pc' = [pc EXCEPT ![u] = "lookup"] /\ file' = file
      /\ lines' = [lines EXCEPT ![u] = new] /\ unbalanced' = Due(u) /\ shared' = shared
  BY DEF Format, Goto, Due
<1> HIDE DEF new
<1>2. /\ pc'[u] = "lookup" /\ Due(u)' = Due(u) /\ EntriesOf(u)' = EntriesOf(u)
      /\ lines'[u] = new
      /\ \A v \in Uploads \ {u} : /\ pc'[v] = pc[v] /\ Due(v)' = Due(v)
                                  /\ Marked(v)' <=> Marked(v)
                                  /\ Shown(v)' <=> Shown(v)
  BY <1>1, OthersKept
<1>3. /\ \A v \in Uploads : Inside(v)' <=> Inside(v)
      /\ \A v \in Uploads \ {u} : Formatted(v)' <=> Formatted(v)
      /\ Inside(u)
  BY <1>1, <1>2 DEF Inside, Formatted
<1>4. \A v \in Uploads : Alone(v) => Alone(v)'
  BY <1>3 DEF Alone
<1>5. Shown(u)'
  <2>1. Checked(Rows(u))
    BY <1>1 DEF SettleInv, RowsChecked
  <2>2. ASSUME NEW n \in DOMAIN EntriesOf(u)
        PROVE  \/ BecomesNoLine(EntriesOf(u)[n])
               \/ \E l \in ToSet(new) : l.uid = EntriesOf(u)[n][1].uid
    BY <2>1, SomeInvoiceLine DEF new, EntriesOf
  <2>3. QED
    BY <1>2, <2>2 DEF Shown
<1>6. ASSUME NEW v \in Uploads \ shared
      PROVE  /\ Inside(v)' => Alone(v)'
             /\ pc'[v] = "lookup" => unbalanced' = Due(v)'
             /\ pc'[v] \in {"stored", "posted"} => Marked(v)'
             /\ Formatted(v)' => Shown(v)'
  <2>1. CASE v = u
    BY <1>1, <1>2, <1>3, <1>4, <1>5, <2>1 DEF BalanceInv
  <2>2. CASE v # u
    <3>1. ~Inside(v)
      BY <1>3, <2>2 DEF BalanceInv, Alone
    <3>2. QED
      BY <1>2, <1>3, <2>2, <3>1 DEF BalanceInv, Inside
  <2>3. QED
    BY <2>1, <2>2
<1>7. QED
  BY <1>1, <1>6 DEF BalanceInv

LEMMA ValidateBalances ==
  ASSUME SettleInv, BalanceInv, NEW u \in Uploads, Validate(u)
  PROVE  BalanceInv'
<1> DEFINE old == lines[u]
           bad(l) == Invalid(u, l)
           new == [i \in DOMAIN old |-> [old[i] EXCEPT !.error = bad(old[i])]]
<1>1. /\ pc[u] = "lookup" /\ pc' = [pc EXCEPT ![u] = "stored"] /\ file' = file
      /\ lines' = [lines EXCEPT ![u] = new] /\ unbalanced' = unbalanced /\ shared' = shared
  BY DEF Validate, Goto, SettleInv, FilesTyped
<1>2. /\ pc'[u] = "stored" /\ Due(u)' = Due(u) /\ EntriesOf(u)' = EntriesOf(u)
      /\ lines'[u] = new
      /\ \A v \in Uploads \ {u} : /\ pc'[v] = pc[v] /\ Due(v)' = Due(v)
                                  /\ Marked(v)' <=> Marked(v)
                                  /\ Shown(v)' <=> Shown(v)
  <2> HIDE DEF new
  <2>1. QED
    BY <1>1, OthersKept
<1>3. /\ \A v \in Uploads \ {u} : (Inside(v)' <=> Inside(v)) /\ (Formatted(v)' <=> Formatted(v))
      /\ ~Inside(u)' /\ Inside(u) /\ Formatted(u)
  BY <1>1, <1>2 DEF Inside, Formatted
<1>4. \A v \in Uploads : Alone(v) => Alone(v)'
  BY <1>3 DEF Alone
<1>5. ASSUME u \notin shared PROVE Marked(u)' /\ Shown(u)'
  <2>1. AllGood(CompanyOf[u], ToSet(Rows(u)), old)
    BY <1>3, <1>5 DEF SettleInv, LinesGood
  <2>2. IsSeq(old) /\ DOMAIN old = 1..Len(old) /\ DOMAIN new = DOMAIN old
        /\ \A i \in DOMAIN old : IsLine(old[i])
    BY <2>1, SeqIs DEF AllGood, Good, ToSet
  <2>3. ASSUME NEW i \in DOMAIN old
        PROVE  new[i].uid = old[i].uid /\ new[i].error = bad(old[i])
    <3> DEFINE e == bad(old[i])
               l == old[i]
               x == [l EXCEPT !.error = e]
    <3>1. new[i] = x /\ IsLine(l)
      BY <2>2
    <3> HIDE DEF e, l
    <3>2. x.uid = l.uid /\ x.error = e
      BY <3>1 DEF IsLine
    <3>3. QED
      BY <3>1, <3>2 DEF e, l
  <2>4. unbalanced = Due(u) /\ Shown(u)
    BY <1>1, <1>3, <1>5 DEF BalanceInv
  <2>5. \A i \in DOMAIN old : old[i].uid \in Due(u) => bad(old[i])
    BY <2>4 DEF Invalid
  <2>6. /\ ToSet(new) = {new[i] : i \in DOMAIN old}
        /\ ToSet(old) = {old[i] : i \in DOMAIN old}
    BY <2>2 DEF ToSet
  <2> HIDE DEF new, old, bad
  <2>7. \A l \in ToSet(new) : l.error = FALSE => l.uid \notin Due(u)
    BY <2>3, <2>5, <2>6
  <2>8. \A l \in ToSet(old) : \E x \in ToSet(new) : x.uid = l.uid
    BY <2>3, <2>6
  <2>9. Marked(u)'
    BY <1>2, <2>7 DEF Marked
  <2>10. Shown(u)'
    <3>1. \A n \in DOMAIN EntriesOf(u) :
            \/ BecomesNoLine(EntriesOf(u)[n])
            \/ \E x \in ToSet(new) : x.uid = EntriesOf(u)[n][1].uid
      BY <2>4, <2>8 DEF Shown, old
    <3>2. QED
      BY <1>2, <3>1 DEF Shown
  <2>11. QED
    BY <2>9, <2>10
<1> HIDE DEF new, old, bad
<1>6. ASSUME NEW v \in Uploads \ shared
      PROVE  /\ Inside(v)' => Alone(v)'
             /\ pc'[v] = "lookup" => unbalanced' = Due(v)'
             /\ pc'[v] \in {"stored", "posted"} => Marked(v)'
             /\ Formatted(v)' => Shown(v)'
  <2>1. CASE v = u
    BY <1>2, <1>3, <1>5, <1>6, <2>1
  <2>2. CASE v # u
    <3>1. ~Inside(v)
      BY <1>3, <2>2 DEF BalanceInv, Alone
    <3>2. QED
      BY <1>2, <1>3, <2>2, <3>1 DEF BalanceInv, Inside
  <2>3. QED
    BY <2>1, <2>2
<1>7. QED
  BY <1>1, <1>6 DEF BalanceInv

LEMMA PostBalances ==
  ASSUME SettleInv, BalanceInv, NEW u \in Uploads, Post(u)
  PROVE  BalanceInv'
<1>1. /\ pc[u] = "stored" /\ pc' = [pc EXCEPT ![u] = "posted"] /\ file' = file
      /\ lines' = lines /\ unbalanced' = unbalanced /\ shared' = shared
  BY DEF Post, Goto
<1>2. /\ pc'[u] = "posted"
      /\ \A v \in Uploads \ {u} : pc'[v] = pc[v]
      /\ \A v \in Uploads : /\ Due(v)' = Due(v)
                            /\ Marked(v)' <=> Marked(v)
                            /\ Shown(v)' <=> Shown(v)
  BY <1>1, OthersKept
<1>3. \A v \in Uploads : (Inside(v)' <=> Inside(v)) /\ (Formatted(v)' <=> Formatted(v))
  BY <1>1, <1>2 DEF Inside, Formatted
<1>4. \A v \in Uploads : Alone(v)' <=> Alone(v)
  BY <1>3 DEF Alone
<1>5. \A v \in Uploads : /\ pc'[v] = "lookup" => pc[v] = "lookup"
                         /\ pc'[v] \in {"stored", "posted"} => pc[v] \in {"stored", "posted"}
  BY <1>1, <1>2
<1>6. QED
  BY <1>1, <1>2, <1>3, <1>4, <1>5 DEF BalanceInv

LEMMA BalanceStep == SettleInv /\ BalanceInv /\ [Next]_vars => BalanceInv'
<1> SUFFICES ASSUME SettleInv, BalanceInv, [Next]_vars PROVE BalanceInv'
  OBVIOUS
<1>1. ASSUME NEW u \in Uploads, AskSource(u) PROVE BalanceInv'
  <2>1. /\ Inside(u) /\ pc' = [pc EXCEPT ![u] = "source"] /\ file' = file /\ lines' = lines
        /\ unbalanced' = unbalanced /\ shared' = shared
    BY <1>1 DEF AskSource, Goto, Inside
  <2>2. QED
    BY <2>1, OnwardBalances
<1>2. ASSUME NEW u \in Uploads, ValidateSource(u) PROVE BalanceInv'
  <2> DEFINE to == IF ValidateCashOutSource(asked[u], Rows(u)) THEN "rates" ELSE "refused"
  <2>1. /\ Inside(u) /\ pc' = [pc EXCEPT ![u] = to] /\ file' = file /\ lines' = lines
        /\ unbalanced' = unbalanced /\ shared' = shared
    BY <1>2 DEF ValidateSource, Goto, Inside
  <2>2. to \in {"source", "rates", "refused"}
    OBVIOUS
  <2> HIDE DEF to
  <2>3. QED
    BY <2>1, <2>2, OnwardBalances
<1>3. ASSUME NEW u \in Uploads,
             \/ Begin(u) \/ AskSource(u) \/ ValidateSource(u)
             \/ Format(u) \/ Validate(u) \/ Post(u)
      PROVE  BalanceInv'
  BY <1>1, <1>2, <1>3, BeginBalances, FormatBalances, ValidateBalances, PostBalances
<1>4. CASE UNCHANGED vars
  BY <1>4 DEF vars, BalanceInv, Inside, Alone, Formatted, Due, EntriesOf, Marked, Shown, Rows
<1>5. QED
  BY <1>3, <1>4 DEF Next

(* A file of its own that is accepted balances voucher by voucher as it    *)
(* was written, for any workbooks and schedule: the ids given to rows that *)
(* had none gather the rows of a voucher and no others, what does not      *)
(* balance is remembered until the lines of the file get their errors, and *)
(* every entry has a line to get one.                                      *)
THEOREM AcceptsWhatBalances == Spec => []AcceptedBalances
<1>1. Spec => []SettleInv
  BY SettleInit, SettleStep, PTL DEF Spec
<1>2. BalanceInv /\ SettleInv /\ [Next]_vars => BalanceInv'
  BY BalanceStep
<1>3. Spec => []BalanceInv
  BY <1>1, <1>2, BalanceInit, PTL DEF Spec
<1>4. QED
  BY <1>1, <1>3, BalanceInvImplies, PTL

-----------------------------------------------------------------------------
(* EntryMoneyKept.  What lines put on an account is a sum over them.       *)
Carried(ls) == \A l \in ToSet(ls) : l.d \in Int /\ l.c \in Int
MovesOn(S, a) == [l \in S |-> Moves(l, a)]

LEMMA MovesInt ==
  ASSUME NEW l, l.d \in Int, l.c \in Int, NEW a
  PROVE  Moves(l, a) \in Int
BY DEF Moves

LEMMA NetIs ==
  ASSUME NEW s, IsSeq(s), Carried(s), NEW a, NEW S, ToSet(s) \subseteq S
  PROVE  /\ Net(s, a) = Total(s, MovesOn(S, a)) /\ Measured(s, MovesOn(S, a))
         /\ Net(s, a) \in Int
<1> DEFINE f == MovesOn(S, a)
           m == [i \in DOMAIN s |-> Moves(s[i], a)]
<1>1. Net(s, a) = Over(m, DOMAIN s)
  BY DEF Net, SumFunction, Over
<1>2. ASSUME NEW x \in ToSet(s) PROVE f[x] = Moves(x, a) /\ f[x] \in Int
  <2>1. x \in S /\ Moves(x, a) \in Int
    BY MovesInt DEF Carried
  <2>2. QED
    BY <2>1 DEF MovesOn
<1> HIDE DEF f
<1>3. Values(s, f) = m
  <2>1. \A i \in DOMAIN s : f[s[i]] = Moves(s[i], a)
    BY <1>2 DEF ToSet
  <2>2. QED
    BY <2>1 DEF Values
<1> HIDE DEF m
<1>4. Net(s, a) = Total(s, f) /\ Measured(s, f)
  BY <1>1, <1>2, <1>3 DEF Total, Measured
<1>5. Total(s, f) \in Int
  BY <1>4, ValuesAre
<1>6. QED
  BY <1>4, <1>5 DEF f

LEMMA NetSame ==
  ASSUME NEW s, NEW t, NEW a, DOMAIN t = DOMAIN s,
         \A i \in DOMAIN s : Moves(t[i], a) = Moves(s[i], a)
  PROVE  Net(t, a) = Net(s, a)
<1>1. [i \in DOMAIN t |-> Moves(t[i], a)] = [i \in DOMAIN s |-> Moves(s[i], a)]
  OBVIOUS
<1>2. QED
  BY <1>1, Zenon DEF Net

LEMMA NetConcat ==
  ASSUME NEW s, IsSeq(s), Carried(s), NEW t, IsSeq(t), Carried(t), NEW a
  PROVE  Net(s \o t, a) = Net(s, a) + Net(t, a) /\ Carried(s \o t) /\ IsSeq(s \o t)
<1> DEFINE S == ToSet(s) \cup ToSet(t)
           f == MovesOn(S, a)
<1>1. IsSeq(s \o t) /\ ToSet(s \o t) = S
  BY ConcatIs
<1>2. Carried(s \o t)
  BY <1>1 DEF Carried
<1>3. /\ Net(s, a) = Total(s, f) /\ Measured(s, f)
      /\ Net(t, a) = Total(t, f) /\ Measured(t, f)
      /\ Net(s \o t, a) = Total(s \o t, f)
  BY <1>1, <1>2, NetIs
<1> HIDE DEF f
<1>4. Total(s \o t, f) = Total(s, f) + Total(t, f)
  BY <1>3, TotalConcat
<1>5. QED
  BY <1>1, <1>2, <1>3, <1>4

LEMMA NetFlatten ==
  ASSUME NEW ss, IsSeq(ss), \A n \in DOMAIN ss : IsSeq(ss[n]) /\ Carried(ss[n]), NEW a
  PROVE  /\ IsSeq(FlattenSeq(ss)) /\ Carried(FlattenSeq(ss))
         /\ Net(FlattenSeq(ss), a) = Over([n \in DOMAIN ss |-> Net(ss[n], a)], DOMAIN ss)
<1> DEFINE S == UNION {ToSet(ss[n]) : n \in DOMAIN ss}
           f == MovesOn(S, a)
           all == FlattenSeq(ss)
<1>1. IsSeq(all) /\ ToSet(all) = S
  BY FlattenIs
<1>2. Carried(all)
  BY <1>1 DEF Carried
<1>3. ASSUME NEW n \in DOMAIN ss
      PROVE  IsSeq(ss[n]) /\ Net(ss[n], a) = Total(ss[n], f) /\ Measured(ss[n], f)
  <2>1. ToSet(ss[n]) \subseteq S
    OBVIOUS
  <2> HIDE DEF S
  <2>2. QED
    BY <2>1, NetIs
<1> HIDE DEF S, all
<1>4. Net(all, a) = Total(all, f)
  BY <1>1, <1>2, NetIs
<1> HIDE DEF f
<1>5. Total(all, f) = Over([n \in DOMAIN ss |-> Total(ss[n], f)], DOMAIN ss)
  BY <1>3, TotalFlatten DEF all
<1>6. [n \in DOMAIN ss |-> Total(ss[n], f)] = [n \in DOMAIN ss |-> Net(ss[n], a)]
  BY <1>3
<1>7. QED
  BY <1>1, <1>2, <1>4, <1>5, <1>6 DEF all

LEMMA NetPicked ==
  ASSUME NEW s, IsSeq(s), Carried(s), NEW at, at \subseteq DOMAIN s, NEW a
  PROVE  /\ IsSeq(Picked(s, at)) /\ Carried(Picked(s, at))
         /\ Net(Picked(s, at), a) = Over([i \in DOMAIN s |-> Moves(s[i], a)], at)
<1> DEFINE S == ToSet(s)
           f == MovesOn(S, a)
           p == Picked(s, at)
<1>1. IsSeq(p) /\ ToSet(p) \subseteq S
  BY PickedSome
<1>2. Carried(p)
  BY <1>1 DEF Carried
<1>3. Net(p, a) = Total(p, f) /\ Measured(s, f)
  BY <1>1, <1>2, NetIs
<1>4. \A i \in DOMAIN s : f[s[i]] = Moves(s[i], a)
  BY DEF ToSet, MovesOn
<1> HIDE DEF f
<1>5. Total(p, f) = Over(Values(s, f), at)
  BY <1>3, TotalPicked
<1>6. Values(s, f) = [i \in DOMAIN s |-> Moves(s[i], a)]
  BY <1>4 DEF Values
<1>7. QED
  BY <1>1, <1>2, <1>3, <1>5, <1>6

-----------------------------------------------------------------------------
(* What the lines of one entry put on an account, among others.            *)
Share(l, id, a) == IF l.uid = id THEN Moves(l, a) ELSE 0
SharesOf(S, id, a) == [l \in S |-> Share(l, id, a)]
Part(ls, id, a) == SumFunction([i \in DOMAIN ls |-> Share(ls[i], id, a)])

LEMMA PartIs ==
  ASSUME NEW s, IsSeq(s), Carried(s), NEW id, NEW a, NEW S, ToSet(s) \subseteq S
  PROVE  /\ Part(s, id, a) = Total(s, SharesOf(S, id, a)) /\ Measured(s, SharesOf(S, id, a))
         /\ Part(s, id, a) \in Int
<1> DEFINE f == SharesOf(S, id, a)
           m == [i \in DOMAIN s |-> Share(s[i], id, a)]
<1>1. Part(s, id, a) = Over(m, DOMAIN s)
  BY DEF Part, SumFunction, Over
<1>2. ASSUME NEW x \in ToSet(s) PROVE f[x] = Share(x, id, a) /\ f[x] \in Int
  <2>1. x \in S /\ Moves(x, a) \in Int
    BY MovesInt DEF Carried
  <2>2. QED
    BY <2>1 DEF SharesOf, Share
<1> HIDE DEF f
<1>3. Values(s, f) = m
  <2>1. \A i \in DOMAIN s : f[s[i]] = Share(s[i], id, a)
    BY <1>2 DEF ToSet
  <2>2. QED
    BY <2>1 DEF Values
<1> HIDE DEF m
<1>4. Part(s, id, a) = Total(s, f) /\ Measured(s, f)
  BY <1>1, <1>2, <1>3 DEF Total, Measured
<1>5. Total(s, f) \in Int
  BY <1>4, ValuesAre
<1>6. QED
  BY <1>4, <1>5 DEF f

LEMMA PartSame ==
  ASSUME NEW s, NEW t, NEW id, NEW a, DOMAIN t = DOMAIN s,
         \A i \in DOMAIN s : Share(t[i], id, a) = Share(s[i], id, a)
  PROVE  Part(t, id, a) = Part(s, id, a)
<1>1. [i \in DOMAIN t |-> Share(t[i], id, a)] = [i \in DOMAIN s |-> Share(s[i], id, a)]
  OBVIOUS
<1>2. QED
  BY <1>1, Zenon DEF Part

LEMMA PartConcat ==
  ASSUME NEW s, IsSeq(s), Carried(s), NEW t, IsSeq(t), Carried(t), NEW id, NEW a
  PROVE  /\ Part(s \o t, id, a) = Part(s, id, a) + Part(t, id, a)
         /\ Carried(s \o t) /\ IsSeq(s \o t)
<1> DEFINE S == ToSet(s) \cup ToSet(t)
           f == SharesOf(S, id, a)
<1>1. IsSeq(s \o t) /\ ToSet(s \o t) = S
  BY ConcatIs
<1>2. Carried(s \o t)
  BY <1>1 DEF Carried
<1>3. /\ Part(s, id, a) = Total(s, f) /\ Measured(s, f)
      /\ Part(t, id, a) = Total(t, f) /\ Measured(t, f)
      /\ Part(s \o t, id, a) = Total(s \o t, f)
  BY <1>1, <1>2, PartIs
<1> HIDE DEF f
<1>4. Total(s \o t, f) = Total(s, f) + Total(t, f)
  BY <1>3, TotalConcat
<1>5. QED
  BY <1>1, <1>2, <1>3, <1>4

LEMMA PartFlatten ==
  ASSUME NEW ss, IsSeq(ss), \A n \in DOMAIN ss : IsSeq(ss[n]) /\ Carried(ss[n]), NEW id, NEW a
  PROVE  /\ IsSeq(FlattenSeq(ss)) /\ Carried(FlattenSeq(ss))
         /\ Part(FlattenSeq(ss), id, a)
              = Over([n \in DOMAIN ss |-> Part(ss[n], id, a)], DOMAIN ss)
<1> DEFINE S == UNION {ToSet(ss[n]) : n \in DOMAIN ss}
           f == SharesOf(S, id, a)
           all == FlattenSeq(ss)
<1>1. IsSeq(all) /\ ToSet(all) = S
  BY FlattenIs
<1>2. Carried(all)
  BY <1>1 DEF Carried
<1>3. ASSUME NEW n \in DOMAIN ss
      PROVE  IsSeq(ss[n]) /\ Part(ss[n], id, a) = Total(ss[n], f) /\ Measured(ss[n], f)
  <2>1. ToSet(ss[n]) \subseteq S
    OBVIOUS
  <2> HIDE DEF S
  <2>2. QED
    BY <2>1, PartIs
<1> HIDE DEF S, all
<1>4. Part(all, id, a) = Total(all, f)
  BY <1>1, <1>2, PartIs
<1> HIDE DEF f
<1>5. Total(all, f) = Over([n \in DOMAIN ss |-> Total(ss[n], f)], DOMAIN ss)
  BY <1>3, TotalFlatten DEF all
<1>6. [n \in DOMAIN ss |-> Total(ss[n], f)] = [n \in DOMAIN ss |-> Part(ss[n], id, a)]
  BY <1>3
<1>7. QED
  BY <1>1, <1>2, <1>4, <1>5, <1>6 DEF all

(* The lines are those of the parts of a partition.                        *)
LEMMA PartParts ==
  ASSUME NEW s, IsSeq(s), Carried(s), NEW N, IsFiniteSet(N),
         NEW at, \A n \in N : at[n] \subseteq DOMAIN s,
         \A n, m \in N : n # m => at[n] \cap at[m] = {},
         \A i \in DOMAIN s : \E n \in N : i \in at[n],
         NEW id, NEW a
  PROVE  Part(s, id, a) = Over([n \in N |-> Part(Picked(s, at[n]), id, a)], N)
<1> DEFINE S == ToSet(s)
           f == SharesOf(S, id, a)
<1>1. Part(s, id, a) = Total(s, f) /\ Measured(s, f)
  BY PartIs
<1>2. ASSUME NEW n \in N PROVE Part(Picked(s, at[n]), id, a) = Total(Picked(s, at[n]), f)
  <2> DEFINE p == Picked(s, at[n])
  <2>1. IsSeq(p) /\ ToSet(p) \subseteq S
    BY PickedSome
  <2> HIDE DEF p
  <2>2. Carried(p)
    BY <2>1 DEF Carried
  <2>3. Part(p, id, a) = Total(p, f)
    BY <2>1, <2>2, PartIs
  <2>4. QED
    BY <2>3 DEF p
<1> HIDE DEF f
<1>3. Total(s, f) = Over([n \in N |-> Total(Picked(s, at[n]), f)], N)
  BY <1>1, TotalParts
<1>4. [n \in N |-> Total(Picked(s, at[n]), f)] = [n \in N |-> Part(Picked(s, at[n]), id, a)]
  BY <1>2
<1>5. QED
  BY <1>1, <1>3, <1>4

LEMMA PartOf ==
  ASSUME NEW s, IsSeq(s), Carried(s), NEW id, NEW a
  PROVE  /\ Net(Picked(s, WithId(s, id)), a) = Part(s, id, a)
         /\ (\A l \in ToSet(s) : l.uid = id) => Part(s, id, a) = Net(s, a)
         /\ (\A l \in ToSet(s) : l.uid # id) => Part(s, id, a) = 0
<1> DEFINE at == WithId(s, id)
           m == [i \in DOMAIN s |-> Moves(s[i], a)]
           h == [i \in DOMAIN s |-> Share(s[i], id, a)]
<1>1. /\ Part(s, id, a) = Over(h, DOMAIN s) /\ Net(s, a) = Over(m, DOMAIN s)
      /\ IsFiniteSet(DOMAIN s)
  BY SeqIs, UpTo DEF Part, Net, SumFunction, Over
<1>2. at \subseteq DOMAIN s
  BY DEF WithId
<1>3. \A i \in DOMAIN s : s[i] \in ToSet(s) /\ m[i] \in Int /\ h[i] \in Int
  BY MovesInt DEF Carried, ToSet, Share
<1>4. (\A i \in at : h[i] = m[i]) /\ (\A i \in DOMAIN s \ at : h[i] = 0)
  BY DEF Share, WithId
<1>5. Net(Picked(s, at), a) = Over(m, at)
  BY <1>2, NetPicked
<1>6. (\A l \in ToSet(s) : l.uid = id) => at = DOMAIN s
  BY <1>3 DEF WithId
<1>7. (\A l \in ToSet(s) : l.uid # id) => \A i \in DOMAIN s : h[i] = 0
  BY <1>3 DEF Share
<1> HIDE DEF m, h, at
<1>8. Over(h, DOMAIN s) = Over(h, at)
  BY <1>1, <1>2, <1>3, <1>4, OverRest
<1>9. Over(h, at) = Over(m, at)
  <2>1. IsFiniteSet(at) /\ \A i \in at : m[i] \in Int
    BY <1>1, <1>2, <1>3, FS_Subset
  <2>2. QED
    BY <1>4, <2>1, OverSame
<1>10. (\A l \in ToSet(s) : l.uid # id) => Over(h, DOMAIN s) = 0
  BY <1>1, <1>7, OverZero
<1>11. QED
  BY <1>1, <1>5, <1>6, <1>8, <1>9, <1>10 DEF at

LEMMA PartPicked ==
  ASSUME NEW s, IsSeq(s), Carried(s), NEW at, at \subseteq DOMAIN s, NEW id,
         \A i \in DOMAIN s \ at : s[i].uid # id, NEW a
  PROVE  /\ IsSeq(Picked(s, at)) /\ Carried(Picked(s, at))
         /\ Part(Picked(s, at), id, a) = Part(s, id, a)
<1> DEFINE S == ToSet(s)
           f == SharesOf(S, id, a)
           p == Picked(s, at)
           v == Values(s, f)
<1>1. IsSeq(p) /\ ToSet(p) \subseteq S
  BY PickedSome
<1>2. Carried(p)
  BY <1>1 DEF Carried
<1>3. Part(p, id, a) = Total(p, f) /\ Part(s, id, a) = Total(s, f) /\ Measured(s, f)
  BY <1>1, <1>2, PartIs
<1>4. \A i \in DOMAIN s \ at : f[s[i]] = 0
  BY DEF ToSet, SharesOf, Share
<1> HIDE DEF f
<1>5. Total(p, f) = Over(v, at) /\ Total(s, f) = Over(v, DOMAIN s)
  BY <1>3, TotalPicked DEF Total
<1>6. IsFiniteSet(DOMAIN s) /\ \A i \in DOMAIN s : v[i] \in Int
  BY <1>3, ValuesAre
<1>7. \A i \in DOMAIN s \ at : v[i] = 0
  BY <1>4 DEF Values
<1> HIDE DEF v
<1>8. Over(v, DOMAIN s) = Over(v, at)
  BY <1>6, <1>7, OverRest
<1>9. QED
  BY <1>1, <1>2, <1>3, <1>5, <1>8

(* Posting moves nothing of an entry that has no line of a withholding     *)
(* account.                                                                *)
LEMMA RewriteParts ==
  ASSUME NEW g, IsSeq(g), \A l \in ToSet(g) : IsLine(l), Carried(g),
         NEW id, \A l \in ToSet(g) : l.uid = id => ~IsWithholdingAccount(l), NEW a
  PROVE  LET s == RewriteCashOutLedgerWithholdingLines(g)
         IN IsSeq(s) /\ Carried(s) /\ Part(s, id, a) = Part(g, id, a)
<1> DEFINE vendors(l) == Picked(g, {i \in DOMAIN g : g[i].acct \in Vendors /\ g[i].uid = l.uid})
           trade(l) == Picked(vendors(l), {i \in DOMAIN vendors(l) :
                                             vendors(l)[i].acct \in TradeVendors})
           marked(l) == Picked(vendors(l), {i \in DOMAIN vendors(l) :
                                              vendors(l)[i].inv # NoInvoice})
           cp(l) == IF trade(l) # <<>> THEN trade(l)[1]
                    ELSE IF marked(l) # <<>> THEN marked(l)[1] ELSE vendors(l)[1]
           at == {i \in DOMAIN g : IsWithholdingAccount(g[i]) => vendors(g[i]) # <<>>}
           kept == Picked(g, at)
           rewrite(l) ==
             IF ~IsWithholdingAccount(l) THEN l
             ELSE [l EXCEPT !.acct = cp(l).acct, !.off = l.acct,
                            !.d = IF l.c > 0 THEN l.c ELSE l.d, !.c = 0,
                            !.mark = RewrittenMark(g, cp(l))]
           s == RewriteCashOutLedgerWithholdingLines(g)
<1>1. s = [i \in DOMAIN kept |-> rewrite(kept[i])]
  BY DEF RewriteCashOutLedgerWithholdingLines, Where, IsWithholdingAccount
<1>2. at \subseteq DOMAIN g /\ \A i \in DOMAIN g \ at : IsWithholdingAccount(g[i])
  OBVIOUS
<1> HIDE DEF cp, at, s
<1>3. \A i \in DOMAIN g \ at : g[i].uid # id
  BY <1>2 DEF ToSet
<1>4. IsSeq(kept) /\ Carried(kept) /\ Part(kept, id, a) = Part(g, id, a)
  BY <1>2, <1>3, PartPicked
<1>5. ToSet(kept) \subseteq ToSet(g)
  BY <1>2, PickedSome
<1> HIDE DEF kept
<1>6. ASSUME NEW l \in ToSet(kept)
      PROVE  /\ rewrite(l).d \in Int /\ rewrite(l).c \in Int
             /\ Share(rewrite(l), id, a) = Share(l, id, a)
  <2>1. IsLine(l) /\ l.d \in Int /\ l.c \in Int /\ (l.uid = id => ~IsWithholdingAccount(l))
    BY <1>4, <1>5 DEF Carried
  <2>2. CASE ~IsWithholdingAccount(l)
    BY <2>1, <2>2
  <2>3. CASE IsWithholdingAccount(l)
    <3> DEFINE v == cp(l).acct
               mk == RewrittenMark(g, cp(l))
               d == IF l.c > 0 THEN l.c ELSE l.d
               x == [l EXCEPT !.acct = v, !.off = l.acct, !.d = d, !.c = 0, !.mark = mk]
    <3>1. rewrite(l) = x
      BY <2>3
    <3>2. d \in Int
      BY <2>1
    <3> HIDE DEF v, mk, d, rewrite
    <3>3. x.uid = l.uid /\ x.d = d /\ x.c = 0
      BY <2>1 DEF IsLine
    <3> HIDE DEF x
    <3>4. Share(x, id, a) = 0 /\ Share(l, id, a) = 0
      BY <2>1, <2>3, <3>3 DEF Share
    <3>5. QED
      BY <3>1, <3>2, <3>3, <3>4
  <2>4. QED
    BY <2>2, <2>3
<1> HIDE DEF rewrite
<1>7. /\ DOMAIN s = DOMAIN kept /\ s = [i \in DOMAIN kept |-> s[i]]
      /\ \A i \in DOMAIN kept : s[i] = rewrite(kept[i])
  BY <1>1
<1>8. IsSeq(s)
  BY <1>4, <1>7, MappedIs
<1>9. \A i \in DOMAIN kept : /\ s[i].d \in Int /\ s[i].c \in Int
                             /\ Share(s[i], id, a) = Share(kept[i], id, a)
  BY <1>6, <1>7 DEF ToSet
<1>10. Carried(s)
  BY <1>7, <1>9 DEF Carried, ToSet
<1>11. Part(s, id, a) = Part(kept, id, a)
  BY <1>7, <1>9, PartSame
<1>12. QED
  BY <1>4, <1>8, <1>10, <1>11 DEF s

LEMMA PostedPart ==
  ASSUME NEW ls, IsSeq(ls), \A l \in ToSet(ls) : IsLine(l), Carried(ls),
         NEW id, \A l \in ToSet(ls) : l.uid = id => ~IsWithholdingAccount(l), NEW a
  PROVE  LET p == FlattenSeq(MapToJournals(ls))
         IN IsSeq(p) /\ Carried(p) /\ Part(p, id, a) = Part(ls, id, a)
<1> DEFINE G == GroupRecordsByJournalBatchNumber(ls)
           J == MapToJournals(ls)
           at == [n \in DOMAIN G |-> WithKey(ls, JournalKey(G[n][1]))]
<1>1. Groups(ls, G) /\ IsSeq(J)
  BY GroupsAre, JournalsAre
<1>2. J = [n \in DOMAIN G |-> RewriteCashOutLedgerWithholdingLines(G[n])]
  BY DEF MapToJournals
<1> HIDE DEF G, J
<1>3. ASSUME NEW n \in DOMAIN G
      PROVE  IsSeq(J[n]) /\ Carried(J[n]) /\ Part(J[n], id, a) = Part(Picked(ls, at[n]), id, a)
  <2> DEFINE g == G[n]
  <2>1. /\ IsSeq(g) /\ g = Picked(ls, at[n])
        /\ ToSet(g) \subseteq ToSet(ls)
    BY <1>1 DEF Groups
  <2>2. J[n] = RewriteCashOutLedgerWithholdingLines(g)
    BY <1>2
  <2> HIDE DEF g, at
  <2>3. /\ \A l \in ToSet(g) : IsLine(l) /\ (l.uid = id => ~IsWithholdingAccount(l))
        /\ Carried(g)
    BY <2>1 DEF Carried
  <2>4. LET s == RewriteCashOutLedgerWithholdingLines(g)
        IN IsSeq(s) /\ Carried(s) /\ Part(s, id, a) = Part(g, id, a)
    BY <2>1, <2>3, RewriteParts
  <2>5. QED
    BY <2>1, <2>2, <2>4
<1>4. DOMAIN J = DOMAIN G
  BY <1>2
<1>5. /\ IsSeq(FlattenSeq(J)) /\ Carried(FlattenSeq(J))
      /\ Part(FlattenSeq(J), id, a) = Over([n \in DOMAIN J |-> Part(J[n], id, a)], DOMAIN J)
  BY <1>1, <1>3, <1>4, PartFlatten
<1>6. Part(ls, id, a) = Over([n \in DOMAIN G |-> Part(Picked(ls, at[n]), id, a)], DOMAIN G)
  <2>1. IsFiniteSet(DOMAIN G)
    BY <1>1, SeqIs, UpTo DEF Groups
  <2>2. \A n \in DOMAIN G : at[n] \subseteq DOMAIN ls
    BY DEF WithKey
  <2>3. \A n, m \in DOMAIN G : n # m => at[n] \cap at[m] = {}
    BY <1>1 DEF WithKey, Groups
  <2>4. \A i \in DOMAIN ls : \E n \in DOMAIN G : i \in at[n]
    <3> SUFFICES ASSUME NEW i \in DOMAIN ls PROVE \E n \in DOMAIN G : i \in at[n]
      OBVIOUS
    <3>1. ls[i] \in ToSet(ls)
      BY DEF ToSet
    <3>2. PICK n \in DOMAIN G : JournalKey(G[n][1]) = JournalKey(ls[i])
      BY <1>1, <3>1 DEF Groups
    <3>3. i \in at[n]
      BY <3>2 DEF WithKey
    <3>4. QED
      BY <3>3
  <2> HIDE DEF at
  <2>5. QED
    BY <2>1, <2>2, <2>3, <2>4, PartParts
<1>7. [n \in DOMAIN J |-> Part(J[n], id, a)] = [n \in DOMAIN G |-> Part(Picked(ls, at[n]), id, a)]
  BY <1>3, <1>4
<1>8. QED
  BY <1>4, <1>5, <1>6, <1>7 DEF J

LEMMA NothingCarried ==
  ASSUME NEW id, NEW a
  PROVE  Carried(<<>>) /\ Part(<<>>, id, a) = 0 /\ Net(<<>>, a) = 0
<1>1. IsSeq(<<>>) /\ ToSet(<<>>) = {}
  BY EmptyIs
<1>2. Carried(<<>>)
  BY <1>1 DEF Carried
<1> DEFINE f == SharesOf({}, id, a)
           g == MovesOn({}, a)
<1>3. ToSet(<<>>) \subseteq {}
  BY <1>1
<1>4. Part(<<>>, id, a) = Total(<<>>, f) /\ Net(<<>>, a) = Total(<<>>, g)
  BY <1>1, <1>2, <1>3, PartIs, NetIs
<1> HIDE DEF f, g
<1>5. QED
  BY <1>2, <1>4, TotalEmpty

(* Numbering moves nothing.                                                *)
LEMMA InJournalPart ==
  ASSUME NEW e, IsSeq(e), \A l \in ToSet(e) : IsLine(l), Carried(e), NEW j, NEW id, NEW a
  PROVE  /\ IsSeq(InJournal(e, j)) /\ Carried(InJournal(e, j))
         /\ Part(InJournal(e, j), id, a) = Part(e, id, a)
<1> DEFINE s == InJournal(e, j)
<1>1. IsSeq(s)
  BY InJournalIs
<1>2. DOMAIN s = DOMAIN e /\ \A i \in DOMAIN e : s[i] = At(e[i], j)
  BY DEF InJournal
<1> HIDE DEF s
<1>3. ASSUME NEW i \in DOMAIN e
      PROVE  /\ s[i].d = e[i].d /\ s[i].c = e[i].c /\ e[i].d \in Int /\ e[i].c \in Int
             /\ Share(s[i], id, a) = Share(e[i], id, a)
  <2> DEFINE l == e[i]
             x == s[i]
  <2>1. IsLine(l) /\ l.d \in Int /\ l.c \in Int
    BY DEF ToSet, Carried
  <2>2. x = At(l, j)
    BY <1>2
  <2> HIDE DEF l, x
  <2>3. /\ x.uid = l.uid /\ x.d = l.d /\ x.c = l.c /\ x.acct = l.acct /\ x.off = l.off
    BY <2>1, <2>2 DEF IsLine, At
  <2>4. Share(x, id, a) = Share(l, id, a)
    BY <2>3 DEF Share, Moves
  <2>5. QED
    BY <2>1, <2>3, <2>4 DEF l, x
<1>4. Carried(s)
  BY <1>2, <1>3 DEF Carried, ToSet
<1>5. Part(s, id, a) = Part(e, id, a)
  BY <1>2, <1>3, PartSame
<1>6. QED
  BY <1>1, <1>4, <1>5 DEF s

LEMMA NumberedPart ==
  ASSUME NEW ls, IsSeq(ls), \A l \in ToSet(ls) : IsLine(l) /\ l.month \in Nat, Carried(ls),
         NEW id, NEW a
  PROVE  LET out == UpdateCashBatchAndVoucher(ls)
         IN IsSeq(out) /\ Carried(out) /\ Part(out, id, a) = Part(ls, id, a)
<1> DEFINE L == ToSet(ls)
           S == SortedEntries(ls)
           n == Len(S)
           h == [m \in DOMAIN S |-> Part(S[m], id, a)]
           at == [m \in DOMAIN S |-> WithId(ls, S[m][1].uid)]
<1>1. PICK acc : Numbering(ls, acc)
  BY NumberingRuns
<1>2. Entries(ls, S)
  BY SortedAre
<1>3. /\ \A k \in 0..n : acc[k] \in Numberings(L)
      /\ acc[0] = NoEntry
      /\ \A k \in 0..(n - 1) : acc[k + 1] = NumberEntry(acc[k], S[k + 1])
      /\ UpdateCashBatchAndVoucher(ls) = acc[n].out
  BY <1>1 DEF Numbering
<1> HIDE DEF S
<1>4. n \in Nat /\ DOMAIN S = 1..n /\ IsFiniteSet(DOMAIN S)
  BY <1>2, SeqIs, UpTo DEF Entries
<1> HIDE DEF n
<1>5. ASSUME NEW m \in 1..n
      PROVE  /\ IsSeq(S[m]) /\ S[m] # <<>> /\ ToSet(S[m]) \subseteq L /\ Carried(S[m])
             /\ \A l \in ToSet(S[m]) : IsLine(l)
             /\ h[m] \in Int /\ S[m] = Picked(ls, at[m])
  <2> DEFINE e == S[m]
  <2>1. IsSeq(e) /\ e # <<>> /\ ToSet(e) \subseteq L /\ e = Picked(ls, at[m])
    BY <1>2, <1>4 DEF Entries
  <2>2. h[m] = Part(e, id, a)
    BY <1>4
  <2> HIDE DEF e, h, at
  <2>3. Carried(e) /\ \A l \in ToSet(e) : IsLine(l)
    BY <2>1 DEF Carried
  <2>4. Part(e, id, a) \in Int
    BY <2>1, <2>3, PartIs
  <2>5. QED
    BY <2>1, <2>2, <2>3, <2>4 DEF e
<1>6. Part(ls, id, a) = Over(h, DOMAIN S)
  <2>1. \A m \in DOMAIN S : at[m] \subseteq DOMAIN ls
    BY DEF WithId
  <2>2. \A m, k \in DOMAIN S : m # k => at[m] \cap at[k] = {}
    BY <1>2 DEF WithId, Entries
  <2>3. \A i \in DOMAIN ls : \E m \in DOMAIN S : i \in at[m]
    <3> SUFFICES ASSUME NEW i \in DOMAIN ls PROVE \E m \in DOMAIN S : i \in at[m]
      OBVIOUS
    <3>1. PICK m \in DOMAIN S : S[m][1].uid = ls[i].uid
      BY <1>2 DEF Entries, ToSet
    <3>2. i \in at[m]
      BY <3>1 DEF WithId
    <3>3. QED
      BY <3>2
  <2>4. [m \in DOMAIN S |-> Part(Picked(ls, at[m]), id, a)] = h
    BY <1>4, <1>5
  <2> HIDE DEF at, h
  <2>5. Part(ls, id, a) = Over([m \in DOMAIN S |-> Part(Picked(ls, at[m]), id, a)], DOMAIN S)
    BY <1>4, <2>1, <2>2, <2>3, PartParts
  <2>6. QED
    BY <2>4, <2>5, Zenon
<1> HIDE DEF h, at
<1>7. /\ Over(h, {}) = 0
      /\ \A T \in SUBSET (DOMAIN S) : \A x \in (DOMAIN S) \ T :
           Over(h, T \cup {x}) = Over(h, T) + h[x]
  BY <1>4, <1>5, OverAdd
<1> DEFINE P == {k \in 0..n : /\ Carried(acc[k].out)
                              /\ Part(acc[k].out, id, a) = Over(h, 1..k)}
<1>8. ASSUME NEW k \in 0..n PROVE IsSeq(acc[k].out)
  <2>1. acc[k].out \in Seq(Numbered(L))
    BY <1>3 DEF Numberings
  <2>2. QED
    BY <2>1, SeqTyped
<1>9. 0 \in P
  <2>1. 1..0 = {} /\ 0 \in 0..n
    BY <1>4
  <2>2. acc[0].out = <<>>
    <3>1. NoEntry.out = <<>>
      BY DEF NoEntry
    <3>2. QED
      BY <1>3, <3>1
  <2>3. QED
    BY <1>7, <2>1, <2>2, NothingCarried
<1>10. ASSUME NEW k \in 0..n, k \in P, k < n PROVE k + 1 \in P
  <2>1. k \in 0..(n - 1) /\ k + 1 \in 0..n /\ k + 1 \in 1..n
    BY <1>4, <1>10
  <2> DEFINE x == acc[k]
             e == S[k + 1]
             j == acc[k + 1].n
             new == InJournal(e, j)
  <2>2. x \in Numberings(L) /\ acc[k + 1] = NumberEntry(x, e)
    BY <1>3, <2>1
  <2>3. /\ IsSeq(e) /\ e # <<>> /\ ToSet(e) \subseteq L /\ Carried(e)
        /\ \A l \in ToSet(e) : IsLine(l)
        /\ h[k + 1] = Part(e, id, a)
    BY <1>4, <1>5, <2>1 DEF h
  <2> HIDE DEF e
  <2>4. acc[k + 1].out = x.out \o new
    <3>1. \A l \in L : l.month \in Nat
      OBVIOUS
    <3> HIDE DEF x, L
    <3>2. NumberEntry(x, e).out = x.out \o InJournal(e, NumberEntry(x, e).n)
      BY <2>2, <2>3, <3>1, NumberEntryIs DEF EntryNumbered
    <3>3. QED
      BY <2>2, <3>2
  <2> HIDE DEF j
  <2>5. IsSeq(new) /\ Carried(new) /\ Part(new, id, a) = h[k + 1]
    BY <2>3, InJournalPart
  <2>6. IsSeq(x.out) /\ Carried(x.out) /\ Part(x.out, id, a) = Over(h, 1..k)
    BY <1>8, <1>10
  <2> HIDE DEF new, x
  <2>7. /\ Part(x.out \o new, id, a) = Over(h, 1..k) + h[k + 1]
        /\ Carried(x.out \o new)
    BY <2>5, <2>6, PartConcat
  <2>8. Over(h, 1..(k + 1)) = Over(h, 1..k) + h[k + 1]
    <3> DEFINE T == 1..k
    <3>1. T \in SUBSET (DOMAIN S) /\ k + 1 \in (DOMAIN S) \ T /\ 1..(k + 1) = T \cup {k + 1}
      BY <1>4, <2>1
    <3> HIDE DEF T
    <3>2. QED
      BY <1>7, <3>1 DEF T
  <2>9. QED
    BY <2>1, <2>4, <2>7, <2>8
<1>11. \A k \in 0..n : k \in P /\ k < n => k + 1 \in P
  BY <1>10
<1> HIDE DEF P
<1>12. 0..n \subseteq P
  BY <1>4, <1>9, <1>11, Induction
<1>13. n \in P /\ n \in 0..n
  BY <1>4, <1>12
<1>14. Carried(acc[n].out) /\ Part(acc[n].out, id, a) = Over(h, DOMAIN S)
  BY <1>4, <1>13 DEF P
<1>15. QED
  BY <1>3, <1>6, <1>8, <1>13, <1>14

-----------------------------------------------------------------------------
(* Amounts of rows as sums of a number for each.                           *)
DebitsOn(S) == [x \in S |-> x.d]
CreditsOn(S) == [x \in S |-> x.c]

LEMMA AmountsAre ==
  ASSUME NEW s, IsSeq(s), Money(s), NEW S, ToSet(s) \subseteq S
  PROVE  /\ Debits(s) = Total(s, DebitsOn(S)) /\ Measured(s, DebitsOn(S))
         /\ Credits(s) = Total(s, CreditsOn(S)) /\ Measured(s, CreditsOn(S))
<1> DEFINE d == [i \in DOMAIN s |-> s[i].d]
           c == [i \in DOMAIN s |-> s[i].c]
           f == DebitsOn(S)
           g == CreditsOn(S)
<1>1. Debits(s) = Over(d, DOMAIN s) /\ Credits(s) = Over(c, DOMAIN s)
  BY SumsAre
<1>2. ASSUME NEW x \in ToSet(s)
      PROVE  f[x] = x.d /\ g[x] = x.c /\ f[x] \in Int /\ g[x] \in Int
  BY DEF Money, DebitsOn, CreditsOn
<1> HIDE DEF f, g
<1>3. Values(s, f) = d /\ Values(s, g) = c
  <2>1. \A i \in DOMAIN s : f[s[i]] = s[i].d /\ g[s[i]] = s[i].c
    BY <1>2 DEF ToSet
  <2>2. QED
    BY <2>1 DEF Values
<1> HIDE DEF d, c
<1>4. QED
  BY <1>1, <1>2, <1>3 DEF Total, Measured, f, g

(* Rows of one entry have numbers of their own, so a vendor row has its    *)
(* debit left before anything is given, and is never given more.           *)
Apart(s) == \A i, k \in DOMAIN s : i # k => s[i].line # s[k].line

LEMMA OwnDebit ==
  ASSUME NEW vendors, IsSeq(vendors), Money(vendors), Apart(vendors),
         NEW m \in DOMAIN vendors
  PROVE  DebitPerLine(vendors)[vendors[m].line] = vendors[m].d
<1> DEFINE l == vendors[m].line
           at == {i \in DOMAIN vendors : vendors[i].line = l}
           s == Picked(vendors, at)
           S == ToSet(vendors)
           f == DebitsOn(S)
<1>1. at = {m}
  BY DEF Apart
<1>2. DebitPerLine(vendors)[l] = Debits(s)
  <2>1. l \in LinesIn(vendors)
    BY DEF LinesIn
  <2>2. QED
    BY <2>1 DEF DebitPerLine, Where
<1>3. at \subseteq DOMAIN vendors
  OBVIOUS
<1> HIDE DEF at, l
<1>4. IsSeq(s) /\ ToSet(s) \subseteq S
  BY <1>3, PickedSome
<1>5. Money(s)
  BY <1>4 DEF Money
<1> HIDE DEF s
<1>6. Debits(s) = Total(s, f) /\ Measured(vendors, f)
  BY <1>4, <1>5, AmountsAre
<1>7. Total(s, f) = Over(Values(vendors, f), at)
  BY <1>3, <1>6, TotalPicked DEF s
<1> DEFINE g == Values(vendors, f)
<1>8. g[m] = vendors[m].d /\ g[m] \in Int
  BY DEF Values, DebitsOn, ToSet, Money
<1> HIDE DEF f, g, S
<1>9. Over(g, {m}) = g[m]
  <2>1. Over(g, {m} \ {m}) = 0
    <3>1. IsFiniteSet({}) /\ {m} \ {m} = {}
      BY FS_EmptySet
    <3>2. QED
      BY <3>1, OverZero
  <2>2. IsFiniteSet({m}) /\ {m} \in SUBSET {m} /\ m \in {m} /\ \A x \in {m} : g[x] \in Int
    BY <1>8, FS_Singleton
  <2> DEFINE M == {m}
  <2> HIDE DEF M
  <2>3. Over(g, M) = g[m] + Over(g, M \ {m})
    <3>1. IsFiniteSet(M) /\ M \in SUBSET M /\ m \in M /\ \A x \in M : g[x] \in Int
      BY <2>2 DEF M
    <3>2. QED
      BY <3>1, OverLess
  <2>4. QED
    BY <1>8, <2>1, <2>3 DEF M
<1>10. QED
  BY <1>1, <1>2, <1>6, <1>7, <1>8, <1>9 DEF g, l

Costs(wht) == [i \in DOMAIN wht |-> wht[i].c]
GivenTo(a, k, l) == {i \in 1..k : a.to[i] = l}
Accounted(vendors, wht, a, k) ==
  a.ok = TRUE =>
    /\ Len(a.to) = k
    /\ \A l \in LinesIn(vendors) :
         /\ 0 <= a.left[l]
         /\ a.left[l] = DebitPerLine(vendors)[l] - Over(Costs(wht), GivenTo(a, k, l))

LEMMA OneMoreGiven ==
  ASSUME NEW vendors, IsSeq(vendors), Money(vendors), NEW wht, IsSeq(wht), Money(wht),
         NEW k \in 0..(Len(wht) - 1), NEW a \in Allocations(LinesIn(vendors)),
         NEW b \in Allocations(LinesIn(vendors)),
         Gives(vendors, a, wht[k + 1], b), Accounted(vendors, wht, a, k)
  PROVE  Accounted(vendors, wht, b, k + 1)
<1> DEFINE L == LinesIn(vendors)
           w == wht[k + 1]
           g == Costs(wht)
           D == DOMAIN wht
           debit == DebitPerLine(vendors)
<1> SUFFICES ASSUME b.ok = TRUE
             PROVE  /\ Len(b.to) = k + 1
                    /\ \A l \in L : /\ 0 <= b.left[l]
                                    /\ b.left[l] = debit[l] - Over(g, GivenTo(b, k + 1, l))
  BY DEF Accounted
<1>1. Len(wht) \in Nat /\ D = 1..Len(wht) /\ k \in Nat /\ k + 1 \in D /\ 1..k \subseteq D
      /\ k + 1 \notin 1..k /\ 1..(k + 1) = 1..k \cup {k + 1}
  BY SeqIs
<1>2. w.c \in Nat
  BY <1>1 DEF Money, ToSet
<1>3. PICK v \in ToSet(vendors) : /\ w.c <= a.left[v.line]
                                  /\ b.left = [a.left EXCEPT ![v.line] = @ - w.c]
                                  /\ b.to = Append(a.to, v.line)
  <2> DEFINE Q(v) == /\ b.left = [a.left EXCEPT ![v.line] = @ - w.c]
                     /\ b.to = Append(a.to, v.line)
  <2>1. PICK v \in ToSet(vendors) : CanHold(v, w, a.left[v.line]) /\ Q(v)
    BY Zenon DEF Gives
  <2>2. v.line \in L
    BY DEF LinesIn, ToSet
  <2>3. a.left[v.line] >= w.c
    BY <2>1, Zenon DEF CanHold
  <2>4. a.left[v.line] \in Int
    BY <2>2 DEF Allocations
  <2>5. w.c <= a.left[v.line]
    BY <1>2, <2>3, <2>4
  <2>6. QED
    BY <2>1, <2>5, Zenon DEF Q
<1> DEFINE m == v.line
<1>4. m \in L
  BY DEF LinesIn, ToSet
<1>5. a.to \in Seq(L) /\ a.left \in [L -> Int] /\ a.ok = TRUE
  BY DEF Allocations, Gives
<1>6. Len(a.to) = k /\ \A l \in L : 0 <= a.left[l] /\ a.left[l] = debit[l] - Over(g, GivenTo(a, k, l))
  BY <1>5 DEF Accounted
<1> HIDE DEF L, m, debit
<1>7. /\ Len(b.to) = k + 1 /\ b.to[k + 1] = m
      /\ \A i \in 1..k : b.to[i] = a.to[i]
  BY <1>1, <1>3, <1>4, <1>5, <1>6, AppendProperties DEF m
<1>8. IsFiniteSet(D) /\ \A i \in D : g[i] \in Int
  <2>1. IsFiniteSet(D)
    BY <1>1, UpTo
  <2>2. \A i \in D : g[i] \in Int
    BY DEF Costs, Money, ToSet
  <2>3. QED
    BY <2>1, <2>2
<1>9. g[k + 1] = w.c
  BY <1>1 DEF Costs
<1> HIDE DEF g, D, w
<1>10. ASSUME NEW l \in L
       PROVE  0 <= b.left[l] /\ b.left[l] = debit[l] - Over(g, GivenTo(b, k + 1, l))
  <2> DEFINE T == GivenTo(a, k, l)
  <2>1. T \in SUBSET D /\ k + 1 \in D \ T
    BY <1>1 DEF GivenTo
  <2>2. Over(g, T) \in Int /\ Over(g, T \cup {k + 1}) = Over(g, T) + g[k + 1]
    <3>1. /\ \A U \in SUBSET D : Over(g, U) \in Int
          /\ \A U \in SUBSET D : \A x \in D \ U : Over(g, U \cup {x}) = Over(g, U) + g[x]
      BY <1>8, OverAdd
    <3> HIDE DEF T
    <3>2. QED
      BY <2>1, <3>1
  <2>3. 0 <= a.left[l] /\ a.left[l] = debit[l] - Over(g, T) /\ a.left[l] \in Int
    BY <1>5, <1>6
  <2>4. CASE l = m
    <3>1. GivenTo(b, k + 1, l) = T \cup {k + 1}
      BY <1>1, <1>7, <2>4 DEF GivenTo
    <3>2. b.left[l] = a.left[l] - w.c /\ w.c <= a.left[l]
      BY <1>3, <1>4, <1>5, <2>4 DEF m
    <3>3. debit[l] - Over(g, T) - w.c = debit[l] - (Over(g, T) + w.c) /\ debit[l] \in Int
      <4>1. debit[l] \in Int
        <5>1. debit \in [L -> Nat]
          BY DebitPerLineIs DEF debit, L
        <5>2. QED
          BY <5>1
      <4>2. QED
        BY <1>2, <2>2, <4>1
    <3>4. 0 <= b.left[l]
      BY <1>2, <2>3, <3>2
    <3>5. b.left[l] = debit[l] - (Over(g, T) + w.c)
      BY <2>3, <3>2, <3>3
    <3>6. QED
      BY <1>9, <2>2, <3>1, <3>4, <3>5
  <2>5. CASE l # m
    <3>1. GivenTo(b, k + 1, l) = T
      BY <1>1, <1>7, <2>5 DEF GivenTo
    <3>2. b.left[l] = a.left[l]
      BY <1>3, <1>5, <2>5 DEF m
    <3>3. QED
      BY <2>3, <3>1, <3>2
  <2>6. QED
    BY <2>4, <2>5
<1>11. QED
  BY <1>7, <1>10

LEMMA AllocationAccounted ==
  ASSUME NEW vendors, IsSeq(vendors), Money(vendors), NEW wht, IsSeq(wht), Money(wht)
  PROVE  Accounted(vendors, wht, AllocateWhtLinesToVendors(vendors, wht), Len(wht))
<1> DEFINE n == Len(wht)
           L == LinesIn(vendors)
<1>1. PICK acc : Allocating(vendors, wht, acc)
  BY AllocationRuns
<1>2. n \in Nat
  BY SeqIs
<1>3. /\ \A k \in 0..n : acc[k] \in Allocations(L)
      /\ acc[0] = NothingAllocated(vendors)
      /\ \A k \in 0..(n - 1) : Gives(vendors, acc[k], wht[k + 1], acc[k + 1])
      /\ AllocateWhtLinesToVendors(vendors, wht) = acc[n]
  BY <1>1 DEF Allocating
<1> DEFINE P == {k \in 0..n : Accounted(vendors, wht, acc[k], k)}
<1>4. 0 \in P
  <2> DEFINE a == NothingAllocated(vendors)
             debit == DebitPerLine(vendors)
  <2>1. a.to = <<>> /\ a.left = debit /\ debit \in [L -> Nat]
    <3>1. debit \in [L -> Nat]
      BY DebitPerLineIs
    <3> HIDE DEF debit
    <3>2. a.to = <<>> /\ a.left = debit
      BY DEF NothingAllocated, debit
    <3>3. QED
      BY <3>1, <3>2
  <2>2. Len(<<>>) = 0 /\ 0 \in 0..n
    BY <1>2, EmptyIs
  <2>3. \A l : Over(Costs(wht), GivenTo(a, 0, l)) = 0
    <3>1. \A l : GivenTo(a, 0, l) = {}
      BY DEF GivenTo
    <3>2. IsFiniteSet({})
      BY FS_EmptySet
    <3>3. Over(Costs(wht), {}) = 0
      BY <3>2, OverZero
    <3>4. QED
      BY <3>1, <3>3
  <2> HIDE DEF a, debit, n, L
  <2>4. ASSUME NEW l \in L
        PROVE  0 <= a.left[l] /\ a.left[l] = debit[l] - Over(Costs(wht), GivenTo(a, 0, l))
    BY <2>1, <2>3
  <2>5. Accounted(vendors, wht, a, 0)
    BY <2>1, <2>2, <2>4 DEF Accounted, L, debit
  <2>6. QED
    BY <1>3, <2>2, <2>5 DEF a
<1>5. ASSUME NEW k \in 0..n, k \in P, k < n PROVE k + 1 \in P
  <2>1. k \in 0..(n - 1) /\ k + 1 \in 0..n /\ k \in 0..n
    BY <1>2, <1>5
  <2>2. /\ acc[k] \in Allocations(L) /\ acc[k + 1] \in Allocations(L)
        /\ Gives(vendors, acc[k], wht[k + 1], acc[k + 1])
        /\ Accounted(vendors, wht, acc[k], k)
    BY <1>3, <1>5, <2>1
  <2>3. Accounted(vendors, wht, acc[k + 1], k + 1)
    BY <2>1, <2>2, OneMoreGiven
  <2>4. QED
    BY <2>1, <2>3
<1>6. \A k \in 0..n : k \in P /\ k < n => k + 1 \in P
  BY <1>5
<1>7. 0..n \subseteq P
  <2> HIDE DEF P, n
  <2>1. QED
    BY <1>2, <1>4, <1>6, Induction
<1>8. n \in 0..n
  BY <1>2
<1>9. QED
  BY <1>3, <1>7, <1>8

(* The withholding rows that vendor row v holds.                           *)
HeldBy(vendors, wht, v) ==
  {i \in DOMAIN wht : AllocateWhtLinesToVendors(vendors, wht).to[i] = v.line}

LEMMA HeldIs ==
  ASSUME NEW vendors, IsSeq(vendors), Money(vendors), Apart(vendors),
         NEW wht, IsSeq(wht), Money(wht),
         AllocateWhtLinesToVendors(vendors, wht).ok = TRUE,
         NEW m \in DOMAIN vendors
  PROVE  LET mine == Picked(wht, HeldBy(vendors, wht, vendors[m]))
         IN /\ IsSeq(mine) /\ ToSet(mine) \subseteq ToSet(wht) /\ Money(mine)
            /\ Credits(mine) \in Nat /\ Credits(mine) <= vendors[m].d
<1> DEFINE to == AllocateWhtLinesToVendors(vendors, wht)
           v == vendors[m]
           at == HeldBy(vendors, wht, v)
           mine == Picked(wht, at)
           S == ToSet(wht)
           f == CreditsOn(S)
<1>1. Accounted(vendors, wht, to, Len(wht))
  BY AllocationAccounted
<1>2. v.line \in LinesIn(vendors)
  BY DEF LinesIn
<1>3. DOMAIN wht = 1..Len(wht)
  BY SeqIs
<1>4. at = GivenTo(to, Len(wht), v.line)
  BY <1>3 DEF HeldBy, GivenTo
<1>5. DebitPerLine(vendors)[v.line] = v.d
  BY OwnDebit
<1>6. at \subseteq DOMAIN wht
  BY DEF HeldBy
<1> HIDE DEF at
<1>7. IsSeq(mine) /\ ToSet(mine) \subseteq S
  BY <1>6, PickedSome
<1>8. Money(mine)
  BY <1>7 DEF Money
<1>9. Credits(mine) \in Nat
  BY <1>7, <1>8, SumsAre
<1> HIDE DEF mine
<1>10. Credits(mine) = Total(mine, f) /\ Measured(wht, f)
  <2>1. Credits(mine) = Total(mine, f)
    BY <1>7, <1>8, AmountsAre
  <2>2. Measured(wht, f)
    BY AmountsAre
  <2>3. QED
    BY <2>1, <2>2
<1>11. Total(mine, f) = Over(Values(wht, f), at)
  BY <1>6, <1>10, TotalPicked DEF mine
<1>12. Values(wht, f) = Costs(wht)
  <2>1. \A i \in DOMAIN wht : f[wht[i]] = wht[i].c
    BY DEF CreditsOn, ToSet
  <2>2. QED
    BY <2>1 DEF Values, Costs
<1> DEFINE left == to.left[v.line]
           held == Over(Costs(wht), at)
<1>13. 0 <= left /\ left = v.d - held
  BY <1>1, <1>2, <1>4, <1>5 DEF Accounted
<1>14. held = Credits(mine) /\ v.d \in Nat
  BY <1>10, <1>11, <1>12 DEF Money, ToSet
<1>15. Credits(mine) <= v.d
  <2> DEFINE c == Credits(mine)
             d == v.d
  <2>1. 0 <= left /\ left = d - c /\ d \in Nat /\ c \in Nat
    BY <1>9, <1>13, <1>14
  <2> HIDE DEF c, d, left
  <2>2. c <= d
    BY <2>1
  <2>3. QED
    BY <2>2 DEF c, d
<1>16. QED
  BY <1>7, <1>8, <1>9, <1>15 DEF mine, at, v

-----------------------------------------------------------------------------
(* What rows put on an account as they are written.                        *)
Worth(r, a) == IF r.acct = a THEN r.d - r.c ELSE 0
WorthOn(S, a) == [r \in S |-> Worth(r, a)]

LEMMA WrittenIs ==
  ASSUME NEW s, IsSeq(s), Money(s), NEW a, a # NoAccount, NEW S, ToSet(s) \subseteq S
  PROVE  /\ Net(AsWritten(s), a) = Total(s, WorthOn(S, a)) /\ Measured(s, WorthOn(S, a))
         /\ Net(AsWritten(s), a) \in Int
<1> DEFINE f == WorthOn(S, a)
           t == AsWritten(s)
           m == [i \in DOMAIN t |-> Moves(t[i], a)]
<1>1. Net(t, a) = Over(m, DOMAIN t) /\ DOMAIN t = DOMAIN s
  BY DEF Net, SumFunction, Over, AsWritten
<1>2. ASSUME NEW x \in ToSet(s) PROVE f[x] = Worth(x, a) /\ f[x] \in Int
  <2>1. x.d \in Int /\ x.c \in Int
    BY DEF Money
  <2>2. x.d - x.c \in Int
    BY <2>1
  <2>3. QED
    BY <2>2 DEF WorthOn, Worth
<1>3. ASSUME NEW i \in DOMAIN s PROVE Moves(t[i], a) = f[s[i]]
  <2> DEFINE r == s[i]
  <2>1. r \in ToSet(s)
    BY DEF ToSet
  <2>2. t[i] = [acct |-> r.acct, off |-> NoAccount, d |-> r.d, c |-> r.c]
    BY DEF AsWritten
  <2> HIDE DEF r, t
  <2>3. Moves(t[i], a) = Worth(r, a) - 0
    BY <2>2 DEF Moves, Worth
  <2>4. f[r] = Worth(r, a) /\ f[r] \in Int
    BY <1>2, <2>1
  <2> HIDE DEF f
  <2>5. Moves(t[i], a) = f[r]
    BY <2>3, <2>4
  <2>6. QED
    BY <2>5 DEF r
<1> HIDE DEF f, t
<1>4. Values(s, f) = m
  BY <1>1, <1>3 DEF Values
<1> HIDE DEF m
<1>5. Net(t, a) = Total(s, f) /\ Measured(s, f)
  BY <1>1, <1>2, <1>4 DEF Total, Measured
<1>6. Total(s, f) \in Int
  BY <1>5, ValuesAre
<1>7. QED
  BY <1>5, <1>6 DEF f, t

(* The companions of a vendor row put the withheld amounts on its account, *)
(* and on the others what the withholding rows put there.                  *)
Gets(v, a, n) == IF v.acct = a THEN n ELSE 0
CompanionsOf(co, v, mine) == [n \in DOMAIN mine |-> WithholdingCompanion(co, v, mine[n])]

LEMMA CompanionMoves ==
  ASSUME NEW co, NEW v, NEW w, w.c \in Nat, w.d = 0, NEW a
  PROVE  LET l == WithholdingCompanion(co, v, w)
         IN /\ Moves(l, a) = Gets(v, a, w.c) + Worth(w, a)
            /\ l.d \in Int /\ l.c \in Int
<1> DEFINE l == WithholdingCompanion(co, v, w)
<1>1. l.acct = v.acct /\ l.off = w.acct /\ l.d = w.c /\ l.c = 0
  BY DEF WithholdingCompanion, BuildLineOutbound
<1> HIDE DEF l
<1> DEFINE c == w.c
<1>2. l.d - l.c = c /\ w.d - w.c = 0 - c
  BY <1>1
<1>3. l.d \in Int /\ l.c \in Int /\ c \in Nat
  BY <1>1
<1> HIDE DEF c
<1>4. Moves(l, a) = (IF v.acct = a THEN c ELSE 0) - (IF w.acct = a THEN c ELSE 0)
  BY <1>1, <1>2, Zenon DEF Moves
<1>5. Worth(w, a) = IF w.acct = a THEN 0 - c ELSE 0
  BY <1>2, Zenon DEF Worth
<1>6. Moves(l, a) = Gets(v, a, c) + Worth(w, a)
  BY <1>3, <1>4, <1>5 DEF Gets
<1>7. QED
  BY <1>3, <1>6 DEF l, c

LEMMA CompanionsNet ==
  ASSUME NEW co, NEW v, NEW mine, IsSeq(mine), Money(mine),
         \A w \in ToSet(mine) : w.d = 0, NEW a, a # NoAccount
  PROVE  /\ IsSeq(CompanionsOf(co, v, mine)) /\ Carried(CompanionsOf(co, v, mine))
         /\ Net(CompanionsOf(co, v, mine), a)
              = Gets(v, a, Credits(mine)) + Net(AsWritten(mine), a)
<1> DEFINE t == CompanionsOf(co, v, mine)
           D == DOMAIN mine
           m == [i \in D |-> Moves(t[i], a)]
           g == [i \in D |-> Gets(v, a, mine[i].c)]
           k == [i \in D |-> Worth(mine[i], a)]
           S == ToSet(mine)
<1>1. DOMAIN t = D /\ t = [n \in D |-> t[n]] /\ \A n \in D : t[n] = WithholdingCompanion(co, v, mine[n])
  BY DEF CompanionsOf
<1>2. IsSeq(t)
  BY <1>1, MappedIs
<1>3. ASSUME NEW i \in D
      PROVE  /\ Moves(t[i], a) = Gets(v, a, mine[i].c) + Worth(mine[i], a)
             /\ t[i].d \in Int /\ t[i].c \in Int
             /\ Gets(v, a, mine[i].c) \in Int /\ Worth(mine[i], a) \in Int
  <2>1. mine[i].c \in Nat /\ mine[i].d = 0
    BY DEF Money, ToSet
  <2>2. Gets(v, a, mine[i].c) \in Int /\ Worth(mine[i], a) \in Int
    <3>1. mine[i].d - mine[i].c \in Int /\ mine[i].c \in Int
      BY <2>1
    <3>2. QED
      BY <3>1 DEF Gets, Worth
  <2>3. QED
    BY <1>1, <2>1, <2>2, CompanionMoves
<1>4. Carried(t)
  BY <1>1, <1>3 DEF Carried, ToSet
<1>5. Net(t, a) = Over(m, D)
  BY <1>1 DEF Net, SumFunction, Over
<1> HIDE DEF t
<1>6. IsFiniteSet(D)
  BY SeqIs, UpTo
<1>7. m = [i \in D |-> g[i] + k[i]] /\ \A i \in D : g[i] \in Int /\ k[i] \in Int
  BY <1>3
<1>8. Over(k, D) = Net(AsWritten(mine), a)
  <2>1. Net(AsWritten(mine), a) = Total(mine, WorthOn(S, a))
    BY WrittenIs
  <2>2. Values(mine, WorthOn(S, a)) = k
    BY DEF Values, WorthOn, ToSet
  <2>3. QED
    BY <2>1, <2>2 DEF Total
<1>9. Over(g, D) = Gets(v, a, Credits(mine))
  <2>1. CASE v.acct = a
    <3>1. g = [i \in D |-> mine[i].c]
      BY <2>1 DEF Gets
    <3>2. Credits(mine) = Over([i \in D |-> mine[i].c], D)
      BY SumsAre
    <3> HIDE DEF g, D
    <3>3. QED
      BY <2>1, <3>1, <3>2 DEF Gets
  <2>2. CASE v.acct # a
    <3>1. \A i \in D : g[i] = 0
      BY <2>2 DEF Gets
    <3> HIDE DEF g
    <3>2. Over(g, D) = 0
      BY <1>6, <3>1, OverZero
    <3>3. QED
      BY <2>2, <3>2 DEF Gets
  <2>3. QED
    BY <2>1, <2>2
<1> HIDE DEF g, k, m, D
<1>10. Over(m, D) = Over(g, D) + Over(k, D)
  BY <1>6, <1>7, OverPlus
<1>11. QED
  BY <1>2, <1>4, <1>5, <1>8, <1>9, <1>10 DEF t

(* Every withholding row is held by one vendor row, so the parts they hold *)
(* add up to all of it.                                                    *)
Mine(vendors, wht, v) == Picked(wht, HeldBy(vendors, wht, v))

LEMMA MineTotals ==
  ASSUME NEW vendors, IsSeq(vendors), Money(vendors), Apart(vendors),
         NEW wht, IsSeq(wht), Money(wht),
         AllocateWhtLinesToVendors(vendors, wht).ok = TRUE,
         NEW f, Measured(wht, f)
  PROVE  Total(wht, f)
           = Over([m \in DOMAIN vendors |-> Total(Mine(vendors, wht, vendors[m]), f)],
                  DOMAIN vendors)
<1> DEFINE N == DOMAIN vendors
           at == [m \in N |-> HeldBy(vendors, wht, vendors[m])]
           to == AllocateWhtLinesToVendors(vendors, wht).to
<1>1. to \in Seq(LinesIn(vendors)) /\ Len(to) = Len(wht)
  BY AllocationGives
<1>2. IsFiniteSet(N)
  BY SeqIs, UpTo
<1>3. DOMAIN wht = 1..Len(wht)
  BY SeqIs
<1>4. \A i \in DOMAIN wht : to[i] \in LinesIn(vendors)
  <2> DEFINE L == LinesIn(vendors)
  <2> HIDE DEF L, to
  <2>1. \A i \in 1..Len(to) : to[i] \in L
    BY <1>1, ElementOfSeq DEF L
  <2>2. QED
    BY <1>1, <1>3, <2>1 DEF L
<1>5. \A m \in N : at[m] = {i \in DOMAIN wht : to[i] = vendors[m].line}
  BY DEF HeldBy
<1> HIDE DEF at, to
<1>6. \A m \in N : at[m] \subseteq DOMAIN wht
  BY <1>5
<1>7. \A m, k \in N : m # k => at[m] \cap at[k] = {}
  BY <1>5 DEF Apart
<1>8. \A i \in DOMAIN wht : \E m \in N : i \in at[m]
  BY <1>4, <1>5 DEF LinesIn
<1>9. Total(wht, f) = Over([m \in N |-> Total(Picked(wht, at[m]), f)], N)
  <2> HIDE DEF N
  <2>1. QED
    BY <1>2, <1>6, <1>7, <1>8, TotalParts
<1>10. [m \in N |-> Total(Picked(wht, at[m]), f)]
         = [m \in N |-> Total(Mine(vendors, wht, vendors[m]), f)]
  BY DEF at, Mine
<1>11. QED
  BY <1>9, <1>10, Zenon

LEMMA MineSums ==
  ASSUME NEW vendors, IsSeq(vendors), Money(vendors), Apart(vendors),
         NEW wht, IsSeq(wht), Money(wht),
         AllocateWhtLinesToVendors(vendors, wht).ok = TRUE,
         NEW a, a # NoAccount
  PROVE  /\ Credits(wht)
              = Over([m \in DOMAIN vendors |-> Credits(Mine(vendors, wht, vendors[m]))],
                     DOMAIN vendors)
         /\ Net(AsWritten(wht), a)
              = Over([m \in DOMAIN vendors |-> Net(AsWritten(Mine(vendors, wht, vendors[m])), a)],
                     DOMAIN vendors)
<1> DEFINE S == ToSet(wht)
           N == DOMAIN vendors
           own(m) == Mine(vendors, wht, vendors[m])
           f == CreditsOn(S)
           g == WorthOn(S, a)
<1>1. Credits(wht) = Total(wht, f) /\ Measured(wht, f)
  BY AmountsAre
<1>2. Net(AsWritten(wht), a) = Total(wht, g) /\ Measured(wht, g)
  BY WrittenIs
<1>3. ASSUME NEW m \in N
      PROVE  Credits(own(m)) = Total(own(m), f) /\ Net(AsWritten(own(m)), a) = Total(own(m), g)
  <2> DEFINE s == own(m)
  <2>1. IsSeq(s) /\ ToSet(s) \subseteq S /\ Money(s)
    BY HeldIs DEF Mine
  <2> HIDE DEF s
  <2>2. Credits(s) = Total(s, f)
    BY <2>1, AmountsAre
  <2>3. Net(AsWritten(s), a) = Total(s, g)
    BY <2>1, WrittenIs
  <2>4. QED
    BY <2>2, <2>3 DEF s
<1> HIDE DEF f, g
<1>4. Total(wht, f) = Over([m \in N |-> Total(own(m), f)], N)
  BY <1>1, MineTotals
<1>5. Total(wht, g) = Over([m \in N |-> Total(own(m), g)], N)
  BY <1>2, MineTotals
<1> HIDE DEF own, N
<1>6. /\ [m \in N |-> Total(own(m), f)] = [m \in N |-> Credits(own(m))]
      /\ [m \in N |-> Total(own(m), g)] = [m \in N |-> Net(AsWritten(own(m)), a)]
  BY <1>3
<1>7. Credits(wht) = Over([m \in N |-> Credits(own(m))], N)
  BY <1>1, <1>4, <1>6
<1>8. Net(AsWritten(wht), a) = Over([m \in N |-> Net(AsWritten(own(m)), a)], N)
  BY <1>2, <1>5, <1>6
<1>9. QED
  BY <1>7, <1>8 DEF own, N

LEMMA OneIs ==
  ASSUME NEW x, NEW a, x.d \in Int, x.c \in Int
  PROVE  IsSeq(<<x>>) /\ ToSet(<<x>>) = {x} /\ Carried(<<x>>) /\ Net(<<x>>, a) = Moves(x, a)
<1> DEFINE S == {x}
           f == MovesOn(S, a)
<1>1. Moves(x, a) \in Int
  BY MovesInt
<1>2. f[x] = Moves(x, a)
  BY DEF MovesOn
<1>3. ToSet(<<x>>) = {x}
  BY DEF ToSet
<1> HIDE DEF f
<1>4. Total(<<x>>, f) = f[x] /\ IsSeq(<<x>>)
  BY <1>1, <1>2, TotalOne
<1>5. Carried(<<x>>)
  BY <1>3 DEF Carried
<1>6. Net(<<x>>, a) = Total(<<x>>, f)
  <2> DEFINE s == <<x>>
  <2> HIDE DEF s
  <2>1. IsSeq(s) /\ Carried(s) /\ ToSet(s) \subseteq S
    BY <1>3, <1>4, <1>5 DEF s
  <2>2. Net(s, a) = Total(s, f)
    BY <2>1, NetIs DEF f
  <2>3. QED
    BY <2>2 DEF s
<1>7. QED
  BY <1>2, <1>3, <1>4, <1>5, <1>6

(* A vendor row against the payment, and its withholding.                  *)
MainOf(co, v, o, mine) ==
  IF v.d > Credits(mine) \/ mine = <<>>
  THEN <<BuildLineOutbound(co, v, o, v.d - Credits(mine))>> ELSE <<>>
OwnLines(co, v, o, mine) == MainOf(co, v, o, mine) \o CompanionsOf(co, v, mine)

LEMMA MainNet ==
  ASSUME NEW co, NEW v, NEW o, NEW mine, v.d \in Nat, Credits(mine) \in Nat,
         Credits(mine) <= v.d, NEW a
  PROVE  LET s == MainOf(co, v, o, mine)
             n == v.d - Credits(mine)
         IN IsSeq(s) /\ Carried(s) /\ Net(s, a) = Gets(v, a, n) - Gets(o, a, n)
<1> DEFINE s == MainOf(co, v, o, mine)
           n == v.d - Credits(mine)
           l == BuildLineOutbound(co, v, o, n)
<1>1. n \in Nat /\ n \in Int
  <2> DEFINE d == v.d
             h == Credits(mine)
  <2>1. d \in Nat /\ h \in Nat /\ h <= d
    OBVIOUS
  <2> HIDE DEF d, h
  <2>2. d - h \in Nat
    BY <2>1
  <2>3. QED
    BY <2>2 DEF d, h
<1>2. l.acct = v.acct /\ l.off = o.acct /\ l.d = n /\ l.c = 0
  BY DEF BuildLineOutbound
<1>3. s = IF n > 0 \/ mine = <<>> THEN <<l>> ELSE <<>>
  <2>1. v.d > Credits(mine) <=> n > 0
    <3> DEFINE d == v.d
               h == Credits(mine)
    <3>1. d \in Nat /\ h \in Nat
      OBVIOUS
    <3> HIDE DEF d, h
    <3>2. d > h <=> d - h > 0
      BY <3>1
    <3>3. QED
      BY <3>2 DEF d, h
  <2>2. QED
    BY <2>1 DEF MainOf
<1> HIDE DEF l, s, n
<1>4. l.d \in Int /\ l.c \in Int /\ l.d - l.c = n
  BY <1>1, <1>2
<1>5. Moves(l, a) = Gets(v, a, n) - Gets(o, a, n)
  BY <1>2, <1>4 DEF Moves, Gets
<1>6. IsSeq(<<l>>) /\ Carried(<<l>>) /\ Net(<<l>>, a) = Moves(l, a)
  BY <1>4, OneIs
<1> SUFFICES IsSeq(s) /\ Carried(s) /\ Net(s, a) = Gets(v, a, n) - Gets(o, a, n)
  BY DEF s, n
<1>7. CASE s = <<l>>
  BY <1>5, <1>6, <1>7
<1>8. CASE s # <<l>>
  <2>1. n = 0 /\ s = <<>>
    BY <1>1, <1>3, <1>8
  <2>2. Gets(v, a, n) = 0 /\ Gets(o, a, n) = 0
    BY <2>1 DEF Gets
  <2>3. IsSeq(<<>>) /\ Carried(<<>>) /\ Net(<<>>, a) = 0
    BY EmptyIs, NothingCarried
  <2>4. QED
    BY <2>1, <2>2, <2>3
<1>9. QED
  BY <1>7, <1>8

LEMMA OwnNet ==
  ASSUME NEW co, NEW v, NEW o, NEW mine, v.d \in Nat, v.c = 0,
         IsSeq(mine), Money(mine), \A w \in ToSet(mine) : w.d = 0,
         Credits(mine) <= v.d, NEW a, a # NoAccount
  PROVE  /\ IsSeq(OwnLines(co, v, o, mine)) /\ Carried(OwnLines(co, v, o, mine))
         /\ Net(OwnLines(co, v, o, mine), a)
              = Worth(v, a) + Net(AsWritten(mine), a) - Gets(o, a, v.d - Credits(mine))
         /\ Worth(v, a) \in Int /\ Net(AsWritten(mine), a) \in Int
         /\ Gets(o, a, v.d - Credits(mine)) \in Int
<1> DEFINE s == MainOf(co, v, o, mine)
           t == CompanionsOf(co, v, mine)
           h == Credits(mine)
           n == v.d - h
           k == Net(AsWritten(mine), a)
<1>1. h \in Nat
  BY SumsAre
<1>2. IsSeq(s) /\ Carried(s) /\ Net(s, a) = Gets(v, a, n) - Gets(o, a, n)
  BY <1>1, MainNet
<1>3. IsSeq(t) /\ Carried(t) /\ Net(t, a) = Gets(v, a, h) + k
  BY CompanionsNet
<1> HIDE DEF s, t
<1>4. IsSeq(s \o t) /\ Carried(s \o t) /\ Net(s \o t, a) = Net(s, a) + Net(t, a)
  BY <1>2, <1>3, NetConcat
<1>5. k \in Int
  BY WrittenIs
<1> HIDE DEF k, h
<1>6. n \in Int /\ n + h = v.d
  BY <1>1
<1>7. v.d - v.c = v.d
  OBVIOUS
<1> HIDE DEF n
<1>8. /\ Gets(v, a, n) + Gets(v, a, h) = Worth(v, a)
      /\ Gets(v, a, n) \in Int /\ Gets(v, a, h) \in Int /\ Gets(o, a, n) \in Int
      /\ Worth(v, a) \in Int
  BY <1>1, <1>6, <1>7 DEF Gets, Worth
<1> DEFINE gv == Gets(v, a, n)
           gh == Gets(v, a, h)
           go == Gets(o, a, n)
           wv == Worth(v, a)
           out == Net(s \o t, a)
<1>9. /\ out = (gv - go) + (gh + k)
      /\ gv + gh = wv /\ gv \in Int /\ gh \in Int /\ go \in Int /\ wv \in Int /\ k \in Int
  BY <1>2, <1>3, <1>4, <1>5, <1>8
<1> HIDE DEF gv, gh, go, wv, out
<1>10. out = wv + k - go
  BY <1>9
<1>11. Net(s \o t, a) = Worth(v, a) + k - Gets(o, a, n)
  BY <1>10 DEF out, wv, go
<1>12. QED
  BY <1>4, <1>5, <1>8, <1>11 DEF OwnLines, s, t, k, n, h

(* The vendor rows, the payment and the withholding of a vendor payment.   *)
(* Its lines, unless there is an error line, put there what these put.     *)
PaymentRows(vendors, wht) ==
  /\ IsSeq(vendors) /\ Money(vendors) /\ Apart(vendors) /\ vendors # <<>>
  /\ \A v \in ToSet(vendors) : v.c = 0
  /\ IsSeq(wht) /\ Money(wht) /\ \A w \in ToSet(wht) : w.d = 0
Refused(id, s) == \E l \in ToSet(s) : l.uid = id /\ l.error = TRUE

AllOwnLines(co, vendors, o, wht) ==
  [m \in DOMAIN vendors |-> OwnLines(co, vendors[m], o, Mine(vendors, wht, vendors[m]))]
DueTo(vendors, wht) ==
  [m \in DOMAIN vendors |-> vendors[m].d - Credits(Mine(vendors, wht, vendors[m]))]
PaidFrom(o, a, vendors, wht) ==
  [m \in DOMAIN vendors |-> Gets(o, a, DueTo(vendors, wht)[m])]

OwnSummed(co, vendors, o, wht, a) ==
  LET N == DOMAIN vendors
      all == FlattenSeq(AllOwnLines(co, vendors, o, wht))
      due == DueTo(vendors, wht)
      paid == PaidFrom(o, a, vendors, wht)
  IN /\ IsSeq(all) /\ Carried(all)
     /\ Net(all, a) = (Net(AsWritten(vendors), a) + Net(AsWritten(wht), a)) - Over(paid, N)
     /\ Over(paid, N) = Gets(o, a, Debits(vendors) - Credits(wht))
     /\ Over(paid, N) \in Int
     /\ \A m \in N : due[m] \in Nat
     /\ Over(due, N) = Debits(vendors) - Credits(wht)

LEMMA OwnSums ==
  ASSUME NEW vendors, NEW wht, PaymentRows(vendors, wht),
         AllocateWhtLinesToVendors(vendors, wht).ok = TRUE,
         NEW co, NEW o, NEW a, a # NoAccount
  PROVE  OwnSummed(co, vendors, o, wht, a)
<1> DEFINE N == DOMAIN vendors
           mine(m) == Mine(vendors, wht, vendors[m])
           own(m) == OwnLines(co, vendors[m], o, mine(m))
           ss == AllOwnLines(co, vendors, o, wht)
           due == DueTo(vendors, wht)
           paid == PaidFrom(o, a, vendors, wht)
           W == [m \in N |-> Worth(vendors[m], a)]
           K == [m \in N |-> Net(AsWritten(mine(m)), a)]
           D == [m \in N |-> vendors[m].d]
           C == [m \in N |-> Credits(mine(m))]
           S == ToSet(vendors)
<1>1. IsFiniteSet(N) /\ IsSeq(vendors) /\ Money(vendors) /\ Apart(vendors) /\ IsSeq(wht) /\ Money(wht)
  BY SeqIs, UpTo DEF PaymentRows
<1>2. ASSUME NEW m \in N
      PROVE  /\ IsSeq(mine(m)) /\ ToSet(mine(m)) \subseteq ToSet(wht) /\ Money(mine(m))
             /\ Credits(mine(m)) \in Nat /\ Credits(mine(m)) <= vendors[m].d
             /\ vendors[m].d \in Nat /\ vendors[m].c = 0
  <2>1. /\ IsSeq(mine(m)) /\ ToSet(mine(m)) \subseteq ToSet(wht) /\ Money(mine(m))
        /\ Credits(mine(m)) \in Nat /\ Credits(mine(m)) <= vendors[m].d
    BY <1>1, HeldIs DEF Mine
  <2>2. vendors[m].d \in Nat /\ vendors[m].c = 0
    BY DEF PaymentRows, Money, ToSet
  <2>3. QED
    BY <2>1, <2>2
<1>3. ASSUME NEW m \in N
      PROVE  /\ IsSeq(own(m)) /\ Carried(own(m))
             /\ Net(own(m), a) = W[m] + K[m] - paid[m]
             /\ W[m] \in Int /\ K[m] \in Int /\ paid[m] \in Int
             /\ due[m] \in Nat /\ D[m] \in Int /\ C[m] \in Int /\ due[m] = D[m] - C[m]
  <2> DEFINE v == vendors[m]
             e == mine(m)
  <2>1. /\ v.d \in Nat /\ v.c = 0 /\ IsSeq(e) /\ Money(e) /\ ToSet(e) \subseteq ToSet(wht)
        /\ Credits(e) \in Nat /\ Credits(e) <= v.d
    BY <1>2
  <2>2. W[m] = Worth(v, a) /\ K[m] = Net(AsWritten(e), a) /\ paid[m] = Gets(o, a, v.d - Credits(e))
        /\ due[m] = v.d - Credits(e) /\ D[m] = v.d /\ C[m] = Credits(e) /\ own(m) = OwnLines(co, v, o, e)
    BY DEF PaidFrom, DueTo
  <2> HIDE DEF v, e, own, W, K, D, C, paid, due
  <2>3. \A w \in ToSet(e) : w.d = 0
    BY <2>1 DEF PaymentRows
  <2>4. /\ IsSeq(own(m)) /\ Carried(own(m))
        /\ Net(own(m), a) = Worth(v, a) + Net(AsWritten(e), a) - Gets(o, a, v.d - Credits(e))
        /\ Worth(v, a) \in Int /\ Net(AsWritten(e), a) \in Int
        /\ Gets(o, a, v.d - Credits(e)) \in Int
    BY <2>1, <2>2, <2>3, OwnNet
  <2>5. v.d - Credits(e) \in Nat /\ v.d \in Int /\ Credits(e) \in Int
    BY <2>1
  <2>6. QED
    BY <2>2, <2>4, <2>5
<1>4. DOMAIN ss = N /\ ss = [m \in N |-> ss[m]] /\ \A m \in N : ss[m] = own(m)
  BY DEF AllOwnLines
<1>5. Debits(vendors) = Over(D, N)
  BY <1>1, SumsAre
<1>6. Credits(wht) = Over(C, N)
  BY <1>1, MineSums
<1>7. Net(AsWritten(wht), a) = Over(K, N)
  BY <1>1, MineSums
<1>8. Net(AsWritten(vendors), a) = Over(W, N)
  <2>1. Net(AsWritten(vendors), a) = Total(vendors, WorthOn(S, a))
    BY <1>1, WrittenIs
  <2>2. Values(vendors, WorthOn(S, a)) = W
    BY DEF Values, WorthOn, ToSet
  <2>3. QED
    BY <2>1, <2>2 DEF Total
<1>9. paid = [m \in N |-> Gets(o, a, due[m])] /\ due = [m \in N |-> due[m]]
  BY DEF PaidFrom, DueTo
<1> HIDE DEF mine, own, ss, due, paid, W, K, D, C, S
<1>10. IsSeq(ss)
  BY <1>1, <1>4, MappedIs
<1>11. /\ IsSeq(FlattenSeq(ss)) /\ Carried(FlattenSeq(ss))
       /\ Net(FlattenSeq(ss), a) = Over([m \in DOMAIN ss |-> Net(ss[m], a)], DOMAIN ss)
  <2>1. \A m \in DOMAIN ss : IsSeq(ss[m]) /\ Carried(ss[m])
    BY <1>3, <1>4
  <2>2. QED
    BY <1>10, <2>1, NetFlatten
<1> HIDE DEF N
<1>12. due = [m \in N |-> D[m] - C[m]]
  BY <1>3, <1>9
<1>13. Over(due, N) = Over(D, N) - Over(C, N)
  BY <1>1, <1>3, <1>12, OverPlus
<1> DEFINE sums == [m \in N |-> W[m] + K[m]]
<1>14. [m \in DOMAIN ss |-> Net(ss[m], a)] = [m \in N |-> sums[m] - paid[m]]
  BY <1>3, <1>4
<1>15. Over(sums, N) = Over(W, N) + Over(K, N)
  <2>1. IsFiniteSet(N) /\ \A m \in N : W[m] \in Int /\ K[m] \in Int
    BY <1>1, <1>3
  <2> HIDE DEF sums
  <2>2. Over([m \in N |-> W[m] + K[m]], N) = Over(W, N) + Over(K, N)
    BY <2>1, OverPlus
  <2>3. QED
    BY <2>2 DEF sums
<1>16. \A m \in N : sums[m] \in Int /\ paid[m] \in Int
  BY <1>3
<1> HIDE DEF sums
<1>17. Over([m \in N |-> sums[m] - paid[m]], N) = Over(sums, N) - Over(paid, N)
  BY <1>1, <1>16, OverPlus
<1>18. Over(paid, N) \in Int /\ Over(due, N) \in Int
  <2>1. \A m \in N : paid[m] \in Int /\ due[m] \in Int
    BY <1>3
  <2>2. N \in SUBSET N
    OBVIOUS
  <2>3. QED
    BY <1>1, <2>1, <2>2, OverAdd
<1>19. Over(paid, N) = Gets(o, a, Over(due, N))
  <2>1. CASE o.acct = a
    <3>1. paid = due
      BY <1>9, <2>1 DEF Gets
    <3>2. QED
      BY <2>1, <3>1 DEF Gets
  <2>2. CASE o.acct # a
    <3>1. \A m \in N : paid[m] = 0
      BY <1>9, <2>2 DEF Gets
    <3>2. Over(paid, N) = 0
      BY <1>1, <3>1, OverZero
    <3>3. QED
      BY <2>2, <3>2 DEF Gets
  <2>3. QED
    BY <2>1, <2>2
<1>20. Net(FlattenSeq(ss), a) = (Over(W, N) + Over(K, N)) - Over(paid, N)
  <2>1. Net(FlattenSeq(ss), a) = Over([m \in N |-> sums[m] - paid[m]], N)
    BY <1>4, <1>11, <1>14, Zenon
  <2>2. QED
    BY <1>15, <1>17, <2>1, Zenon
<1>21. /\ Net(FlattenSeq(ss), a)
            = (Net(AsWritten(vendors), a) + Net(AsWritten(wht), a)) - Over(paid, N)
       /\ Over(due, N) = Debits(vendors) - Credits(wht)
       /\ Over(paid, N) = Gets(o, a, Debits(vendors) - Credits(wht))
  BY <1>5, <1>6, <1>7, <1>8, <1>13, <1>19, <1>20
<1>22. \A m \in N : due[m] \in Nat
  BY <1>3
<1>23. QED
  BY <1>11, <1>18, <1>21, <1>22 DEF OwnSummed, ss, due, paid, N

LEMMA AllocationOk ==
  ASSUME NEW vendors, IsSeq(vendors), Money(vendors), NEW wht, IsSeq(wht), Money(wht)
  PROVE  AllocateWhtLinesToVendors(vendors, wht).ok \in BOOLEAN
<1>1. PICK acc : Allocating(vendors, wht, acc)
  BY AllocationRuns
<1>2. Len(wht) \in Nat
  BY SeqIs
<1>3. Len(wht) \in 0..Len(wht)
  BY <1>2
<1>4. AllocateWhtLinesToVendors(vendors, wht) \in Allocations(LinesIn(vendors))
  BY <1>1, <1>3 DEF Allocating
<1>5. QED
  BY <1>4 DEF Allocations

LEMMA RefusedIs ==
  ASSUME NEW r
  PROVE  LET s == <<ErrorLine(r)>> IN IsSeq(s) /\ Carried(s) /\ Refused(r.uid, s)
<1> DEFINE l == ErrorLine(r)
<1>1. l.uid = r.uid /\ l.error = TRUE /\ l.d \in Int /\ l.c \in Int
  BY DEF ErrorLine
<1> HIDE DEF l
<1>2. IsSeq(<<l>>) /\ Carried(<<l>>) /\ ToSet(<<l>>) = {l}
  BY <1>1, OneIs
<1>3. Refused(r.uid, <<l>>)
  BY <1>1, <1>2 DEF Refused
<1>4. QED
  BY <1>2, <1>3 DEF l

LEMMA MergeNet ==
  ASSUME NEW vendors, NEW wht, PaymentRows(vendors, wht), NEW co,
         NEW payment, payment.d = 0, payment.c \in Nat, NEW a, a # NoAccount
  PROVE  LET s == MergeVendorPaymentLinesWithOffset(co, vendors, payment, wht)
         IN /\ IsSeq(s) /\ Carried(s)
            /\ \/ Refused(vendors[1].uid, s)
               \/ Net(s, a) = (Net(AsWritten(vendors), a) + Net(AsWritten(wht), a))
                                + Worth(payment, a)
<1> DEFINE s == MergeVendorPaymentLinesWithOffset(co, vendors, payment, wht)
           ok == AllocateWhtLinesToVendors(vendors, wht).ok
           N == DOMAIN vendors
           ss == AllOwnLines(co, vendors, payment, wht)
           paid == PaidFrom(payment, a, vendors, wht)
           nv == Net(AsWritten(vendors), a)
           nw == Net(AsWritten(wht), a)
<1>1. \/ s = <<ErrorLine(vendors[1])>>
      \/ s = FlattenSeq(ss) /\ ok /\ Debits(vendors) = payment.c + Credits(wht)
  BY DEF MergeVendorPaymentLinesWithOffset, AllOwnLines, OwnLines, MainOf, CompanionsOf, Mine, HeldBy,
         ValidateVendorPaymentWithholdingBalance
<1>2. /\ IsSeq(vendors) /\ Money(vendors) /\ IsSeq(wht) /\ Money(wht)
      /\ Debits(vendors) \in Nat /\ Credits(wht) \in Nat /\ ok \in BOOLEAN
  <2>1. IsSeq(vendors) /\ Money(vendors) /\ IsSeq(wht) /\ Money(wht)
    BY DEF PaymentRows
  <2>2. QED
    BY <2>1, SumsAre, AllocationOk
<1>3. nv \in Int /\ nw \in Int
  BY <1>2, WrittenIs
<1> SUFFICES /\ IsSeq(s) /\ Carried(s)
             /\ Refused(vendors[1].uid, s) \/ Net(s, a) = (nv + nw) + Worth(payment, a)
  OBVIOUS
<1> HIDE DEF s
<1>4. CASE s = <<ErrorLine(vendors[1])>>
  BY <1>4, RefusedIs
<1>5. CASE s = FlattenSeq(ss) /\ ok /\ Debits(vendors) = payment.c + Credits(wht)
  <2>1. ok = TRUE
    BY <1>2, <1>5
  <2>2. /\ IsSeq(FlattenSeq(ss)) /\ Carried(FlattenSeq(ss))
        /\ Net(FlattenSeq(ss), a) = (nv + nw) - Over(paid, N)
        /\ Over(paid, N) = Gets(payment, a, Debits(vendors) - Credits(wht))
    <3>1. OwnSummed(co, vendors, payment, wht, a)
      BY <2>1, OwnSums
    <3>2. QED
      BY <3>1 DEF OwnSummed
  <2> HIDE DEF ss, paid, nv, nw, ok, N
  <2>3. Debits(vendors) - Credits(wht) = payment.c
    BY <1>2, <1>5
  <2>4. payment.d - payment.c = 0 - payment.c /\ payment.c \in Int
    OBVIOUS
  <2>5. Over(paid, N) = 0 - Worth(payment, a) /\ Worth(payment, a) \in Int
    BY <2>2, <2>3, <2>4 DEF Gets, Worth
  <2>6. Net(FlattenSeq(ss), a) = (nv + nw) + Worth(payment, a)
    BY <1>3, <2>2, <2>5
  <2>7. QED
    BY <1>5, <2>2, <2>6
<1>6. QED
  BY <1>1, <1>4, <1>5

LEMMA WithholdingOnlyNet ==
  ASSUME NEW vendors, NEW wht, PaymentRows(vendors, wht), NEW co, NEW a, a # NoAccount
  PROVE  LET s == BuildWithholdingOnlyVendorPaymentLines(co, vendors, wht)
         IN /\ IsSeq(s) /\ Carried(s)
            /\ \/ Refused(vendors[1].uid, s)
               \/ Net(s, a) = Net(AsWritten(vendors), a) + Net(AsWritten(wht), a)
<1> DEFINE s == BuildWithholdingOnlyVendorPaymentLines(co, vendors, wht)
           ok == AllocateWhtLinesToVendors(vendors, wht).ok
           N == DOMAIN vendors
           o == vendors[1]
           mine(m) == Mine(vendors, wht, vendors[m])
           ss == AllOwnLines(co, vendors, o, wht)
           cs == [m \in N |-> CompanionsOf(co, vendors[m], mine(m))]
           due == DueTo(vendors, wht)
           paid == PaidFrom(o, a, vendors, wht)
           nv == Net(AsWritten(vendors), a)
           nw == Net(AsWritten(wht), a)
<1>1. \/ s = <<ErrorLine(vendors[1])>>
      \/ s = FlattenSeq(cs) /\ ok /\ Debits(vendors) = Credits(wht)
  BY DEF BuildWithholdingOnlyVendorPaymentLines, CompanionsOf, Mine, HeldBy
<1>2. /\ IsSeq(vendors) /\ Money(vendors) /\ IsSeq(wht) /\ Money(wht) /\ Apart(vendors)
      /\ Debits(vendors) \in Nat /\ Credits(wht) \in Nat /\ ok \in BOOLEAN /\ IsFiniteSet(N)
  <2>1. IsSeq(vendors) /\ Money(vendors) /\ IsSeq(wht) /\ Money(wht) /\ Apart(vendors)
    BY DEF PaymentRows
  <2>2. QED
    BY <2>1, SumsAre, AllocationOk, SeqIs, UpTo
<1>3. nv \in Int /\ nw \in Int
  BY <1>2, WrittenIs
<1> SUFFICES /\ IsSeq(s) /\ Carried(s)
             /\ Refused(vendors[1].uid, s) \/ Net(s, a) = nv + nw
  OBVIOUS
<1> HIDE DEF s
<1>4. CASE s = <<ErrorLine(vendors[1])>>
  BY <1>4, RefusedIs
<1>5. CASE s = FlattenSeq(cs) /\ ok /\ Debits(vendors) = Credits(wht)
  <2>1. ok = TRUE
    BY <1>2, <1>5
  <2>2. /\ Net(FlattenSeq(ss), a) = (nv + nw) - Over(paid, N)
        /\ Over(paid, N) = Gets(o, a, Debits(vendors) - Credits(wht))
        /\ \A m \in N : due[m] \in Nat
        /\ Over(due, N) = Debits(vendors) - Credits(wht)
    <3>1. OwnSummed(co, vendors, o, wht, a)
      BY <2>1, OwnSums
    <3>2. QED
      BY <3>1 DEF OwnSummed
  <2>3. Debits(vendors) - Credits(wht) = 0
    BY <1>2, <1>5
  <2>4. \A m \in N : due[m] = 0
    <3> HIDE DEF due, N
    <3>1. QED
      BY <1>2, <2>2, <2>3, OverNat
  <2>5. Over(paid, N) = 0
    BY <2>2, <2>3 DEF Gets
  <2>6. ASSUME NEW m \in N
        PROVE  /\ IsSeq(ss[m]) /\ Carried(ss[m]) /\ IsSeq(cs[m]) /\ Carried(cs[m])
               /\ Net(ss[m], a) = Net(cs[m], a)
    <3> DEFINE v == vendors[m]
               e == mine(m)
               h == Credits(e)
               k == Net(AsWritten(e), a)
    <3>1. /\ IsSeq(e) /\ Money(e) /\ ToSet(e) \subseteq ToSet(wht)
          /\ h \in Nat /\ h <= v.d
      BY <1>2, <2>1, HeldIs DEF Mine
    <3>2. v.d \in Nat /\ v.c = 0
      BY DEF PaymentRows, Money, ToSet
    <3>3. ss[m] = OwnLines(co, v, o, e) /\ cs[m] = CompanionsOf(co, v, e) /\ v.d - h = 0
      BY <2>4 DEF AllOwnLines, DueTo
    <3> HIDE DEF v, e, ss, cs
    <3>4. \A w \in ToSet(e) : w.d = 0
      BY <3>1 DEF PaymentRows
    <3>5. /\ IsSeq(ss[m]) /\ Carried(ss[m])
          /\ Net(ss[m], a) = Worth(v, a) + k - Gets(o, a, v.d - h)
          /\ Worth(v, a) \in Int /\ k \in Int
      BY <3>1, <3>2, <3>3, <3>4, OwnNet
    <3>6. IsSeq(cs[m]) /\ Carried(cs[m]) /\ Net(cs[m], a) = Gets(v, a, h) + k
      BY <3>1, <3>3, <3>4, CompanionsNet
    <3> HIDE DEF k, h
    <3>7. Gets(o, a, v.d - h) = 0 /\ v.d = h
      BY <3>1, <3>2, <3>3 DEF Gets
    <3>8. v.d - v.c = h
      BY <3>2, <3>7
    <3>9. Gets(v, a, h) = Worth(v, a)
      BY <3>8 DEF Gets, Worth
    <3>10. Net(ss[m], a) = Net(cs[m], a)
      BY <3>5, <3>6, <3>7, <3>9
    <3>11. QED
      BY <3>5, <3>6, <3>10
  <2>7. DOMAIN ss = N /\ ss = [m \in N |-> ss[m]] /\ DOMAIN cs = N /\ cs = [m \in N |-> cs[m]]
    BY DEF AllOwnLines
  <2> HIDE DEF ss, cs, paid, due, nv, nw, ok, o, mine
  <2>8. IsSeq(ss) /\ IsSeq(cs)
    BY <1>2, <2>7, MappedIs
  <2>9. /\ \A m \in DOMAIN ss : IsSeq(ss[m]) /\ Carried(ss[m])
        /\ \A m \in DOMAIN cs : IsSeq(cs[m]) /\ Carried(cs[m])
    BY <2>6, <2>7
  <2>10. /\ Net(FlattenSeq(ss), a) = Over([m \in DOMAIN ss |-> Net(ss[m], a)], DOMAIN ss)
         /\ Net(FlattenSeq(cs), a) = Over([m \in DOMAIN cs |-> Net(cs[m], a)], DOMAIN cs)
         /\ IsSeq(FlattenSeq(cs)) /\ Carried(FlattenSeq(cs))
    BY <2>8, <2>9, NetFlatten
  <2>11. [m \in DOMAIN ss |-> Net(ss[m], a)] = [m \in DOMAIN cs |-> Net(cs[m], a)]
    BY <2>6, <2>7
  <2>12. Net(FlattenSeq(cs), a) = Net(FlattenSeq(ss), a)
    BY <2>7, <2>10, <2>11, Zenon
  <2>13. Net(FlattenSeq(cs), a) = nv + nw
    BY <1>3, <2>2, <2>5, <2>12
  <2>14. QED
    BY <1>5, <2>10, <2>13
<1>6. QED
  BY <1>1, <1>4, <1>5

-----------------------------------------------------------------------------
(* The lines of an entry, builder by builder.                              *)
LEMMA SourceNet ==
  ASSUME NEW co, NEW rows, IsSeq(rows), Money(rows), NEW a
  PROVE  /\ IsSeq(SourceLines(co, rows)) /\ Carried(SourceLines(co, rows))
         /\ Net(SourceLines(co, rows), a) = Net(AsWritten(rows), a)
<1> DEFINE s == SourceLines(co, rows)
           t == AsWritten(rows)
<1>1. /\ DOMAIN s = DOMAIN rows /\ s = [i \in DOMAIN rows |-> s[i]] /\ DOMAIN t = DOMAIN rows
      /\ \A i \in DOMAIN rows : /\ s[i].acct = rows[i].acct /\ s[i].off = NoAccount
                                /\ s[i].d = rows[i].d /\ s[i].c = rows[i].c
      /\ \A i \in DOMAIN rows : /\ t[i].acct = rows[i].acct /\ t[i].off = NoAccount
                                /\ t[i].d = rows[i].d /\ t[i].c = rows[i].c
  BY DEF SourceLines, BuildSourceLineOutbound, AsWritten
<1> HIDE DEF s, t
<1>2. IsSeq(s)
  BY <1>1, MappedIs
<1>3. Carried(s)
  BY <1>1 DEF Carried, Money, ToSet
<1>4. \A i \in DOMAIN t : Moves(s[i], a) = Moves(t[i], a)
  BY <1>1 DEF Moves
<1>5. Net(s, a) = Net(t, a)
  BY <1>1, <1>4, NetSame
<1>6. QED
  BY <1>2, <1>3, <1>5 DEF s, t

LEMMA PickedRows ==
  ASSUME NEW s, IsSeq(s), Apart(s), Money(s), NEW at, at \subseteq DOMAIN s
  PROVE  /\ IsSeq(Picked(s, at)) /\ ToSet(Picked(s, at)) = {s[i] : i \in at}
         /\ ToSet(Picked(s, at)) \subseteq ToSet(s)
         /\ Money(Picked(s, at)) /\ Apart(Picked(s, at))
<1> DEFINE n == Cardinality(at)
           b == Nth(at)
           t == Picked(s, at)
<1>1. InTheirOrder(s, at)
  BY SeqIs, PickedIs
<1>2. /\ n \in Nat /\ b \in [1..n -> at] /\ \A m, k \in 1..n : m < k => b[m] < b[k]
      /\ t = [m \in 1..n |-> s[b[m]]]
  BY <1>1 DEF InTheirOrder
<1>3. at \subseteq Nat
  BY SeqIs
<1>4. IsSeq(t) /\ ToSet(t) = {s[i] : i \in at} /\ ToSet(t) \subseteq ToSet(s)
  BY PickedElements, PickedSome
<1>5. Money(t)
  BY <1>4 DEF Money
<1> HIDE DEF n, b, t
<1>6. \A m, k \in 1..n : m # k => b[m] # b[k]
  <2>1. ASSUME NEW m \in 1..n, NEW k \in 1..n, m # k PROVE b[m] # b[k]
    <3>1. b[m] \in Nat /\ b[k] \in Nat /\ (m < k \/ k < m)
      BY <1>2, <1>3, <2>1
    <3>2. QED
      BY <1>2, <3>1
  <2>2. QED
    BY <2>1
<1>7. Apart(t)
  <2>1. ASSUME NEW m \in 1..n, NEW k \in 1..n, m # k PROVE t[m].line # t[k].line
    <3>1. b[m] \in DOMAIN s /\ b[k] \in DOMAIN s /\ b[m] # b[k] /\ t[m] = s[b[m]] /\ t[k] = s[b[k]]
      BY <1>2, <1>6, <2>1
    <3>2. QED
      BY <3>1 DEF Apart
  <2>2. DOMAIN t = 1..n
    BY <1>2
  <2>3. QED
    BY <2>1, <2>2 DEF Apart
<1>8. QED
  BY <1>4, <1>5, <1>7 DEF t

(* The rows of a vendor payment that are carried over: vendors are         *)
(* debited, whatever else has an amount is credited.                       *)
Tidy(rows, id) ==
  /\ IsSeq(rows) /\ Money(rows) /\ Apart(rows) /\ rows # <<>>
  /\ \A r \in ToSet(rows) : /\ r.uid = id
                            /\ IsVendor(r) => r.c = 0
                            /\ IsWithholdingLedgerLine(r) => r.d = 0
                            /\ r.d > 0 => IsVendor(r)
VendorsAt(rows) == {i \in DOMAIN rows : IsVendorDebit(rows[i])}
OffsetsAt(rows) == {i \in DOMAIN rows : IsPaymentOffset(rows[i])}
WithheldAt(rows) == {i \in DOMAIN rows : IsWithholdingLedgerLine(rows[i])}

LEMMA TidyParts ==
  ASSUME NEW rows, NEW id, Tidy(rows, id), NEW a, a # NoAccount
  PROVE  LET V == Picked(rows, VendorsAt(rows))
             O == Picked(rows, OffsetsAt(rows))
             W == Picked(rows, WithheldAt(rows))
         IN /\ Net(AsWritten(rows), a)
                 = (Net(AsWritten(V), a) + Net(AsWritten(W), a)) + Net(AsWritten(O), a)
            /\ Net(AsWritten(V), a) \in Int /\ Net(AsWritten(W), a) \in Int
            /\ Net(AsWritten(O), a) \in Int
            /\ V # <<>> => PaymentRows(V, W) /\ V[1].uid = id
            /\ IsSeq(V) /\ Money(V)
            /\ IsSeq(O) /\ \A r \in ToSet(O) : r.d = 0 /\ r.c \in Nat
<1> DEFINE S == ToSet(rows)
           f == WorthOn(S, a)
           g == Values(rows, f)
           A == VendorsAt(rows)
           B == OffsetsAt(rows)
           C == WithheldAt(rows)
           D == DOMAIN rows
           V == Picked(rows, A)
           O == Picked(rows, B)
           W == Picked(rows, C)
<1>1. IsSeq(rows) /\ Money(rows) /\ Apart(rows) /\ IsFiniteSet(D)
  BY SeqIs, UpTo DEF Tidy
<1>2. A \subseteq D /\ B \subseteq D /\ C \subseteq D
  BY DEF VendorsAt, OffsetsAt, WithheldAt
<1>3. \A i \in D : /\ rows[i].d \in Nat /\ rows[i].c \in Nat /\ rows[i].uid = id
                   /\ IsVendor(rows[i]) => rows[i].c = 0
                   /\ IsWithholdingLedgerLine(rows[i]) => rows[i].d = 0
                   /\ rows[i].d > 0 => IsVendor(rows[i])
  BY DEF Tidy, Money, ToSet
<1>4. A \cap C = {} /\ (A \cup C) \cap B = {}
  <2>1. \A r : IsVendor(r) => ~IsWithholdingLedgerLine(r)
    BY CashOutAssumption DEF IsVendor, IsWithholdingLedgerLine, AllLedgers
  <2>2. QED
    BY <2>1 DEF VendorsAt, OffsetsAt, WithheldAt, IsVendorDebit, IsPaymentOffset
<1>5. Net(AsWritten(rows), a) = Over(g, D) /\ Measured(rows, f)
  BY <1>1, WrittenIs DEF Total
<1>6. \A i \in D : g[i] = Worth(rows[i], a) /\ g[i] \in Int
  <2>1. \A i \in D : g[i] = Worth(rows[i], a)
    BY DEF Values, WorthOn, ToSet
  <2>2. \A i \in D : g[i] \in Int
    BY <1>1, <1>5, ValuesAre
  <2>3. QED
    BY <2>1, <2>2
<1>7. \A i \in D \ ((A \cup C) \cup B) : g[i] = 0
  <2>1. ASSUME NEW i \in D \ ((A \cup C) \cup B) PROVE rows[i].d - rows[i].c = 0
    <3>1. ~(IsVendor(rows[i]) /\ rows[i].d > 0) /\ ~IsWithholdingLedgerLine(rows[i])
      BY DEF VendorsAt, WithheldAt, IsVendorDebit
    <3>2. ~(rows[i].c > 0 /\ ~IsVendor(rows[i]))
      BY <3>1 DEF OffsetsAt, IsPaymentOffset
    <3>3. rows[i].d = 0 /\ rows[i].c = 0
      BY <1>3, <3>1, <3>2
    <3>4. QED
      BY <3>3
  <2>2. QED
    BY <1>6, <2>1 DEF Worth
<1>8. /\ IsSeq(V) /\ Money(V) /\ Apart(V) /\ ToSet(V) = {rows[i] : i \in A} /\ ToSet(V) \subseteq S
      /\ IsSeq(O) /\ Money(O) /\ ToSet(O) = {rows[i] : i \in B} /\ ToSet(O) \subseteq S
      /\ IsSeq(W) /\ Money(W) /\ ToSet(W) = {rows[i] : i \in C} /\ ToSet(W) \subseteq S
  BY <1>1, <1>2, PickedRows
<1> HIDE DEF g, V, O, W, f, S
<1>9. /\ Total(V, f) = Over(g, A) /\ Total(O, f) = Over(g, B) /\ Total(W, f) = Over(g, C)
  BY <1>1, <1>2, <1>5, TotalPicked DEF g, V, O, W
<1>10. /\ Net(AsWritten(V), a) = Over(g, A) /\ Net(AsWritten(O), a) = Over(g, B)
       /\ Net(AsWritten(W), a) = Over(g, C)
       /\ Net(AsWritten(V), a) \in Int /\ Net(AsWritten(O), a) \in Int
       /\ Net(AsWritten(W), a) \in Int
  BY <1>8, <1>9, WrittenIs DEF f
<1>11. Over(g, D) = (Over(g, A) + Over(g, C)) + Over(g, B)
  <2> HIDE DEF A, B, C, D
  <2>1. Over(g, D) = Over(g, (A \cup C) \cup B)
    <3>1. ((A \cup C) \cup B) \in SUBSET D
      BY <1>2
    <3>2. QED
      BY <1>1, <1>6, <1>7, <3>1, OverRest
  <2>2. IsFiniteSet(A) /\ IsFiniteSet(B) /\ IsFiniteSet(C) /\ IsFiniteSet(A \cup C)
    BY <1>1, <1>2, FS_Subset, FS_Union
  <2>3. Over(g, (A \cup C) \cup B) = Over(g, A \cup C) + Over(g, B)
    <3>1. \A x \in (A \cup C) \cup B : g[x] \in Int
      BY <1>2, <1>6
    <3>2. QED
      BY <1>4, <2>2, <3>1, OverUnion
  <2>4. Over(g, A \cup C) = Over(g, A) + Over(g, C)
    <3>1. \A x \in A \cup C : g[x] \in Int
      BY <1>2, <1>6
    <3>2. QED
      BY <1>4, <2>2, <3>1, OverUnion
  <2>5. QED
    BY <2>1, <2>3, <2>4
<1>12. Net(AsWritten(rows), a)
         = (Net(AsWritten(V), a) + Net(AsWritten(W), a)) + Net(AsWritten(O), a)
  BY <1>5, <1>10, <1>11
<1>13. /\ \A v \in ToSet(V) : v.c = 0 /\ v.uid = id
       /\ \A w \in ToSet(W) : w.d = 0
       /\ \A r \in ToSet(O) : r.d = 0 /\ r.c \in Nat
  <2>1. \A i \in A : rows[i].c = 0 /\ rows[i].uid = id
    BY <1>2, <1>3 DEF VendorsAt, IsVendorDebit
  <2>2. \A i \in C : rows[i].d = 0
    BY <1>2, <1>3 DEF WithheldAt
  <2>3. \A i \in B : rows[i].d = 0 /\ rows[i].c \in Nat
    BY <1>2, <1>3 DEF OffsetsAt, IsPaymentOffset
  <2>4. QED
    BY <1>8, <2>1, <2>2, <2>3
<1>14. ASSUME V # <<>> PROVE PaymentRows(V, W) /\ V[1].uid = id
  <2>1. V[1] \in ToSet(V)
    BY <1>8, <1>14, FirstOf
  <2>2. QED
    BY <1>8, <1>13, <1>14, <2>1 DEF PaymentRows
<1>15. QED
  BY <1>8, <1>10, <1>12, <1>13, <1>14 DEF V, O, W

LEMMA VendorPaymentNet ==
  ASSUME NEW rows, NEW id, Tidy(rows, id), ~IsMainAccountOnlyLedgerGroup(rows), NEW co,
         NEW a, a # NoAccount
  PROVE  LET s == BuildVendorPaymentLines(co, rows)
         IN /\ IsSeq(s) /\ Carried(s)
            /\ Refused(id, s) \/ Net(s, a) = Net(AsWritten(rows), a)
<1> DEFINE s == BuildVendorPaymentLines(co, rows)
           V == Picked(rows, VendorsAt(rows))
           O == Picked(rows, OffsetsAt(rows))
           W == Picked(rows, WithheldAt(rows))
           nv == Net(AsWritten(V), a)
           no == Net(AsWritten(O), a)
           nw == Net(AsWritten(W), a)
<1>1. s = IF V = <<>> \/ Len(O) > 1 THEN <<ErrorLine(rows[1])>>
          ELSE IF O # <<>> THEN MergeVendorPaymentLinesWithOffset(co, V, O[1], W)
          ELSE IF W # <<>> THEN BuildWithholdingOnlyVendorPaymentLines(co, V, W)
          ELSE SourceLines(co, V)
  BY DEF BuildVendorPaymentLines, Where, VendorsAt, OffsetsAt, WithheldAt
<1>2. /\ Net(AsWritten(rows), a) = (nv + nw) + no
      /\ nv \in Int /\ nw \in Int /\ no \in Int
      /\ V # <<>> => PaymentRows(V, W) /\ V[1].uid = id
      /\ IsSeq(V) /\ Money(V)
      /\ IsSeq(O) /\ \A r \in ToSet(O) : r.d = 0 /\ r.c \in Nat
  BY TidyParts
<1>3. rows[1].uid = id
  <2>1. IsSeq(rows) /\ rows # <<>>
    BY DEF Tidy
  <2>2. rows[1] \in ToSet(rows)
    BY <2>1, FirstOf
  <2>3. QED
    BY <2>2 DEF Tidy
<1> SUFFICES /\ IsSeq(s) /\ Carried(s)
             /\ Refused(id, s) \/ Net(s, a) = (nv + nw) + no
  BY <1>2
<1> HIDE DEF s, V, O, W
<1>4. CASE V = <<>> \/ Len(O) > 1
  <2>1. s = <<ErrorLine(rows[1])>>
    BY <1>1, <1>4
  <2>2. QED
    BY <1>3, <2>1, RefusedIs
<1>5. CASE V # <<>> /\ ~(Len(O) > 1) /\ O # <<>>
  <2> DEFINE p == O[1]
  <2>1. s = MergeVendorPaymentLinesWithOffset(co, V, p, W)
    BY <1>1, <1>5
  <2>2. p \in ToSet(O)
    BY <1>2, <1>5, FirstOf
  <2>3. p.d = 0 /\ p.c \in Nat
    BY <1>2, <2>2
  <2>4. no = Worth(p, a)
    <3>1. Len(O) \in Nat /\ Len(O) # 0 /\ DOMAIN O = 1..Len(O) /\ O = [i \in 1..Len(O) |-> O[i]]
      BY <1>2, <1>5, SeqIs, EmptyIs
    <3>2. Len(O) = 1
      BY <1>5, <3>1
    <3>3. O = <<p>>
      BY <3>1, <3>2
    <3>4. IsSeq(O) /\ Money(O)
      <4>1. \A r \in ToSet(O) : r.d \in Nat /\ r.c \in Nat
        BY <1>2
      <4>2. QED
        BY <1>2, <4>1 DEF Money
    <3> DEFINE f == WorthOn(ToSet(O), a)
    <3>5. no = Total(O, f)
      BY <3>4, WrittenIs
    <3>6. p.d - p.c \in Int
      BY <2>3
    <3>7. f[p] = Worth(p, a) /\ f[p] \in Int
      BY <2>2, <3>6 DEF WorthOn, Worth
    <3> HIDE DEF f, p
    <3>8. Total(<<p>>, f) = f[p]
      BY <3>7, TotalOne
    <3>9. QED
      BY <3>3, <3>5, <3>7, <3>8
  <2>5. PaymentRows(V, W) /\ V[1].uid = id
    BY <1>2, <1>5
  <2> HIDE DEF p, nv, nw, no
  <2>6. /\ IsSeq(s) /\ Carried(s)
        /\ \/ Refused(V[1].uid, s)
           \/ Net(s, a) = (nv + nw) + Worth(p, a)
    BY <2>1, <2>3, <2>5, MergeNet DEF nv, nw
  <2>7. QED
    BY <2>4, <2>5, <2>6
<1>6. CASE V # <<>> /\ O = <<>>
  <2>1. no = 0
    <3>1. Total(O, WorthOn({}, a)) = 0 /\ ToSet(O) \subseteq {} /\ Money(O)
      BY <1>6, TotalEmpty, EmptyIs DEF Money
    <3>2. no = Total(O, WorthOn({}, a))
      BY <1>2, <3>1, WrittenIs
    <3>3. QED
      BY <3>1, <3>2
  <2>2. Len(O) = 0
    BY <1>6, EmptyIs
  <2>3. CASE W # <<>>
    <3>1. s = BuildWithholdingOnlyVendorPaymentLines(co, V, W)
      BY <1>1, <1>6, <2>2, <2>3
    <3>2. PaymentRows(V, W) /\ V[1].uid = id
      BY <1>2, <1>6
    <3> HIDE DEF nv, nw, no
    <3>3. IsSeq(s) /\ Carried(s) /\ (Refused(V[1].uid, s) \/ Net(s, a) = nv + nw)
      BY <3>1, <3>2, WithholdingOnlyNet DEF nv, nw
    <3>4. nv + nw = (nv + nw) + no
      BY <1>2, <2>1
    <3>5. QED
      BY <3>2, <3>3, <3>4
  <2>4. CASE W = <<>>
    <3>1. s = SourceLines(co, V)
      BY <1>1, <1>6, <2>2, <2>4
    <3>2. nw = 0
      <4>1. Total(W, WorthOn({}, a)) = 0 /\ ToSet(W) \subseteq {} /\ Money(W) /\ IsSeq(W)
        BY <2>4, TotalEmpty, EmptyIs DEF Money
      <4>2. nw = Total(W, WorthOn({}, a))
        BY <4>1, WrittenIs
      <4>3. QED
        BY <4>1, <4>2
    <3> HIDE DEF nv, nw, no
    <3>3. IsSeq(s) /\ Carried(s) /\ Net(s, a) = nv
      BY <1>2, <3>1, SourceNet DEF nv
    <3>4. nv = (nv + nw) + no
      BY <1>2, <2>1, <3>2
    <3>5. QED
      BY <3>3, <3>4
  <2>5. QED
    BY <2>3, <2>4
<1>7. QED
  BY <1>4, <1>5, <1>6

(* The lines of a vendor payment have a vendor, if they have an account.   *)
OfVendors(s) == \A l \in ToSet(s) : l.acct \in Vendors \cup {NoAccount}

LEMMA OwnOfVendors ==
  ASSUME NEW co, NEW v, IsVendor(v), NEW o, NEW mine, IsSeq(mine)
  PROVE  /\ IsSeq(OwnLines(co, v, o, mine)) /\ OfVendors(OwnLines(co, v, o, mine))
         /\ IsSeq(CompanionsOf(co, v, mine)) /\ OfVendors(CompanionsOf(co, v, mine))
<1> DEFINE s == MainOf(co, v, o, mine)
           t == CompanionsOf(co, v, mine)
           l == BuildLineOutbound(co, v, o, v.d - Credits(mine))
<1>1. IsSeq(t) /\ OfVendors(t)
  <2>1. /\ DOMAIN t = DOMAIN mine /\ t = [n \in DOMAIN mine |-> t[n]]
        /\ \A n \in DOMAIN mine : t[n].acct = v.acct
    BY DEF CompanionsOf, WithholdingCompanion, BuildLineOutbound
  <2> HIDE DEF t
  <2>2. IsSeq(t)
    BY <2>1, MappedIs
  <2>3. OfVendors(t)
    BY <2>1 DEF OfVendors, ToSet, IsVendor
  <2>4. QED
    BY <2>2, <2>3
<1>2. s = <<l>> \/ s = <<>>
  BY DEF MainOf
<1>3. l.acct = v.acct
  BY DEF BuildLineOutbound
<1> HIDE DEF s, t, l
<1>4. IsSeq(<<l>>) /\ ToSet(<<l>>) = {l} /\ IsSeq(<<>>) /\ ToSet(<<>>) = {}
  <2>1. DOMAIN <<l>> = 1..1 /\ <<l>> = [i \in 1..1 |-> <<l>>[i]]
    OBVIOUS
  <2>2. IsSeq(<<l>>)
    BY <2>1, SeqMade
  <2>3. ToSet(<<l>>) = {l}
    BY DEF ToSet
  <2>4. QED
    BY <2>2, <2>3, EmptyIs
<1>5. IsSeq(s) /\ OfVendors(s)
  BY <1>2, <1>3, <1>4 DEF OfVendors, IsVendor
<1>6. IsSeq(s \o t) /\ OfVendors(s \o t)
  BY <1>1, <1>5, ConcatIs DEF OfVendors
<1>7. QED
  BY <1>1, <1>6 DEF OwnLines, s, t

LEMMA FlattenOfVendors ==
  ASSUME NEW ss, IsSeq(ss), \A n \in DOMAIN ss : IsSeq(ss[n]) /\ OfVendors(ss[n])
  PROVE  OfVendors(FlattenSeq(ss))
<1>1. ToSet(FlattenSeq(ss)) = UNION {ToSet(ss[n]) : n \in DOMAIN ss}
  BY FlattenIs
<1>2. QED
  BY <1>1 DEF OfVendors

LEMMA ErrorOfVendors ==
  ASSUME NEW r
  PROVE  OfVendors(<<ErrorLine(r)>>)
<1> DEFINE l == ErrorLine(r)
<1>1. l.acct = NoAccount
  BY DEF ErrorLine
<1> HIDE DEF l
<1>2. ToSet(<<l>>) = {l}
  BY DEF ToSet
<1>3. OfVendors(<<l>>)
  BY <1>1, <1>2 DEF OfVendors
<1>4. QED
  BY <1>3 DEF l

LEMMA BuiltOfVendors ==
  ASSUME NEW vendors, IsSeq(vendors), \A v \in ToSet(vendors) : IsVendor(v),
         NEW wht, IsSeq(wht), NEW co, NEW o
  PROVE  /\ OfVendors(MergeVendorPaymentLinesWithOffset(co, vendors, o, wht))
         /\ OfVendors(BuildWithholdingOnlyVendorPaymentLines(co, vendors, wht))
<1> DEFINE N == DOMAIN vendors
           mine(m) == Mine(vendors, wht, vendors[m])
           ss == [m \in N |-> OwnLines(co, vendors[m], o, mine(m))]
           cs == [m \in N |-> CompanionsOf(co, vendors[m], mine(m))]
           s == MergeVendorPaymentLinesWithOffset(co, vendors, o, wht)
           t == BuildWithholdingOnlyVendorPaymentLines(co, vendors, wht)
<1>1. s = <<ErrorLine(vendors[1])>> \/ s = FlattenSeq(ss)
  BY DEF MergeVendorPaymentLinesWithOffset, OwnLines, MainOf, CompanionsOf, Mine, HeldBy
<1>2. t = <<ErrorLine(vendors[1])>> \/ t = FlattenSeq(cs)
  BY DEF BuildWithholdingOnlyVendorPaymentLines, CompanionsOf, Mine, HeldBy
<1> HIDE DEF s, t
<1>3. ASSUME NEW m \in N
      PROVE  /\ IsSeq(ss[m]) /\ OfVendors(ss[m]) /\ IsSeq(cs[m]) /\ OfVendors(cs[m])
  <2> DEFINE e == mine(m)
             v == vendors[m]
  <2>1. HeldBy(vendors, wht, v) \subseteq DOMAIN wht
    BY DEF HeldBy
  <2>2. IsSeq(e)
    BY <2>1, PickedSome DEF Mine
  <2>3. IsVendor(v)
    BY DEF ToSet
  <2>4. ss[m] = OwnLines(co, v, o, e) /\ cs[m] = CompanionsOf(co, v, e)
    OBVIOUS
  <2> HIDE DEF e, v, ss, cs
  <2>5. QED
    BY <2>2, <2>3, <2>4, OwnOfVendors
<1>4. DOMAIN ss = N /\ ss = [m \in N |-> ss[m]] /\ DOMAIN cs = N /\ cs = [m \in N |-> cs[m]]
  OBVIOUS
<1> HIDE DEF ss, cs, mine
<1>5. IsSeq(ss) /\ IsSeq(cs)
  BY <1>4, MappedIs
<1>6. OfVendors(FlattenSeq(ss)) /\ OfVendors(FlattenSeq(cs))
  BY <1>3, <1>4, <1>5, FlattenOfVendors
<1>7. OfVendors(s) /\ OfVendors(t)
  BY <1>1, <1>2, <1>6, ErrorOfVendors
<1>8. QED
  BY <1>7 DEF s, t

LEMMA VendorPaymentOfVendors ==
  ASSUME NEW rows, IsSeq(rows), ~IsMainAccountOnlyLedgerGroup(rows), NEW co
  PROVE  OfVendors(BuildVendorPaymentLines(co, rows))
<1> DEFINE s == BuildVendorPaymentLines(co, rows)
           V == Picked(rows, VendorsAt(rows))
           O == Picked(rows, OffsetsAt(rows))
           W == Picked(rows, WithheldAt(rows))
<1>1. s = IF V = <<>> \/ Len(O) > 1 THEN <<ErrorLine(rows[1])>>
          ELSE IF O # <<>> THEN MergeVendorPaymentLinesWithOffset(co, V, O[1], W)
          ELSE IF W # <<>> THEN BuildWithholdingOnlyVendorPaymentLines(co, V, W)
          ELSE SourceLines(co, V)
  BY DEF BuildVendorPaymentLines, Where, VendorsAt, OffsetsAt, WithheldAt
<1>2. VendorsAt(rows) \subseteq DOMAIN rows /\ WithheldAt(rows) \subseteq DOMAIN rows
  BY DEF VendorsAt, WithheldAt
<1>3. IsSeq(V) /\ IsSeq(W) /\ ToSet(V) = {rows[i] : i \in VendorsAt(rows)}
  BY <1>2, PickedElements
<1>4. \A v \in ToSet(V) : IsVendor(v)
  BY <1>3 DEF VendorsAt, IsVendorDebit
<1> HIDE DEF s, V, O, W
<1>5. OfVendors(SourceLines(co, V))
  <2> DEFINE t == SourceLines(co, V)
  <2>1. DOMAIN t = DOMAIN V /\ \A i \in DOMAIN V : t[i].acct = V[i].acct
    BY DEF SourceLines, BuildSourceLineOutbound
  <2> HIDE DEF t
  <2>2. OfVendors(t)
    BY <1>4, <2>1 DEF OfVendors, ToSet, IsVendor
  <2>3. QED
    BY <2>2 DEF t
<1>6. /\ OfVendors(MergeVendorPaymentLinesWithOffset(co, V, O[1], W))
      /\ OfVendors(BuildWithholdingOnlyVendorPaymentLines(co, V, W))
  BY <1>3, <1>4, BuiltOfVendors
<1>7. QED
  BY <1>1, <1>5, <1>6, ErrorOfVendors DEF s

(* An entry, and lines that carry over what its rows put on the accounts,  *)
(* or say that there is an error.                                          *)
IsEntry(e, id) ==
  /\ IsSeq(e) /\ Money(e) /\ Apart(e) /\ e # <<>>
  /\ \A r \in ToSet(e) : r.uid = id /\ r.safe = e[1].safe
NoWithholdingAccount(s) == \A l \in ToSet(s) : ~IsWithholdingAccount(l)
CarriesOver(e, id, s) ==
  /\ IsSeq(s) /\ Carried(s) /\ NoWithholdingAccount(s)
  /\ Refused(id, s) \/ \A a \in Accounts : Net(s, a) = Net(AsWritten(e), a)

LEMMA AccountIs ==
  /\ \A a \in Accounts : a # NoAccount
  /\ \A s : OfVendors(s) => NoWithholdingAccount(s)
  /\ \A r : /\ IsVendor(r) => /\ ~IsWithholdingLedgerLine(r)
                              /\ ~IsCashOutSettlementOffsetSource(r)
            /\ IsWithholdingLedgerLine(r) => ~IsVendor(r)
            /\ IsCashOutSettlementOffsetSource(r) => ~IsVendor(r) /\ ~IsWithholdingLedgerLine(r)
<1>1. \A a \in Accounts : a # NoAccount
  BY CashOutAssumption
<1>2. ASSUME NEW l, l.acct \in Vendors \cup {NoAccount}
      PROVE  ~IsWithholdingAccount(l)
  BY <1>2, CashOutAssumption DEF IsWithholdingAccount, IsCashOutLedgerWithholdingMainAccount,
                                 Accounts, AllLedgers
<1>3. \A s : OfVendors(s) => NoWithholdingAccount(s)
  BY <1>2 DEF OfVendors, NoWithholdingAccount
<1>4. ASSUME NEW r
      PROVE  /\ IsVendor(r) => ~IsWithholdingLedgerLine(r) /\ ~IsCashOutSettlementOffsetSource(r)
             /\ IsCashOutSettlementOffsetSource(r) => ~IsWithholdingLedgerLine(r)
  BY CashOutAssumption DEF IsVendor, IsWithholdingLedgerLine, AllLedgers,
                           IsCashOutSettlementOffsetSource
<1>5. QED
  BY <1>1, <1>3, <1>4

LEMMA SourceNoWithholding ==
  ASSUME NEW co, NEW rows, IsSeq(rows),
         \A r \in ToSet(rows) : r.acct \notin Withholding \cup OtherWithholding
  PROVE  NoWithholdingAccount(SourceLines(co, rows))
<1> DEFINE t == SourceLines(co, rows)
<1>1. DOMAIN t = DOMAIN rows /\ \A i \in DOMAIN rows : t[i].acct = rows[i].acct
  BY DEF SourceLines, BuildSourceLineOutbound
<1> HIDE DEF t
<1>2. \A l \in ToSet(t) : l.acct \notin Withholding \cup OtherWithholding
  BY <1>1 DEF ToSet
<1>3. NoWithholdingAccount(t)
  BY <1>2 DEF NoWithholdingAccount, IsWithholdingAccount, IsCashOutLedgerWithholdingMainAccount
<1>4. QED
  BY <1>3 DEF t

(* What it means that a row is carried over.                               *)
CarriedOver(rows, r) ==
  /\ r.acct \in Withholding \cup OtherWithholding =>
       ~RowByRow(rows, r) /\ ~(IsWithholdingLedgerLine(r) /\ r.d > 0)
  /\ ~(rows[1].safe = "Vendor Payment" /\ IsVendor(r) /\ r.c > 0)
  /\ ~RowByRow(rows, r) => ~(r.d > 0 /\ r.c > 0)

LEMMA CarriedOverIs ==
  ASSUME NEW rows, ~NotCarriedOver(rows)
  PROVE  \A r \in ToSet(rows) : CarriedOver(rows, r)
<1>1. ASSUME NEW i \in DOMAIN rows PROVE CarriedOver(rows, rows[i])
  BY Zenon DEF NotCarriedOver, CarriedOver
<1>2. QED
  BY <1>1 DEF ToSet

LEMMA NotPositive ==
  ASSUME NEW n \in Nat, ~(n > 0)
  PROVE  n = 0
OBVIOUS

LEMMA VendorPaymentCarriesOver ==
  ASSUME NEW e, NEW id, IsEntry(e, id), e[1].safe = "Vendor Payment",
         VendorPaymentShape(e), ~NotCarriedOver(e), NEW co
  PROVE  CarriesOver(e, id, BuildVendorPaymentLines(co, e))
<1> DEFINE s == BuildVendorPaymentLines(co, e)
<1>1. IsSeq(e) /\ Money(e) /\ Apart(e) /\ e # <<>> /\ \A r \in ToSet(e) : r.uid = id
  BY DEF IsEntry
<1>2. \A r \in ToSet(e) : CarriedOver(e, r) /\ r.d \in Nat /\ r.c \in Nat
  BY CarriedOverIs DEF IsEntry, Money
<1>3. CASE IsMainAccountOnlyLedgerGroup(e)
  <2>1. s = SourceLines(co, e)
    BY <1>3 DEF BuildVendorPaymentLines
  <2>2. \A r \in ToSet(e) : RowByRow(e, r)
    BY <1>3 DEF RowByRow
  <2>3. \A r \in ToSet(e) : r.acct \notin Withholding \cup OtherWithholding
    BY <1>2, <2>2 DEF CarriedOver
  <2>4. NoWithholdingAccount(SourceLines(co, e))
    BY <1>1, <2>3, SourceNoWithholding
  <2>5. /\ IsSeq(SourceLines(co, e)) /\ Carried(SourceLines(co, e))
        /\ \A a : Net(SourceLines(co, e), a) = Net(AsWritten(e), a)
    BY <1>1, SourceNet
  <2>6. QED
    BY <2>1, <2>4, <2>5 DEF CarriesOver
<1>4. CASE ~IsMainAccountOnlyLedgerGroup(e)
  <2> DEFINE at == {i \in DOMAIN e : e[i].d > 0 /\ ~IsVendor(e[i])}
  <2>1. Picked(e, at) = <<>>
    BY <1>4, Zenon DEF VendorPaymentShape, Where
  <2>2. \A r \in ToSet(e) : r.d > 0 => IsVendor(r)
    <3>1. at \subseteq DOMAIN e
      OBVIOUS
    <3>2. IsSeq(Picked(e, at)) /\ ToSet(Picked(e, at)) = {e[i] : i \in at}
      <4> HIDE DEF at
      <4>1. QED
        BY <1>1, <3>1, PickedElements
    <3>3. {e[i] : i \in at} = {}
      <4> HIDE DEF at
      <4>1. QED
        BY <2>1, <3>2, EmptyIs
    <3>4. QED
      BY <3>3 DEF ToSet
  <2>3. \A r : ~RowByRow(e, r)
    BY <1>4 DEF RowByRow
  <2>4. \A r \in ToSet(e) : /\ IsVendor(r) => r.c = 0
                            /\ IsWithholdingLedgerLine(r) => r.d = 0
    <3>1. ASSUME NEW r \in ToSet(e), IsVendor(r) PROVE r.c = 0
      <4>1. r.c \in Nat /\ ~(r.c > 0)
        BY <1>2, <3>1, Zenon DEF CarriedOver
      <4>2. QED
        BY <4>1, NotPositive
    <3>2. ASSUME NEW r \in ToSet(e), IsWithholdingLedgerLine(r) PROVE r.d = 0
      <4>1. r.acct \in Withholding \cup OtherWithholding
        BY <3>2 DEF IsWithholdingLedgerLine
      <4>2. ~(r.d > 0) /\ r.d \in Nat
        BY <1>2, <3>2, <4>1, Zenon DEF CarriedOver
      <4>3. QED
        BY <4>2, NotPositive
    <3>3. QED
      BY <3>1, <3>2
  <2>5. Tidy(e, id)
    BY <1>1, <2>2, <2>4 DEF Tidy
  <2>6. ASSUME NEW a \in Accounts
        PROVE  IsSeq(s) /\ Carried(s) /\ (Refused(id, s) \/ Net(s, a) = Net(AsWritten(e), a))
    BY <1>4, <2>5, AccountIs, VendorPaymentNet
  <2>7. IsSeq(s) /\ Carried(s)
    <3>1. "account" # NoAccount
      BY DEF NoAccount
    <3>2. PICK a : a # NoAccount
      BY <3>1
    <3>3. /\ IsSeq(s) /\ Carried(s)
          /\ Refused(id, s) \/ Net(s, a) = Net(AsWritten(e), a)
      BY <1>4, <2>5, <3>2, VendorPaymentNet
    <3>4. QED
      BY <3>3
  <2>8. NoWithholdingAccount(s)
    BY <1>1, <1>4, VendorPaymentOfVendors, AccountIs
  <2>9. QED
    BY <2>6, <2>7, <2>8 DEF CarriesOver
<1>5. QED
  BY <1>3, <1>4

LEMMA KeptAsTheyAre ==
  ASSUME NEW rows, Money(rows), NEW s, DOMAIN s = DOMAIN rows,
         \A i \in DOMAIN rows : /\ s[i].acct = rows[i].acct /\ s[i].off = NoAccount
                                /\ s[i].d = rows[i].d /\ s[i].c = rows[i].c
  PROVE  /\ Carried(s) /\ \A a : Net(s, a) = Net(AsWritten(rows), a)
         /\ (\A r \in ToSet(rows) : r.acct \notin Withholding \cup OtherWithholding)
              => NoWithholdingAccount(s)
<1>1. Carried(s)
  BY DEF Carried, Money, ToSet
<1>2. ASSUME \A r \in ToSet(rows) : r.acct \notin Withholding \cup OtherWithholding
      PROVE  NoWithholdingAccount(s)
  <2>1. \A l \in ToSet(s) : l.acct \notin Withholding \cup OtherWithholding
    BY <1>2 DEF ToSet
  <2>2. QED
    BY <2>1 DEF NoWithholdingAccount, IsWithholdingAccount,
                IsCashOutLedgerWithholdingMainAccount
<1>3. ASSUME NEW a PROVE Net(s, a) = Net(AsWritten(rows), a)
  <2> DEFINE w == AsWritten(rows)
  <2>1. /\ DOMAIN w = DOMAIN rows
        /\ \A i \in DOMAIN rows : /\ w[i].acct = rows[i].acct /\ w[i].off = NoAccount
                                  /\ w[i].d = rows[i].d /\ w[i].c = rows[i].c
    BY DEF AsWritten
  <2> HIDE DEF w
  <2>2. \A i \in DOMAIN w : Moves(s[i], a) = Moves(w[i], a)
    BY <2>1 DEF Moves
  <2>3. DOMAIN s = DOMAIN w
    BY <2>1
  <2>4. Net(s, a) = Net(w, a)
    BY <2>2, <2>3, NetSame
  <2>5. QED
    BY <2>4 DEF w
<1>4. QED
  BY <1>1, <1>2, <1>3

LEMMA PreservedCarriesOver ==
  ASSUME NEW e, NEW id, IsEntry(e, id), e[1].safe # "Vendor Payment",
         ~SplitsCustodySettlement(e), ~NotCarriedOver(e), NEW co
  PROVE  CarriesOver(e, id, BuildLines(co, e))
<1> DEFINE wht == Picked(e, WithheldAt(e))
           at == {i \in DOMAIN e : ~IsWithholdingLedgerLine(e[i])}
           kept == Picked(e, at)
           inv(r) == IF r.inv = NoInvoice /\ IsVendor(r) /\ wht # <<>>
                     THEN FindWithholdingLine(r, wht).inv ELSE r.inv
           s == [i \in DOMAIN kept |-> BuildSourceLineOutbound(co, kept[i], inv(kept[i]))]
           t == BuildCashOutWithholdingCompanions(co, e, wht)
           D == DOMAIN e
<1>1. BuildLines(co, e) = s \o t
  BY DEF BuildLines, PreservedLines, Where, WithheldAt
<1>2. IsSeq(e) /\ Money(e) /\ Apart(e) /\ IsFiniteSet(D)
  BY SeqIs, UpTo DEF IsEntry
<1>3. \A r \in ToSet(e) : r.acct \notin Withholding \cup OtherWithholding
  <2>1. \A r \in ToSet(e) : RowByRow(e, r)
    BY DEF RowByRow
  <2>2. QED
    BY <2>1, CarriedOverIs DEF CarriedOver
<1>4. WithheldAt(e) = {} /\ at = D
  BY <1>3 DEF WithheldAt, IsWithholdingLedgerLine, ToSet
<1>5. t = <<>>
  <2>1. IsSeq(wht) /\ ToSet(wht) = {}
    <3>1. IsSeq(Picked(e, {})) /\ ToSet(Picked(e, {})) = {e[i] : i \in {}}
      BY <1>2, PickedElements
    <3>2. QED
      BY <1>4, <3>1
  <2> HIDE DEF wht
  <2>2. IsSeq(t) /\ ToSet(t) \subseteq Companions(co, ToSet(e), ToSet(wht))
    BY <1>2, <2>1, CompanionsAre
  <2>3. Companions(co, ToSet(e), ToSet(wht)) = {}
    BY <2>1 DEF Companions
  <2> HIDE DEF t
  <2>4. ToSet(t) = {}
    BY <2>2, <2>3
  <2>5. QED
    BY <2>2, <2>4, EmptyIs
<1>6. IsSeq(kept) /\ Money(kept) /\ ToSet(kept) = ToSet(e)
  <2>1. D \subseteq D
    OBVIOUS
  <2>2. /\ IsSeq(Picked(e, D)) /\ ToSet(Picked(e, D)) = {e[i] : i \in D}
        /\ Money(Picked(e, D))
    <3> HIDE DEF D
    <3>1. QED
      BY <1>2, <2>1, PickedRows DEF D
  <2>3. {e[i] : i \in D} = ToSet(e)
    BY DEF ToSet
  <2>4. QED
    BY <1>4, <2>2, <2>3
<1>7. ASSUME NEW a \in Accounts PROVE Net(AsWritten(kept), a) = Net(AsWritten(e), a)
  <2> DEFINE f == WorthOn(ToSet(e), a)
  <2>1. a # NoAccount
    BY AccountIs
  <2>2. /\ Net(AsWritten(kept), a) = Total(kept, f)
        /\ Net(AsWritten(e), a) = Total(e, f) /\ Measured(e, f)
    <3> HIDE DEF kept
    <3>1. QED
      BY <1>2, <1>6, <2>1, WrittenIs
  <2> HIDE DEF f, D
  <2>3. Total(Picked(e, D), f) = Over(Values(e, f), D)
    <3>1. D \subseteq DOMAIN e
      BY DEF D
    <3>2. QED
      BY <1>2, <2>2, <3>1, TotalPicked
  <2>4. QED
    BY <1>4, <2>2, <2>3 DEF Total, D
<1> HIDE DEF kept
<1>8. /\ DOMAIN s = DOMAIN kept /\ s = [i \in DOMAIN kept |-> s[i]]
      /\ \A i \in DOMAIN kept : /\ s[i].acct = kept[i].acct /\ s[i].off = NoAccount
                                /\ s[i].d = kept[i].d /\ s[i].c = kept[i].c
  BY DEF BuildSourceLineOutbound
<1> HIDE DEF s
<1>9. IsSeq(s)
  BY <1>6, <1>8, MappedIs
<1>10. /\ Carried(s) /\ \A a : Net(s, a) = Net(AsWritten(kept), a)
       /\ (\A r \in ToSet(kept) : r.acct \notin Withholding \cup OtherWithholding)
            => NoWithholdingAccount(s)
  <2>1. /\ DOMAIN s = DOMAIN kept
        /\ \A i \in DOMAIN kept : /\ s[i].acct = kept[i].acct /\ s[i].off = NoAccount
                                  /\ s[i].d = kept[i].d /\ s[i].c = kept[i].c
    BY <1>8
  <2>2. QED
    BY <1>6, <2>1, KeptAsTheyAre
<1>11. NoWithholdingAccount(s) /\ \A a \in Accounts : Net(s, a) = Net(AsWritten(e), a)
  <2>1. \A r \in ToSet(kept) : r.acct \notin Withholding \cup OtherWithholding
    BY <1>3, <1>6
  <2>2. QED
    BY <1>7, <1>10, <2>1
<1>12. s \o <<>> = s
  <2>1. s \in Seq(ToSet(s))
    BY <1>9 DEF IsSeq
  <2>2. QED
    BY <2>1, ConcatEmptySeq
<1>13. BuildLines(co, e) = s
  BY <1>1, <1>5, <1>12
<1>14. QED
  BY <1>9, <1>10, <1>11, <1>13 DEF CarriesOver

LEMMA ZeroNotPositive ==
  ASSUME NEW n, n = 0
  PROVE  ~(n > 0)
  OBVIOUS

(* The part of a Custody Settlement that is a vendor payment of its own.   *)
LEMMA SplitPartIs ==
  ASSUME NEW e, NEW id, IsEntry(e, id), e[1].safe # "Vendor Payment",
         SplitsCustodySettlement(e), ~NotCarriedOver(e)
  PROVE  /\ Tidy(Picked(e, Split(e)), id)
         /\ ~IsMainAccountOnlyLedgerGroup(Picked(e, Split(e)))
<1> DEFINE atInvoice == {i \in DOMAIN e :
                           IsStandardVendorInvoiceSettlementLine(e[i]) /\ e[i].d > 0}
           at == Split(e)
           v == Picked(e, atInvoice)
           p == Picked(e, at)
<1>1. IsSeq(e) /\ Money(e) /\ Apart(e)
  BY DEF IsEntry
<1>2. InvoiceVendors(e) = v /\ v # <<>>
  BY DEF InvoiceVendors, Where, SplitsCustodySettlement
<1>3. atInvoice \subseteq DOMAIN e /\ at \subseteq DOMAIN e
  BY DEF Split
<1>4. IsSeq(v) /\ ToSet(v) = {e[i] : i \in atInvoice}
  <2> HIDE DEF atInvoice
  <2>1. QED
    BY <1>1, <1>3, PickedElements
<1>5. /\ IsSeq(p) /\ ToSet(p) = {e[i] : i \in at} /\ ToSet(p) \subseteq ToSet(e)
      /\ Money(p) /\ Apart(p)
  BY <1>1, <1>3, PickedRows
<1>6. ASSUME NEW r PROVE Contains(InvoiceVendors(e), r) <=> \E i \in atInvoice : r = e[i]
  <2>1. Len(v) \in Nat /\ DOMAIN v = 1..Len(v)
    BY <1>4, SeqIs
  <2> HIDE DEF v, atInvoice
  <2>2. Contains(v, r) <=> r \in ToSet(v)
    BY <2>1 DEF Contains, ToSet
  <2>3. QED
    BY <1>2, <1>4, <2>2
<1>7. PICK i \in atInvoice : TRUE
  <2> HIDE DEF atInvoice, v
  <2>1. QED
    BY <1>2, <1>4, EmptyIs
<1>8. i \in at
  BY <1>3, <1>6, <1>7 DEF Split, InSplit
<1>9. IsVendor(e[i])
  BY <1>7 DEF IsStandardVendorInvoiceSettlementLine, IsVendor, Vendors
<1> HIDE DEF atInvoice, v
<1>10. e[i] \in ToSet(p)
  BY <1>5, <1>8
<1>11. ~IsMainAccountOnlyLedgerGroup(p)
  <2>1. e[i].acct \notin AllLedgers
    BY <1>9, CashOutAssumption DEF IsVendor
  <2>2. QED
    BY <1>10, <2>1 DEF IsMainAccountOnlyLedgerGroup, ToSet
<1>12. p # <<>>
  BY <1>5, <1>10, EmptyIs
<1>13. ASSUME NEW r \in ToSet(p)
       PROVE  /\ r.uid = id
              /\ IsVendor(r) => r.c = 0
              /\ IsWithholdingLedgerLine(r) => r.d = 0
              /\ r.d > 0 => IsVendor(r)
  <2>1. r \in ToSet(e) /\ InSplit(e, r) /\ r.uid = id /\ r.d \in Nat /\ r.c \in Nat
    <3>1. r \in ToSet(e) /\ InSplit(e, r)
      BY <1>5 DEF Split
    <3>2. QED
      BY <1>1, <3>1 DEF IsEntry, Money
  <2>2. ~RowByRow(e, r)
    BY <2>1 DEF RowByRow
  <2>3. CarriedOver(e, r)
    BY <2>1, CarriedOverIs
  <2>4. ~(r.d > 0 /\ r.c > 0)
    BY <2>2, <2>3 DEF CarriedOver
  <2>5. IsWithholdingLedgerLine(r) => r.d = 0
    <3>1. ASSUME IsWithholdingLedgerLine(r) PROVE ~(r.d > 0)
      <4>1. r.acct \in Withholding \cup OtherWithholding
        BY <3>1 DEF IsWithholdingLedgerLine
      <4>2. QED
        BY <2>3, <3>1, <4>1, Zenon DEF CarriedOver
    <3>2. QED
      BY <2>1, <3>1, NotPositive
  <2>6. \/ IsVendor(r) /\ r.d > 0
        \/ IsCashOutSettlementOffsetSource(r)
        \/ IsWithholdingLedgerLine(r)
    <3>1. Contains(InvoiceVendors(e), r) => IsVendor(r) /\ r.d > 0
      BY <1>6 DEF atInvoice, IsStandardVendorInvoiceSettlementLine, IsVendor, Vendors
    <3>2. QED
      BY <2>1, <3>1 DEF InSplit
  <2>7. CASE IsVendor(r) /\ r.d > 0
    <3>1. r.c = 0
      BY <2>1, <2>4, <2>7, NotPositive
    <3>2. QED
      BY <2>1, <2>5, <2>7, <3>1
  <2>8. CASE IsCashOutSettlementOffsetSource(r)
    <3>1. ~IsVendor(r) /\ r.c > 0
      BY <2>8, AccountIs DEF IsCashOutSettlementOffsetSource
    <3>2. r.d = 0
      BY <2>1, <2>4, <3>1, NotPositive
    <3>3. ~(r.d > 0)
      BY <3>2, ZeroNotPositive
    <3>4. QED
      BY <2>1, <3>1, <3>2, <3>3, Zenon
  <2>9. CASE IsWithholdingLedgerLine(r)
    <3>1. ~IsVendor(r) /\ r.d = 0
      BY <2>5, <2>9, AccountIs
    <3>2. ~(r.d > 0)
      BY <3>1, ZeroNotPositive
    <3>3. QED
      BY <2>1, <3>1, <3>2, Zenon
  <2>10. QED
    BY <2>6, <2>7, <2>8, <2>9
<1> HIDE DEF p, at
<1>14. Tidy(p, id)
  BY <1>5, <1>12, <1>13, Zenon DEF Tidy
<1>15. QED
  BY <1>11, <1>14 DEF p, at

LEMMA SplitCarriesOver ==
  ASSUME NEW e, NEW id, IsEntry(e, id), e[1].safe # "Vendor Payment",
         SplitsCustodySettlement(e), ~NotCarriedOver(e), NEW co
  PROVE  CarriesOver(e, id, BuildCustodySettlementCashOutLines(co, e))
<1> DEFINE at == Split(e)
           atKept == {i \in DOMAIN e : ~InSplit(e, e[i])}
           p == Picked(e, at)
           k == Picked(e, atKept)
           s == SourceLines(co, k)
           t == BuildVendorPaymentLines(co, p)
           D == DOMAIN e
<1>1. BuildCustodySettlementCashOutLines(co, e) = s \o t
  BY DEF BuildCustodySettlementCashOutLines, Where, Split
<1>2. IsSeq(e) /\ Money(e) /\ Apart(e) /\ IsFiniteSet(D)
  BY SeqIs, UpTo DEF IsEntry
<1>3. /\ at \subseteq D /\ atKept \subseteq D /\ at \cap atKept = {} /\ at \cup atKept = D
  BY DEF Split
<1>4. /\ IsSeq(p) /\ ToSet(p) \subseteq ToSet(e) /\ Money(p)
      /\ IsSeq(k) /\ ToSet(k) = {e[i] : i \in atKept} /\ ToSet(k) \subseteq ToSet(e) /\ Money(k)
  <2> HIDE DEF at, atKept
  <2>1. QED
    BY <1>2, <1>3, PickedRows
<1>5. Tidy(p, id) /\ ~IsMainAccountOnlyLedgerGroup(p)
  BY SplitPartIs
<1>6. \A r \in ToSet(k) : r.acct \notin Withholding \cup OtherWithholding
  <2>1. ASSUME NEW r \in ToSet(k) PROVE r.acct \notin Withholding \cup OtherWithholding
    <3>1. r \in ToSet(e) /\ ~InSplit(e, r)
      BY <1>4
    <3>2. RowByRow(e, r)
      BY <3>1 DEF RowByRow
    <3>3. QED
      BY <3>1, <3>2, CarriedOverIs DEF CarriedOver
  <2>2. QED
    BY <2>1
<1>7. ASSUME NEW a, a # NoAccount
      PROVE  /\ Net(AsWritten(e), a) = Net(AsWritten(k), a) + Net(AsWritten(p), a)
             /\ Net(AsWritten(k), a) \in Int /\ Net(AsWritten(p), a) \in Int
  <2> DEFINE S == ToSet(e)
             f == WorthOn(S, a)
             g == Values(e, f)
  <2> HIDE DEF p, k, at, atKept
  <2>1. /\ Net(AsWritten(e), a) = Total(e, f) /\ Measured(e, f)
        /\ Net(AsWritten(k), a) = Total(k, f) /\ Net(AsWritten(p), a) = Total(p, f)
        /\ Net(AsWritten(k), a) \in Int /\ Net(AsWritten(p), a) \in Int
    BY <1>2, <1>4, <1>7, WrittenIs
  <2> HIDE DEF f, D
  <2>2. Total(k, f) = Over(g, atKept) /\ Total(p, f) = Over(g, at)
    BY <1>2, <1>3, <2>1, TotalPicked DEF D, p, k
  <2>3. \A i \in D : g[i] \in Int
    BY <1>2, <2>1, ValuesAre DEF D
  <2>4. IsFiniteSet(at) /\ IsFiniteSet(atKept)
    BY <1>2, <1>3, FS_Subset
  <2>5. \A i \in atKept \cup at : g[i] \in Int
    BY <1>3, <2>3
  <2>6. atKept \cap at = {} /\ atKept \cup at = D
    BY <1>3
  <2> HIDE DEF g
  <2>7. Over(g, atKept \cup at) = Over(g, atKept) + Over(g, at)
    BY <2>4, <2>5, <2>6, OverUnion
  <2>8. Total(e, f) = Over(g, D)
    BY DEF Total, g, D
  <2>9. QED
    BY <2>1, <2>2, <2>6, <2>7, <2>8
<1> HIDE DEF p, k, at, atKept, D
<1>8. /\ IsSeq(s) /\ Carried(s) /\ NoWithholdingAccount(s)
      /\ \A a : Net(s, a) = Net(AsWritten(k), a)
  BY <1>4, <1>6, SourceNet, SourceNoWithholding
<1>9. \A a : a # NoAccount => /\ IsSeq(t) /\ Carried(t)
                              /\ Refused(id, t) \/ Net(t, a) = Net(AsWritten(p), a)
  BY <1>5, VendorPaymentNet
<1>10. NoWithholdingAccount(t)
  BY <1>4, <1>5, VendorPaymentOfVendors, AccountIs
<1>11. IsSeq(t) /\ Carried(t)
  <2>1. "account" # NoAccount
    BY DEF NoAccount
  <2> DEFINE b == "account"
  <2> HIDE DEF t, b
  <2>2. b # NoAccount
    BY <2>1 DEF b
  <2>3. /\ IsSeq(t) /\ Carried(t)
        /\ Refused(id, t) \/ Net(t, b) = Net(AsWritten(p), b)
    BY <1>9, <2>2
  <2>4. QED
    BY <2>3
<1> HIDE DEF s, t
<1>12. IsSeq(s \o t) /\ Carried(s \o t) /\ \A a : Net(s \o t, a) = Net(s, a) + Net(t, a)
  <2>1. IsSeq(s) /\ Carried(s)
    BY <1>8
  <2>2. \A a : Net(s \o t, a) = Net(s, a) + Net(t, a) /\ Carried(s \o t) /\ IsSeq(s \o t)
    BY <1>11, <2>1, NetConcat, Zenon
  <2>3. QED
    BY <2>2
<1>13. ToSet(s \o t) = ToSet(s) \cup ToSet(t)
  BY <1>8, <1>11, ConcatIs
<1>14. NoWithholdingAccount(s \o t)
  BY <1>8, <1>10, <1>13 DEF NoWithholdingAccount
<1>15. Refused(id, t) => Refused(id, s \o t)
  BY <1>13 DEF Refused
<1>16. ASSUME NEW a \in Accounts, ~Refused(id, t)
       PROVE  Net(s \o t, a) = Net(AsWritten(e), a)
  <2>1. a # NoAccount
    BY AccountIs
  <2>2. /\ Net(t, a) = Net(AsWritten(p), a) /\ Net(s, a) = Net(AsWritten(k), a)
        /\ Net(s \o t, a) = Net(s, a) + Net(t, a)
    BY <1>8, <1>9, <1>12, <1>16, <2>1
  <2>3. Net(AsWritten(e), a) = Net(AsWritten(k), a) + Net(AsWritten(p), a)
    BY <1>7, <2>1
  <2>4. QED
    BY <2>2, <2>3
<1>17. QED
  BY <1>1, <1>12, <1>14, <1>15, <1>16 DEF CarriesOver

LEMMA EntryCarriesOver ==
  ASSUME NEW e, NEW id, IsEntry(e, id), ~NotCarriedOver(e),
         e[1].safe = "Vendor Payment" => VendorPaymentShape(e), NEW co
  PROVE  CarriesOver(e, id, BuildLines(co, e))
<1>1. CASE e[1].safe = "Vendor Payment"
  <2>1. BuildLines(co, e) = BuildVendorPaymentLines(co, e)
    BY <1>1 DEF BuildLines
  <2>2. CarriesOver(e, id, BuildVendorPaymentLines(co, e))
    BY <1>1, VendorPaymentCarriesOver
  <2>3. QED
    BY <2>1, <2>2
<1>2. CASE e[1].safe # "Vendor Payment" /\ SplitsCustodySettlement(e)
  <2>1. BuildLines(co, e) = BuildCustodySettlementCashOutLines(co, e)
    BY <1>2 DEF BuildLines
  <2>2. CarriesOver(e, id, BuildCustodySettlementCashOutLines(co, e))
    BY <1>2, SplitCarriesOver
  <2>3. QED
    BY <2>1, <2>2
<1>3. CASE e[1].safe # "Vendor Payment" /\ ~SplitsCustodySettlement(e)
  BY <1>3, PreservedCarriesOver
<1>4. QED
  BY <1>1, <1>2, <1>3

-----------------------------------------------------------------------------
(* Whatever an entry is, its lines have amounts.                           *)
LEMMA OwnCarried ==
  ASSUME NEW co, NEW v, v.d \in Nat, NEW o, NEW mine, IsSeq(mine), Money(mine)
  PROVE  /\ IsSeq(OwnLines(co, v, o, mine)) /\ Carried(OwnLines(co, v, o, mine))
         /\ IsSeq(CompanionsOf(co, v, mine)) /\ Carried(CompanionsOf(co, v, mine))
<1> DEFINE s == MainOf(co, v, o, mine)
           t == CompanionsOf(co, v, mine)
           l == BuildLineOutbound(co, v, o, v.d - Credits(mine))
<1>1. IsSeq(t) /\ Carried(t)
  <2>1. /\ DOMAIN t = DOMAIN mine /\ t = [n \in DOMAIN mine |-> t[n]]
        /\ \A n \in DOMAIN mine : t[n].d = mine[n].c /\ t[n].c = 0
    BY DEF CompanionsOf, WithholdingCompanion, BuildLineOutbound
  <2> HIDE DEF t
  <2>2. IsSeq(t)
    BY <2>1, MappedIs
  <2>3. Carried(t)
    BY <2>1 DEF Carried, ToSet, Money
  <2>4. QED
    BY <2>2, <2>3
<1>2. s = <<l>> \/ s = <<>>
  BY DEF MainOf
<1>3. l.d \in Int /\ l.c \in Int
  <2>1. Credits(mine) \in Nat
    BY SumsAre
  <2>2. l.d = v.d - Credits(mine) /\ l.c = 0
    BY DEF BuildLineOutbound
  <2>3. QED
    BY <2>1, <2>2
<1> HIDE DEF s, t, l
<1>4. IsSeq(<<l>>) /\ Carried(<<l>>) /\ IsSeq(<<>>) /\ Carried(<<>>)
  BY <1>3, OneIs, EmptyIs DEF Carried
<1>5. IsSeq(s) /\ Carried(s)
  BY <1>2, <1>4
<1>6. IsSeq(s \o t) /\ Carried(s \o t)
  BY <1>1, <1>5, ConcatIs DEF Carried
<1>7. QED
  BY <1>1, <1>6 DEF OwnLines, s, t

LEMMA FlattenCarried ==
  ASSUME NEW ss, IsSeq(ss), \A n \in DOMAIN ss : IsSeq(ss[n]) /\ Carried(ss[n])
  PROVE  IsSeq(FlattenSeq(ss)) /\ Carried(FlattenSeq(ss))
<1>1. /\ IsSeq(FlattenSeq(ss))
      /\ ToSet(FlattenSeq(ss)) = UNION {ToSet(ss[n]) : n \in DOMAIN ss}
  BY FlattenIs
<1>2. QED
  BY <1>1 DEF Carried

LEMMA ErrorCarried ==
  ASSUME NEW r
  PROVE  IsSeq(<<ErrorLine(r)>>) /\ Carried(<<ErrorLine(r)>>)
BY RefusedIs

LEMMA BuiltCarried ==
  ASSUME NEW vendors, IsSeq(vendors), Money(vendors),
         NEW wht, IsSeq(wht), Money(wht), NEW co, NEW o
  PROVE  /\ IsSeq(MergeVendorPaymentLinesWithOffset(co, vendors, o, wht))
         /\ Carried(MergeVendorPaymentLinesWithOffset(co, vendors, o, wht))
         /\ IsSeq(BuildWithholdingOnlyVendorPaymentLines(co, vendors, wht))
         /\ Carried(BuildWithholdingOnlyVendorPaymentLines(co, vendors, wht))
<1> DEFINE N == DOMAIN vendors
           mine(m) == Mine(vendors, wht, vendors[m])
           ss == [m \in N |-> OwnLines(co, vendors[m], o, mine(m))]
           cs == [m \in N |-> CompanionsOf(co, vendors[m], mine(m))]
           s == MergeVendorPaymentLinesWithOffset(co, vendors, o, wht)
           t == BuildWithholdingOnlyVendorPaymentLines(co, vendors, wht)
<1>1. s = <<ErrorLine(vendors[1])>> \/ s = FlattenSeq(ss)
  BY DEF MergeVendorPaymentLinesWithOffset, OwnLines, MainOf, CompanionsOf, Mine, HeldBy
<1>2. t = <<ErrorLine(vendors[1])>> \/ t = FlattenSeq(cs)
  BY DEF BuildWithholdingOnlyVendorPaymentLines, CompanionsOf, Mine, HeldBy
<1> HIDE DEF s, t
<1>3. ASSUME NEW m \in N
      PROVE  /\ IsSeq(ss[m]) /\ Carried(ss[m]) /\ IsSeq(cs[m]) /\ Carried(cs[m])
  <2> DEFINE e == mine(m)
             v == vendors[m]
  <2>1. HeldBy(vendors, wht, v) \subseteq DOMAIN wht
    BY DEF HeldBy
  <2>2. IsSeq(e) /\ ToSet(e) \subseteq ToSet(wht)
    BY <2>1, PickedSome DEF Mine
  <2>3. v.d \in Nat
    BY DEF ToSet, Money
  <2>4. ss[m] = OwnLines(co, v, o, e) /\ cs[m] = CompanionsOf(co, v, e)
    OBVIOUS
  <2> HIDE DEF e, v, ss, cs
  <2>5. Money(e)
    BY <2>2 DEF Money
  <2>6. QED
    BY <2>2, <2>3, <2>4, <2>5, OwnCarried
<1>4. DOMAIN ss = N /\ ss = [m \in N |-> ss[m]] /\ DOMAIN cs = N /\ cs = [m \in N |-> cs[m]]
  OBVIOUS
<1> HIDE DEF ss, cs, mine
<1>5. IsSeq(ss) /\ IsSeq(cs)
  BY <1>4, MappedIs
<1>6. /\ IsSeq(FlattenSeq(ss)) /\ Carried(FlattenSeq(ss))
      /\ IsSeq(FlattenSeq(cs)) /\ Carried(FlattenSeq(cs))
  BY <1>3, <1>4, <1>5, FlattenCarried
<1>7. IsSeq(s) /\ Carried(s) /\ IsSeq(t) /\ Carried(t)
  BY <1>1, <1>2, <1>6, ErrorCarried
<1>8. QED
  BY <1>7 DEF s, t

LEMMA VendorPaymentCarried ==
  ASSUME NEW rows, IsSeq(rows), Money(rows), NEW co
  PROVE  LET s == BuildVendorPaymentLines(co, rows) IN IsSeq(s) /\ Carried(s)
<1> DEFINE s == BuildVendorPaymentLines(co, rows)
           V == Picked(rows, VendorsAt(rows))
           O == Picked(rows, OffsetsAt(rows))
           W == Picked(rows, WithheldAt(rows))
<1>1. s = IF IsMainAccountOnlyLedgerGroup(rows) THEN SourceLines(co, rows)
          ELSE IF V = <<>> \/ Len(O) > 1 THEN <<ErrorLine(rows[1])>>
          ELSE IF O # <<>> THEN MergeVendorPaymentLinesWithOffset(co, V, O[1], W)
          ELSE IF W # <<>> THEN BuildWithholdingOnlyVendorPaymentLines(co, V, W)
          ELSE SourceLines(co, V)
  BY DEF BuildVendorPaymentLines, Where, VendorsAt, OffsetsAt, WithheldAt
<1>2. VendorsAt(rows) \subseteq DOMAIN rows /\ WithheldAt(rows) \subseteq DOMAIN rows
  BY DEF VendorsAt, WithheldAt
<1>3. IsSeq(V) /\ ToSet(V) \subseteq ToSet(rows) /\ IsSeq(W) /\ ToSet(W) \subseteq ToSet(rows)
  BY <1>2, PickedSome
<1> HIDE DEF s, V, O, W
<1>4. Money(V) /\ Money(W)
  BY <1>3 DEF Money
<1>5. /\ IsSeq(SourceLines(co, V)) /\ Carried(SourceLines(co, V))
      /\ IsSeq(SourceLines(co, rows)) /\ Carried(SourceLines(co, rows))
  BY <1>3, <1>4, SourceNet
<1>6. /\ IsSeq(MergeVendorPaymentLinesWithOffset(co, V, O[1], W))
      /\ Carried(MergeVendorPaymentLinesWithOffset(co, V, O[1], W))
      /\ IsSeq(BuildWithholdingOnlyVendorPaymentLines(co, V, W))
      /\ Carried(BuildWithholdingOnlyVendorPaymentLines(co, V, W))
  BY <1>3, <1>4, BuiltCarried
<1>7. IsSeq(<<ErrorLine(rows[1])>>) /\ Carried(<<ErrorLine(rows[1])>>)
  BY ErrorCarried
<1>8. IsSeq(s) /\ Carried(s)
  BY <1>1, <1>5, <1>6, <1>7
<1>9. QED
  BY <1>8 DEF s

LEMMA CompanionsCarried ==
  ASSUME NEW co, NEW rows, IsSeq(rows), NEW wht, IsSeq(wht), Money(wht)
  PROVE  LET t == BuildCashOutWithholdingCompanions(co, rows, wht) IN IsSeq(t) /\ Carried(t)
<1> DEFINE t == BuildCashOutWithholdingCompanions(co, rows, wht)
           C == Companions(co, ToSet(rows), ToSet(wht))
<1>1. IsSeq(t) /\ ToSet(t) \subseteq C
  BY CompanionsAre
<1>2. \A l \in C : l.d \in Int /\ l.c \in Int
  <2> SUFFICES ASSUME NEW v \in ToSet(rows), NEW w \in ToSet(wht)
               PROVE  /\ WithholdingCompanion(co, v, w).d \in Int
                      /\ WithholdingCompanion(co, v, w).c \in Int
    BY DEF Companions
  <2>1. w.c \in Nat
    BY DEF Money
  <2>2. /\ WithholdingCompanion(co, v, w).d = w.c
        /\ WithholdingCompanion(co, v, w).c = 0
    BY DEF WithholdingCompanion, BuildLineOutbound
  <2>3. QED
    BY <2>1, <2>2
<1> HIDE DEF t, C
<1>3. Carried(t)
  BY <1>1, <1>2 DEF Carried
<1>4. QED
  BY <1>1, <1>3 DEF t

LEMMA BuildLinesCarried ==
  ASSUME NEW rows, IsSeq(rows), Money(rows), NEW co
  PROVE  IsSeq(BuildLines(co, rows)) /\ Carried(BuildLines(co, rows))
<1> DEFINE wht == Picked(rows, WithheldAt(rows))
           atKept == {i \in DOMAIN rows : ~IsWithholdingLedgerLine(rows[i])}
           kept == Picked(rows, atKept)
           inv(r) == IF r.inv = NoInvoice /\ IsVendor(r) /\ wht # <<>>
                     THEN FindWithholdingLine(r, wht).inv ELSE r.inv
           s == [i \in DOMAIN kept |-> BuildSourceLineOutbound(co, kept[i], inv(kept[i]))]
           t == BuildCashOutWithholdingCompanions(co, rows, wht)
           atOut == {i \in DOMAIN rows : ~InSplit(rows, rows[i])}
           out == SourceLines(co, Picked(rows, atOut))
           paid == BuildVendorPaymentLines(co, Picked(rows, Split(rows)))
<1>1. BuildLines(co, rows) =
        IF rows[1].safe = "Vendor Payment" THEN BuildVendorPaymentLines(co, rows)
        ELSE IF SplitsCustodySettlement(rows) THEN out \o paid ELSE s \o t
  BY DEF BuildLines, BuildCustodySettlementCashOutLines, PreservedLines, Where, WithheldAt, Split
<1>2. /\ WithheldAt(rows) \subseteq DOMAIN rows /\ atKept \subseteq DOMAIN rows
      /\ atOut \subseteq DOMAIN rows /\ Split(rows) \subseteq DOMAIN rows
  BY DEF WithheldAt, Split
<1>3. ASSUME NEW at, at \subseteq DOMAIN rows
      PROVE  IsSeq(Picked(rows, at)) /\ Money(Picked(rows, at))
  BY <1>3, PickedSome DEF Money
<1>4. IsSeq(wht) /\ Money(wht) /\ IsSeq(kept) /\ Money(kept)
  BY <1>2, <1>3
<1>5. IsSeq(out) /\ Carried(out) /\ IsSeq(paid) /\ Carried(paid)
  <2>1. /\ IsSeq(Picked(rows, atOut)) /\ Money(Picked(rows, atOut))
        /\ IsSeq(Picked(rows, Split(rows))) /\ Money(Picked(rows, Split(rows)))
    BY <1>2, <1>3
  <2> HIDE DEF atOut
  <2>2. IsSeq(out) /\ Carried(out)
    BY <2>1, SourceNet
  <2>3. IsSeq(paid) /\ Carried(paid)
    BY <2>1, VendorPaymentCarried
  <2>4. QED
    BY <2>2, <2>3
<1> HIDE DEF kept, out, paid
<1>6. IsSeq(s) /\ Carried(s)
  <2>1. /\ DOMAIN s = DOMAIN kept /\ s = [i \in DOMAIN kept |-> s[i]]
        /\ \A i \in DOMAIN kept : s[i].d = kept[i].d /\ s[i].c = kept[i].c
    BY DEF BuildSourceLineOutbound
  <2> HIDE DEF s
  <2>2. IsSeq(s)
    BY <1>4, <2>1, MappedIs
  <2>3. Carried(s)
    BY <1>4, <2>1 DEF Carried, Money, ToSet
  <2>4. QED
    BY <2>2, <2>3
<1>7. IsSeq(t) /\ Carried(t)
  <2> HIDE DEF wht
  <2>1. QED
    BY <1>4, CompanionsCarried
<1> HIDE DEF s, t
<1>8. IsSeq(s \o t) /\ Carried(s \o t) /\ IsSeq(out \o paid) /\ Carried(out \o paid)
  <2>1. /\ IsSeq(s \o t) /\ ToSet(s \o t) = ToSet(s) \cup ToSet(t)
        /\ IsSeq(out \o paid) /\ ToSet(out \o paid) = ToSet(out) \cup ToSet(paid)
    BY <1>5, <1>6, <1>7, ConcatIs
  <2>2. QED
    BY <1>5, <1>6, <1>7, <2>1 DEF Carried
<1>9. IsSeq(BuildVendorPaymentLines(co, rows)) /\ Carried(BuildVendorPaymentLines(co, rows))
  BY VendorPaymentCarried
<1>10. QED
  BY <1>1, <1>8, <1>9

-----------------------------------------------------------------------------
(* EntryMoneyKept, line by line: the lines of every entry that is carried  *)
(* over put on each account what its rows put there, and no withholding    *)
(* account has a line of its own that posting would rewrite; unless one of *)
(* them has an error.                                                      *)
Keeps(ls, e) ==
  LET id == e[1].uid
  IN \/ NotCarriedOver(e) \/ Refused(id, ls)
     \/ /\ \A l \in ToSet(ls) : l.uid = id => ~IsWithholdingAccount(l)
        /\ \A a \in Accounts : Part(ls, id, a) = Net(AsWritten(e), a)
AllKept(rows, ls) ==
  Carried(ls) /\ \A n \in DOMAIN BuildUniqueIdMap(rows) : Keeps(ls, BuildUniqueIdMap(rows)[n])
Shaped(rows) ==
  \A n \in DOMAIN BuildUniqueIdMap(rows) :
    LET e == BuildUniqueIdMap(rows)[n]
    IN e[1].safe = "Vendor Payment" => VendorPaymentShape(e)

LEMMA OnlyOne ==
  ASSUME NEW S, IsFiniteSet(S), NEW n \in S, NEW g, g[n] \in Int,
         \A m \in S \ {n} : g[m] = 0
  PROVE  Over(g, S) = g[n]
<1>1. \A m \in S : g[m] \in Int
  OBVIOUS
<1>2. {n} \in SUBSET S /\ \A m \in S \ {n} : g[m] = 0
  OBVIOUS
<1>3. Over(g, S) = Over(g, {n})
  BY <1>1, <1>2, OverRest
<1>4. Over(g, {n}) = g[n] + Over(g, {n} \ {n}) /\ Over(g, {}) = 0
  BY <1>1, <1>2, OverLess, OverAdd
<1>5. {n} \ {n} = {}
  OBVIOUS
<1>6. QED
  BY <1>3, <1>4, <1>5

LEMMA EntryOf ==
  ASSUME NEW rows, Checked(rows), Apart(rows), NEW n \in DOMAIN BuildUniqueIdMap(rows)
  PROVE  LET e == BuildUniqueIdMap(rows)[n]
         IN IsEntry(e, e[1].uid) /\ ToSet(e) \subseteq ToSet(rows)
<1> DEFINE E == BuildUniqueIdMap(rows)
           e == E[n]
           id == e[1].uid
           at == WithId(rows, id)
<1>1. IsSeq(rows) /\ Money(rows)
  BY DEF Checked, Typed, Money
<1>2. Entries(rows, E)
  BY <1>1, EntriesAre
<1>3. /\ IsSeq(e) /\ e # <<>> /\ e = Picked(rows, at)
      /\ ToSet(e) = {r \in ToSet(rows) : r.uid = id}
  BY <1>2 DEF Entries
<1>4. at \subseteq DOMAIN rows
  BY DEF WithId
<1> HIDE DEF at, e, E
<1>5. Money(e) /\ Apart(e)
  BY <1>1, <1>3, <1>4, PickedRows
<1>6. e[1] \in ToSet(e)
  BY <1>3, FirstOf
<1>7. \A r \in ToSet(e) : r.uid = id /\ r.safe = e[1].safe
  BY <1>3, <1>6 DEF Checked
<1>8. IsEntry(e, id) /\ ToSet(e) \subseteq ToSet(rows)
  BY <1>3, <1>5, <1>7 DEF IsEntry
<1>9. QED
  BY <1>8 DEF e, E

(* The lines of an entry are of its id.                                    *)
LEMMA LinesOfEntry ==
  ASSUME NEW e, NEW id, IsEntry(e, id), \A r \in ToSet(e) : Sound(r), NEW co
  PROVE  /\ IsSeq(BuildLines(co, e)) /\ Carried(BuildLines(co, e))
         /\ \A l \in ToSet(BuildLines(co, e)) : l.uid = id
<1>1. IsSeq(BuildLines(co, e)) /\ Carried(BuildLines(co, e))
  BY BuildLinesCarried DEF IsEntry
<1>2. AllGood(co, ToSet(e), BuildLines(co, e))
  BY BuildLinesGood DEF IsEntry
<1>3. ASSUME NEW l \in ToSet(BuildLines(co, e)) PROVE l.uid = id
  <2>1. PICK r \in ToSet(e) : l.uid = r.uid
    BY <1>2 DEF AllGood, Good, ComesFrom
  <2>2. QED
    BY <2>1 DEF IsEntry
<1>4. QED
  BY <1>1, <1>3

LEMMA InvoiceLinesKeep ==
  ASSUME NEW rows, Checked(rows), Apart(rows), Shaped(rows), NEW co
  PROVE  AllKept(rows, BuildInvoiceLines(co, rows))
<1> DEFINE E == BuildUniqueIdMap(rows)
           D == DOMAIN E
           ss == [n \in D |-> BuildLines(co, E[n])]
           ls == FlattenSeq(ss)
<1>1. BuildInvoiceLines(co, rows) = ls
  BY DEF BuildInvoiceLines
<1>2. Entries(rows, E)
  BY EntriesAre DEF Checked
<1>3. IsFiniteSet(D) /\ IsSeq(ss)
  <2>1. Len(E) \in Nat /\ D = 1..Len(E)
    BY <1>2, SeqIs DEF Entries
  <2>2. DOMAIN ss = D /\ ss = [n \in D |-> ss[n]]
    OBVIOUS
  <2> HIDE DEF E, ss
  <2>3. IsFiniteSet(D) /\ IsSeq(ss)
    BY <2>1, <2>2, UpTo, SeqMade
  <2>4. QED
    BY <2>3
<1>4. ASSUME NEW n \in D
      PROVE  /\ IsEntry(E[n], E[n][1].uid)
             /\ IsSeq(ss[n]) /\ Carried(ss[n])
             /\ \A l \in ToSet(ss[n]) : l.uid = E[n][1].uid
  <2> DEFINE e == E[n]
  <2>1. IsEntry(e, e[1].uid) /\ ToSet(e) \subseteq ToSet(rows)
    BY EntryOf
  <2>2. \A r \in ToSet(e) : Sound(r)
    BY <2>1 DEF Checked
  <2>3. ss[n] = BuildLines(co, e)
    OBVIOUS
  <2> HIDE DEF e, ss
  <2>4. /\ IsSeq(BuildLines(co, e)) /\ Carried(BuildLines(co, e))
        /\ \A l \in ToSet(BuildLines(co, e)) : l.uid = e[1].uid
    BY <2>1, <2>2, LinesOfEntry
  <2>5. QED
    BY <2>1, <2>3, <2>4 DEF e
<1>5. DOMAIN ss = D /\ \A n \in D : ss[n] = BuildLines(co, E[n])
  OBVIOUS
<1>6. \A n \in D : E[n][1].safe = "Vendor Payment" => VendorPaymentShape(E[n])
  BY DEF Shaped
<1> HIDE DEF ss, E, D
<1>7. Carried(ls) /\ ToSet(ls) = UNION {ToSet(ss[n]) : n \in D}
  BY <1>3, <1>4, <1>5, FlattenCarried, FlattenIs
<1>8. ASSUME NEW n \in D, NEW a
      PROVE  Part(ls, E[n][1].uid, a) = Net(ss[n], a)
  <2> DEFINE id == E[n][1].uid
             g == [m \in D |-> Part(ss[m], id, a)]
  <2>1. Part(ls, id, a) = Over(g, D)
    <3>1. Part(FlattenSeq(ss), id, a)
            = Over([m \in DOMAIN ss |-> Part(ss[m], id, a)], DOMAIN ss)
      BY <1>3, <1>4, <1>5, PartFlatten
    <3>2. QED
      BY <1>5, <3>1
  <2>2. g[n] = Net(ss[n], a) /\ g[n] \in Int
    <3>1. \A l \in ToSet(ss[n]) : l.uid = id
      BY <1>4
    <3>2. IsSeq(ss[n]) /\ Carried(ss[n]) /\ ToSet(ss[n]) \subseteq ToSet(ss[n])
      BY <1>4
    <3> HIDE DEF id
    <3>3. Part(ss[n], id, a) = Net(ss[n], a)
      BY <3>1, <3>2, PartOf
    <3>4. Net(ss[n], a) \in Int
      BY <3>2, NetIs
    <3>5. QED
      BY <3>3, <3>4
  <2>3. ASSUME NEW m \in D \ {n} PROVE g[m] = 0
    <3>1. \A l \in ToSet(ss[m]) : l.uid # id
      BY <1>2, <1>4 DEF Entries, D
    <3>2. IsSeq(ss[m]) /\ Carried(ss[m])
      BY <1>4
    <3> HIDE DEF id
    <3>3. Part(ss[m], id, a) = 0
      BY <3>1, <3>2, PartOf
    <3>4. QED
      BY <3>3
  <2> HIDE DEF g, id
  <2>4. Over(g, D) = g[n]
    BY <1>3, <2>2, <2>3, OnlyOne
  <2>5. QED
    BY <2>1, <2>2, <2>4 DEF id
<1> HIDE DEF ls
<1>9. ASSUME NEW n \in D PROVE Keeps(ls, E[n])
  <2> DEFINE e == E[n]
             id == e[1].uid
             s == ss[n]
  <2>1. CASE NotCarriedOver(e)
    BY <2>1 DEF Keeps
  <2>2. CASE ~NotCarriedOver(e)
    <3>1. IsEntry(e, id) /\ s = BuildLines(co, e)
      BY <1>4, <1>5
    <3>2. e[1].safe = "Vendor Payment" => VendorPaymentShape(e)
      BY <1>6
    <3>3. ToSet(s) \subseteq ToSet(ls) /\ \A l \in ToSet(ls) : l.uid = id => l \in ToSet(s)
      <4>1. ToSet(s) \subseteq ToSet(ls)
        BY <1>7
      <4>2. ASSUME NEW l \in ToSet(ls), l.uid = id PROVE l \in ToSet(s)
        <5>1. PICK m \in D : l \in ToSet(ss[m])
          BY <1>7
        <5>2. l.uid = E[m][1].uid
          BY <1>4, <5>1
        <5>3. m = n
          BY <1>2, <4>2, <5>2 DEF Entries, D
        <5>4. QED
          BY <5>1, <5>3
      <4>3. QED
        BY <4>1, <4>2
    <3>4. \A a \in Accounts : Part(ls, id, a) = Net(s, a)
      BY <1>8
    <3> HIDE DEF e, id, s
    <3>5. CarriesOver(e, id, s)
      BY <2>2, <3>1, <3>2, EntryCarriesOver
    <3>6. Refused(id, s) => Refused(id, ls)
      BY <3>3 DEF Refused
    <3>7. \A l \in ToSet(ls) : l.uid = id => ~IsWithholdingAccount(l)
      BY <3>3, <3>5 DEF CarriesOver, NoWithholdingAccount
    <3>8. Refused(id, ls) \/ \A a \in Accounts : Part(ls, id, a) = Net(AsWritten(e), a)
      BY <3>4, <3>5, <3>6 DEF CarriesOver
    <3>9. QED
      BY <3>7, <3>8 DEF Keeps, id, e
  <2>3. QED
    BY <2>1, <2>2
<1>10. QED
  BY <1>1, <1>7, <1>9 DEF AllKept, E, D

LEMMA KeptOnward ==
  ASSUME NEW rows, NEW s, AllKept(rows, s), NEW t, Carried(t),
         \A id, a : Part(t, id, a) = Part(s, id, a),
         \A id : Refused(id, s) => Refused(id, t),
         \A y \in ToSet(t) : \E x \in ToSet(s) : x.uid = y.uid /\ x.acct = y.acct
  PROVE  AllKept(rows, t)
<1> DEFINE E == BuildUniqueIdMap(rows)
<1>1. ASSUME NEW n \in DOMAIN E PROVE Keeps(t, E[n])
  <2> DEFINE e == E[n]
             id == e[1].uid
  <2>1. Keeps(s, e)
    BY DEF AllKept
  <2> SUFFICES Keeps(t, e)
    OBVIOUS
  <2> HIDE DEF e
  <2>2. CASE NotCarriedOver(e) \/ Refused(id, s)
    BY <2>2 DEF Keeps
  <2>3. CASE ~(NotCarriedOver(e) \/ Refused(id, s))
    <3>1. /\ \A l \in ToSet(s) : l.uid = id => ~IsWithholdingAccount(l)
          /\ \A a \in Accounts : Part(s, id, a) = Net(AsWritten(e), a)
      BY <2>1, <2>3 DEF Keeps
    <3>2. \A y \in ToSet(t) : y.uid = id => ~IsWithholdingAccount(y)
      <4>1. ASSUME NEW y \in ToSet(t), y.uid = id PROVE ~IsWithholdingAccount(y)
        <5>1. PICK x \in ToSet(s) : x.uid = y.uid /\ x.acct = y.acct
          OBVIOUS
        <5>2. ~IsWithholdingAccount(x)
          BY <3>1, <4>1, <5>1
        <5>3. QED
          BY <5>1, <5>2 DEF IsWithholdingAccount, IsCashOutLedgerWithholdingMainAccount
      <4>2. QED
        BY <4>1
    <3>3. \A a \in Accounts : Part(t, id, a) = Net(AsWritten(e), a)
      BY <3>1
    <3>4. QED
      BY <3>2, <3>3 DEF Keeps
  <2>4. QED
    BY <2>2, <2>3
<1>2. QED
  BY <1>1 DEF AllKept

LEMMA NumberingKeeps ==
  ASSUME NEW rows, NEW ls, AllKept(rows, ls), IsSeq(ls),
         \A l \in ToSet(ls) : IsLine(l) /\ l.month \in Nat
  PROVE  AllKept(rows, UpdateCashBatchAndVoucher(ls))
<1> DEFINE out == UpdateCashBatchAndVoucher(ls)
<1>1. /\ ToSet(out) \subseteq Numbered(ToSet(ls))
      /\ \A l \in ToSet(ls) : \E j \in Nat : At(l, j) \in ToSet(out)
  BY NumberedAre
<1>2. ASSUME NEW id, NEW a
      PROVE  Carried(out) /\ Part(out, id, a) = Part(ls, id, a)
  <2>1. Carried(ls)
    BY DEF AllKept
  <2>2. QED
    BY <2>1, NumberedPart
<1> HIDE DEF out
<1>3. ASSUME NEW id, Refused(id, ls) PROVE Refused(id, out)
  <2>1. PICK l \in ToSet(ls) : l.uid = id /\ l.error = TRUE
    BY <1>3 DEF Refused
  <2>2. PICK j \in Nat : At(l, j) \in ToSet(out)
    BY <1>1
  <2>3. At(l, j).uid = l.uid /\ At(l, j).error = l.error
    BY AtIs
  <2>4. QED
    BY <2>1, <2>2, <2>3 DEF Refused
<1>4. ASSUME NEW y \in ToSet(out)
      PROVE  \E x \in ToSet(ls) : x.uid = y.uid /\ x.acct = y.acct
  <2>1. PICK x \in ToSet(ls), j \in Nat : y = At(x, j)
    BY <1>1 DEF Numbered
  <2>2. IsLine(x)
    OBVIOUS
  <2>3. At(x, j).uid = x.uid /\ At(x, j).acct = x.acct
    BY <2>2 DEF At, IsLine
  <2>4. QED
    BY <2>1, <2>3
<1>5. Carried(out)
  BY <1>2
<1>6. \A id, a : Part(out, id, a) = Part(ls, id, a)
  BY <1>2
<1>7. \A id : Refused(id, ls) => Refused(id, out)
  BY <1>3
<1>8. AllKept(rows, out)
  BY <1>4, <1>5, <1>6, <1>7, KeptOnward
<1>9. QED
  BY <1>8 DEF out

(* Errors are added, not taken away, and move no money.                    *)
LEMMA MarkingKeeps ==
  ASSUME NEW rows, NEW s, AllKept(rows, s), IsSeq(s), NEW t, IsSeq(t), DOMAIN t = DOMAIN s,
         \A i \in DOMAIN s : /\ t[i].uid = s[i].uid /\ t[i].acct = s[i].acct
                             /\ t[i].off = s[i].off /\ t[i].d = s[i].d /\ t[i].c = s[i].c
                             /\ s[i].error = TRUE => t[i].error = TRUE
  PROVE  AllKept(rows, t)
<1>1. /\ ToSet(s) = {s[i] : i \in DOMAIN s} /\ ToSet(t) = {t[i] : i \in DOMAIN s}
  BY DEF ToSet
<1>2. Carried(t)
  BY <1>1 DEF AllKept, Carried
<1>3. ASSUME NEW id, NEW a PROVE Part(t, id, a) = Part(s, id, a)
  <2>1. \A i \in DOMAIN s : Share(t[i], id, a) = Share(s[i], id, a)
    BY DEF Share, Moves
  <2>2. QED
    BY <2>1, PartSame
<1>4. ASSUME NEW id, Refused(id, s) PROVE Refused(id, t)
  BY <1>1, <1>4 DEF Refused
<1>5. \A y \in ToSet(t) : \E x \in ToSet(s) : x.uid = y.uid /\ x.acct = y.acct
  BY <1>1
<1>6. \A id, a : Part(t, id, a) = Part(s, id, a)
  BY <1>3
<1>7. \A id : Refused(id, s) => Refused(id, t)
  BY <1>4
<1>8. QED
  BY <1>2, <1>5, <1>6, <1>7, KeptOnward

LEMMA PostedKeeps ==
  ASSUME NEW rows, NEW ls, AllKept(rows, ls), IsSeq(ls),
         \A l \in ToSet(ls) : IsLine(l) /\ l.error = FALSE,
         NEW n \in DOMAIN BuildUniqueIdMap(rows),
         ~NotCarriedOver(BuildUniqueIdMap(rows)[n]), NEW a \in Accounts
  PROVE  LET e == BuildUniqueIdMap(rows)[n]
             p == FlattenSeq(MapToJournals(ls))
         IN Net(Picked(p, WithId(p, e[1].uid)), a) = Net(AsWritten(e), a)
<1> DEFINE e == BuildUniqueIdMap(rows)[n]
           id == e[1].uid
           p == FlattenSeq(MapToJournals(ls))
<1>1. Keeps(ls, e) /\ Carried(ls)
  BY DEF AllKept
<1> HIDE DEF e, p
<1>2. ~Refused(id, ls)
  BY DEF Refused
<1>3. /\ \A l \in ToSet(ls) : l.uid = id => ~IsWithholdingAccount(l)
      /\ Part(ls, id, a) = Net(AsWritten(e), a)
  <2>1. ~NotCarriedOver(e)
    BY DEF e
  <2>2. QED
    BY <1>1, <1>2, <2>1 DEF Keeps
<1> HIDE DEF id
<1>4. IsSeq(p) /\ Carried(p) /\ Part(p, id, a) = Part(ls, id, a)
  BY <1>1, <1>3, PostedPart DEF p
<1>5. Net(Picked(p, WithId(p, id)), a) = Part(p, id, a)
  BY <1>4, PartOf
<1>6. Net(Picked(p, WithId(p, id)), a) = Net(AsWritten(e), a)
  BY <1>3, <1>4, <1>5
<1>7. QED
  BY <1>6 DEF id, p, e

(* What is checked before the lines are made, and kept from then on.       *)
MoneyInv ==
  \A u \in Uploads : /\ pc[u] = "rates" => Shaped(Rows(u))
                     /\ Formatted(u) => AllKept(Rows(u), lines[u])

LEMMA RowsApart ==
  ASSUME SettleInv, NEW u \in Uploads
  PROVE  Apart(Rows(u))
<1>1. file[u] \in Workbook
  BY CashOutAssumption DEF SettleInv, FilesTyped
<1> DEFINE rows == file[u]
           all == AssignMissingUniqueIds(rows)
<1>2. DOMAIN all = DOMAIN rows /\ \A i \in DOMAIN rows : all[i].line = i
  BY <1>1, AssignedAre
<1> HIDE DEF all
<1>3. Apart(all)
  BY <1>2 DEF Apart
<1>4. QED
  BY <1>3 DEF all, Rows

LEMMA SourceMoney ==
  ASSUME NEW co, NEW rows, ValidateCashOutSource(co, rows)
  PROVE  Shaped(rows)
BY DEF ValidateCashOutSource, Shaped

LEMMA FormatMoney ==
  ASSUME SettleInv, MoneyInv, NEW u \in Uploads, Format(u)
  PROVE  AllKept(Rows(u), lines'[u])
<1> DEFINE rows == Rows(u)
           built == BuildInvoiceLines(company, rows)
           R == ToSet(rows)
<1>1. lines'[u] = UpdateCashBatchAndVoucher(built) /\ pc[u] = "rates"
  BY DEF Format, SettleInv, FilesTyped
<1>2. Checked(rows) /\ Apart(rows) /\ Shaped(rows)
  BY <1>1, RowsApart DEF SettleInv, RowsChecked, MoneyInv
<1>3. AllGood(company, R, built)
  BY <1>2, InvoiceLinesGood DEF Checked
<1>4. IsSeq(built) /\ \A l \in ToSet(built) : IsLine(l) /\ l.month \in Nat
  <2>1. \A r \in R : Typed(r)
    BY <1>2 DEF Checked
  <2> HIDE DEF built, R
  <2>2. QED
    BY <1>3, <2>1, GoodMonth DEF AllGood, Good
<1>5. AllKept(rows, built)
  BY <1>2, InvoiceLinesKeep
<1> HIDE DEF built, rows
<1>6. AllKept(rows, UpdateCashBatchAndVoucher(built))
  BY <1>4, <1>5, NumberingKeeps
<1>7. QED
  BY <1>1, <1>6 DEF rows

LEMMA ValidateMoney ==
  ASSUME SettleInv, KindInv, MoneyInv, NEW u \in Uploads, Validate(u)
  PROVE  AllKept(Rows(u), lines'[u])
<1> DEFINE old == lines[u]
           bad(l) == Invalid(u, l)
           new == [i \in DOMAIN old |-> [old[i] EXCEPT !.error = bad(old[i])]]
<1>1. lines'[u] = new /\ Formatted(u)
  BY DEF Validate, SettleInv, FilesTyped, Formatted
<1>2. FormattedWell(u) /\ AllKept(Rows(u), old)
  BY <1>1 DEF KindInv, MoneyInv
<1>3. PICK co : AllGood(co, ToSet(Rows(u)), old)
  BY <1>2 DEF FormattedWell
<1>4. IsSeq(old) /\ DOMAIN old = 1..Len(old) /\ \A i \in DOMAIN old : IsLine(old[i])
  BY <1>3, SeqIs DEF AllGood, Good, ToSet
<1>5. \A l : l.error = TRUE => bad(l) = TRUE
  BY DEF Invalid
<1>6. ASSUME NEW i \in DOMAIN old
      PROVE  /\ new[i].uid = old[i].uid /\ new[i].acct = old[i].acct
             /\ new[i].off = old[i].off /\ new[i].d = old[i].d /\ new[i].c = old[i].c
             /\ old[i].error = TRUE => new[i].error = TRUE
  <2> DEFINE l == old[i]
             e == bad(l)
             x == [l EXCEPT !.error = e]
  <2>1. new[i] = x /\ IsLine(l) /\ (l.error = TRUE => e = TRUE)
    BY <1>4, <1>5
  <2> HIDE DEF e, l
  <2>2. /\ x.uid = l.uid /\ x.acct = l.acct /\ x.off = l.off /\ x.d = l.d /\ x.c = l.c
        /\ x.error = e
    BY <2>1 DEF IsLine
  <2> HIDE DEF x, new
  <2>3. QED
    BY <2>1, <2>2 DEF l
<1>7. DOMAIN new = DOMAIN old /\ new = [i \in DOMAIN old |-> new[i]]
  OBVIOUS
<1> HIDE DEF new, old, bad
<1>8. IsSeq(new)
  BY <1>4, <1>7, MappedIs
<1>9. AllKept(Rows(u), new)
  BY <1>2, <1>4, <1>6, <1>7, <1>8, MarkingKeeps
<1>10. QED
  BY <1>1, <1>9

LEMMA MoneyStep == SettleInv /\ KindInv /\ MoneyInv /\ [Next]_vars => MoneyInv'
<1> SUFFICES ASSUME SettleInv, KindInv, MoneyInv, [Next]_vars, NEW v \in Uploads
             PROVE  /\ pc'[v] = "rates" => Shaped(Rows(v)')
                    /\ Formatted(v)' => AllKept(Rows(v)', lines'[v])
  BY DEF MoneyInv
<1>1. file' = file => Rows(v)' = Rows(v)
  BY DEF Rows
<1>2. ASSUME file' = file, pc'[v] = pc[v], lines'[v] = lines[v]
      PROVE  /\ pc'[v] = "rates" => Shaped(Rows(v)')
             /\ Formatted(v)' => AllKept(Rows(v)', lines'[v])
  BY <1>1, <1>2 DEF MoneyInv, Formatted
<1>3. ASSUME NEW u \in Uploads,
             \/ Begin(u) \/ AskSource(u) \/ ValidateSource(u)
             \/ Format(u) \/ Validate(u) \/ Post(u)
      PROVE  /\ pc'[v] = "rates" => Shaped(Rows(v)')
             /\ Formatted(v)' => AllKept(Rows(v)', lines'[v])
  <2>1. file' = file /\ (v # u => pc'[v] = pc[v] /\ lines'[v] = lines[v])
    BY <1>3 DEF Begin, AskSource, ValidateSource, Format, Validate, Post, Goto,
                SettleInv, FilesTyped
  <2>2. CASE v # u
    BY <1>2, <2>1, <2>2
  <2>3. CASE v = u /\ (Begin(u) \/ AskSource(u))
    <3>1. pc'[v] \in {"warmup", "source"}
      BY <2>3 DEF Begin, AskSource, Goto, SettleInv, FilesTyped
    <3>2. QED
      BY <3>1 DEF Formatted
  <2>4. CASE v = u /\ ValidateSource(u)
    <3>1. /\ pc'[v] \in {"rates", "refused"}
          /\ pc'[v] = "rates" => ValidateCashOutSource(asked[u], Rows(u))
      BY <2>4 DEF ValidateSource, Goto, SettleInv, FilesTyped
    <3>2. pc'[v] = "rates" => Shaped(Rows(v))
      BY <2>4, <3>1, SourceMoney
    <3>3. QED
      BY <1>1, <2>1, <3>1, <3>2 DEF Formatted
  <2>5. CASE v = u /\ Format(u)
    <3>1. pc'[v] = "lookup"
      BY <2>5 DEF Format, Goto, SettleInv, FilesTyped
    <3>2. QED
      BY <1>1, <2>1, <2>5, <3>1, FormatMoney
  <2>6. CASE v = u /\ Validate(u)
    <3>1. pc'[v] = "stored"
      BY <2>6 DEF Validate, Goto, SettleInv, FilesTyped
    <3>2. QED
      BY <1>1, <2>1, <2>6, <3>1, ValidateMoney
  <2>7. CASE v = u /\ Post(u)
    <3>1. pc'[v] = "posted" /\ lines'[v] = lines[v] /\ Formatted(v)
      BY <2>7 DEF Post, Goto, SettleInv, FilesTyped, Formatted
    <3>2. QED
      BY <1>1, <2>1, <3>1 DEF MoneyInv
  <2>8. QED
    BY <1>3, <2>2, <2>3, <2>4, <2>5, <2>6, <2>7
<1>4. CASE UNCHANGED vars
  BY <1>2, <1>4 DEF vars
<1>5. QED
  BY <1>3, <1>4 DEF Next

LEMMA MoneyInvImplies == SettleInv /\ KindInv /\ MoneyInv => EntryMoneyKept
<1> SUFFICES ASSUME SettleInv, KindInv, MoneyInv, NEW u \in Uploads, pc[u] = "posted",
                    NEW e \in ToSet(BuildUniqueIdMap(Rows(u))), ~NotCarriedOver(e),
                    NEW a \in Accounts
             PROVE  Net(LinesOf(u, e[1].uid), a) = Net(AsWritten(e), a)
  BY DEF EntryMoneyKept
<1> DEFINE ls == lines[u]
           p == FlattenSeq(MapToJournals(ls))
<1>1. /\ journals[u] = MapToJournals(ls) /\ ErrorCount(u) = 0 /\ FormattedWell(u)
      /\ AllKept(Rows(u), ls)
  BY DEF SettleInv, KindInv, MoneyInv, JournalsOfLines, Formatted
<1>2. PICK co : AllGood(co, ToSet(Rows(u)), ls)
  BY <1>1 DEF FormattedWell
<1>3. IsSeq(ls) /\ \A l \in ToSet(ls) : IsLine(l) /\ l.error = FALSE
  <2>1. \A l \in ToSet(ls) : l.error = FALSE
    BY <1>1, <1>2, GoodErrors, NoErrors
  <2>2. QED
    BY <1>2, <2>1 DEF AllGood, Good
<1>4. PICK n \in DOMAIN BuildUniqueIdMap(Rows(u)) : e = BuildUniqueIdMap(Rows(u))[n]
  BY DEF ToSet
<1> HIDE DEF ls
<1>5. Net(Picked(p, WithId(p, e[1].uid)), a) = Net(AsWritten(e), a)
  BY <1>1, <1>3, <1>4, PostedKeeps
<1>6. LinesOf(u, e[1].uid) = Picked(p, WithId(p, e[1].uid))
  BY <1>1 DEF LinesOf, PostedLines, Where, WithId
<1>7. QED
  BY <1>5, <1>6

(* What a posted entry puts on each account is what its rows put there,    *)
(* for any workbooks, accounts and schedule: the allocation of withholding *)
(* to vendor rows, the split of a Custody Settlement, the numbering and    *)
(* the journals neither lose nor add money.                                *)
THEOREM CarriesTheMoneyOver == Spec => []EntryMoneyKept
<1>1. Spec => []SettleInv
  BY SettleInit, SettleStep, PTL DEF Spec
<1>2. Init => KindInv /\ MoneyInv
  BY DEF Init, KindInv, MoneyInv, Formatted
<1>3. Spec => []KindInv
  BY <1>1, <1>2, KindStep, PTL DEF Spec
<1>4. Spec => []MoneyInv
  BY <1>1, <1>2, <1>3, MoneyStep, PTL DEF Spec
<1>5. QED
  BY <1>1, <1>3, <1>4, MoneyInvImplies, PTL
=============================================================================
