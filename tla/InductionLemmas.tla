----------------------------- MODULE InductionLemmas -----------------------------
(***************************************************************************)
(* Induction over data, for the proofs about what walks and sweeps         *)
(* compute.  The property to be proved of every number is given as the set *)
(* of the numbers that have it, and the principle is the well-foundedness  *)
(* of < on the natural numbers.                                            *)
(***************************************************************************)
EXTENDS Integers, FiniteSetsExt, FiniteSetTheorems, WellFoundedInduction, TLAPS

(* A set of natural numbers that is not empty has a smallest element.        *)
LEMMA Smallest ==
    ASSUME NEW S \in SUBSET Nat, S # {}
    PROVE  \E n \in S : \A m \in S : n <= m
<1> DEFINE R == {ss \in Nat \X Nat : ss[1] < ss[2]}
<1>1. IsWellFoundedOn(R, Nat)
  BY NatLessThanWellFounded DEF OpToRel
<1>2. \A x, y \in Nat : <<y, x>> \in R <=> y < x
  OBVIOUS
<1> HIDE DEF R
<1>3. PICK x \in S : \A y \in S : ~(<<y, x>> \in R)
  BY <1>1, WFMin
<1>4. \A y \in S : ~(y < x)
  BY <1>2, <1>3
<1> QED BY <1>4

(* Mathematical induction.                                                   *)
LEMMA Induction ==
    ASSUME NEW S, 0 \in S, \A n \in Nat : n \in S => n + 1 \in S
    PROVE  Nat \subseteq S
<1> SUFFICES ASSUME Nat \ S # {} PROVE FALSE
  OBVIOUS
<1>1. PICK n \in Nat \ S : \A m \in Nat \ S : n <= m
  BY Smallest
<1>2. n # 0 /\ n - 1 \in Nat /\ n - 1 \in S
  BY <1>1
<1> QED BY <1>1, <1>2

(* The same up to a bound.                                                   *)
LEMMA InductionUpTo ==
    ASSUME NEW N \in Nat, NEW S, 0 \in S,
           \A n \in 0 .. N : (n # N /\ n \in S) => n + 1 \in S
    PROVE  0 .. N \subseteq S
<1> DEFINE T == {n \in Nat : n <= N => n \in S}
<1>1. 0 \in T
  OBVIOUS
<1>2. ASSUME NEW n \in Nat, n \in T
      PROVE  n + 1 \in T
  BY <1>2
<1>3. Nat \subseteq T
  BY <1>1, <1>2, Induction
<1> QED BY <1>3

(* A set of integers bounded from above has a largest element.               *)
LEMMA Largest ==
    ASSUME NEW S \in SUBSET Int, S # {}, NEW bound \in Int, \A s \in S : s <= bound
    PROVE  \E s \in S : \A r \in S : r <= s
<1> DEFINE T == {bound - s : s \in S}
<1>1. T \in SUBSET Nat /\ T # {}
  <2>1. \A s \in S : bound - s \in Nat
    OBVIOUS
  <2> QED BY <2>1
<1>2. PICK n \in T : \A m \in T : n <= m
  BY <1>1, Smallest
<1>3. PICK s \in S : n = bound - s
  OBVIOUS
<1>4. \A r \in S : bound - s <= bound - r
  BY <1>2, <1>3
<1> QED BY <1>4

(* A set of integers bounded from below has a smallest element.              *)
LEMMA SmallestInt ==
    ASSUME NEW S \in SUBSET Int, S # {}, NEW bound \in Int, \A s \in S : bound <= s
    PROVE  \E s \in S : \A r \in S : s <= r
<1> DEFINE T == {s - bound : s \in S}
<1>1. T \in SUBSET Nat /\ T # {}
  <2>1. \A s \in S : s - bound \in Nat
    OBVIOUS
  <2> QED BY <2>1
<1>2. PICK n \in T : \A m \in T : n <= m
  BY <1>1, Smallest
<1>3. PICK s \in S : n = s - bound
  OBVIOUS
<1>4. \A r \in S : s - bound <= r - bound
  BY <1>2, <1>3
<1> QED BY <1>4

(* A finite set of integers is bounded on both sides.                        *)
LEMMA FiniteIsBounded ==
    ASSUME NEW S \in SUBSET Int, IsFiniteSet(S)
    PROVE  \E low, high \in Int : \A s \in S : low <= s /\ s <= high
<1> DEFINE
      Bounded(T) == \E low, high \in Int : \A s \in T : low <= s /\ s <= high
      B == {n \in Nat : \A T \in SUBSET S : Cardinality(T) = n => Bounded(T)}
<1>1. \A T \in SUBSET S : IsFiniteSet(T) /\ Cardinality(T) \in Nat
  BY FS_Subset, FS_CardinalityType
<1>2. 0 \in B
  <2>1. \A T \in SUBSET S : Cardinality(T) = 0 => T = {}
    BY <1>1, FS_EmptySet
  <2>2. Bounded({})
    <3> WITNESS 0 \in Int, 0 \in Int
    <3> QED OBVIOUS
  <2> HIDE DEF Bounded
  <2> QED BY <2>1, <2>2
<1>3. ASSUME NEW n \in Nat, n \in B
      PROVE  n + 1 \in B
  <2> HIDE DEF Bounded
  <2> SUFFICES ASSUME NEW T \in SUBSET S, Cardinality(T) = n + 1
               PROVE  Bounded(T)
    OBVIOUS
  <2> USE DEF Bounded
  <2>0. T # {}
    BY FS_EmptySet
  <2>1. PICK x \in T : TRUE
    BY <2>0
  <2>2. Cardinality(T \ {x}) = n
    BY <1>1, FS_RemoveElement
  <2>3. PICK low, high \in Int : \A s \in T \ {x} : low <= s /\ s <= high
    BY <1>3, <2>2
  <2>4. x \in Int
    OBVIOUS
  <2>5. CASE x < low
    <3>1. \A s \in T : x <= s /\ s <= (IF high < x THEN x ELSE high)
      BY <2>3, <2>4, <2>5
    <3> WITNESS x \in Int, (IF high < x THEN x ELSE high) \in Int
    <3> QED BY <3>1
  <2>6. CASE ~(x < low)
    <3>1. \A s \in T : low <= s /\ s <= (IF high < x THEN x ELSE high)
      BY <2>3, <2>4, <2>6
    <3> WITNESS low \in Int, (IF high < x THEN x ELSE high) \in Int
    <3> QED BY <3>1
  <2> QED BY <2>5, <2>6
<1>4. Cardinality(S) \in B
  BY <1>1, <1>2, <1>3, Induction
<1> QED BY <1>4

(* What FiniteSetsExt calls the maximum and the minimum of a set.            *)
LEMMA MaxIsLargest ==
    ASSUME NEW S \in SUBSET Int, S # {}, IsFiniteSet(S)
    PROVE  Max(S) \in S /\ \A s \in S : s <= Max(S)
<1>1. \E s \in S : \A r \in S : s >= r
  BY FiniteIsBounded, Largest
<1> QED BY <1>1 DEF Max

LEMMA MinIsSmallest ==
    ASSUME NEW S \in SUBSET Int, S # {}, IsFiniteSet(S)
    PROVE  Min(S) \in S /\ \A s \in S : Min(S) <= s
<1>1. \E s \in S : \A r \in S : s <= r
  BY FiniteIsBounded, SmallestInt
<1> QED BY <1>1 DEF Min

(* The image of a finite set is finite.                                      *)
LEMMA ImageIsFinite ==
    ASSUME NEW S, IsFiniteSet(S), NEW T, NEW f,
           \A y : y \in T <=> \E x \in S : f[x] = y
    PROVE  IsFiniteSet(T)
<1> DEFINE g == [x \in S |-> f[x]]
<1>1. g \in Surjection(S, T)
  BY DEF Surjection
<1> HIDE DEF g
<1> QED BY <1>1, FS_Surjection

(* Every finite set can be listed in the order of a number                   *)
LEMMA SortedListing ==
    ASSUME NEW S, IsFiniteSet(S), NEW f, \A x \in S : f[x] \in Int
    PROVE  \E order \in [1 .. Cardinality(S) -> S] :
              /\ \A x \in S : \E i \in 1 .. Cardinality(S) : order[i] = x
              /\ \A i, j \in 1 .. Cardinality(S) : i < j => f[order[i]] <= f[order[j]]
<1> DEFINE
      Lists(order, T, n) ==
         /\ order \in [1 .. n -> T]
         /\ \A x \in T : \E i \in 1 .. n : order[i] = x
         /\ \A i, j \in 1 .. n : i < j => f[order[i]] <= f[order[j]]
      B == {n \in Nat : \A T \in SUBSET S : Cardinality(T) = n => \E order : Lists(order, T, n)}
<1>1. \A T \in SUBSET S : IsFiniteSet(T) /\ Cardinality(T) \in Nat
  BY FS_Subset, FS_CardinalityType
<1>2. 0 \in B
  <2>1. \A T \in SUBSET S : Cardinality(T) = 0 => T = {}
    BY <1>1, FS_EmptySet
  <2>2. Lists([i \in 1 .. 0 |-> 0], {}, 0)
    OBVIOUS
  <2> HIDE DEF Lists
  <2> QED BY <2>1, <2>2
<1>3. ASSUME NEW n \in Nat, n \in B
      PROVE  n + 1 \in B
  <2> HIDE DEF Lists
  <2> SUFFICES ASSUME NEW T \in SUBSET S, Cardinality(T) = n + 1
               PROVE  \E order : Lists(order, T, n + 1)
    OBVIOUS
  <2>1. T # {}
    BY FS_EmptySet
  <2>2. PICK m \in T : \A x \in T : f[x] <= f[m]
    <3> DEFINE V == {f[x] : x \in T}
    <3>1. IsFiniteSet(V)
      <4>1. IsFiniteSet(T) /\ \A y : y \in V <=> \E x \in T : f[x] = y
        BY <1>1
      <4> HIDE DEF V
      <4> QED BY <4>1, ImageIsFinite
    <3>2. V \in SUBSET Int /\ V # {}
      BY <2>1
    <3> HIDE DEF V
    <3>3. PICK v \in V : \A w \in V : w <= v
      BY <3>1, <3>2, MaxIsLargest
    <3> QED BY <3>3 DEF V
  <2>3. Cardinality(T \ {m}) = n
    <3>1. IsFiniteSet(T) /\ m \in T
      BY <1>1
    <3>2. Cardinality(T \ {m}) = Cardinality(T) - 1
      <4> HIDE DEF B
      <4> QED BY <3>1, FS_RemoveElement
    <3> QED BY <3>2
  <2>4. PICK order : Lists(order, T \ {m}, n)
    <3>1. T \ {m} \in SUBSET S
      OBVIOUS
    <3> QED BY <1>3, <2>3, <3>1
  <2> DEFINE more == [i \in 1 .. n + 1 |-> IF i = n + 1 THEN m ELSE order[i]]
  <2>5. more[n + 1] = m /\ \A i \in 1 .. n : more[i] = order[i] /\ order[i] \in T
    BY <2>4 DEF Lists
  <2>6. \A i \in 1 .. n + 1 : i \in 1 .. n \/ i = n + 1
    OBVIOUS
  <2>7. more \in [1 .. n + 1 -> T]
    BY <2>5, <2>6
  <2> HIDE DEF more
  <2>8. \A x \in T : \E i \in 1 .. n + 1 : more[i] = x
    <3> SUFFICES ASSUME NEW x \in T, x # m PROVE \E i \in 1 .. n + 1 : more[i] = x
      BY <2>5
    <3>1. PICK i \in 1 .. n : order[i] = x
      BY <2>4 DEF Lists
    <3> QED BY <2>5, <3>1
  <2>9. \A i, j \in 1 .. n + 1 : i < j => f[more[i]] <= f[more[j]]
    <3> SUFFICES ASSUME NEW i \in 1 .. n + 1, NEW j \in 1 .. n + 1, i < j
                 PROVE  f[more[i]] <= f[more[j]]
      OBVIOUS
    <3>1. i \in 1 .. n
      OBVIOUS
    <3>2. CASE j = n + 1
      BY <2>2, <2>5, <3>1, <3>2
    <3>3. CASE j \in 1 .. n
      BY <2>4, <2>5, <3>1, <3>3 DEF Lists
    <3> QED BY <2>6, <3>2, <3>3
  <2> QED BY <2>7, <2>8, <2>9 DEF Lists
<1>4. Cardinality(S) \in B
  <2> HIDE DEF B
  <2>1. Nat \subseteq B
    BY <1>2, <1>3, Induction
  <2> QED BY <1>1, <2>1
<1> QED BY <1>1, <1>4
==================================================================================
