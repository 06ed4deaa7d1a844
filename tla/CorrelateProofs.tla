----------------------------- MODULE CorrelateProofs -----------------------------
(***************************************************************************)
(* Proofs about the correlator.                                            *)
(*                                                                         *)
(* The groups of the sweep are the connected components of the overlap     *)
(* relation in every well-typed state: an invariant of the sweep, proved   *)
(* by induction along the events in their order.  What the incidents say   *)
(* of their events is kept because a correlation that is under way says it *)
(* of the groups it will store (Fits), and a regrouping can be accounted   *)
(* for because those groups hold every event of its window that it could   *)
(* see.  A repeated correlation changes nothing because its window's       *)
(* incidents are the newest ones (Settled) and what it would store is what *)
(* it would find again (Current).                                          *)
(***************************************************************************)
EXTENDS Correlate, InductionLemmas, SequenceTheorems

-----------------------------------------------------------------------------
(* Events and their windows                                                  *)

\* Every event is of a probe, between the first instant and now, and there are
\* finitely many.
LEMMA EventFacts ==
    ASSUME TypeOK
    PROVE  /\ IsFiniteSet(DOMAIN events)
           /\ now \in Nat
           /\ \A k \in DOMAIN events :
                 /\ k.started \in 1 .. now /\ k.probe \in Probes /\ From(k) \in Int
                 /\ events[k] = Ongoing \/ events[k] \in k.started .. now
<1>1. now \in Nat /\ now \in Times
  BY CorrelateConstants DEF TypeOK, Times, CorrelateConstants
<1>2. \A k \in DOMAIN events : k.started \in 1 .. now /\ k.probe \in Probes
  BY DEF TypeOK
<1>3. \A k \in DOMAIN events : From(k) \in Int
  <2> SUFFICES ASSUME NEW k \in DOMAIN events PROVE From(k) \in Int
    OBVIOUS
  <2>1. offset[k.probe] \in Int
    BY <1>2, CorrelateConstants DEF TypeOK, CorrelateConstants
  <2> QED BY <1>2, <2>1, CorrelateConstants DEF From, CorrelateConstants
<1>4. IsFiniteSet(DOMAIN events)
  <2>1. IsFiniteSet(Probes)
    BY CorrelateConstants DEF CorrelateConstants
  <2>2. IsFiniteSet(1 .. now)
    <3>1. 1 \in Int /\ now \in Int
      BY <1>1
    <3> QED BY <3>1, FS_Interval
  <2>3. IsFiniteSet(Probes \X (1 .. now))
    BY <2>1, <2>2, FS_Product
  <2> DEFINE P == Probes \X (1 .. now)
             R == {[probe |-> x[1], started |-> x[2]] : x \in P}
           f == [x \in P |-> [probe |-> x[1], started |-> x[2]]]
  <2>4. IsFiniteSet(R)
    <3>1. IsFiniteSet(P) /\ \A y : y \in R <=> \E x \in P : f[x] = y
      BY <2>3
    <3> HIDE DEF P, R, f
    <3> QED BY <3>1, ImageIsFinite
  <2>5. DOMAIN events \subseteq R
    <3> SUFFICES ASSUME NEW k \in DOMAIN events PROVE k \in R
      OBVIOUS
    <3>1. k \in [probe : Probes, started : 1 .. now]
      BY DEF TypeOK
    <3>2. <<k.probe, k.started>> \in P /\ k = [probe |-> k.probe, started |-> k.started]
      BY <3>1
    <3> QED BY <3>2
  <2> HIDE DEF R
  <2> QED BY <2>4, <2>5, FS_Subset
<1>5. \A k \in DOMAIN events : events[k] = Ongoing \/ events[k] \in k.started .. now
  BY DEF TypeOK
<1> QED BY <1>1, <1>2, <1>3, <1>4, <1>5

\* The latest instant known of the events bounds every window that is still open.
LEMMA EdgeFacts ==
    ASSUME TypeOK, NEW ks \in SUBSET DOMAIN events, ks # {}
    PROVE  /\ Edge(ks) \in Int /\ IsFiniteSet(ks)
           /\ \A k \in ks : /\ Until(k, Edge(ks)) \in Int
                            /\ From(k) <= Until(k, Edge(ks))
<1> DEFINE latest(k) == IF events[k] = Ongoing THEN k.started ELSE events[k]
           L == {latest(k) : k \in ks}
<1>1. /\ \A k \in ks : latest(k) \in Int /\ k.started <= latest(k) /\ k.started \in Int
      /\ \A k \in ks : events[k] = Ongoing \/ (events[k] \in Int /\ k.started <= events[k])
  <2> SUFFICES ASSUME NEW k \in ks
               PROVE  /\ latest(k) \in Int /\ k.started <= latest(k) /\ k.started \in Int
                      /\ events[k] = Ongoing \/ (events[k] \in Int /\ k.started <= events[k])
    OBVIOUS
  <2>1. /\ k.started \in 1 .. now /\ now \in Nat
        /\ events[k] = Ongoing \/ events[k] \in k.started .. now
    BY EventFacts
  <2> QED BY <2>1
<1>2. IsFiniteSet(ks)
  BY EventFacts, FS_Subset
<1>3. IsFiniteSet(L) /\ L \in SUBSET Int /\ L # {}
  <2>1. IsFiniteSet(L)
    <3> DEFINE f == [k \in ks |-> latest(k)]
    <3>1. \A y : y \in L <=> \E k \in ks : f[k] = y
      OBVIOUS
    <3> HIDE DEF L, f
    <3> QED BY <1>2, <3>1, ImageIsFinite
  <2> HIDE DEF latest
  <2> QED BY <1>1, <2>1
<1>4. Edge(ks) = Max(L)
  BY DEF Edge
<1> HIDE DEF L
<1>5. Max(L) \in L /\ \A s \in L : s <= Max(L)
  BY <1>3, MaxIsLargest
<1>6. Edge(ks) \in Int /\ \A k \in ks : latest(k) <= Edge(ks)
  <2>1. \A k \in ks : latest(k) \in L
    BY DEF L
  <2> QED BY <1>3, <1>4, <1>5, <2>1
<1>7. ASSUME NEW k \in ks
      PROVE  Until(k, Edge(ks)) \in Int /\ From(k) <= Until(k, Edge(ks))
  <2>1. offset[k.probe] \in Int /\ Tolerance \in Nat
    <3>1. k.probe \in Probes
      BY EventFacts
    <3> QED BY <3>1, CorrelateConstants DEF TypeOK, CorrelateConstants
  <2>2. k.started \in Int /\ k.started <= latest(k) /\ latest(k) <= Edge(ks) /\ latest(k) \in Int
    BY <1>1, <1>6
  <2> DEFINE edge == Edge(ks)
             end == IF events[k] = Ongoing THEN edge ELSE events[k]
  <2>3. end \in Int /\ k.started <= end
    BY <1>1, <1>6, <2>2
  <2>4. Until(k, edge) = end - offset[k.probe] + Tolerance
    BY DEF Until
  <2>5. From(k) = k.started - offset[k.probe] - Tolerance
    BY DEF From
  <2> HIDE DEF end, edge
  <2>6. Until(k, edge) \in Int /\ From(k) <= Until(k, edge)
    BY <2>1, <2>2, <2>3, <2>4, <2>5
  <2> QED BY <2>6 DEF edge
<1> QED BY <1>2, <1>6, <1>7

\* The order of the sweep is a listing of the events, sorted by their windows.
LEMMA InOrderIs ==
    ASSUME TypeOK, NEW ks \in SUBSET DOMAIN events
    PROVE  /\ Cardinality(ks) \in Nat
           /\ InOrder(ks) \in [1 .. Cardinality(ks) -> ks]
           /\ Len(InOrder(ks)) = Cardinality(ks)
           /\ \A k \in ks : \E i \in 1 .. Cardinality(ks) : InOrder(ks)[i] = k
           /\ \A i, j \in 1 .. Cardinality(ks) :
                 i < j => From(InOrder(ks)[i]) <= From(InOrder(ks)[j])
<1> DEFINE n == Cardinality(ks)
           f == [k \in ks |-> From(k)]
           ByTime(order) == \A i, j \in DOMAIN order : i < j => From(order[i]) <= From(order[j])
<1>1. IsFiniteSet(ks) /\ n \in Nat
  BY EventFacts, FS_Subset, FS_CardinalityType
<1>2. \A k \in ks : f[k] \in Int
  BY EventFacts
<1>3. PICK order \in [1 .. n -> ks] :
         /\ \A k \in ks : \E i \in 1 .. n : order[i] = k
         /\ \A i, j \in 1 .. n : i < j => f[order[i]] <= f[order[j]]
  <2> HIDE DEF f
  <2> QED BY <1>1, <1>2, SortedListing
<1>4. Range(order) = ks
  BY <1>3 DEF Range
<1>5. ByTime(order)
  <2> SUFFICES ASSUME NEW i \in 1 .. n, NEW j \in 1 .. n, i < j
               PROVE  From(order[i]) <= From(order[j])
    OBVIOUS
  <2>1. f[order[i]] <= f[order[j]] /\ order[i] \in ks /\ order[j] \in ks
    BY <1>3
  <2> QED BY <2>1
<1>6. InOrder(ks) = CHOOSE o \in [1 .. n -> ks] : Range(o) = ks /\ ByTime(o)
  BY DEF InOrder
<1> HIDE DEF ByTime
<1>7. InOrder(ks) \in [1 .. n -> ks] /\ Range(InOrder(ks)) = ks /\ ByTime(InOrder(ks))
  BY <1>4, <1>5, <1>6
<1> DEFINE o == InOrder(ks)
<1>8. o \in [1 .. n -> ks] /\ \A k \in ks : \E i \in DOMAIN o : o[i] = k
  BY <1>7 DEF Range
<1> HIDE DEF o
<1>9. DOMAIN o = 1 .. n /\ Len(o) = n
  BY <1>1, <1>8
<1> QED BY <1>1, <1>7, <1>8, <1>9 DEF ByTime, o

-----------------------------------------------------------------------------
(* The sweep as a recursive function; its definition satisfies its equation. *)
NotSwept == [clusters |-> << >>, current |-> {}, end |-> 0]

SweepStep(edge, order, before, i) == Sweep(edge, before, order[i])

SweepTo(edge, order, sweep, n) ==
    sweep = [i \in 0 .. n |->
                IF i = 0 THEN NotSwept ELSE SweepStep(edge, order, sweep[i - 1], i)]

Runs(edge, order, sweep, n) ==
    /\ sweep[0] = NotSwept
    /\ \A i \in 1 .. n : sweep[i] = SweepStep(edge, order, sweep[i - 1], i)

\* The values of the function.
LEMMA SweepValues ==
    ASSUME NEW edge, NEW order, NEW n \in Nat, NEW sweep, SweepTo(edge, order, sweep, n)
    PROVE  Runs(edge, order, sweep, n)
<1>1. \A i \in 0 .. n : sweep[i] = IF i = 0 THEN NotSwept
                                   ELSE SweepStep(edge, order, sweep[i - 1], i)
  BY Zenon DEF SweepTo
<1>2. 0 \in 0 .. n /\ \A i \in 1 .. n : i \in 0 .. n /\ i # 0
  OBVIOUS
<1> QED BY <1>1, <1>2, Zenon DEF Runs

\* There is such a function, whatever the order.
LEMMA SweepExists ==
    ASSUME NEW edge, NEW order
    PROVE  \A n \in Nat : \E sweep : SweepTo(edge, order, sweep, n)
<1> DEFINE S == {n \in Nat : \E sweep : SweepTo(edge, order, sweep, n)}
<1>1. 0 \in S
  <2> DEFINE sweep == [i \in 0 .. 0 |-> NotSwept]
  <2>1. SweepTo(edge, order, sweep, 0)
    BY DEF SweepTo
  <2> QED BY <2>1
<1>2. ASSUME NEW n \in Nat, n \in S
      PROVE  n + 1 \in S
  <2>1. PICK sweep : SweepTo(edge, order, sweep, n)
    BY <1>2
  <2> DEFINE more == [i \in 0 .. n + 1 |->
                         IF i = n + 1 THEN SweepStep(edge, order, sweep[n], n + 1) ELSE sweep[i]]
  <2>2. \A i \in 0 .. n + 1 : more[i] = IF i = 0 THEN NotSwept
                                        ELSE SweepStep(edge, order, more[i - 1], i)
    <3>0. Runs(edge, order, sweep, n)
      BY <2>1, SweepValues
    <3>1. /\ more[n + 1] = SweepStep(edge, order, sweep[n], n + 1)
          /\ \A j \in 0 .. n : more[j] = sweep[j]
      OBVIOUS
    <3> HIDE DEF more
    <3>2. more[0] = NotSwept
      BY <3>0, <3>1 DEF Runs
    <3>3. ASSUME NEW i \in 1 .. n PROVE more[i] = SweepStep(edge, order, more[i - 1], i)
      <4>1. more[i] = sweep[i] /\ more[i - 1] = sweep[i - 1]
        BY <3>1
      <4>2. sweep[i] = SweepStep(edge, order, sweep[i - 1], i)
        BY <3>0 DEF Runs
      <4> QED BY <4>1, <4>2
    <3>4. more[n + 1] = SweepStep(edge, order, more[(n + 1) - 1], n + 1)
      <4>1. (n + 1) - 1 = n /\ more[n] = sweep[n]
        BY <3>1
      <4> QED BY <3>1, <4>1
    <3>5. \A i \in 0 .. n + 1 : i = 0 \/ i \in 1 .. n \/ i = n + 1
      OBVIOUS
    <3> QED BY <3>2, <3>3, <3>4, <3>5
  <2>3. SweepTo(edge, order, more, n + 1)
    <3> HIDE DEF more
    <3>1. DOMAIN more = 0 .. n + 1 /\ more = [i \in DOMAIN more |-> more[i]]
      BY DEF more
    <3> QED BY <2>2, <3>1 DEF SweepTo
  <2> QED BY <2>3
<1>3. Nat \subseteq S
  <2> HIDE DEF S
  <2> QED BY <1>1, <1>2, Induction
<1> QED BY <1>3

\* What was swept is the last of its values.
LEMMA SweptEquation ==
    ASSUME NEW edge, NEW order, Len(order) \in Nat
    PROVE  \E sweep : /\ Runs(edge, order, sweep, Len(order))
                      /\ Swept(edge, order) = sweep[Len(order)]
<1> DEFINE sweep == CHOOSE s : SweepTo(edge, order, s, Len(order))
<1>1. SweepTo(edge, order, sweep, Len(order))
  BY SweepExists
<1>2. Swept(edge, order) = sweep[Len(order)]
  BY Zenon DEF Swept, SweepTo, SweepStep, NotSwept
<1> HIDE DEF sweep
<1>3. Runs(edge, order, sweep, Len(order))
  BY <1>1, SweepValues
<1> QED BY <1>2, <1>3

-----------------------------------------------------------------------------
(* The sweep's invariant                                                     *)
Windows(ks, edge) ==
    \A k \in ks : /\ From(k) \in Int /\ Until(k, edge) \in Int
                  /\ From(k) <= Until(k, edge)

Sorted(ks, order, n) ==
    /\ order \in [1 .. n -> ks]
    /\ \A i, j \in 1 .. n : i < j => From(order[i]) <= From(order[j])

\* No part of the group but is overlapped by the rest of it.
OnePiece(group, edge) ==
    \A part \in (SUBSET group) \ {{}, group} :
        \E j \in part, k \in group \ part : Overlap(j, k, edge)

Before(group, later, edge) ==
    \A j \in group, k \in later : Until(j, edge) < From(k)

LastsTo(group, end, edge) ==
    /\ \A k \in group : Until(k, edge) <= end
    /\ \E m \in group : Until(m, edge) = end

Sweeps(ks) == [clusters : Seq(SUBSET ks), current : SUBSET ks, end : Int]

SweptInv(ks, edge, order, s, i) ==
    /\ s \in Sweeps(ks)
    /\ \A k : (k \in s.current \/ \E c \in 1 .. Len(s.clusters) : k \in s.clusters[c])
                 <=> (\E j \in 1 .. i : order[j] = k)
    /\ i # 0 => LastsTo(s.current, s.end, edge)
    /\ OnePiece(s.current, edge)
    /\ \A c \in 1 .. Len(s.clusters) :
          /\ s.clusters[c] # {} /\ OnePiece(s.clusters[c], edge)
          /\ Before(s.clusters[c], s.current, edge)
    /\ \A c, d \in 1 .. Len(s.clusters) :
          c < d => Before(s.clusters[c], s.clusters[d], edge)

\* The running end is the later of two.
LEMMA MaxOfTwo ==
    ASSUME NEW a \in Int, NEW b \in Int
    PROVE  Max({a, b}) \in {a, b} /\ a <= Max({a, b}) /\ b <= Max({a, b})
<1> DEFINE S == {a, b}
<1>1. IsFiniteSet(S)
  <2>1. IsFiniteSet({a}) /\ S = {a} \cup {b}
    BY FS_Singleton
  <2> HIDE DEF S
  <2>2. IsFiniteSet({a} \cup {b})
    BY <2>1, FS_AddElement
  <2> QED BY <2>1, <2>2
<1>2. S \in SUBSET Int /\ S # {}
  OBVIOUS
<1>3. a \in S /\ b \in S
  OBVIOUS
<1> HIDE DEF S
<1>4. Max(S) \in S /\ \A s \in S : s <= Max(S)
  BY <1>1, <1>2, MaxIsLargest
<1> QED BY <1>3, <1>4 DEF S

\* An event that overlaps one of a group's joins it in one piece.
LEMMA Joins ==
    ASSUME NEW group, NEW k, NEW edge, NEW m \in group,
           OnePiece(group, edge), Overlap(m, k, edge)
    PROVE  OnePiece(group \cup {k}, edge)
<1> DEFINE more == group \cup {k}
<1> SUFFICES ASSUME NEW part \in (SUBSET more) \ {{}, more}
             PROVE  \E j \in part, l \in more \ part : Overlap(j, l, edge)
  BY Zenon DEF OnePiece
<1>1. Overlap(k, m, edge)
  BY DEF Overlap
<1>2. CASE k \in part /\ m \notin part
  BY <1>1, <1>2
<1>3. CASE k \notin part /\ m \in part
  BY <1>3
<1>4. CASE k \in part <=> m \in part
  <2> DEFINE old == part \cap group
  <2>1. old \in (SUBSET group) \ {{}, group}
    BY <1>4
  <2>2. PICK j \in old, l \in group \ old : Overlap(j, l, edge)
    BY <2>1 DEF OnePiece
  <2> QED BY <2>2
<1> QED BY <1>2, <1>3, <1>4

\* One event is in one piece.
LEMMA Alone ==
    ASSUME NEW k, NEW edge
    PROVE  OnePiece({k}, edge)
BY DEF OnePiece

\* The first event is a group of its own.
LEMMA SweepFirst ==
    ASSUME NEW ks, NEW edge \in Int, NEW n \in Nat, NEW order,
           Windows(ks, edge), Sorted(ks, order, n), 1 \in 1 .. n
    PROVE  SweptInv(ks, edge, order, Sweep(edge, NotSwept, order[1]), 1)
<1> DEFINE k == order[1]
           s == [clusters |-> << >>, current |-> {k}, end |-> Until(k, edge)]
<1>1. k \in ks
  BY DEF Sorted
<1>2. Sweep(edge, NotSwept, k) = s
  BY DEF Sweep, NotSwept
<1>3. Until(k, edge) \in Int
  BY <1>1 DEF Windows
<1>4. << >> \in Seq(SUBSET ks) /\ Len(<< >>) = 0
  OBVIOUS
<1>5. s \in Sweeps(ks)
  BY <1>1, <1>3, <1>4 DEF Sweeps
<1>6. s.clusters = << >> /\ s.current = {k} /\ s.end = Until(k, edge)
  OBVIOUS
<1>7. \A c \in 1 .. Len(s.clusters) : FALSE
  BY <1>4, <1>6
<1>8. LastsTo(s.current, s.end, edge)
  BY <1>3, <1>6 DEF LastsTo
<1>9. \A l : (l \in s.current \/ \E c \in 1 .. Len(s.clusters) : l \in s.clusters[c])
                <=> (\E j \in 1 .. 1 : order[j] = l)
  <2> HIDE DEF s
  <2> QED BY <1>6, <1>7
<1>10. OnePiece(s.current, edge)
  BY <1>6, Alone
<1> HIDE DEF s
<1>11. SweptInv(ks, edge, order, s, 1)
  BY <1>5, <1>7, <1>8, <1>9, <1>10 DEF SweptInv
<1> QED BY <1>2, <1>11

\* The next event overlaps the current group, or begins another one.
Joined(edge, s, k) == [clusters |-> s.clusters, current |-> s.current \cup {k},
                       end |-> Max({s.end, Until(k, edge)})]

Broken(edge, s, k) == [clusters |-> Append(s.clusters, s.current),
                       current |-> {k}, end |-> Until(k, edge)]

LEMMA SweepCases ==
    ASSUME NEW ks, NEW edge, NEW s \in Sweeps(ks), NEW k, s.current # {}
    PROVE  /\ From(k) <= s.end => Sweep(edge, s, k) = Joined(edge, s, k)
           /\ ~(From(k) <= s.end) => Sweep(edge, s, k) = Broken(edge, s, k)
<1> DEFINE A == [s EXCEPT !.current = @ \cup {k}, !.end = Max({@, Until(k, edge)})]
           C == [s EXCEPT !.current = {k}, !.end = Until(k, edge)]
<1>1. Sweep(edge, s, k) = CASE s.current = {} -> C
                            [] s.current # {} /\ From(k) <= s.end -> A
                            [] OTHER -> Broken(edge, s, k)
  BY Zenon DEF Sweep, Broken
<1>2. A = Joined(edge, s, k)
  <2> DEFINE current == s.current \cup {k}
             end == Max({s.end, Until(k, edge)})
  <2>1. A = [s EXCEPT !.current = current, !.end = end]
    OBVIOUS
  <2>2. Joined(edge, s, k) = [clusters |-> s.clusters, current |-> current, end |-> end]
    BY DEF Joined
  <2> HIDE DEF A, current, end
  <2>3. PICK a, b, e : s = [clusters |-> a, current |-> b, end |-> e]
    BY DEF Sweeps
  <2>4. A = [clusters |-> a, current |-> current, end |-> end]
    BY <2>1, <2>3
  <2>5. s.clusters = a
    BY <2>3
  <2> QED BY <2>2, <2>4, <2>5
<1> HIDE DEF A, C
<1>3. From(k) <= s.end => Sweep(edge, s, k) = A
  BY <1>1
<1>4. ~(From(k) <= s.end) => Sweep(edge, s, k) = Broken(edge, s, k)
  BY <1>1
<1> QED BY <1>2, <1>3, <1>4

\* An event that overlaps the group joins it, and the sweep's invariant holds.
LEMMA SweepJoins ==
    ASSUME NEW ks, NEW edge \in Int, NEW n \in Nat, NEW order, NEW s, NEW i \in 1 .. n - 1,
           Windows(ks, edge), Sorted(ks, order, n),
           SweptInv(ks, edge, order, s, i), From(order[i + 1]) <= s.end
    PROVE  SweptInv(ks, edge, order, Sweep(edge, s, order[i + 1]), i + 1)
<1> DEFINE k == order[i + 1]
           end == Max({s.end, Until(k, edge)})
           t == [clusters |-> s.clusters, current |-> s.current \cup {k}, end |-> end]
<1>0. i + 1 \in 1 .. n /\ i # 0
  OBVIOUS
<1>1. k \in ks /\ From(k) \in Int /\ Until(k, edge) \in Int /\ From(k) <= Until(k, edge)
  BY <1>0 DEF Sorted, Windows
<1>2. /\ s \in Sweeps(ks) /\ s.end \in Int /\ s.clusters \in Seq(SUBSET ks)
      /\ s.current \in SUBSET ks
  BY DEF SweptInv, Sweeps
<1>3. LastsTo(s.current, s.end, edge)
  BY <1>0 DEF SweptInv
<1>4. PICK m \in s.current : Until(m, edge) = s.end
  BY <1>3 DEF LastsTo
<1>5. Sweep(edge, s, k) = t
  <2>1. From(k) <= s.end /\ s.current # {} /\ s \in Sweeps(ks)
    BY <1>2, <1>4
  <2> HIDE DEF k
  <2>2. Sweep(edge, s, k) = Joined(edge, s, k)
    BY <2>1, SweepCases
  <2> QED BY <2>2 DEF Joined
<1>6. end \in {s.end, Until(k, edge)} /\ s.end <= end /\ Until(k, edge) <= end
  BY <1>1, <1>2, MaxOfTwo
<1> HIDE DEF end
<1>7. t \in Sweeps(ks)
  BY <1>1, <1>2, <1>6 DEF Sweeps
<1>8. t.clusters = s.clusters /\ t.current = s.current \cup {k} /\ t.end = end
  OBVIOUS
<1>9. PICK j \in 1 .. i : order[j] = m
  BY <1>4 DEF SweptInv
<1>10. From(m) <= From(k) /\ From(m) \in Int
  <2>1. j \in 1 .. n /\ j < i + 1
    BY <1>9
  <2> QED BY <1>0, <1>9, <2>1 DEF Sorted, Windows
<1> HIDE DEF t
<1>11. OnePiece(t.current, edge)
  <2>1. Overlap(m, k, edge)
    BY <1>1, <1>4, <1>10 DEF Overlap
  <2>2. OnePiece(s.current, edge)
    BY DEF SweptInv
  <2>3. OnePiece(s.current \cup {k}, edge)
    BY <1>4, <2>1, <2>2, Joins
  <2> QED BY <1>8, <2>3
<1>12. LastsTo(t.current, t.end, edge)
  <2>1. ASSUME NEW l \in t.current PROVE Until(l, edge) <= end
    <3>1. CASE l \in s.current
      <4>1. Until(l, edge) <= s.end
        BY <1>3, <3>1 DEF LastsTo
      <4>2. Until(l, edge) \in Int
        BY <1>2, <3>1 DEF Windows
      <4> QED BY <1>2, <1>6, <1>1, <4>1, <4>2
    <3>2. CASE l = k
      BY <1>6, <3>2
    <3> QED BY <1>8, <3>1, <3>2
  <2>2. \E l \in t.current : Until(l, edge) = end
    BY <1>4, <1>6, <1>8
  <2> QED BY <1>8, <2>1, <2>2 DEF LastsTo
<1>13. ASSUME NEW c \in 1 .. Len(s.clusters)
       PROVE  /\ s.clusters[c] # {} /\ OnePiece(s.clusters[c], edge)
              /\ Before(s.clusters[c], t.current, edge)
  <2>1. /\ s.clusters[c] # {} /\ OnePiece(s.clusters[c], edge)
        /\ Before(s.clusters[c], s.current, edge)
    BY DEF SweptInv
  <2>2. s.clusters[c] \in SUBSET ks
    BY <1>2, ElementOfSeq
  <2>3. ASSUME NEW l \in s.clusters[c] PROVE Until(l, edge) < From(k)
    <3>1. Until(l, edge) < From(m)
      BY <1>4, <2>1 DEF Before
    <3>2. Until(l, edge) \in Int
      BY <2>2 DEF Windows
    <3> QED BY <1>1, <1>10, <3>1, <3>2
  <2> QED BY <1>8, <2>1, <2>3 DEF Before
<1>14. \A l : (l \in t.current \/ \E c \in 1 .. Len(t.clusters) : l \in t.clusters[c])
                 <=> (\E h \in 1 .. i + 1 : order[h] = l)
  <2>1. \A l : (l \in s.current \/ \E c \in 1 .. Len(s.clusters) : l \in s.clusters[c])
                  <=> (\E h \in 1 .. i : order[h] = l)
    BY Zenon DEF SweptInv
  <2>2. \A h : h \in 1 .. i + 1 <=> (h \in 1 .. i \/ h = i + 1)
    OBVIOUS
  <2> QED BY <1>8, <2>1, <2>2, Zenon
<1>15. \A c, d \in 1 .. Len(s.clusters) :
          c < d => Before(s.clusters[c], s.clusters[d], edge)
  BY Zenon DEF SweptInv
<1>16. SweptInv(ks, edge, order, t, i + 1)
  BY <1>7, <1>8, <1>11, <1>12, <1>13, <1>14, <1>15, Zenon DEF SweptInv
<1> QED BY <1>5, <1>16

\* An event that begins after the group's end closes it for good: what comes
\* later begins later still.
LEMMA SweepBreaks ==
    ASSUME NEW ks, NEW edge \in Int, NEW n \in Nat, NEW order, NEW s, NEW i \in 1 .. n - 1,
           Windows(ks, edge), Sorted(ks, order, n),
           SweptInv(ks, edge, order, s, i), ~(From(order[i + 1]) <= s.end)
    PROVE  SweptInv(ks, edge, order, Sweep(edge, s, order[i + 1]), i + 1)
<1> DEFINE k == order[i + 1]
           clusters == Append(s.clusters, s.current)
           t == [clusters |-> clusters, current |-> {k}, end |-> Until(k, edge)]
           m == Len(s.clusters)
<1>0. i + 1 \in 1 .. n /\ i # 0
  OBVIOUS
<1>1. k \in ks /\ From(k) \in Int /\ Until(k, edge) \in Int
  BY <1>0 DEF Sorted, Windows
<1>2. /\ s \in Sweeps(ks) /\ s.end \in Int /\ s.clusters \in Seq(SUBSET ks)
      /\ s.current \in SUBSET ks
  BY DEF SweptInv, Sweeps
<1>3. LastsTo(s.current, s.end, edge) /\ s.current # {}
  BY <1>0 DEF SweptInv, LastsTo
<1>4. Sweep(edge, s, k) = t
  <2>1. ~(From(k) <= s.end) /\ s.current # {} /\ s \in Sweeps(ks)
    BY <1>2, <1>3
  <2> HIDE DEF k
  <2>2. Sweep(edge, s, k) = Broken(edge, s, k)
    BY <2>1, SweepCases
  <2> QED BY <2>2 DEF Broken
<1>5. /\ clusters \in Seq(SUBSET ks) /\ m \in Nat /\ Len(clusters) = m + 1
      /\ clusters[m + 1] = s.current
      /\ \A c \in 1 .. m : clusters[c] = s.clusters[c]
  BY <1>2
<1>6. \A c : c \in 1 .. Len(clusters) <=> (c \in 1 .. m \/ c = m + 1)
  BY <1>5
<1> HIDE DEF clusters
<1>7. t \in Sweeps(ks)
  BY <1>1, <1>5 DEF Sweeps
<1>8. t.clusters = clusters /\ t.current = {k} /\ t.end = Until(k, edge)
  OBVIOUS
<1> HIDE DEF t
<1>9. Before(s.current, {k}, edge)
  <2> SUFFICES ASSUME NEW l \in s.current PROVE Until(l, edge) < From(k)
    BY DEF Before
  <2>1. Until(l, edge) <= s.end /\ Until(l, edge) \in Int
    BY <1>2, <1>3 DEF LastsTo, Windows
  <2> QED BY <1>1, <1>2, <2>1
<1>10. ASSUME NEW c \in 1 .. m PROVE Before(s.clusters[c], {k}, edge)
  <2> SUFFICES ASSUME NEW l \in s.clusters[c] PROVE Until(l, edge) < From(k)
    BY DEF Before
  <2>1. PICK j \in s.current : TRUE
    BY <1>3
  <2>2. Until(l, edge) < From(j)
    BY <2>1 DEF SweptInv, Before
  <2>3. Until(j, edge) < From(k)
    BY <1>9, <2>1 DEF Before
  <2>4. /\ From(j) \in Int /\ Until(j, edge) \in Int /\ From(j) <= Until(j, edge)
        /\ Until(l, edge) \in Int
    <3>1. s.clusters[c] \in SUBSET ks
      BY <1>2, ElementOfSeq
    <3> QED BY <1>2, <2>1, <3>1 DEF Windows
  <2> QED BY <1>1, <2>2, <2>3, <2>4
<1>11. ASSUME NEW c \in 1 .. Len(clusters)
       PROVE  /\ clusters[c] # {} /\ OnePiece(clusters[c], edge)
              /\ Before(clusters[c], {k}, edge)
  <2>1. CASE c = m + 1
    <3>1. OnePiece(s.current, edge)
      BY DEF SweptInv
    <3> QED BY <1>3, <1>5, <1>9, <2>1, <3>1
  <2>2. CASE c \in 1 .. m
    <3>1. s.clusters[c] # {} /\ OnePiece(s.clusters[c], edge)
      BY <2>2 DEF SweptInv
    <3> QED BY <1>5, <1>10, <2>2, <3>1
  <2> QED BY <1>6, <2>1, <2>2
<1>12. ASSUME NEW c \in 1 .. Len(clusters), NEW d \in 1 .. Len(clusters), c < d
       PROVE  Before(clusters[c], clusters[d], edge)
  <2>1. c \in 1 .. m
    BY <1>5, <1>12
  <2>2. CASE d = m + 1
    <3>1. Before(s.clusters[c], s.current, edge)
      BY <2>1 DEF SweptInv
    <3> QED BY <1>5, <2>1, <2>2, <3>1
  <2>3. CASE d \in 1 .. m
    <3>1. Before(s.clusters[c], s.clusters[d], edge)
      BY <1>12, <2>1, <2>3 DEF SweptInv
    <3> QED BY <1>5, <2>1, <2>3, <3>1
  <2> QED BY <1>6, <2>2, <2>3
<1>13. \A l : (l \in {k} \/ \E c \in 1 .. Len(clusters) : l \in clusters[c])
                 <=> (\E h \in 1 .. i + 1 : order[h] = l)
  <2>1. \A l : (l \in s.current \/ \E c \in 1 .. m : l \in s.clusters[c])
                  <=> (\E h \in 1 .. i : order[h] = l)
    BY Zenon DEF SweptInv
  <2>2. \A h : h \in 1 .. i + 1 <=> (h \in 1 .. i \/ h = i + 1)
    OBVIOUS
  <2>3. \A l : (\E c \in 1 .. Len(clusters) : l \in clusters[c])
                  <=> (l \in s.current \/ \E c \in 1 .. m : l \in s.clusters[c])
    BY <1>5, <1>6, Zenon
  <2> QED BY <2>1, <2>2, <2>3, Zenon
<1>14. LastsTo({k}, Until(k, edge), edge)
  BY <1>1 DEF LastsTo
<1>15. OnePiece({k}, edge)
  BY Alone
<1>16. SweptInv(ks, edge, order, t, i + 1)
  <2>1. LastsTo(t.current, t.end, edge) /\ OnePiece(t.current, edge)
    BY <1>8, <1>14, <1>15
  <2>2. \A c \in 1 .. Len(t.clusters) :
          /\ t.clusters[c] # {} /\ OnePiece(t.clusters[c], edge)
          /\ Before(t.clusters[c], t.current, edge)
    BY <1>8, <1>11, Zenon
  <2>3. \A c, d \in 1 .. Len(t.clusters) :
          c < d => Before(t.clusters[c], t.clusters[d], edge)
    BY <1>8, <1>12, Zenon
  <2>4. \A l : (l \in t.current \/ \E c \in 1 .. Len(t.clusters) : l \in t.clusters[c])
                 <=> (\E h \in 1 .. i + 1 : order[h] = l)
    BY <1>8, <1>13, Zenon
  <2> QED BY <1>7, <2>1, <2>2, <2>3, <2>4, Zenon DEF SweptInv
<1> QED BY <1>4, <1>16

\* So it holds of the whole sweep.
LEMMA SweepKeepsInv ==
    ASSUME NEW ks, NEW edge \in Int, NEW n \in Nat, NEW order,
           Windows(ks, edge), Sorted(ks, order, n), Len(order) = n, n # 0
    PROVE  SweptInv(ks, edge, order, Swept(edge, order), n)
<1>0. PICK sweep : /\ Runs(edge, order, sweep, Len(order))
                   /\ Swept(edge, order) = sweep[Len(order)]
  BY SweptEquation
<1>1. /\ sweep[0] = NotSwept
      /\ \A i \in 1 .. Len(order) : sweep[i] = SweepStep(edge, order, sweep[i - 1], i)
      /\ Swept(edge, order) = sweep[Len(order)]
  BY <1>0 DEF Runs
<1> DEFINE inv(i) == SweptInv(ks, edge, order, sweep[i], i)
           S == {i \in 0 .. n : i = 0 \/ inv(i)}
<1>2. ASSUME NEW i \in 0 .. n, i # n, i \in S
      PROVE  i + 1 \in S
  <2>1. i + 1 \in 1 .. n /\ (i + 1) - 1 = i
    BY <1>2
  <2>2. sweep[i + 1] = Sweep(edge, sweep[i], order[i + 1])
    BY <1>1, <2>1 DEF SweepStep
  <2>3. CASE i = 0
    <3>1. sweep[1] = Sweep(edge, NotSwept, order[1]) /\ 1 \in 1 .. n
      BY <1>1, <2>1, <2>2, <2>3
    <3>2. SweptInv(ks, edge, order, Sweep(edge, NotSwept, order[1]), 1)
      BY <3>1, SweepFirst
    <3> QED BY <2>1, <2>3, <3>1, <3>2
  <2>4. CASE i # 0
    <3>1. i \in 1 .. n - 1
      BY <1>2, <2>4
    <3>2. inv(i)
      BY <1>2, <2>4
    <3> DEFINE s == sweep[i]
    <3>3. SweptInv(ks, edge, order, s, i)
      BY <3>2
    <3> HIDE DEF s, inv
    <3>4. SweptInv(ks, edge, order, Sweep(edge, s, order[i + 1]), i + 1)
      BY <3>1, <3>3, SweepJoins, SweepBreaks
    <3>5. inv(i + 1)
      BY <2>2, <3>4 DEF inv, s
    <3> QED BY <2>1, <3>5
  <2> QED BY <2>3, <2>4
<1>3. 0 \in S
  OBVIOUS
<1>4. n \in S
  <2> HIDE DEF S
  <2>1. 0 .. n \subseteq S
    BY <1>2, <1>3, InductionUpTo
  <2> QED BY <2>1
<1> QED BY <1>1, <1>4

\* What the groups are, whatever set of events was loaded.
LEMMA ClustersAre ==
    ASSUME TypeOK, NEW ks \in SUBSET DOMAIN events
    PROVE  /\ Clusters(ks) \in Seq(SUBSET ks)
           /\ \A c \in 1 .. Len(Clusters(ks)) :
                 Clusters(ks)[c] # {} /\ OnePiece(Clusters(ks)[c], Edge(ks))
           /\ \A c, d \in 1 .. Len(Clusters(ks)) :
                 c < d => Before(Clusters(ks)[c], Clusters(ks)[d], Edge(ks))
           /\ \A k \in ks : \E c \in 1 .. Len(Clusters(ks)) : k \in Clusters(ks)[c]
<1>1. CASE ks = {}
  <2>1. Clusters(ks) = << >>
    BY <1>1, Zenon DEF Clusters
  <2> DEFINE clusters == Clusters(ks)
  <2>2. clusters \in Seq(SUBSET ks) /\ Len(clusters) = 0
    BY <2>1
  <2> HIDE DEF clusters
  <2>3. \A c : c \notin 1 .. Len(clusters)
    BY <2>2
  <2>4. /\ clusters \in Seq(SUBSET ks)
        /\ \A c \in 1 .. Len(clusters) : clusters[c] # {} /\ OnePiece(clusters[c], Edge(ks))
        /\ \A c, d \in 1 .. Len(clusters) : c < d => Before(clusters[c], clusters[d], Edge(ks))
        /\ \A k \in ks : \E c \in 1 .. Len(clusters) : k \in clusters[c]
    BY <1>1, <2>2, <2>3
  <2> QED BY <2>4 DEF clusters
<1>2. CASE ks # {}
  <2> DEFINE edge == Edge(ks)
             order == InOrder(ks)
             n == Cardinality(ks)
             s == Swept(edge, order)
             clusters == Append(s.clusters, s.current)
             m == Len(s.clusters)
  <2>1. edge \in Int /\ Windows(ks, edge)
    <3>1. Edge(ks) \in Int /\ \A k \in ks : /\ Until(k, Edge(ks)) \in Int
                                            /\ From(k) <= Until(k, Edge(ks))
      BY <1>2, EdgeFacts
    <3>2. \A k \in ks : From(k) \in Int
      BY EventFacts
    <3> QED BY <3>1, <3>2 DEF Windows
  <2>2. /\ n \in Nat /\ Sorted(ks, order, n) /\ Len(order) = n
        /\ \A k \in ks : \E i \in 1 .. n : order[i] = k
    BY InOrderIs DEF Sorted
  <2>3. n # 0
    <3>1. PICK k \in ks : TRUE
      BY <1>2
    <3>2. PICK i \in 1 .. n : order[i] = k
      BY <2>2
    <3> QED BY <2>2, <3>2
  <2>4. Clusters(ks) = clusters
    BY <1>2, Zenon DEF Clusters
  <2> HIDE DEF edge, order, n, s
  <2>5. SweptInv(ks, edge, order, s, n)
    BY <2>1, <2>2, <2>3, SweepKeepsInv DEF s
  <2>6. s.clusters \in Seq(SUBSET ks) /\ s.current \in SUBSET ks
    BY <2>5 DEF SweptInv, Sweeps
  <2>7. /\ clusters \in Seq(SUBSET ks) /\ m \in Nat /\ Len(clusters) = m + 1
        /\ clusters[m + 1] = s.current
        /\ \A c \in 1 .. m : clusters[c] = s.clusters[c]
    BY <2>6
  <2>8. \A c : c \in 1 .. Len(clusters) <=> (c \in 1 .. m \/ c = m + 1)
    BY <2>7
  <2> HIDE DEF clusters
  <2>9. /\ \A c \in 1 .. m : /\ s.clusters[c] # {} /\ OnePiece(s.clusters[c], edge)
                             /\ Before(s.clusters[c], s.current, edge)
        /\ \A c, d \in 1 .. m : c < d => Before(s.clusters[c], s.clusters[d], edge)
        /\ s.current # {} /\ OnePiece(s.current, edge)
    BY <2>3, <2>5 DEF SweptInv, LastsTo
  <2>10. ASSUME NEW c \in 1 .. Len(clusters)
         PROVE  clusters[c] # {} /\ OnePiece(clusters[c], edge)
    <3>1. CASE c = m + 1
      BY <2>7, <2>9, <3>1
    <3>2. CASE c \in 1 .. m
      BY <2>7, <2>9, <3>2
    <3> QED BY <2>8, <3>1, <3>2
  <2>11. ASSUME NEW c \in 1 .. Len(clusters), NEW d \in 1 .. Len(clusters), c < d
         PROVE  Before(clusters[c], clusters[d], edge)
    <3>1. c \in 1 .. m
      BY <2>7, <2>11
    <3>2. CASE d = m + 1
      BY <2>7, <2>9, <3>1, <3>2
    <3>3. CASE d \in 1 .. m
      BY <2>7, <2>9, <2>11, <3>1, <3>3
    <3> QED BY <2>8, <3>2, <3>3
  <2>12. ASSUME NEW k \in ks
         PROVE  \E c \in 1 .. Len(clusters) : k \in clusters[c]
    <3>1. \E j \in 1 .. n : order[j] = k
      BY <2>2
    <3>2. k \in s.current \/ \E c \in 1 .. m : k \in s.clusters[c]
      BY <2>5, <3>1, Zenon DEF SweptInv
    <3> QED BY <2>7, <2>8, <3>2, Zenon
  <2> QED BY <2>4, <2>7, <2>10, <2>11, <2>12 DEF edge
<1> QED BY <1>1, <1>2

-----------------------------------------------------------------------------
(* The groups are the connected components of the overlap relation, in       *)
(* every state that is well typed.                                           *)
LEMMA TypedComponents ==
    ASSUME TypeOK
    PROVE  ClustersAreComponents
<1> DEFINE ks == DOMAIN events
           edge == Edge(ks)
           clusters == Clusters(ks)
           R == Range(clusters)
           n == Len(clusters)
<1> DEFINE apart(e, cs) == \A c, d \in cs : c # d =>
                              \A j \in c, k \in d : j # k /\ ~Overlap(j, k, e)
           whole(e, cs) == \A c \in cs : \A part \in (SUBSET c) \ {{}, c} :
                              \E j \in part, k \in c \ part : Overlap(j, k, e)
<1> SUFFICES ASSUME events # << >>
             PROVE  /\ UNION R = ks /\ {} \notin R
                    /\ apart(edge, R) /\ whole(edge, R)
  <2>1. ClustersAreComponents <=>
           (events # << >> =>
              \A e \in {Edge(DOMAIN events)}, cs \in {Range(Clusters(DOMAIN events))} :
                 UNION cs = DOMAIN events /\ {} \notin cs /\ apart(e, cs) /\ whole(e, cs))
    BY DEF ClustersAreComponents
  <2> HIDE DEF apart, whole
  <2> QED BY <2>1
<1>0. ks \in SUBSET DOMAIN events /\ ks # {}
  OBVIOUS
<1> HIDE DEF ks
<1>1. /\ clusters \in Seq(SUBSET ks)
      /\ \A c \in 1 .. n : clusters[c] # {} /\ OnePiece(clusters[c], edge)
      /\ \A c, d \in 1 .. n : c < d => Before(clusters[c], clusters[d], edge)
      /\ \A k \in ks : \E c \in 1 .. n : k \in clusters[c]
  BY <1>0, ClustersAre
<1>2. /\ edge \in Int
      /\ \A k \in ks : /\ From(k) \in Int /\ Until(k, edge) \in Int
                       /\ From(k) <= Until(k, edge)
  <2>1. Edge(ks) \in Int /\ \A k \in ks : /\ Until(k, Edge(ks)) \in Int
                                          /\ From(k) <= Until(k, Edge(ks))
    BY <1>0, EdgeFacts
  <2>2. \A k \in ks : From(k) \in Int
    BY <1>0, EventFacts
  <2> QED BY <2>1, <2>2
<1> HIDE DEF edge, clusters
<1>3. /\ n \in Nat /\ \A c \in R : \E i \in 1 .. n : c = clusters[i]
      /\ \A i \in 1 .. n : clusters[i] \in R /\ clusters[i] \in SUBSET ks
  BY <1>1 DEF Range
<1> HIDE DEF R
<1>4. UNION R = ks
  BY <1>1, <1>3
<1>5. {} \notin R
  BY <1>1, <1>3
<1>6. ASSUME NEW i \in 1 .. n, NEW h \in 1 .. n, i < h,
             NEW j \in clusters[i], NEW k \in clusters[h]
      PROVE  j # k /\ ~Overlap(j, k, edge) /\ ~Overlap(k, j, edge)
  <2>1. Until(j, edge) < From(k)
    BY <1>1, <1>6 DEF Before
  <2>2. /\ From(j) \in Int /\ Until(j, edge) \in Int /\ From(j) <= Until(j, edge)
        /\ From(k) \in Int
    BY <1>2, <1>3
  <2> QED BY <2>1, <2>2 DEF Overlap
<1>7. ASSUME NEW c \in R, NEW d \in R, c # d, NEW j \in c, NEW k \in d
      PROVE  j # k /\ ~Overlap(j, k, edge)
  <2>1. PICK i \in 1 .. n : c = clusters[i]
    BY <1>3
  <2>2. PICK h \in 1 .. n : d = clusters[h]
    BY <1>3
  <2>3. CASE i < h
    BY <1>6, <2>1, <2>2, <2>3
  <2>4. CASE h < i
    BY <1>6, <2>1, <2>2, <2>4
  <2>5. i < h \/ h < i
    BY <1>3, <1>7, <2>1, <2>2
  <2> QED BY <2>3, <2>4, <2>5
<1>8. ASSUME NEW c \in R
      PROVE  \A part \in (SUBSET c) \ {{}, c} :
                \E j \in part, k \in c \ part : Overlap(j, k, edge)
  <2>1. OnePiece(c, edge)
    BY <1>1, <1>3
  <2> QED BY <2>1, Zenon DEF OnePiece
<1>9. apart(edge, R)
  BY <1>7
<1>10. whole(edge, R)
  BY <1>8
<1> QED BY <1>4, <1>5, <1>9, <1>10

-----------------------------------------------------------------------------
(* The inductive invariant                                                   *)
Incident == [started : Times, ended : {Ongoing} \cup Times, scope : Scopes,
             probes : 1 .. Cardinality(Probes)]

ProbesOf(ks) == {k.probe : k \in ks}

Under(found) ==
    [from : Int, to : Int, clusters : Seq(SUBSET found), classified : Seq(Incident),
     unseen : SUBSET found, fresh : BOOLEAN]

\* What a correlation has loaded and will store.
Fits(u, found) ==
    /\ Len(u.classified) = Len(u.clusters)
    /\ \A i \in 1 .. Len(u.clusters) :
          /\ \A k \in u.clusters[i] :
                u.classified[i].started <= k.started /\ k.started <= u.to
          /\ Cardinality(ProbesOf(u.clusters[i])) <= u.classified[i].probes
    /\ \A k \in found \ u.unseen : u.from <= k.started /\ k.started <= u.to =>
          \E i \in 1 .. Len(u.clusters) : k \in u.clusters[i]

UnderWay(u, found) ==
    u \in Under(found) /\ Fits(u, found) /\ (u # Idle => 1 <= u.to)

Correlating == {c \in Correlators : under[c] # Idle}

Within(stored, cs) == IsFiniteSet(cs) /\ stored + Cardinality(cs) <= MaxCorrelations

Inv ==
    /\ TypeOK
    /\ DOMAIN offset = Probes
    /\ nextIncident \in Nat \ {0}
    /\ DOMAIN under = Correlators
    /\ \A c \in Correlators : UnderWay(under[c], DOMAIN events)
    /\ Within(correlations, Correlating)
    /\ MembersFit

-----------------------------------------------------------------------------
(* Sets of events                                                            *)
LEMMA ProbesOfFinite ==
    ASSUME TypeOK, NEW ks \in SUBSET DOMAIN events
    PROVE  /\ ProbesOf(ks) \in SUBSET Probes /\ IsFiniteSet(ProbesOf(ks))
           /\ Cardinality(ProbesOf(ks)) \in Nat
           /\ Cardinality(ProbesOf(ks)) <= Cardinality(Probes)
           /\ ks # {} => Cardinality(ProbesOf(ks)) # 0
<1> DEFINE P == ProbesOf(ks)
<1>1. P \in SUBSET Probes /\ (ks # {} => P # {})
  BY EventFacts DEF ProbesOf
<1>2. IsFiniteSet(Probes)
  BY CorrelateConstants DEF CorrelateConstants
<1> HIDE DEF P
<1>3. IsFiniteSet(P) /\ Cardinality(P) <= Cardinality(Probes)
  BY <1>1, <1>2, FS_Subset
<1>4. Cardinality(P) \in Nat
  BY <1>3, FS_CardinalityType
<1>5. P # {} => Cardinality(P) # 0
  BY <1>3, FS_EmptySet
<1> QED BY <1>1, <1>3, <1>4, <1>5 DEF P

\* And no more than those of more events.
LEMMA FewerProbes ==
    ASSUME TypeOK, NEW ks \in SUBSET DOMAIN events, NEW fewer \in SUBSET ks
    PROVE  Cardinality(ProbesOf(fewer)) <= Cardinality(ProbesOf(ks))
<1> DEFINE P == ProbesOf(ks)
           Q == ProbesOf(fewer)
<1>1. Q \in SUBSET P
  BY DEF ProbesOf
<1>2. IsFiniteSet(P)
  BY ProbesOfFinite
<1> HIDE DEF P, Q
<1>3. Cardinality(Q) <= Cardinality(P)
  BY <1>1, <1>2, FS_Subset
<1> QED BY <1>3 DEF P, Q

\* What is said of a group.
LEMMA ClassifyFits ==
    ASSUME TypeOK, NEW ks \in SUBSET DOMAIN events, ks # {}
    PROVE  /\ Classify(ks) \in Incident
           /\ \A k \in ks : Classify(ks).started <= k.started
           /\ \E k \in ks : Classify(ks).started = k.started
           /\ Classify(ks).probes = Cardinality(ProbesOf(ks))
<1> DEFINE S == {k.started : k \in ks}
           E == {events[k] : k \in ks}
           ended == IF \E k \in ks : events[k] = Ongoing THEN Ongoing ELSE Max(E)
           m == Min(S)
           p == Cardinality(ProbesOf(ks))
           scope == ScopeOf(ProbesOf(ks))
<1>1. IsFiniteSet(ks) /\ now \in Times /\ now \in Nat
  <2>1. IsFiniteSet(ks)
    BY EventFacts, FS_Subset
  <2> QED BY <2>1, EventFacts DEF TypeOK
<1>2. \A t \in 1 .. now : t \in Times
  BY <1>1, CorrelateConstants DEF Times, CorrelateConstants
<1>3. S \in SUBSET (1 .. now) /\ S # {}
  BY EventFacts
<1>4. IsFiniteSet(S)
  <2> DEFINE f == [k \in ks |-> k.started]
  <2>1. \A y : y \in S <=> \E k \in ks : f[k] = y
    OBVIOUS
  <2> HIDE DEF S, f
  <2> QED BY <1>1, <2>1, ImageIsFinite
<1>5. m \in S /\ \A s \in S : m <= s
  <2> HIDE DEF S
  <2>1. S \in SUBSET Int
    BY <1>3
  <2> QED BY <1>3, <1>4, <2>1, MinIsSmallest
<1>6. ended \in {Ongoing} \cup Times
  <2>1. CASE \E k \in ks : events[k] = Ongoing
    BY <2>1
  <2>2. CASE ~\E k \in ks : events[k] = Ongoing
    <3>1. \A k \in ks : events[k] \in 1 .. now
      <4> SUFFICES ASSUME NEW k \in ks PROVE events[k] \in 1 .. now
        OBVIOUS
      <4>1. events[k] \in k.started .. now /\ k.started \in 1 .. now
        BY <2>2, EventFacts
      <4> QED BY <1>1, <4>1
    <3>2. E \in SUBSET (1 .. now) /\ E # {}
      BY <3>1
    <3>3. IsFiniteSet(E)
      <4> DEFINE f == [k \in ks |-> events[k]]
      <4>1. \A y : y \in E <=> \E k \in ks : f[k] = y
        OBVIOUS
      <4> HIDE DEF E, f
      <4> QED BY <1>1, <4>1, ImageIsFinite
    <3>4. ended = Max(E)
      BY <2>2
    <3> HIDE DEF E, ended
    <3>5. E \in SUBSET Int
      BY <3>2
    <3>6. Max(E) \in E
      BY <3>2, <3>3, <3>5, MaxIsLargest
    <3> QED BY <1>2, <3>2, <3>4, <3>6
  <2> QED BY <2>1, <2>2
<1>7. p \in 1 .. Cardinality(Probes)
  BY ProbesOfFinite, FS_CardinalityType, CorrelateConstants DEF CorrelateConstants
<1>8. scope \in Scopes
  BY DEF ScopeOf, Scopes
<1>9. Classify(ks) = [started |-> m, ended |-> ended, scope |-> scope, probes |-> p]
  BY Zenon DEF Classify, ProbesOf
<1>10. m \in Times /\ (\A k \in ks : m <= k.started) /\ \E k \in ks : m = k.started
  BY <1>2, <1>3, <1>5
<1> HIDE DEF m, ended, scope, p
<1> QED BY <1>6, <1>7, <1>8, <1>9, <1>10 DEF Incident, p

-----------------------------------------------------------------------------
(* Correlations under way                                                    *)
LEMMA IdleUnderWay ==
    ASSUME NEW found, \A k \in found : k.started \in Nat \ {0}
    PROVE  UnderWay(Idle, found)
<1>1. << >> \in Seq(SUBSET found) /\ << >> \in Seq(Incident) /\ Len(<< >>) = 0
  OBVIOUS
<1>2. Idle \in Under(found)
  BY <1>1 DEF Idle, Under
<1>3. /\ Idle.from = 0 /\ Idle.to = 0 /\ Idle.clusters = << >> /\ Idle.classified = << >>
      /\ \A i : i \notin 1 .. Len(Idle.clusters)
  BY <1>1 DEF Idle
<1>4. \A k \in found : ~(Idle.from <= k.started /\ k.started <= Idle.to)
  BY <1>3
<1>5. Fits(Idle, found)
  BY <1>3, <1>4 DEF Fits
<1> QED BY <1>2, <1>5 DEF UnderWay

\* What Unseen does to one of them.
Missed(u, ks) == IF u = Idle THEN Idle ELSE [u EXCEPT !.unseen = @ \cup ks, !.fresh = FALSE]

\* What is stored meanwhile is not seen, and is known not to be.
LEMMA UnderGrows ==
    ASSUME NEW found, NEW ks, NEW u, UnderWay(u, found),
           \A k \in found \cup ks : k.started \in Nat \ {0}
    PROVE  /\ UnderWay(Missed(u, ks), found \cup ks)
           /\ Missed(u, ks) # Idle <=> u # Idle
<1>1. CASE u = Idle
  <2>1. Missed(u, ks) = Idle
    BY <1>1 DEF Missed
  <2> QED BY <1>1, <2>1, IdleUnderWay
<1>2. CASE u # Idle
  <2> DEFINE more == found \cup ks
             v == Missed(u, ks)
  <2>1. u \in Under(found) /\ Fits(u, found) /\ 1 <= u.to
    BY <1>2 DEF UnderWay
  <2>2. v = [u EXCEPT !.unseen = u.unseen \cup ks, !.fresh = FALSE]
    BY <1>2 DEF Missed
  <2>3. /\ v.from = u.from /\ v.to = u.to /\ v.clusters = u.clusters
        /\ v.classified = u.classified /\ v.unseen = u.unseen \cup ks
        /\ v = [from |-> u.from, to |-> u.to, clusters |-> u.clusters,
                classified |-> u.classified, unseen |-> u.unseen \cup ks, fresh |-> FALSE]
    BY <2>1, <2>2 DEF Under
  <2>4. u.clusters \in Seq(SUBSET more)
    BY <2>1 DEF Under
  <2> HIDE DEF v
  <2>5. v \in Under(more)
    BY <2>1, <2>3, <2>4 DEF Under
  <2>6. Fits(v, more)
    BY <2>1, <2>3 DEF Fits
  <2>7. v # Idle
    <3>1. Idle.to = 0
      BY DEF Idle
    <3> QED BY <2>1, <2>3, <3>1
  <2> QED BY <1>2, <2>1, <2>3, <2>5, <2>6, <2>7 DEF UnderWay, v
<1> QED BY <1>1, <1>2

\* The parts of the type invariant that are about a correlation under way.
LEMMA UnderTyped ==
    ASSUME NEW found, NEW u, UnderWay(u, found)
    PROVE  /\ (UNION Range(u.clusters)) \cup u.unseen \subseteq found
           /\ DOMAIN u.classified = DOMAIN u.clusters
           /\ DOMAIN u.clusters = 1 .. Len(u.clusters)
<1>1. /\ u.clusters \in Seq(SUBSET found) /\ u.unseen \in SUBSET found
      /\ u.classified \in Seq(Incident) /\ Len(u.classified) = Len(u.clusters)
  BY DEF UnderWay, Under, Fits
<1> QED BY <1>1 DEF Range

-----------------------------------------------------------------------------
(* The events that point to an incident                                      *)
MembersIn(found, links, i) == {k \in found : links[k] = i}

Covers(incident, members) ==
    /\ \A k \in members : incident.started <= k.started
    /\ Cardinality(ProbesOf(members)) <= incident.probes

\* MembersFit, of given events, links and incidents.
Covered(found, links, stored) ==
    \A i \in DOMAIN stored : Covers(stored[i], MembersIn(found, links, i))

\* MembersFit in these terms,
LEMMA MembersFitIs ==
    MembersFit <=> Covered(DOMAIN events, incidentOf, incidents)
<1>1. \A i : Members(i) = MembersIn(DOMAIN events, incidentOf, i)
  BY DEF Members, MembersIn
<1>2. MembersFit <=> \A i \in DOMAIN incidents : Covers(incidents[i], Members(i))
  BY Zenon DEF MembersFit, Covers, ProbesOf
<1> QED BY <1>1, <1>2, Zenon DEF Covered

\* and of the next state.
LEMMA MembersFitIsNext ==
    MembersFit' <=> Covered(DOMAIN events', incidentOf', incidents')
<1>1. \A i : Members(i)' = MembersIn(DOMAIN events', incidentOf', i)
  BY DEF Members, MembersIn
<1>2. MembersFit' <=> \A i \in DOMAIN incidents' : Covers(incidents'[i], Members(i)')
  BY Zenon DEF MembersFit, Covers, ProbesOf
<1> QED BY <1>1, <1>2, Zenon DEF Covered

-----------------------------------------------------------------------------
(* The parts of the type invariant, and how they meet                        *)
EventsTyped(at, found, ends) ==
    /\ found \subseteq [probe : Probes, started : 1 .. at]
    /\ \A k \in found : ends[k] = Ongoing \/ ends[k] \in k.started .. at

StoredTyped(stored, next) ==
    /\ DOMAIN stored \subseteq 1 .. next - 1
    /\ \A i \in DOMAIN stored : stored[i] \in Incident

\* The invariant from its parts,
LEMMA InvIs ==
    ASSUME now \in Times, \A p \in Probes : offset[p] \in Offsets[p], DOMAIN offset = Probes,
           EventsTyped(now, DOMAIN events, events),
           incidentOf \in [DOMAIN events -> {NoIncident} \cup DOMAIN incidents],
           StoredTyped(incidents, nextIncident), nextIncident \in Nat \ {0},
           changes \in 0 .. MaxChanges, correlations \in 0 .. MaxCorrelations,
           DOMAIN under = Correlators,
           \A c \in Correlators : UnderWay(under[c], DOMAIN events),
           Within(correlations, Correlating),
           Covered(DOMAIN events, incidentOf, incidents)
    PROVE  Inv
<1>1. \A c \in Correlators :
          /\ (UNION Range(under[c].clusters)) \cup under[c].unseen \subseteq DOMAIN events
          /\ DOMAIN under[c].classified = DOMAIN under[c].clusters
  BY UnderTyped, Zenon
<1>2. TypeOK
  BY <1>1, Zenon DEF TypeOK, EventsTyped, StoredTyped, Incident
<1>3. MembersFit
  BY MembersFitIs
<1> QED BY <1>2, <1>3, Zenon DEF Inv

\* the same of the next state,
LEMMA InvIsNext ==
    ASSUME now' \in Times, \A p \in Probes : offset'[p] \in Offsets[p], DOMAIN offset' = Probes,
           EventsTyped(now', DOMAIN events', events'),
           incidentOf' \in [DOMAIN events' -> {NoIncident} \cup DOMAIN incidents'],
           StoredTyped(incidents', nextIncident'), nextIncident' \in Nat \ {0},
           changes' \in 0 .. MaxChanges, correlations' \in 0 .. MaxCorrelations,
           DOMAIN under' = Correlators,
           \A c \in Correlators : UnderWay(under'[c], DOMAIN events'),
           Within(correlations', Correlating'),
           Covered(DOMAIN events', incidentOf', incidents')
    PROVE  Inv'
<1>1. \A c \in Correlators :
          /\ (UNION Range(under'[c].clusters)) \cup under'[c].unseen \subseteq DOMAIN events'
          /\ DOMAIN under'[c].classified = DOMAIN under'[c].clusters
  BY UnderTyped, Zenon
<1>2. TypeOK'
  BY <1>1, Zenon DEF TypeOK, EventsTyped, StoredTyped, Incident
<1>3. MembersFit'
  BY MembersFitIsNext
<1> QED BY <1>2, <1>3, Zenon DEF Inv

\* and its parts from the invariant.
LEMMA InvParts ==
    ASSUME Inv
    PROVE  /\ TypeOK /\ MembersFit
           /\ now \in Times /\ now \in Nat
           /\ (\A p \in Probes : offset[p] \in Offsets[p]) /\ DOMAIN offset = Probes
           /\ EventsTyped(now, DOMAIN events, events)
           /\ incidentOf \in [DOMAIN events -> {NoIncident} \cup DOMAIN incidents]
           /\ StoredTyped(incidents, nextIncident) /\ nextIncident \in Nat \ {0}
           /\ changes \in 0 .. MaxChanges /\ correlations \in 0 .. MaxCorrelations
           /\ DOMAIN under = Correlators
           /\ \A c \in Correlators : UnderWay(under[c], DOMAIN events)
           /\ Within(correlations, Correlating)
           /\ Covered(DOMAIN events, incidentOf, incidents)
           /\ \A k \in DOMAIN events : k.started \in Nat \ {0}
<1>1. TypeOK /\ MembersFit
  BY Zenon DEF Inv
<1>2. now \in Nat /\ \A k \in DOMAIN events : k.started \in Nat \ {0}
  <2>1. now \in Nat /\ \A k \in DOMAIN events : k.started \in 1 .. now
    BY <1>1, EventFacts
  <2> QED BY <2>1
<1>3. Covered(DOMAIN events, incidentOf, incidents)
  BY <1>1, MembersFitIs
<1>4. EventsTyped(now, DOMAIN events, events) /\ StoredTyped(incidents, nextIncident)
  BY <1>1, Zenon DEF TypeOK, EventsTyped, StoredTyped, Incident
<1> QED BY <1>1, <1>2, <1>3, <1>4, Zenon DEF Inv, TypeOK

-----------------------------------------------------------------------------
\* There is nothing yet.
LEMMA InitInv == Init => Inv
<1> SUFFICES ASSUME Init PROVE Inv
  OBVIOUS
<1>1. DOMAIN events = {} /\ DOMAIN incidents = {} /\ DOMAIN incidentOf = {}
  BY DEF Init
<1>2. now \in Times
  BY CorrelateConstants DEF Init, Times, CorrelateConstants
<1>3. (\A p \in Probes : offset[p] \in Offsets[p]) /\ DOMAIN offset = Probes
  BY DEF Init
<1>4. /\ EventsTyped(now, DOMAIN events, events)
      /\ StoredTyped(incidents, nextIncident)
      /\ Covered(DOMAIN events, incidentOf, incidents)
  BY <1>1, Zenon DEF EventsTyped, StoredTyped, Covered
<1>5. incidentOf \in [DOMAIN events -> {NoIncident} \cup DOMAIN incidents]
  BY <1>1 DEF Init
<1>6. /\ nextIncident \in Nat \ {0}
      /\ changes \in 0 .. MaxChanges /\ correlations \in 0 .. MaxCorrelations
  BY CorrelateConstants DEF Init, CorrelateConstants
<1>7. DOMAIN under = Correlators /\ \A c \in Correlators : under[c] = Idle
  BY DEF Init
<1>8. \A c \in Correlators : UnderWay(under[c], DOMAIN events)
  <2>1. UnderWay(Idle, DOMAIN events)
    BY <1>1, IdleUnderWay
  <2> QED BY <1>7, <2>1
<1>9. Within(correlations, Correlating)
  <2>1. Correlating = {}
    BY <1>7 DEF Correlating
  <2>2. IsFiniteSet({}) /\ Cardinality({}) = 0
    BY FS_EmptySet
  <2> QED BY <2>1, <2>2, CorrelateConstants DEF Within, Init, CorrelateConstants
<1> QED BY <1>2, <1>3, <1>4, <1>5, <1>6, <1>7, <1>8, <1>9, InvIs

-----------------------------------------------------------------------------
(* Each action keeps the invariant                                           *)

\* Detection and ingest, which change what a correlation has read.
LEMMA UnseenKeeps ==
    ASSUME Inv, NEW ks, Unseen(ks), DOMAIN events' = DOMAIN events \cup ks,
           \A k \in ks : k.started \in Nat \ {0}, correlations' = correlations
    PROVE  /\ DOMAIN under' = Correlators
           /\ \A c \in Correlators : UnderWay(under'[c], DOMAIN events')
           /\ Within(correlations', Correlating')
<1> DEFINE found == DOMAIN events
           more == DOMAIN events'
<1>1. DOMAIN under' = Correlators /\ \A c \in Correlators : under'[c] = Missed(under[c], ks)
  BY DEF Unseen, Missed
<1>2. \A k \in found \cup ks : k.started \in Nat \ {0}
  BY InvParts
<1>3. \A c \in Correlators : UnderWay(under[c], found)
  BY InvParts
<1>4. more = found \cup ks
  OBVIOUS
<1> HIDE DEF found, more
<1>5. ASSUME NEW c \in Correlators
      PROVE  UnderWay(under'[c], more) /\ (under'[c] # Idle <=> under[c] # Idle)
  <2> DEFINE u == under[c]
  <2>1. UnderWay(u, found)
    BY <1>3
  <2> HIDE DEF u
  <2>2. UnderWay(Missed(u, ks), found \cup ks) /\ (Missed(u, ks) # Idle <=> u # Idle)
    BY <1>2, <2>1, UnderGrows
  <2> QED BY <1>1, <1>4, <2>2, Zenon DEF u
<1>6. Correlating' = Correlating
  BY <1>5 DEF Correlating
<1>7. Within(correlations', Correlating')
  <2>1. Within(correlations, Correlating)
    BY InvParts
  <2> QED BY <1>6, <2>1, Zenon
<1> QED BY <1>1, <1>5, <1>7 DEF more

\* A new event points to no incident.
LEMMA DetectedKeepsInv ==
    ASSUME Inv, NEW p \in Probes, NEW started \in 1 .. now, NEW ended \in {Ongoing} \cup 1 .. now,
           ended = Ongoing \/ started <= ended, Detected(p, started, ended)
    PROVE  Inv'
<1> DEFINE k == [probe |-> p, started |-> started]
<1>0. now \in Nat /\ started \in Nat \ {0} /\ k.started = started /\ k.probe = p
  BY InvParts
<1>1. /\ k \notin DOMAIN events
      /\ changes < MaxChanges /\ changes' = changes + 1
      /\ events' = [e \in DOMAIN events \cup {k} |-> IF e = k THEN ended ELSE events[e]]
      /\ incidentOf' = [e \in DOMAIN events \cup {k} |->
                           IF e = k THEN NoIncident ELSE incidentOf[e]]
      /\ Unseen({k})
      /\ UNCHANGED <<now, offset, incidents, nextIncident, correlations>>
  BY DEF Detected, Change
<1>2. k \in [probe : Probes, started : 1 .. now]
  OBVIOUS
<1> HIDE DEF k
<1>3. /\ DOMAIN events' = DOMAIN events \cup {k} /\ events'[k] = ended
      /\ \A e \in DOMAIN events : events'[e] = events[e]
      /\ DOMAIN incidentOf' = DOMAIN events \cup {k} /\ incidentOf'[k] = NoIncident
      /\ \A e \in DOMAIN events : incidentOf'[e] = incidentOf[e]
  BY <1>1
<1>4. /\ DOMAIN under' = Correlators
      /\ \A c \in Correlators : UnderWay(under'[c], DOMAIN events')
      /\ Within(correlations', Correlating')
  <2>1. \A e \in {k} : e.started \in Nat \ {0}
    BY <1>0
  <2> QED BY <1>1, <1>3, <2>1, UnseenKeeps
<1>5. EventsTyped(now', DOMAIN events', events')
  <2>1. EventsTyped(now, DOMAIN events, events)
    BY InvParts
  <2>2. events'[k] = Ongoing \/ events'[k] \in k.started .. now
    BY <1>0, <1>3
  <2>3. DOMAIN events' \subseteq [probe : Probes, started : 1 .. now]
    BY <1>2, <1>3, <2>1 DEF EventsTyped
  <2>4. \A e \in DOMAIN events' : events'[e] = Ongoing \/ events'[e] \in e.started .. now
    BY <1>3, <2>1, <2>2, Zenon DEF EventsTyped
  <2>5. now' = now
    BY <1>1
  <2> QED BY <2>3, <2>4, <2>5, Zenon DEF EventsTyped
<1>6. incidentOf' \in [DOMAIN events' -> {NoIncident} \cup DOMAIN incidents']
  <2>1. incidentOf \in [DOMAIN events -> {NoIncident} \cup DOMAIN incidents]
    BY InvParts
  <2>2. incidents' = incidents
    BY <1>1
  <2> QED BY <1>1, <1>3, <2>1, <2>2
<1>7. Covered(DOMAIN events', incidentOf', incidents')
  <2>1. Covered(DOMAIN events, incidentOf, incidents) /\ incidents' = incidents
    BY <1>1, InvParts
  <2>2. ASSUME NEW i \in DOMAIN incidents
        PROVE  MembersIn(DOMAIN events', incidentOf', i) = MembersIn(DOMAIN events, incidentOf, i)
    <3>1. i # NoIncident
      BY InvParts DEF StoredTyped, NoIncident
    <3> QED BY <1>3, <3>1 DEF MembersIn
  <2> QED BY <2>1, <2>2, Zenon DEF Covered
<1>8. /\ now' \in Times /\ (\A q \in Probes : offset'[q] \in Offsets[q]) /\ DOMAIN offset' = Probes
      /\ StoredTyped(incidents', nextIncident') /\ nextIncident' \in Nat \ {0}
      /\ correlations' \in 0 .. MaxCorrelations
  BY <1>1, InvParts
<1>9. changes' \in 0 .. MaxChanges
  <2>1. changes \in 0 .. MaxChanges /\ MaxChanges \in Nat
    BY InvParts, CorrelateConstants DEF CorrelateConstants
  <2> QED BY <1>1, <2>1
<1> QED BY <1>4, <1>5, <1>6, <1>7, <1>8, <1>9, InvIsNext

\* An event written again keeps its incident and its start.
LEMMA RedetectedKeepsInv ==
    ASSUME Inv, NEW k \in DOMAIN events, NEW ended \in {Ongoing} \cup 1 .. now,
           ended = Ongoing \/ k.started <= ended, Redetected(k, ended)
    PROVE  Inv'
<1>1. /\ changes < MaxChanges /\ changes' = changes + 1
      /\ events' = [events EXCEPT ![k] = ended]
      /\ Unseen({})
      /\ UNCHANGED <<now, offset, incidentOf, incidents, nextIncident, correlations>>
  BY DEF Redetected, Change
<1>2. now \in Nat /\ k.started \in Nat \ {0} /\ k.started <= now
  <2>1. k.started \in 1 .. now
    BY EventFacts, InvParts
  <2> QED BY <2>1, InvParts
<1>3. /\ DOMAIN events' = DOMAIN events /\ events'[k] = ended
      /\ \A e \in DOMAIN events : e # k => events'[e] = events[e]
  BY <1>1
<1>4. /\ DOMAIN under' = Correlators
      /\ \A c \in Correlators : UnderWay(under'[c], DOMAIN events')
      /\ Within(correlations', Correlating')
  <2>1. DOMAIN events' = DOMAIN events \cup {}
    BY <1>3
  <2>2. \A e \in {} : e.started \in Nat \ {0}
    OBVIOUS
  <2> QED BY <1>1, <2>1, <2>2, UnseenKeeps
<1>5. EventsTyped(now', DOMAIN events', events')
  <2>1. EventsTyped(now, DOMAIN events, events)
    BY InvParts
  <2>2. events'[k] = Ongoing \/ events'[k] \in k.started .. now
    BY <1>2, <1>3
  <2>3. \A e \in DOMAIN events' : events'[e] = Ongoing \/ events'[e] \in e.started .. now
    BY <1>3, <2>1, <2>2, Zenon DEF EventsTyped
  <2>4. now' = now
    BY <1>1
  <2> QED BY <1>3, <2>1, <2>3, <2>4, Zenon DEF EventsTyped
<1>6. /\ incidentOf' \in [DOMAIN events' -> {NoIncident} \cup DOMAIN incidents']
      /\ Covered(DOMAIN events', incidentOf', incidents')
  <2>1. /\ incidentOf \in [DOMAIN events -> {NoIncident} \cup DOMAIN incidents]
        /\ Covered(DOMAIN events, incidentOf, incidents)
    BY InvParts
  <2>2. incidents' = incidents /\ incidentOf' = incidentOf
    BY <1>1
  <2> QED BY <1>3, <2>1, <2>2, Zenon
<1>7. /\ now' \in Times /\ (\A q \in Probes : offset'[q] \in Offsets[q]) /\ DOMAIN offset' = Probes
      /\ StoredTyped(incidents', nextIncident') /\ nextIncident' \in Nat \ {0}
      /\ correlations' \in 0 .. MaxCorrelations
  BY <1>1, InvParts
<1>8. changes' \in 0 .. MaxChanges
  <2>1. changes \in 0 .. MaxChanges /\ MaxChanges \in Nat
    BY InvParts, CorrelateConstants DEF CorrelateConstants
  <2> QED BY <1>1, <2>1
<1> QED BY <1>4, <1>5, <1>6, <1>7, <1>8, InvIsNext

\* An offset changes what will be grouped, and nothing that is stored.
LEMMA TouchKeepsInv ==
    ASSUME Inv, NEW p \in Probes, NEW measured \in Offsets[p], Touch(p, measured)
    PROVE  Inv'
<1>1. /\ changes < MaxChanges /\ changes' = changes + 1
      /\ offset' = [offset EXCEPT ![p] = measured]
      /\ Unseen({})
      /\ UNCHANGED <<now, events, incidentOf, incidents, nextIncident, correlations>>
  BY DEF Touch, Change
<1>2. /\ DOMAIN under' = Correlators
      /\ \A c \in Correlators : UnderWay(under'[c], DOMAIN events')
      /\ Within(correlations', Correlating')
  <2>1. DOMAIN events' = DOMAIN events \cup {}
    BY <1>1
  <2>2. \A e \in {} : e.started \in Nat \ {0}
    OBVIOUS
  <2> QED BY <1>1, <2>1, <2>2, UnseenKeeps
<1>3. (\A q \in Probes : offset'[q] \in Offsets[q]) /\ DOMAIN offset' = Probes
  <2>1. (\A q \in Probes : offset[q] \in Offsets[q]) /\ DOMAIN offset = Probes
    BY InvParts
  <2> QED BY <1>1, <2>1
<1>4. changes' \in 0 .. MaxChanges
  <2>1. changes \in 0 .. MaxChanges /\ MaxChanges \in Nat
    BY InvParts, CorrelateConstants DEF CorrelateConstants
  <2> QED BY <1>1, <2>1
<1>5. /\ EventsTyped(now', DOMAIN events', events')
      /\ incidentOf' \in [DOMAIN events' -> {NoIncident} \cup DOMAIN incidents']
      /\ Covered(DOMAIN events', incidentOf', incidents')
  <2>1. /\ EventsTyped(now, DOMAIN events, events)
        /\ incidentOf \in [DOMAIN events -> {NoIncident} \cup DOMAIN incidents]
        /\ Covered(DOMAIN events, incidentOf, incidents)
    BY InvParts
  <2> QED BY <1>1, <2>1, Zenon
<1>6. /\ now' \in Times
      /\ StoredTyped(incidents', nextIncident') /\ nextIncident' \in Nat \ {0}
      /\ correlations' \in 0 .. MaxCorrelations
  BY <1>1, InvParts
<1> QED BY <1>2, <1>3, <1>4, <1>5, <1>6, InvIsNext

\* The clock alone moves.
LEMMA TickKeepsInv ==
    ASSUME Inv, Tick
    PROVE  Inv'
<1>1. /\ now < MaxTime /\ now' = now + 1
      /\ UNCHANGED <<offset, events, incidentOf, incidents, nextIncident,
                     changes, correlations, under>>
  BY DEF Tick
<1>2. now' \in Times /\ now \in Nat
  <2>1. now \in Nat /\ MaxTime \in Nat
    BY InvParts, CorrelateConstants DEF CorrelateConstants
  <2> QED BY <1>1, <2>1 DEF Times
<1>3. EventsTyped(now', DOMAIN events', events')
  <2>1. EventsTyped(now, DOMAIN events, events) /\ events' = events
    BY <1>1, InvParts
  <2>2. \A k \in DOMAIN events : k \in [probe : Probes, started : 1 .. now']
    <3>1. \A t \in 1 .. now : t \in 1 .. now'
      BY <1>1, <1>2
    <3> QED BY <2>1, <3>1 DEF EventsTyped
  <2>3. \A k \in DOMAIN events : events[k] = Ongoing \/ events[k] \in k.started .. now'
    <3> SUFFICES ASSUME NEW k \in DOMAIN events
                 PROVE  events[k] = Ongoing \/ events[k] \in k.started .. now'
      OBVIOUS
    <3>1. events[k] = Ongoing \/ events[k] \in k.started .. now
      BY <2>1 DEF EventsTyped
    <3>2. k.started \in Nat
      BY InvParts
    <3> QED BY <1>1, <1>2, <3>1, <3>2
  <2> QED BY <2>1, <2>2, <2>3, Zenon DEF EventsTyped
<1>4. /\ \A c \in Correlators : UnderWay(under'[c], DOMAIN events')
      /\ DOMAIN under' = Correlators
      /\ incidentOf' \in [DOMAIN events' -> {NoIncident} \cup DOMAIN incidents']
      /\ Covered(DOMAIN events', incidentOf', incidents')
  <2>1. /\ \A c \in Correlators : UnderWay(under[c], DOMAIN events)
        /\ DOMAIN under = Correlators
        /\ incidentOf \in [DOMAIN events -> {NoIncident} \cup DOMAIN incidents]
        /\ Covered(DOMAIN events, incidentOf, incidents)
    BY InvParts
  <2> QED BY <1>1, <2>1, Zenon
<1>5. Within(correlations', Correlating')
  <2>1. Correlating' = Correlating /\ Within(correlations, Correlating)
    BY <1>1, InvParts DEF Correlating
  <2> QED BY <1>1, <2>1, Zenon
<1>6. /\ (\A p \in Probes : offset'[p] \in Offsets[p]) /\ DOMAIN offset' = Probes
      /\ StoredTyped(incidents', nextIncident') /\ nextIncident' \in Nat \ {0}
      /\ changes' \in 0 .. MaxChanges /\ correlations' \in 0 .. MaxCorrelations
  BY <1>1, InvParts
<1> QED BY <1>2, <1>3, <1>4, <1>5, <1>6, InvIsNext

\* What a load finds is fit to be stored.
LEMMA LoadedUnderWay ==
    ASSUME TypeOK, NEW from \in Int, NEW to \in Nat \ {0}, NEW clusters,
           clusters = Clusters(Loaded(from, to)), NEW u,
           u = [from |-> from, to |-> to, clusters |-> clusters,
                classified |-> [i \in DOMAIN clusters |-> Classify(clusters[i])],
                unseen |-> {}, fresh |-> TRUE]
    PROVE  UnderWay(u, DOMAIN events) /\ u # Idle
<1> DEFINE ks == Loaded(from, to)
           found == DOMAIN events
           classified == [i \in DOMAIN clusters |-> Classify(clusters[i])]
           n == Len(clusters)
<1>1. ks \in SUBSET found
  BY DEF Loaded
<1>2. \A k \in ks : k.started <= to
  BY DEF Loaded
<1>3. \A k \in found : from <= k.started /\ k.started <= to => k \in ks
  <2> SUFFICES ASSUME NEW k \in found, from <= k.started, k.started <= to,
                      events[k] # Ongoing
               PROVE  events[k] >= from
    BY DEF Loaded
  <2>1. k.started \in 1 .. now /\ events[k] \in k.started .. now /\ now \in Nat
    BY EventFacts
  <2> QED BY <2>1
<1> HIDE DEF ks
<1>4. /\ clusters \in Seq(SUBSET ks)
      /\ \A i \in 1 .. n : clusters[i] # {}
      /\ \A k \in ks : \E i \in 1 .. n : k \in clusters[i]
  <2>1. /\ Clusters(ks) \in Seq(SUBSET ks)
        /\ \A i \in 1 .. Len(Clusters(ks)) : Clusters(ks)[i] # {}
        /\ \A k \in ks : \E i \in 1 .. Len(Clusters(ks)) : k \in Clusters(ks)[i]
    BY <1>1, ClustersAre
  <2>2. clusters = Clusters(ks)
    BY DEF ks
  <2> QED BY <2>1, <2>2
<1>5. /\ n \in Nat /\ DOMAIN clusters = 1 .. n
      /\ \A i \in 1 .. n : clusters[i] \in SUBSET ks
      /\ clusters \in Seq(SUBSET found)
  BY <1>1, <1>4
<1>6. ASSUME NEW i \in 1 .. n
      PROVE  /\ classified[i] \in Incident
             /\ \A k \in clusters[i] : classified[i].started <= k.started
             /\ Cardinality(ProbesOf(clusters[i])) = classified[i].probes
  <2> DEFINE ck == clusters[i]
  <2>1. classified[i] = Classify(ck)
    BY <1>5
  <2>2. ck \in SUBSET DOMAIN events /\ ck # {}
    BY <1>1, <1>4, <1>5
  <2> HIDE DEF ck, classified
  <2>3. /\ Classify(ck) \in Incident
        /\ \A k \in ck : Classify(ck).started <= k.started
        /\ Classify(ck).probes = Cardinality(ProbesOf(ck))
    BY <2>2, ClassifyFits
  <2> QED BY <2>1, <2>3 DEF ck
<1>7. classified \in Seq(Incident) /\ Len(classified) = n /\ DOMAIN classified = 1 .. n
  <2>1. DOMAIN classified = 1 .. n /\ classified = [i \in 1 .. n |-> classified[i]]
    BY <1>5
  <2> HIDE DEF classified
  <2>2. classified \in [1 .. n -> Incident]
    BY <1>6, <2>1
  <2> QED BY <1>5, <2>1, <2>2
<1> HIDE DEF classified
<1>8. /\ u.from = from /\ u.to = to /\ u.clusters = clusters /\ u.classified = classified
      /\ u.unseen = {}
  BY DEF classified
<1>9. u \in Under(found)
  BY <1>5, <1>7 DEF Under, classified
<1>10. Fits(u, found)
  <2>1. \A k \in found \ {} : from <= k.started /\ k.started <= to =>
           \E i \in 1 .. n : k \in clusters[i]
    BY <1>3, <1>4
  <2>2. ASSUME NEW i \in 1 .. n
        PROVE  /\ \A k \in clusters[i] : classified[i].started <= k.started /\ k.started <= to
               /\ Cardinality(ProbesOf(clusters[i])) <= classified[i].probes
    <3>1. Cardinality(ProbesOf(clusters[i])) <= classified[i].probes
      <4>1. classified[i].probes = Cardinality(ProbesOf(clusters[i]))
        BY <1>6
      <4>2. classified[i].probes \in Int
        <5>1. Cardinality(ProbesOf(clusters[i])) \in Nat
          BY <1>1, <1>5, ProbesOfFinite
        <5> QED BY <4>1, <5>1
      <4> QED BY <4>1, <4>2
    <3> QED BY <1>2, <1>5, <1>6, <3>1
  <2> QED BY <1>7, <1>8, <2>1, <2>2 DEF Fits
<1>11. u # Idle
  BY <1>8 DEF Idle
<1> HIDE DEF found
<1>12. UnderWay(u, found)
  BY <1>8, <1>9, <1>10 DEF UnderWay
<1> QED BY <1>11, <1>12 DEF found

\* The bound on correlations, as one more begins or one ends.
LEMMA OneMore ==
    ASSUME NEW stored \in Nat, NEW cs, NEW c, Within(stored, cs), c \notin cs,
           stored + Cardinality(cs) < MaxCorrelations
    PROVE  Within(stored, cs \cup {c})
<1>1. IsFiniteSet(cs)
  BY DEF Within
<1>2. IsFiniteSet(cs \cup {c}) /\ Cardinality(cs \cup {c}) = Cardinality(cs) + 1
  BY <1>1, FS_AddElement
<1>3. Cardinality(cs) \in Nat /\ MaxCorrelations \in Nat
  BY <1>1, FS_CardinalityType, CorrelateConstants DEF CorrelateConstants
<1> QED BY <1>2, <1>3 DEF Within

LEMMA OneLess ==
    ASSUME NEW stored \in Nat, NEW cs, NEW c \in cs, Within(stored, cs)
    PROVE  /\ Within(stored, cs \ {c}) /\ Within(stored + 1, cs \ {c})
           /\ stored + 1 \in 0 .. MaxCorrelations
<1>1. IsFiniteSet(cs)
  BY DEF Within
<1>2. IsFiniteSet(cs \ {c}) /\ Cardinality(cs \ {c}) = Cardinality(cs) - 1
  BY <1>1, FS_RemoveElement
<1>3. Cardinality(cs) \in Nat /\ Cardinality(cs \ {c}) \in Nat /\ MaxCorrelations \in Nat
  BY <1>1, <1>2, FS_CardinalityType, CorrelateConstants DEF CorrelateConstants
<1> QED BY <1>2, <1>3 DEF Within

\* A correlation begins.
LEMMA LoadKeepsInv ==
    ASSUME Inv, NEW c \in Correlators, NEW from \in Int, NEW to \in Nat \ {0}, Load(c, from, to)
    PROVE  Inv'
<1>1. PICK clusters \in {Clusters(Loaded(from, to))} :
          under' = [under EXCEPT ![c] =
                       [from |-> from, to |-> to, clusters |-> clusters,
                        classified |-> [i \in DOMAIN clusters |-> Classify(clusters[i])],
                        unseen |-> {}, fresh |-> TRUE]]
  BY Zenon DEF Load
<1>2. /\ under[c] = Idle
      /\ correlations + Cardinality({d \in Correlators : under[d] # Idle}) < MaxCorrelations
      /\ UNCHANGED <<now, offset, events, incidentOf, incidents, nextIncident, changes,
                     correlations, last>>
  BY DEF Load
<1> DEFINE u == [from |-> from, to |-> to, clusters |-> clusters,
                 classified |-> [i \in DOMAIN clusters |-> Classify(clusters[i])],
                 unseen |-> {}, fresh |-> TRUE]
<1>3. under' = [under EXCEPT ![c] = u]
  BY <1>1
<1>4. UnderWay(u, DOMAIN events) /\ u # Idle
  <2>1. TypeOK
    BY InvParts
  <2> QED BY <2>1, LoadedUnderWay
<1> HIDE DEF u
<1>5. /\ DOMAIN under' = Correlators /\ under'[c] = u
      /\ \A d \in Correlators : d # c => under'[d] = under[d]
  BY <1>3, InvParts
<1>6. \A d \in Correlators : UnderWay(under'[d], DOMAIN events')
  <2>1. \A d \in Correlators : UnderWay(under[d], DOMAIN events)
    BY InvParts
  <2>2. DOMAIN events' = DOMAIN events
    BY <1>2
  <2> QED BY <1>4, <1>5, <2>1, <2>2, Zenon
<1>7. Within(correlations', Correlating')
  <2>1. Correlating' = Correlating \cup {c} /\ c \notin Correlating
    BY <1>2, <1>4, <1>5 DEF Correlating
  <2>2. Within(correlations, Correlating) /\ correlations \in Nat
    BY InvParts
  <2>3. correlations + Cardinality(Correlating) < MaxCorrelations
    BY <1>2 DEF Correlating
  <2> DEFINE cs == Correlating
  <2> HIDE DEF cs
  <2>4. Within(correlations, cs \cup {c})
    BY <2>1, <2>2, <2>3, OneMore DEF cs
  <2> QED BY <1>2, <2>1, <2>4, Zenon DEF cs
<1>8. /\ EventsTyped(now', DOMAIN events', events')
      /\ incidentOf' \in [DOMAIN events' -> {NoIncident} \cup DOMAIN incidents']
      /\ Covered(DOMAIN events', incidentOf', incidents')
  <2>1. /\ EventsTyped(now, DOMAIN events, events)
        /\ incidentOf \in [DOMAIN events -> {NoIncident} \cup DOMAIN incidents]
        /\ Covered(DOMAIN events, incidentOf, incidents)
    BY InvParts
  <2> QED BY <1>2, <2>1, Zenon
<1>9. /\ now' \in Times
      /\ (\A p \in Probes : offset'[p] \in Offsets[p]) /\ DOMAIN offset' = Probes
      /\ StoredTyped(incidents', nextIncident') /\ nextIncident' \in Nat \ {0}
      /\ changes' \in 0 .. MaxChanges /\ correlations' \in 0 .. MaxCorrelations
  BY <1>2, InvParts
<1> QED BY <1>5, <1>6, <1>7, <1>8, <1>9, InvIsNext

\* A correlation ends.
LEMMA EndsIdle ==
    ASSUME Inv, NEW c \in Correlators, under[c] # Idle, under' = [under EXCEPT ![c] = Idle],
           DOMAIN events' = DOMAIN events
    PROVE  /\ DOMAIN under' = Correlators
           /\ \A d \in Correlators : UnderWay(under'[d], DOMAIN events')
           /\ Correlating' = Correlating \ {c} /\ c \in Correlating
<1>1. /\ DOMAIN under' = Correlators /\ under'[c] = Idle
      /\ \A d \in Correlators : d # c => under'[d] = under[d]
  BY InvParts
<1>2. UnderWay(Idle, DOMAIN events)
  BY InvParts, IdleUnderWay
<1>3. \A d \in Correlators : UnderWay(under[d], DOMAIN events)
  BY InvParts
<1>4. \A d \in Correlators : UnderWay(under'[d], DOMAIN events')
  BY <1>1, <1>2, <1>3, Zenon
<1>5. Correlating' = Correlating \ {c} /\ c \in Correlating
  BY <1>1 DEF Correlating
<1> QED BY <1>1, <1>4, <1>5

\* It is given up.
LEMMA PersistFailsKeepsInv ==
    ASSUME Inv, NEW c \in Correlators, PersistFails(c)
    PROVE  Inv'
<1>1. /\ under[c] # Idle /\ under' = [under EXCEPT ![c] = Idle]
      /\ UNCHANGED <<now, offset, events, incidentOf, incidents, nextIncident,
                     changes, correlations, last>>
  BY DEF PersistFails
<1>2. /\ DOMAIN under' = Correlators
      /\ \A d \in Correlators : UnderWay(under'[d], DOMAIN events')
      /\ Correlating' = Correlating \ {c} /\ c \in Correlating
  BY <1>1, EndsIdle
<1>3. Within(correlations', Correlating')
  <2>1. Within(correlations, Correlating) /\ correlations \in Nat
    BY InvParts
  <2> DEFINE cs == Correlating
  <2> HIDE DEF cs
  <2>2. Within(correlations, cs \ {c})
    BY <1>2, <2>1, OneLess DEF cs
  <2> QED BY <1>1, <1>2, <2>2, Zenon DEF cs
<1>4. /\ EventsTyped(now', DOMAIN events', events')
      /\ incidentOf' \in [DOMAIN events' -> {NoIncident} \cup DOMAIN incidents']
      /\ Covered(DOMAIN events', incidentOf', incidents')
  <2>1. /\ EventsTyped(now, DOMAIN events, events)
        /\ incidentOf \in [DOMAIN events -> {NoIncident} \cup DOMAIN incidents]
        /\ Covered(DOMAIN events, incidentOf, incidents)
    BY InvParts
  <2> QED BY <1>1, <2>1, Zenon
<1>5. /\ now' \in Times
      /\ (\A p \in Probes : offset'[p] \in Offsets[p]) /\ DOMAIN offset' = Probes
      /\ StoredTyped(incidents', nextIncident') /\ nextIncident' \in Nat \ {0}
      /\ changes' \in 0 .. MaxChanges /\ correlations' \in 0 .. MaxCorrelations
  BY <1>1, InvParts
<1> QED BY <1>2, <1>3, <1>4, <1>5, InvIsNext

-----------------------------------------------------------------------------
(* What the transaction stores                                               *)
Stores(u, old, n) ==
    /\ UnderWay(u, DOMAIN events) /\ u # Idle
    /\ n \in Nat /\ Len(u.clusters) = n /\ nextIncident \in Nat \ {0}
    /\ u.from \in Int /\ u.to \in Nat \ {0}
    /\ nextIncident' = nextIncident + n
    /\ \A i : i \in DOMAIN incidents' <=>
                 \/ i \in DOMAIN incidents /\ i \notin old
                 \/ i \in nextIncident .. nextIncident + n - 1
    /\ \A i \in DOMAIN incidents : i \in 1 .. nextIncident - 1
    /\ \A i \in DOMAIN incidents : i \notin old => incidents'[i] = incidents[i]
    /\ \A j \in 1 .. n : incidents'[nextIncident - 1 + j] = u.classified[j]
    /\ DOMAIN incidentOf' = DOMAIN events
    /\ \A k \in DOMAIN events :
          \/ /\ \A j \in 1 .. n : k \notin u.clusters[j]
             /\ incidentOf'[k] = IF incidentOf[k] \in old THEN NoIncident ELSE incidentOf[k]
          \/ \E j \in 1 .. n : /\ k \in u.clusters[j]
                               /\ incidentOf'[k] = nextIncident - 1 + j

\* The transaction in terms of the incidents and links it leaves.
LEMMA PersistStores ==
    ASSUME Inv, NEW c \in Correlators, Persist(c), NEW u, u = under[c],
           NEW old, old = Cleared(u.from, u.to), NEW n, n = Len(u.classified)
    PROVE  Stores(u, old, n)
<1>1. /\ under[c] # Idle
      /\ incidents' =
            [i \in (DOMAIN incidents \ old) \cup (nextIncident .. nextIncident + n - 1) |->
                IF i < nextIncident THEN incidents[i] ELSE u.classified[i - nextIncident + 1]]
      /\ incidentOf' = Links(old, u.clusters)
      /\ nextIncident' = nextIncident + n
  BY DEF Persist
<1>2. UnderWay(u, DOMAIN events) /\ u # Idle
  BY <1>1, InvParts
<1>3. /\ n \in Nat /\ Len(u.clusters) = n /\ u.from \in Int /\ u.to \in Nat \ {0}
      /\ DOMAIN u.clusters = 1 .. n
  <2>1. u \in Under(DOMAIN events) /\ Fits(u, DOMAIN events) /\ 1 <= u.to
    BY <1>2 DEF UnderWay
  <2>2. u.classified \in Seq(Incident) /\ u.clusters \in Seq(SUBSET DOMAIN events)
    BY <2>1 DEF Under
  <2>3. Len(u.classified) = Len(u.clusters) /\ u.from \in Int /\ u.to \in Int
    BY <2>1 DEF Fits, Under
  <2> QED BY <2>1, <2>2, <2>3
<1>4. nextIncident \in Nat \ {0} /\ \A i \in DOMAIN incidents : i \in 1 .. nextIncident - 1
  BY InvParts DEF StoredTyped
<1> DEFINE D == (DOMAIN incidents \ old) \cup (nextIncident .. nextIncident + n - 1)
           f == [i \in D |-> IF i < nextIncident THEN incidents[i]
                             ELSE u.classified[i - nextIncident + 1]]
<1>5. incidents' = f /\ DOMAIN f = D
  BY <1>1
<1>6. \A i : i \in D <=> \/ i \in DOMAIN incidents /\ i \notin old
                         \/ i \in nextIncident .. nextIncident + n - 1
  OBVIOUS
<1>7. \A i \in D : f[i] = IF i < nextIncident THEN incidents[i]
                          ELSE u.classified[i - nextIncident + 1]
  OBVIOUS
<1> HIDE DEF f, D
<1>8. \A i \in DOMAIN incidents : i \notin old => f[i] = incidents[i]
  BY <1>4, <1>6, <1>7
<1>9. \A j \in 1 .. n : f[nextIncident - 1 + j] = u.classified[j]
  <2> SUFFICES ASSUME NEW j \in 1 .. n PROVE f[nextIncident - 1 + j] = u.classified[j]
    OBVIOUS
  <2> DEFINE i == nextIncident - 1 + j
  <2>1. /\ i \in nextIncident .. nextIncident + n - 1 /\ ~(i < nextIncident)
        /\ i - nextIncident + 1 = j
    BY <1>3, <1>4
  <2> HIDE DEF i
  <2>2. f[i] = u.classified[j]
    BY <1>6, <1>7, <2>1
  <2> QED BY <2>2 DEF i
<1> DEFINE g == Links(old, u.clusters)
           number(k) == CHOOSE j \in DOMAIN u.clusters : k \in u.clusters[j]
<1>10. /\ DOMAIN g = DOMAIN events
       /\ \A k \in DOMAIN events :
             g[k] = IF \E j \in DOMAIN u.clusters : k \in u.clusters[j]
                    THEN nextIncident - 1 + number(k)
                    ELSE IF incidentOf[k] \in old THEN NoIncident ELSE incidentOf[k]
  BY DEF Links
<1>11. \A k \in DOMAIN events : (\E j \in DOMAIN u.clusters : k \in u.clusters[j]) =>
          number(k) \in DOMAIN u.clusters /\ k \in u.clusters[number(k)]
  OBVIOUS
<1> HIDE DEF g, number
<1>12. ASSUME NEW k \in DOMAIN events
       PROVE  \/ /\ \A j \in 1 .. n : k \notin u.clusters[j]
                 /\ g[k] = IF incidentOf[k] \in old THEN NoIncident ELSE incidentOf[k]
              \/ \E j \in 1 .. n : k \in u.clusters[j] /\ g[k] = nextIncident - 1 + j
  <2>1. CASE \E j \in 1 .. n : k \in u.clusters[j]
    <3>1. number(k) \in 1 .. n /\ k \in u.clusters[number(k)]
      BY <1>3, <1>11, <2>1
    <3>2. g[k] = nextIncident - 1 + number(k)
      BY <1>3, <1>10, <2>1
    <3> QED BY <3>1, <3>2
  <2>2. CASE \A j \in 1 .. n : k \notin u.clusters[j]
    <3>1. g[k] = IF incidentOf[k] \in old THEN NoIncident ELSE incidentOf[k]
      BY <1>3, <1>10, <2>2
    <3> QED BY <2>2, <3>1
  <2> QED BY <2>1, <2>2
<1>13. incidentOf' = g
  BY <1>1 DEF g
<1>14. nextIncident' = nextIncident + n
  BY <1>1
<1>15. \A i : i \in DOMAIN incidents' <=>
                 \/ i \in DOMAIN incidents /\ i \notin old
                 \/ i \in nextIncident .. nextIncident + n - 1
  BY <1>5, <1>6
<1>16. DOMAIN incidentOf' = DOMAIN events
  BY <1>10, <1>13
<1>17. \A k \in DOMAIN events :
                 \/ /\ \A j \in 1 .. n : k \notin u.clusters[j]
                    /\ incidentOf'[k] = IF incidentOf[k] \in old THEN NoIncident
                                        ELSE incidentOf[k]
                 \/ \E j \in 1 .. n : /\ k \in u.clusters[j]
                                      /\ incidentOf'[k] = nextIncident - 1 + j
  BY <1>12, <1>13
<1>18. /\ \A i \in DOMAIN incidents : i \notin old => incidents'[i] = incidents[i]
       /\ \A j \in 1 .. n : incidents'[nextIncident - 1 + j] = u.classified[j]
  BY <1>5, <1>8, <1>9
<1> QED BY <1>2, <1>3, <1>4, <1>14, <1>15, <1>16, <1>17, <1>18, Zenon DEF Stores

\* What is stored covers the events that now point to it, and what is kept has
\* lost some of its events at most.
LEMMA PersistKeepsInv ==
    ASSUME Inv, NEW c \in Correlators, Persist(c)
    PROVE  Inv'
<1> DEFINE u == under[c]
           old == Cleared(u.from, u.to)
           n == Len(u.classified)
           found == DOMAIN events
<1>1. /\ under' = [under EXCEPT ![c] = Idle] /\ under[c] # Idle
      /\ correlations' = correlations + 1
      /\ UNCHANGED <<now, offset, events, changes>>
  BY DEF Persist
<1>2. /\ UnderWay(u, found) /\ u # Idle
      /\ n \in Nat /\ Len(u.clusters) = n /\ nextIncident \in Nat \ {0}
      /\ nextIncident' = nextIncident + n
      /\ \A i : i \in DOMAIN incidents' <=>
                   \/ i \in DOMAIN incidents /\ i \notin old
                   \/ i \in nextIncident .. nextIncident + n - 1
      /\ \A i \in DOMAIN incidents : i \in 1 .. nextIncident - 1
      /\ \A i \in DOMAIN incidents : i \notin old => incidents'[i] = incidents[i]
      /\ \A j \in 1 .. n : incidents'[nextIncident - 1 + j] = u.classified[j]
      /\ DOMAIN incidentOf' = found
      /\ \A k \in found :
            \/ /\ \A j \in 1 .. n : k \notin u.clusters[j]
               /\ incidentOf'[k] = IF incidentOf[k] \in old THEN NoIncident ELSE incidentOf[k]
            \/ \E j \in 1 .. n : k \in u.clusters[j] /\ incidentOf'[k] = nextIncident - 1 + j
  <2>1. u = under[c] /\ old = Cleared(u.from, u.to) /\ n = Len(u.classified)
    OBVIOUS
  <2> HIDE DEF u, old, n
  <2>2. Stores(u, old, n)
    BY <2>1, PersistStores
  <2> QED BY <2>2, Zenon DEF Stores
<1>3. /\ \A j \in 1 .. n : u.classified[j] \in Incident /\ u.clusters[j] \in SUBSET found
      /\ \A j \in 1 .. n : /\ \A k \in u.clusters[j] : u.classified[j].started <= k.started
                           /\ Cardinality(ProbesOf(u.clusters[j])) <= u.classified[j].probes
  <2>1. u \in Under(found) /\ Fits(u, found)
    BY <1>2 DEF UnderWay
  <2>2. u.classified \in Seq(Incident) /\ u.clusters \in Seq(SUBSET found)
    BY <2>1 DEF Under
  <2>3. \A j \in 1 .. n : u.classified[j] \in Incident /\ u.clusters[j] \in SUBSET found
    BY <1>2, <2>2, ElementOfSeq
  <2> QED BY <1>2, <2>1, <2>3 DEF Fits
<1>4. /\ incidentOf \in [found -> {NoIncident} \cup DOMAIN incidents]
      /\ StoredTyped(incidents, nextIncident)
      /\ Covered(found, incidentOf, incidents)
  BY InvParts
<1>5. /\ DOMAIN under' = Correlators
      /\ \A d \in Correlators : UnderWay(under'[d], DOMAIN events')
      /\ Correlating' = Correlating \ {c} /\ c \in Correlating
  BY <1>1, EndsIdle
<1>6. Within(correlations', Correlating') /\ correlations' \in 0 .. MaxCorrelations
  <2>1. Within(correlations, Correlating) /\ correlations \in Nat
    BY InvParts
  <2> DEFINE cs == Correlating
  <2> HIDE DEF cs
  <2>2. Within(correlations + 1, cs \ {c}) /\ correlations + 1 \in 0 .. MaxCorrelations
    BY <1>5, <2>1, OneLess DEF cs
  <2> QED BY <1>1, <1>5, <2>2, Zenon DEF cs
<1>7. DOMAIN events' = found /\ events' = events
  BY <1>1
<1> HIDE DEF found, old, n, u
<1>8. \A j \in 1 .. n : /\ nextIncident - 1 + j \in nextIncident .. nextIncident + n - 1
                        /\ nextIncident - 1 + j \in Nat \ {0}
  BY <1>2
<1>9. \A i \in nextIncident .. nextIncident + n - 1 :
          \E j \in 1 .. n : i = nextIncident - 1 + j
  <2> SUFFICES ASSUME NEW i \in nextIncident .. nextIncident + n - 1
               PROVE  \E j \in 1 .. n : i = nextIncident - 1 + j
    OBVIOUS
  <2>1. i - nextIncident + 1 \in 1 .. n /\ i = nextIncident - 1 + (i - nextIncident + 1)
    BY <1>2
  <2> QED BY <2>1
<1>10. StoredTyped(incidents', nextIncident')
  <2>1. ASSUME NEW i \in DOMAIN incidents'
        PROVE  i \in 1 .. nextIncident' - 1 /\ incidents'[i] \in Incident
    <3>1. CASE i \in DOMAIN incidents /\ i \notin old
      <4>1. i \in 1 .. nextIncident - 1 /\ incidents'[i] = incidents[i]
        BY <1>2, <3>1
      <4>2. incidents[i] \in Incident
        BY <1>4, <3>1 DEF StoredTyped
      <4>3. \A m \in Nat : i \in 1 .. (nextIncident + m) - 1
        BY <1>2, <4>1
      <4> QED BY <1>2, <4>1, <4>2, <4>3
    <3>2. CASE i \in nextIncident .. nextIncident + n - 1
      <4>1. PICK j \in 1 .. n : i = nextIncident - 1 + j
        BY <1>9, <3>2
      <4>2. incidents'[i] \in Incident
        BY <1>2, <1>3, <4>1
      <4>3. i \in 1 .. (nextIncident + n) - 1
        BY <1>2, <3>2
      <4> QED BY <1>2, <4>2, <4>3
    <3> QED BY <1>2, <3>1, <3>2
  <2> QED BY <2>1 DEF StoredTyped
<1>11. ASSUME NEW k \in found
       PROVE  incidentOf'[k] \in {NoIncident} \cup DOMAIN incidents'
  <2>1. CASE \A j \in 1 .. n : k \notin u.clusters[j]
    <3>1. incidentOf'[k] = IF incidentOf[k] \in old THEN NoIncident ELSE incidentOf[k]
      BY <1>2, <2>1
    <3>2. incidentOf[k] \in {NoIncident} \cup DOMAIN incidents
      BY <1>4
    <3> QED BY <1>2, <3>1, <3>2
  <2>2. CASE \E j \in 1 .. n : k \in u.clusters[j] /\ incidentOf'[k] = nextIncident - 1 + j
    BY <1>2, <1>8, <2>2
  <2> QED BY <1>2, <2>1, <2>2
<1>12. incidentOf' \in [found -> {NoIncident} \cup DOMAIN incidents']
  <2>1. incidentOf' = [k \in DOMAIN incidentOf' |-> incidentOf'[k]]
    BY DEF Persist, Links
  <2> QED BY <1>2, <1>11, <2>1
<1>13. ASSUME NEW i \in DOMAIN incidents'
       PROVE  Covers(incidents'[i], MembersIn(found, incidentOf', i))
  <2>1. CASE i \in DOMAIN incidents /\ i \notin old
    <3> DEFINE ks == MembersIn(found, incidentOf, i)
               fewer == MembersIn(found, incidentOf', i)
    <3>1. incidents'[i] = incidents[i] /\ i \in 1 .. nextIncident - 1
      BY <1>2, <2>1
    <3>2. i # NoIncident /\ \A j \in 1 .. n : i # nextIncident - 1 + j
      BY <1>2, <3>1 DEF NoIncident
    <3>3. fewer \in SUBSET ks
      BY <1>2, <3>2 DEF MembersIn
    <3>4. Covers(incidents[i], ks)
      BY <1>4, <2>1 DEF Covered
    <3>5. ks \in SUBSET DOMAIN events
      BY DEF MembersIn, found
    <3> HIDE DEF ks, fewer
    <3>6. Cardinality(ProbesOf(fewer)) <= Cardinality(ProbesOf(ks))
      BY <3>3, <3>5, InvParts, FewerProbes
    <3>7. /\ Cardinality(ProbesOf(fewer)) \in Nat /\ Cardinality(ProbesOf(ks)) \in Nat
      BY <3>3, <3>5, InvParts, ProbesOfFinite
    <3>8. incidents[i].probes \in Int
      BY <1>4, <2>1 DEF StoredTyped, Incident
    <3>9. Covers(incidents[i], fewer)
      BY <3>3, <3>4, <3>6, <3>7, <3>8 DEF Covers
    <3> QED BY <3>1, <3>9 DEF fewer
  <2>2. CASE i \in nextIncident .. nextIncident + n - 1
    <3>1. PICK j \in 1 .. n : i = nextIncident - 1 + j
      BY <1>9, <2>2
    <3> DEFINE ks == u.clusters[j]
               fewer == MembersIn(found, incidentOf', i)
    <3>2. incidents'[i] = u.classified[j]
      BY <1>2, <3>1
    <3>3. ASSUME NEW k \in fewer PROVE k \in ks
      <4>1. k \in found /\ incidentOf'[k] = i
        BY DEF MembersIn
      <4>2. i # NoIncident /\ i \notin DOMAIN incidents
        BY <1>2, <2>2 DEF NoIncident
      <4>3. incidentOf[k] \in {NoIncident} \cup DOMAIN incidents
        BY <1>4, <4>1
      <4>4. PICK h \in 1 .. n : k \in u.clusters[h] /\ incidentOf'[k] = nextIncident - 1 + h
        BY <1>2, <4>1, <4>2, <4>3
      <4>5. h = j
        BY <1>2, <3>1, <4>1, <4>4
      <4> QED BY <4>4, <4>5
    <3>4. ks \in SUBSET DOMAIN events
      BY <1>3 DEF found
    <3>5. /\ \A k \in ks : u.classified[j].started <= k.started
          /\ Cardinality(ProbesOf(ks)) <= u.classified[j].probes
      BY <1>3
    <3>6. u.classified[j].probes \in Int
      BY <1>3 DEF Incident
    <3> HIDE DEF ks, fewer
    <3>7. fewer \in SUBSET ks
      BY <3>3
    <3>8. Cardinality(ProbesOf(fewer)) <= Cardinality(ProbesOf(ks))
      BY <3>4, <3>7, InvParts, FewerProbes
    <3>9. /\ Cardinality(ProbesOf(fewer)) \in Nat /\ Cardinality(ProbesOf(ks)) \in Nat
      BY <3>4, <3>7, InvParts, ProbesOfFinite
    <3>10. Covers(u.classified[j], fewer)
      BY <3>5, <3>6, <3>7, <3>8, <3>9 DEF Covers
    <3> QED BY <3>2, <3>10 DEF fewer
  <2> QED BY <1>2, <2>1, <2>2
<1>14. Covered(DOMAIN events', incidentOf', incidents')
  BY <1>7, <1>13, Zenon DEF Covered
<1>15. /\ now' \in Times /\ (\A p \in Probes : offset'[p] \in Offsets[p]) /\ DOMAIN offset' = Probes
       /\ EventsTyped(now', DOMAIN events', events')
       /\ changes' \in 0 .. MaxChanges
  BY <1>1, InvParts
<1>16. nextIncident' \in Nat \ {0}
  BY <1>2
<1>17. incidentOf' \in [DOMAIN events' -> {NoIncident} \cup DOMAIN incidents']
  BY <1>7, <1>12
<1> QED BY <1>5, <1>6, <1>10, <1>14, <1>15, <1>16, <1>17, InvIsNext

-----------------------------------------------------------------------------
\* The invariant is inductive.
LEMMA NextKeepsInv == Inv /\ [Next]_vars => Inv'
<1> SUFFICES ASSUME Inv, [Next]_vars PROVE Inv'
  OBVIOUS
<1>1. now \in Nat
  BY InvParts
<1>2. CASE Detection
  <2>1. PICK ended \in {Ongoing} \cup 1 .. now :
           \/ \E p \in Probes, started \in 1 .. now :
                 (ended = Ongoing \/ started <= ended) /\ Detected(p, started, ended)
           \/ \E k \in DOMAIN events :
                 (ended = Ongoing \/ k.started <= ended) /\ Redetected(k, ended)
    BY <1>2, Zenon DEF Detection
  <2> QED BY <2>1, DetectedKeepsInv, RedetectedKeepsInv
<1>3. CASE \E p \in Probes : \E measured \in Offsets[p] : Touch(p, measured)
  BY <1>3, TouchKeepsInv
<1>4. CASE Tick
  BY <1>4, TickKeepsInv
<1>5. CASE CorrelateTrailing
  <2>1. "loop" \in Correlators /\ now - Trailing \in Int /\ now \in Nat \ {0}
    <3>1. now \in Times /\ Trailing \in Nat
      BY InvParts, CorrelateConstants DEF CorrelateConstants
    <3> QED BY <1>1, <3>1 DEF Correlators, Times
  <2>2. Load("loop", now - Trailing, now)
    BY <1>5 DEF CorrelateTrailing
  <2> QED BY <2>1, <2>2, LoadKeepsInv
<1>6. CASE CorrelateRerun
  <2>1. PICK c \in Reruns, to \in 1 .. now : \E from \in 1 .. to : Load(c, from, to)
    BY <1>6, Zenon DEF CorrelateRerun
  <2>2. PICK from \in 1 .. to : Load(c, from, to)
    BY <2>1
  <2>3. c \in Correlators /\ from \in Int /\ to \in Nat \ {0}
    BY <1>1 DEF Correlators
  <2> QED BY <2>2, <2>3, LoadKeepsInv
<1>7. CASE \E c \in Correlators : Persist(c) \/ PersistFails(c)
  BY <1>7, PersistKeepsInv, PersistFailsKeepsInv
<1>8. CASE UNCHANGED vars
  <2>1. /\ UNCHANGED <<now, offset, events, incidentOf, incidents, nextIncident,
                       changes, correlations, under>>
    BY <1>8 DEF vars
  <2>2. Correlating' = Correlating
    BY <2>1 DEF Correlating
  <2> QED BY <2>1, <2>2, InvParts, InvIsNext, Zenon
<1> QED BY <1>2, <1>3, <1>4, <1>5, <1>6, <1>7, <1>8 DEF Next

\* The inductive invariant, for any probes, clocks, windows and threads.
THEOREM InvHolds == Spec => []Inv
<1>1. Init => Inv
  BY InitInv
<1>2. Inv /\ [Next]_vars => Inv'
  BY NextKeepsInv
<1> QED BY <1>1, <1>2, PTL DEF Spec

\* Every event points to an incident there is, or to none (correlate.py:311),
\* whatever threads correlate at the same time.
THEOREM TypeCorrect == Spec => []TypeOK
<1>1. Inv => TypeOK
  BY InvParts
<1> QED BY <1>1, InvHolds, PTL

\* What an incident says of its size stays true of the events that point to it
\* (MembersFit), however windows move and reruns take events away from it.
THEOREM AlwaysMembersFit == Spec => []MembersFit
<1>1. Inv => MembersFit
  BY InvParts
<1> QED BY <1>1, InvHolds, PTL

\* The sweep of correlate.py:166 always finds the connected components of the
\* overlap relation, whatever the offsets do to the order of the events.
THEOREM AlwaysComponents == Spec => []ClustersAreComponents
<1>1. Inv => ClustersAreComponents
  BY InvParts, TypedComponents
<1> QED BY <1>1, InvHolds, PTL

-----------------------------------------------------------------------------
(* Which steps regroup                                                       *)
LinksStay == \A k \in DOMAIN events : k \in DOMAIN events' /\ incidentOf'[k] = incidentOf[k]

\* No other step moves an event from its incident.
LEMMA OnlyPersistRegroups ==
    ASSUME Inv, [Next]_vars
    PROVE  LinksStay \/ \E c \in Correlators : Persist(c)
<1>1. CASE Detection
  <2>1. PICK ended \in {Ongoing} \cup 1 .. now :
           \/ \E p \in Probes, started \in 1 .. now : Detected(p, started, ended)
           \/ \E k \in DOMAIN events : Redetected(k, ended)
    BY <1>1, Zenon DEF Detection
  <2>2. ASSUME NEW p, NEW started, Detected(p, started, ended) PROVE LinksStay
    <3> DEFINE k == [probe |-> p, started |-> started]
    <3>1. /\ k \notin DOMAIN events
          /\ events' = [e \in DOMAIN events \cup {k} |-> IF e = k THEN ended ELSE events[e]]
          /\ incidentOf' = [e \in DOMAIN events \cup {k} |->
                               IF e = k THEN NoIncident ELSE incidentOf[e]]
      BY <2>2 DEF Detected
    <3> HIDE DEF k
    <3> QED BY <3>1 DEF LinksStay
  <2>3. ASSUME NEW k, Redetected(k, ended) PROVE LinksStay
    BY <2>3 DEF Redetected, LinksStay
  <2> QED BY <2>1, <2>2, <2>3
<1>2. CASE \/ \E p \in Probes : \E measured \in Offsets[p] : Touch(p, measured)
           \/ Tick \/ CorrelateTrailing \/ CorrelateRerun
           \/ \E c \in Correlators : PersistFails(c)
           \/ UNCHANGED vars
  <2>1. events' = events /\ incidentOf' = incidentOf
    BY <1>2 DEF Touch, Tick, CorrelateTrailing, CorrelateRerun, Load, PersistFails, vars
  <2> QED BY <2>1 DEF LinksStay
<1> QED BY <1>1, <1>2 DEF Next

\* An event that is left alone was beyond the window or not seen: else the
\* incident that was cleared, which covers its start, puts it into the window,
\* and so into a group.
LEMMA RegroupedStep ==
    ASSUME Inv, NEW c \in Correlators, Persist(c)
    PROVE  /\ Persists(c)
           /\ \A k \in DOMAIN events : incidentOf[k] # NoIncident /\ incidentOf'[k] = NoIncident =>
                 under[c].to < k.started \/ k \in under[c].unseen
           /\ \A i \in DOMAIN incidents \cap DOMAIN incidents' :
                 Members(i) # {} /\ Members(i)' = {} => incidents[i].started < under[c].from
<1> DEFINE u == under[c]
           old == Cleared(u.from, u.to)
           n == Len(u.classified)
<1>1. Persists(c)
  BY InvParts DEF Persist, Persists
<1>2. Stores(u, old, n)
  <2>1. u = under[c] /\ old = Cleared(u.from, u.to) /\ n = Len(u.classified)
    OBVIOUS
  <2> HIDE DEF u, old, n
  <2> QED BY <2>1, PersistStores
<1>3. \A i \in DOMAIN incidents :
         i \in old <=> (u.from <= incidents[i].started /\ incidents[i].started <= u.to)
  <2>1. u.from \in Int /\ u.to \in Int
    BY <1>2 DEF Stores
  <2>2. \A i \in DOMAIN incidents : incidents[i].started \in Int
    BY InvParts DEF StoredTyped, Incident, Times
  <2> QED BY <2>1, <2>2 DEF Cleared
<1>4. /\ Len(u.clusters) = n
      /\ \A j \in 1 .. n : \A k \in u.clusters[j] : k.started <= u.to
      /\ \A k \in DOMAIN events \ u.unseen : u.from <= k.started /\ k.started <= u.to =>
            \E j \in 1 .. n : k \in u.clusters[j]
  BY <1>2 DEF Stores, UnderWay, Fits
<1>5. \A i \in DOMAIN incidents : \A k \in DOMAIN events :
         incidentOf[k] = i => incidents[i].started <= k.started
  BY InvParts DEF Covered, Covers, MembersIn
<1>6. \A k \in DOMAIN events : incidentOf[k] = NoIncident \/ incidentOf[k] \in DOMAIN incidents
  BY InvParts
<1>7. /\ u.from \in Int /\ u.to \in Int /\ nextIncident \in Nat \ {0}
      /\ \A k \in DOMAIN events : k.started \in Int
      /\ \A i \in DOMAIN incidents : i \in 1 .. nextIncident - 1
      /\ \A i \in DOMAIN incidents : incidents[i].started \in Int
  BY <1>2, InvParts DEF Stores, StoredTyped, Incident, Times
<1>8. /\ n \in Nat
      /\ \A i : i \in DOMAIN incidents' <=>
                 \/ i \in DOMAIN incidents /\ i \notin old
                 \/ i \in nextIncident .. nextIncident + n - 1
      /\ DOMAIN incidentOf' = DOMAIN events
      /\ \A k \in DOMAIN events :
          \/ /\ \A j \in 1 .. n : k \notin u.clusters[j]
             /\ incidentOf'[k] = IF incidentOf[k] \in old THEN NoIncident ELSE incidentOf[k]
          \/ \E j \in 1 .. n : /\ k \in u.clusters[j]
                               /\ incidentOf'[k] = nextIncident - 1 + j
  BY <1>2, Zenon DEF Stores
<1> HIDE DEF u, old, n
<1>9. ASSUME NEW k \in DOMAIN events, incidentOf[k] # NoIncident, incidentOf'[k] = NoIncident
      PROVE  u.to < k.started \/ k \in u.unseen
  <2>1. /\ \A j \in 1 .. n : k \notin u.clusters[j]
        /\ incidentOf'[k] = IF incidentOf[k] \in old THEN NoIncident ELSE incidentOf[k]
    <3>1. ASSUME NEW j \in 1 .. n, incidentOf'[k] = nextIncident - 1 + j PROVE FALSE
      BY <1>7, <1>8, <1>9, <3>1 DEF NoIncident
    <3> QED BY <1>8, <3>1
  <2>2. incidentOf[k] \in old /\ incidentOf[k] \in DOMAIN incidents
    BY <1>6, <1>9, <2>1
  <2>3. u.from <= k.started
    BY <1>3, <1>5, <1>7, <2>2
  <2> QED BY <1>4, <1>7, <2>1, <2>3
<1>10. ASSUME NEW i \in DOMAIN incidents \cap DOMAIN incidents', Members(i) # {}, Members(i)' = {}
       PROVE  incidents[i].started < u.from
  <2>1. i \notin old
    BY <1>7, <1>8
  <2>2. PICK k \in DOMAIN events : incidentOf[k] = i
    BY <1>10 DEF Members
  <2>3. incidentOf'[k] # i
    <3>1. Members(i)' = {l \in DOMAIN events' : incidentOf'[l] = i}
      BY DEF Members
    <3>2. DOMAIN events' = DOMAIN events
      BY DEF Persist
    <3> QED BY <1>10, <3>1, <3>2
  <2>4. PICK j \in 1 .. n : k \in u.clusters[j]
    BY <1>8, <2>1, <2>2, <2>3
  <2>5. incidents[i].started <= k.started /\ k.started <= u.to
    BY <1>4, <1>5, <2>2, <2>4
  <2> QED BY <1>3, <1>7, <2>1, <2>2, <2>5
<1> QED BY <1>1, <1>9, <1>10 DEF u

Accounted ==
    /\ \A k \in DOMAIN events : incidentOf[k] # NoIncident /\ incidentOf'[k] = NoIncident =>
          \E c \in Correlators : Persists(c)
              /\ (under[c].to < k.started \/ k \in under[c].unseen)
    /\ \A i \in DOMAIN incidents \cap DOMAIN incidents' : Members(i) # {} /\ Members(i)' = {} =>
          \E c \in Correlators : Persists(c) /\ incidents[i].started < under[c].from

\* So every step can be accounted for.
LEMMA StepsAreAccounted ==
    ASSUME Inv, [Next]_vars
    PROVE  Accounted
<1>1. CASE LinksStay
  <2>1. \A i : Members(i)' = {l \in DOMAIN events' : incidentOf'[l] = i}
    BY DEF Members
  <2>2. \A i : Members(i) # {} => Members(i)' # {}
    BY <1>1, <2>1 DEF LinksStay, Members
  <2> QED BY <1>1, <2>2 DEF Accounted, LinksStay
<1>2. CASE \E c \in Correlators : Persist(c)
  <2>1. PICK c \in Correlators : Persist(c)
    BY <1>2
  <2> QED BY <2>1, RegroupedStep, Zenon DEF Accounted
<1> QED BY <1>1, <1>2, OnlyPersistRegroups

\* A rerun or the loop takes an event from its incident without another one, or
\* leaves an incident without events, only for the reasons given in Correlate
\* (correlate.py:95), however the two interleave.
THEOREM AlwaysAccounted == Spec => RegroupingIsAccounted
<1>1. Inv /\ [Next]_vars => [Accounted]_vars
  BY StepsAreAccounted
<1>2. RegroupingIsAccounted <=> [][Accounted]_vars
  BY PTL DEF RegroupingIsAccounted, Accounted
<1> QED BY <1>1, <1>2, InvHolds, PTL DEF Spec

-----------------------------------------------------------------------------
(* Grouping reads the events and the offsets alone                           *)
LEMMA ReadsTheSame ==
    ASSUME UNCHANGED <<events, offset>>
    PROVE  /\ \A from, to : Clusters(Loaded(from, to))' = Clusters(Loaded(from, to))
           /\ \A from, to : Loaded(from, to)' = Loaded(from, to)
           /\ \A ks : Classify(ks)' = Classify(ks)
<1>1. \A k : From(k)' = From(k)
  BY DEF From
<1>2. \A k, edge : Until(k, edge)' = Until(k, edge)
  BY DEF Until
<1>3. \A from, to : Loaded(from, to)' = Loaded(from, to)
  BY DEF Loaded
<1>4. \A ks : Edge(ks)' = Edge(ks)
  BY DEF Edge
<1>5. \A ks : InOrder(ks)' = InOrder(ks)
  BY DEF InOrder, From, Range
<1>6. \A edge, sweep, k : Sweep(edge, sweep, k)' = Sweep(edge, sweep, k)
  BY DEF Sweep, From, Until
<1>7. \A edge, order : Swept(edge, order)' = Swept(edge, order)
  BY DEF Swept, Sweep, From, Until
<1>8. \A ks : Clusters(ks)' = Clusters(ks)
  BY <1>4, <1>5, <1>7 DEF Clusters
<1>9. \A ks : Classify(ks)' = Classify(ks)
  BY DEF Classify, ScopeOf
<1> QED BY <1>3, <1>8, <1>9

-----------------------------------------------------------------------------
(* The invariant of a correlation that is repeated                           *)

\* What it would store is what it would find if it loaded again.
Current(u) ==
    u # Idle /\ u.fresh =>
        /\ u.clusters = Clusters(Loaded(u.from, u.to))
        /\ u.classified = [i \in DOMAIN u.clusters |-> Classify(u.clusters[i])]

\* The newest incidents are those of the window, and no other started in it.
Settles(w, base, n) ==
    /\ nextIncident = base + n
    /\ \A i \in DOMAIN incidents : i < base =>
          ~(w[1] <= incidents[i].started /\ incidents[i].started <= w[2])
    /\ \A j \in 1 .. n :
          /\ base - 1 + j \in DOMAIN incidents
          /\ incidents[base - 1 + j] = Classify(Clusters(Loaded(w[1], w[2]))[j])

Settled(w) ==
    \E base \in Nat \ {0} : Settles(w, base, Len(Clusters(Loaded(w[1], w[2]))))

RerunInv ==
    /\ Inv
    /\ \A c \in Correlators : Current(under[c])
    /\ last # NoWindow => Settled(last)

\* As long as they stay as they are, so does what would be found,
LEMMA CurrentStays ==
    ASSUME UNCHANGED <<events, offset>>
    PROVE  \A u : Current(u)' <=> Current(u)
<1> SUFFICES ASSUME NEW u PROVE Current(u)' <=> Current(u)
  OBVIOUS
<1>1. Clusters(Loaded(u.from, u.to))' = Clusters(Loaded(u.from, u.to))
  BY ReadsTheSame
<1>2. \A ks : Classify(ks)' = Classify(ks)
  BY ReadsTheSame
<1>3. [i \in DOMAIN u.clusters |-> Classify(u.clusters[i])]'
          = [i \in DOMAIN u.clusters |-> Classify(u.clusters[i])]
  BY <1>2
<1> QED BY <1>1, <1>3 DEF Current

\* and what was stored for the window.
LEMMA SettledStays ==
    ASSUME UNCHANGED <<events, offset, incidents, nextIncident>>, NEW w, Settled(w)
    PROVE  Settled(w)'
<1>1. Clusters(Loaded(w[1], w[2]))' = Clusters(Loaded(w[1], w[2]))
  BY ReadsTheSame
<1>2. \A ks : Classify(ks)' = Classify(ks)
  BY ReadsTheSame
<1>3. \A base, n : Settles(w, base, n) => Settles(w, base, n)'
  BY <1>1, <1>2 DEF Settles
<1>4. Len(Clusters(Loaded(w[1], w[2])))' = Len(Clusters(Loaded(w[1], w[2])))
  BY <1>1
<1> QED BY <1>3, <1>4, Zenon DEF Settled

\* Nothing has been correlated.
LEMMA InitRerunInv == Init => RerunInv
<1> SUFFICES ASSUME Init PROVE RerunInv
  OBVIOUS
<1>1. \A c \in Correlators : Current(under[c])
  BY DEF Init, Current
<1>2. last = NoWindow
  BY DEF Init
<1> QED BY <1>1, <1>2, InitInv DEF RerunInv

\* Whatever changes events or offsets is remembered.
LEMMA ChangeUnsettles ==
    ASSUME RerunInv, NEW ks, Unseen(ks), last' = NoWindow, Inv'
    PROVE  RerunInv'
<1>1. ASSUME NEW c \in Correlators
      PROVE  under'[c] = Idle \/ under'[c].fresh = FALSE
  <2>1. under'[c] = IF under[c] = Idle THEN Idle
                    ELSE [under[c] EXCEPT !.unseen = @ \cup ks, !.fresh = FALSE]
    BY DEF Unseen
  <2>2. UnderWay(under[c], DOMAIN events)
    BY InvParts DEF RerunInv
  <2>3. under[c] \in Under(DOMAIN events)
    BY <2>2 DEF UnderWay
  <2> QED BY <2>1, <2>3 DEF Under
<1>2. \A c \in Correlators : Current(under[c])'
  BY <1>1 DEF Current
<1> QED BY <1>2 DEF RerunInv

\* So is the passing of time.
LEMMA TickUnsettles ==
    ASSUME RerunInv, Tick, Inv'
    PROVE  RerunInv'
<1>1. UNCHANGED <<events, offset>> /\ under' = under /\ last' = NoWindow
  BY DEF Tick
<1>2. \A u : Current(u)' <=> Current(u)
  BY <1>1, CurrentStays
<1>3. \A c \in Correlators : Current(under[c])'
  BY <1>1, <1>2 DEF RerunInv
<1> QED BY <1>1, <1>3 DEF RerunInv

\* Beginning a correlation, giving one up, or doing nothing.
LEMMA QuietKeepsRerunInv ==
    ASSUME RerunInv, UNCHANGED <<events, offset, incidents, nextIncident, last>>, Inv',
           \A c \in Correlators : Current(under'[c])
    PROVE  RerunInv'
<1>1. \A u : Current(u)' <=> Current(u)
  BY CurrentStays
<1>2. \A c \in Correlators : Current(under[c])'
  BY <1>1
<1>3. last # NoWindow => Settled(last)'
  BY SettledStays DEF RerunInv
<1> QED BY <1>2, <1>3 DEF RerunInv

\* What has just been loaded is what is there.
LEMMA LoadKeepsRerunInv ==
    ASSUME RerunInv, NEW c \in Correlators, NEW from \in Int, NEW to \in Nat \ {0},
           Load(c, from, to), Inv'
    PROVE  RerunInv'
<1>1. PICK clusters \in {Clusters(Loaded(from, to))} :
          under' = [under EXCEPT ![c] =
                       [from |-> from, to |-> to, clusters |-> clusters,
                        classified |-> [i \in DOMAIN clusters |-> Classify(clusters[i])],
                        unseen |-> {}, fresh |-> TRUE]]
  BY Zenon DEF Load
<1> DEFINE u == [from |-> from, to |-> to, clusters |-> clusters,
                 classified |-> [i \in DOMAIN clusters |-> Classify(clusters[i])],
                 unseen |-> {}, fresh |-> TRUE]
<1>2. Current(u)
  BY <1>1 DEF Current
<1> HIDE DEF u
<1>3. DOMAIN under = Correlators
  BY InvParts DEF RerunInv
<1>4. \A d \in Correlators : Current(under'[d])
  <2>1. under' = [under EXCEPT ![c] = u]
    BY <1>1 DEF u
  <2> QED BY <1>2, <1>3, <2>1 DEF RerunInv
<1>5. UNCHANGED <<events, offset, incidents, nextIncident, last>>
  BY DEF Load
<1> QED BY <1>4, <1>5, QuietKeepsRerunInv

\* A thread that ends its correlation has nothing to store.
LEMMA IdleIsCurrent ==
    ASSUME Inv, NEW c \in Correlators, under' = [under EXCEPT ![c] = Idle],
           \A d \in Correlators : Current(under[d])
    PROVE  \A d \in Correlators : Current(under'[d])
<1>1. DOMAIN under = Correlators
  BY InvParts
<1>2. Current(Idle)
  BY DEF Current
<1> QED BY <1>1, <1>2

\* What a correlation stores that nothing has overtaken.
LEMMA PersistSettles ==
    ASSUME Inv, NEW c \in Correlators, Persist(c), NEW u, u = under[c], u.fresh, Current(u),
           NEW w, w = <<u.from, u.to>>
    PROVE  Settled(w)'
<1>1. w[1] = u.from /\ w[2] = u.to /\ UNCHANGED <<events, offset>>
  BY DEF Persist
<1>2. PICK old, n : /\ old = Cleared(u.from, u.to) /\ n = Len(u.classified)
                    /\ Stores(u, old, n)
  BY PersistStores
<1>3. /\ u # Idle /\ n \in Nat /\ Len(u.clusters) = n /\ u.from \in Int /\ u.to \in Nat
      /\ UnderWay(u, DOMAIN events)
      /\ nextIncident' = nextIncident + n /\ nextIncident \in Nat \ {0}
  BY <1>2 DEF Stores
<1>4. /\ u.clusters = Clusters(Loaded(u.from, u.to))
      /\ u.classified = [i \in DOMAIN u.clusters |-> Classify(u.clusters[i])]
  BY <1>3 DEF Current
<1>5. Clusters(Loaded(w[1], w[2]))' = u.clusters
  BY <1>1, <1>4, ReadsTheSame
<1>6. \A j \in 1 .. n : u.classified[j] = Classify(u.clusters[j])'
  <2>1. DOMAIN u.clusters = 1 .. n
    BY <1>3, UnderTyped
  <2>2. \A ks : Classify(ks)' = Classify(ks)
    BY <1>1, ReadsTheSame
  <2>3. \A j \in 1 .. n : u.classified[j] = Classify(u.clusters[j])
    BY <1>4, <2>1
  <2> QED BY <2>2, <2>3
<1>7. \A i \in DOMAIN incidents' : i < nextIncident =>
         ~(w[1] <= incidents'[i].started /\ incidents'[i].started <= w[2])
  <2> SUFFICES ASSUME NEW i \in DOMAIN incidents', i < nextIncident
               PROVE  ~(u.from <= incidents'[i].started /\ incidents'[i].started <= u.to)
    BY <1>1
  <2>1. i \in DOMAIN incidents /\ i \notin old /\ incidents'[i] = incidents[i]
    BY <1>2, <1>3 DEF Stores
  <2>2. incidents[i].started \in Int
    BY <2>1, InvParts DEF StoredTyped, Incident, Times
  <2> QED BY <1>2, <1>3, <2>1, <2>2 DEF Cleared
<1>8. \A j \in 1 .. n :
         /\ nextIncident - 1 + j \in DOMAIN incidents'
         /\ incidents'[nextIncident - 1 + j] = u.classified[j]
  <2> SUFFICES ASSUME NEW j \in 1 .. n PROVE nextIncident - 1 + j \in DOMAIN incidents'
    BY <1>2 DEF Stores
  <2>1. nextIncident - 1 + j \in nextIncident .. nextIncident + n - 1
    BY <1>3
  <2> QED BY <1>2, <2>1 DEF Stores
<1>9. PICK base : base = nextIncident
  OBVIOUS
<1>10. Settles(w, base, n)'
  <2>1. \A j \in 1 .. n : u.classified[j] = Classify(Clusters(Loaded(w[1], w[2]))[j])'
    BY <1>5, <1>6
  <2> QED BY <1>3, <1>7, <1>8, <1>9, <2>1 DEF Settles
<1>11. n = Len(Clusters(Loaded(w[1], w[2])))'
  BY <1>3, <1>5
<1> QED BY <1>3, <1>9, <1>10, <1>11, Zenon DEF Settled

\* And the threads that are still correlating see the same events.
LEMMA PersistKeepsRerunInv ==
    ASSUME RerunInv, NEW c \in Correlators, Persist(c), Inv'
    PROVE  RerunInv'
<1>1. PICK u, w : u = under[c] /\ w = <<u.from, u.to>>
  OBVIOUS
<1>2. /\ UNCHANGED <<events, offset>>
      /\ under' = [under EXCEPT ![c] = Idle]
      /\ last' = IF u.fresh THEN w ELSE NoWindow
  BY <1>1 DEF Persist
<1>3. Inv
  BY DEF RerunInv
<1>4. \A d \in Correlators : Current(under[d])'
  <2>1. \A d \in Correlators : Current(under'[d])
    BY <1>2, <1>3, IdleIsCurrent DEF RerunInv
  <2>2. \A v : Current(v)' <=> Current(v)
    BY <1>2, CurrentStays
  <2> QED BY <2>1, <2>2
<1>5. u.fresh => Settled(w)'
  <2>1. Current(u)
    BY <1>1 DEF RerunInv
  <2> QED BY <1>1, <1>3, <2>1, PersistSettles
<1>6. last' # NoWindow => Settled(last)'
  BY <1>2, <1>5
<1> QED BY <1>4, <1>6 DEF RerunInv

\* The invariant is inductive.
LEMMA NextKeepsRerunInv == RerunInv /\ [Next]_vars => RerunInv'
<1> SUFFICES ASSUME RerunInv, [Next]_vars PROVE RerunInv'
  OBVIOUS
<1>1. Inv /\ Inv'
  BY NextKeepsInv DEF RerunInv
<1>2. now \in Nat \ {0}
  BY <1>1, InvParts DEF Times
<1>3. CASE Detection \/ \E p \in Probes : \E measured \in Offsets[p] : Touch(p, measured)
  <2>1. last' = NoWindow /\ \E ks : Unseen(ks)
    <3>1. CASE Detection
      <4>1. PICK ended \in {Ongoing} \cup 1 .. now :
               \/ \E p \in Probes, started \in 1 .. now : Detected(p, started, ended)
               \/ \E k \in DOMAIN events : Redetected(k, ended)
        BY <3>1, Zenon DEF Detection
      <4> QED BY <4>1, Zenon DEF Detected, Redetected, Change
    <3>2. CASE \E p \in Probes : \E measured \in Offsets[p] : Touch(p, measured)
      BY <3>2, Zenon DEF Touch, Change
    <3> QED BY <1>3, <3>1, <3>2
  <2> QED BY <1>1, <2>1, ChangeUnsettles
<1>4. CASE Tick
  BY <1>1, <1>4, TickUnsettles
<1>5. CASE CorrelateTrailing
  <2>1. "loop" \in Correlators /\ now - Trailing \in Int
    BY <1>2, CorrelateConstants DEF CorrelateConstants, Correlators
  <2>2. Load("loop", now - Trailing, now)
    BY <1>5 DEF CorrelateTrailing
  <2> QED BY <1>1, <1>2, <2>1, <2>2, LoadKeepsRerunInv
<1>6. CASE CorrelateRerun
  <2>1. PICK c \in Reruns, to \in 1 .. now : \E from \in 1 .. to : Load(c, from, to)
    BY <1>6, Zenon DEF CorrelateRerun
  <2>2. PICK from \in 1 .. to : Load(c, from, to)
    BY <2>1
  <2>3. c \in Correlators /\ from \in Int /\ to \in Nat \ {0}
    BY <1>2 DEF Correlators
  <2> QED BY <1>1, <2>2, <2>3, LoadKeepsRerunInv
<1>7. ASSUME NEW c \in Correlators, Persist(c)
      PROVE  RerunInv'
  BY <1>1, <1>7, PersistKeepsRerunInv
<1>8. ASSUME NEW c \in Correlators, PersistFails(c)
      PROVE  RerunInv'
  <2>1. /\ UNCHANGED <<events, offset, incidents, nextIncident, last>>
        /\ under' = [under EXCEPT ![c] = Idle]
    BY <1>8 DEF PersistFails
  <2>2. \A d \in Correlators : Current(under'[d])
    BY <1>1, <2>1, IdleIsCurrent DEF RerunInv
  <2> QED BY <1>1, <2>1, <2>2, QuietKeepsRerunInv
<1>9. CASE UNCHANGED vars
  <2>1. UNCHANGED <<events, offset, incidents, nextIncident, last>> /\ under' = under
    BY <1>9 DEF vars
  <2>2. \A d \in Correlators : Current(under'[d])
    BY <2>1 DEF RerunInv
  <2> QED BY <1>1, <2>1, <2>2, QuietKeepsRerunInv
<1> QED BY <1>3, <1>4, <1>5, <1>6, <1>7, <1>8, <1>9 DEF Next

\* The invariant of a repeated correlation holds.
THEOREM RerunInvHolds == Spec => []RerunInv
<1>1. Init => RerunInv
  BY InitRerunInv
<1>2. RerunInv /\ [Next]_vars => RerunInv'
  BY NextKeepsRerunInv
<1> QED BY <1>1, <1>2, PTL DEF Spec

-----------------------------------------------------------------------------
(* A window correlated again replaces its incidents by the same ones         *)

\* Numbers from base on are moved up by n, and others stay.
Renumbered(D, E, base, n) ==
    /\ D \subseteq 1 .. base + n - 1
    /\ \A j \in base .. base + n - 1 : j \in D
    /\ \A i : i \in E <=> \/ i \in D /\ i < base
                          \/ i \in base + n .. base + n + n - 1

LEMMA AsMany ==
    ASSUME NEW base \in Nat \ {0}, NEW n \in Nat, NEW D, NEW E, Renumbered(D, E, base, n)
    PROVE  Cardinality(E) = Cardinality(D)
<1>0. /\ D \subseteq 1 .. base + n - 1
      /\ \A j \in base .. base + n - 1 : j \in D
      /\ \A i : i \in E <=> \/ i \in D /\ i < base
                            \/ i \in base + n .. base + n + n - 1
  BY DEF Renumbered
<1> DEFINE f == [i \in D |-> IF i < base THEN i ELSE i + n]
<1>1. f \in Bijection(D, E)
  <2>1. \A i \in D : i \in Nat /\ (i < base \/ i \in base .. base + n - 1)
    BY <1>0
  <2>2. \A i \in D : f[i] \in E
    BY <1>0, <2>1
  <2>3. \A i, j \in D : f[i] = f[j] => i = j
    BY <2>1
  <2>4. \A e \in E : \E i \in D : f[i] = e
    <3> SUFFICES ASSUME NEW e \in E PROVE \E i \in D : f[i] = e
      OBVIOUS
    <3>1. CASE e \in D /\ e < base
      BY <1>0, <3>1
    <3>2. CASE e \in base + n .. base + n + n - 1
      <4>1. e - n \in base .. base + n - 1 /\ ~(e - n < base) /\ (e - n) + n = e
        BY <3>2
      <4>2. e - n \in D
        BY <1>0, <4>1
      <4> QED BY <4>1, <4>2
    <3> QED BY <1>0, <3>1, <3>2
  <2>5. f \in [D -> E]
    BY <2>2
  <2> HIDE DEF f
  <2> QED BY <2>3, <2>4, <2>5 DEF Bijection, Injection, Surjection, IsInjective
<1>2. IsFiniteSet(D)
  <2>1. IsFiniteSet(1 .. base + n - 1)
    <3>1. 1 \in Int /\ base + n - 1 \in Int
      OBVIOUS
    <3> QED BY <3>1, FS_Interval
  <2> QED BY <1>0, <2>1, FS_Subset
<1>3. ExistsBijection(D, E)
  BY <1>1 DEF ExistsBijection
<1> QED BY <1>2, <1>3, FS_Bijection

\* What the window described is what it describes again.
LEMMA SameDescriptions ==
    ASSUME RerunInv, NEW c \in Correlators, Persist(c), NEW u, u = under[c], u.fresh,
           Settled(<<u.from, u.to>>),
           \A k \in Loaded(u.from, u.to) : u.from <= k.started
    PROVE  /\ Described' = Described
           /\ Cardinality(DOMAIN incidents') = Cardinality(DOMAIN incidents)
<1> DEFINE w == <<u.from, u.to>>
           g == Clusters(Loaded(u.from, u.to))
<1>0. Inv /\ TypeOK /\ w[1] = u.from /\ w[2] = u.to
  BY InvParts DEF RerunInv
<1>1. PICK old, n : /\ old = Cleared(u.from, u.to) /\ n = Len(u.classified)
                    /\ Stores(u, old, n)
  BY <1>0, PersistStores
<1>2. /\ u # Idle /\ n \in Nat /\ Len(u.clusters) = n /\ u.from \in Int /\ u.to \in Nat
      /\ UnderWay(u, DOMAIN events)
      /\ nextIncident \in Nat \ {0}
      /\ \A i \in DOMAIN incidents : i \in 1 .. nextIncident - 1
  BY <1>1 DEF Stores
<1>3. /\ u.clusters = g
      /\ u.classified = [j \in DOMAIN u.clusters |-> Classify(u.clusters[j])]
  BY <1>2 DEF RerunInv, Current
<1>4. DOMAIN u.clusters = 1 .. n
  BY <1>2, UnderTyped
<1>5. \A j \in 1 .. n : u.classified[j] = Classify(g[j])
  BY <1>3, <1>4
<1>6. PICK base \in Nat \ {0} : Settles(w, base, Len(Clusters(Loaded(w[1], w[2]))))
  BY Zenon DEF Settled
<1>7. /\ nextIncident = base + n
      /\ \A i \in DOMAIN incidents : i < base =>
            ~(u.from <= incidents[i].started /\ incidents[i].started <= u.to)
      /\ \A j \in 1 .. n :
            base - 1 + j \in DOMAIN incidents /\ incidents[base - 1 + j] = Classify(g[j])
  <2>1. Len(Clusters(Loaded(w[1], w[2]))) = n /\ Clusters(Loaded(w[1], w[2])) = g
    BY <1>0, <1>2, <1>3
  <2> HIDE DEF g, w
  <2>2. Settles(w, base, n)
    BY <1>6, <2>1
  <2> QED BY <1>0, <2>1, <2>2 DEF Settles
<1>8. ASSUME NEW j \in 1 .. n
      PROVE  u.from <= Classify(g[j]).started /\ Classify(g[j]).started <= u.to
  <2> DEFINE loaded == Loaded(u.from, u.to)
             ks == g[j]
  <2>1. loaded \in SUBSET DOMAIN events /\ \A k \in loaded : k.started <= u.to
    BY DEF Loaded
  <2>2. g \in Seq(SUBSET loaded) /\ Len(g) = n /\ \A i \in 1 .. Len(g) : g[i] # {}
    <3> HIDE DEF loaded
    <3>1. /\ Clusters(loaded) \in Seq(SUBSET loaded)
          /\ \A i \in 1 .. Len(Clusters(loaded)) : Clusters(loaded)[i] # {}
      BY <1>0, <2>1, ClustersAre
    <3>2. g = Clusters(loaded) /\ Len(g) = n
      BY <1>2, <1>3 DEF loaded
    <3> QED BY <3>1, <3>2
  <2>3. ks \in SUBSET loaded /\ ks # {}
    BY <2>2
  <2>4. ks \in SUBSET DOMAIN events
    BY <2>1, <2>3
  <2> HIDE DEF ks, loaded
  <2>5. PICK k \in ks : Classify(ks).started = k.started
    BY <1>0, <2>3, <2>4, ClassifyFits
  <2>6. k \in loaded
    BY <2>3
  <2>7. u.from <= k.started
    BY <2>6 DEF loaded
  <2> QED BY <2>1, <2>5, <2>6, <2>7 DEF ks
<1> HIDE DEF g
<1>9. \A i \in DOMAIN incidents : i \in old <=> ~(i < base)
  <2> SUFFICES ASSUME NEW i \in DOMAIN incidents PROVE i \in old <=> ~(i < base)
    OBVIOUS
  <2>1. incidents[i].started \in Int /\ i \in Nat
    BY <1>0, <1>2, InvParts DEF StoredTyped, Incident, Times
  <2>2. i \in old <=> (u.from <= incidents[i].started /\ incidents[i].started <= u.to)
    BY <1>1, <1>2, <2>1 DEF Cleared
  <2>3. CASE i < base
    BY <1>7, <2>2, <2>3
  <2>4. CASE ~(i < base)
    <3>1. i - base + 1 \in 1 .. n /\ base - 1 + (i - base + 1) = i
      <4>1. i <= nextIncident - 1 /\ nextIncident = base + n /\ base \in Nat /\ n \in Nat
        BY <1>2, <1>7
      <4> QED BY <2>1, <2>4, <4>1
    <3> QED BY <1>7, <1>8, <2>2, <2>4, <3>1
  <2> QED BY <2>3, <2>4
<1>10. /\ \A i : i \in DOMAIN incidents' <=>
                    \/ i \in DOMAIN incidents /\ i < base
                    \/ i \in base + n .. base + n + n - 1
       /\ \A i \in DOMAIN incidents : i < base => incidents'[i] = incidents[i]
       /\ \A j \in 1 .. n : incidents'[base + n - 1 + j] = Classify(g[j])
  BY <1>1, <1>5, <1>7, <1>9 DEF Stores
<1>11. \A i \in base .. base + n - 1 :
          \E j \in 1 .. n : i = base - 1 + j
  <2> SUFFICES ASSUME NEW i \in base .. base + n - 1 PROVE \E j \in 1 .. n : i = base - 1 + j
    OBVIOUS
  <2>1. i - base + 1 \in 1 .. n /\ base - 1 + (i - base + 1) = i
    BY <1>2
  <2> QED BY <2>1
<1>12. Cardinality(DOMAIN incidents') = Cardinality(DOMAIN incidents)
  <2>1. DOMAIN incidents \subseteq 1 .. base + n - 1
    BY <1>2, <1>7
  <2>2. \A i \in base .. base + n - 1 : i \in DOMAIN incidents
    BY <1>7, <1>11
  <2>3. Renumbered(DOMAIN incidents, DOMAIN incidents', base, n)
    BY <1>10, <2>1, <2>2, Zenon DEF Renumbered
  <2> QED BY <1>2, <2>3, AsMany
<1>13. Described' = Described
  <2> DEFINE new == {Classify(g[j]) : j \in 1 .. n}
             kept == {incidents[i] : i \in {h \in DOMAIN incidents : h < base}}
  <2>1. Described = kept \cup new
    <3>1. ASSUME NEW i \in DOMAIN incidents PROVE incidents[i] \in kept \cup new
      <4>1. CASE i < base
        BY <4>1
      <4>2. CASE ~(i < base)
        <5>1. i \in base .. base + n - 1
          BY <1>2, <1>7, <4>2
        <5> QED BY <1>7, <1>11, <5>1
      <4> QED BY <4>1, <4>2
    <3>2. ASSUME NEW j \in 1 .. n PROVE \E i \in DOMAIN incidents : incidents[i] = Classify(g[j])
      BY <1>7
    <3> QED BY <3>1, <3>2 DEF Described
  <2>2. Described' = kept \cup new
    <3>1. ASSUME NEW i \in DOMAIN incidents' PROVE incidents'[i] \in kept \cup new
      <4>1. CASE i \in DOMAIN incidents /\ i < base
        BY <1>10, <4>1
      <4>2. CASE i \in base + n .. base + n + n - 1
        <5>1. i - (base + n) + 1 \in 1 .. n /\ base + n - 1 + (i - (base + n) + 1) = i
          <6>1. /\ base \in Int /\ n \in Int /\ i \in Int
                /\ base + n <= i /\ i <= base + n + n - 1
            BY <1>2, <4>2
          <6> QED BY <6>1
        <5> QED BY <1>10, <5>1
      <4> QED BY <1>10, <4>1, <4>2
    <3>2. ASSUME NEW j \in 1 .. n PROVE \E i \in DOMAIN incidents' : incidents'[i] = Classify(g[j])
      <4>1. base + n - 1 + j \in base + n .. base + n + n - 1
        BY <1>2
      <4> QED BY <1>10, <4>1
    <3>3. ASSUME NEW i \in DOMAIN incidents, i < base
          PROVE  i \in DOMAIN incidents' /\ incidents'[i] = incidents[i]
      BY <1>10, <3>3
    <3> QED BY <3>1, <3>2, <3>3 DEF Described
  <2> QED BY <2>1, <2>2
<1> QED BY <1>12, <1>13

Repeated ==
    last # NoWindow /\ last' = last
    /\ (\A k \in Loaded(last[1], last[2]) : last[1] <= k.started) =>
       Described' = Described
       /\ Cardinality(DOMAIN incidents') = Cardinality(DOMAIN incidents)

\* So a step that correlates a window again leaves the same incidents.
LEMMA StepsAreIdempotent ==
    ASSUME RerunInv, [Next]_vars
    PROVE  Repeated
<1> SUFFICES ASSUME last # NoWindow, last' = last,
                    \A k \in Loaded(last[1], last[2]) : last[1] <= k.started
             PROVE  Described' = Described
                    /\ Cardinality(DOMAIN incidents') = Cardinality(DOMAIN incidents)
  BY DEF Repeated
<1>1. CASE incidents' = incidents
  BY <1>1 DEF Described
<1>2. ASSUME NEW c \in Correlators, Persist(c)
      PROVE  Described' = Described
             /\ Cardinality(DOMAIN incidents') = Cardinality(DOMAIN incidents)
  <2>1. PICK u : u = under[c]
    OBVIOUS
  <2>2. u.fresh /\ last = <<u.from, u.to>>
    BY <1>2, <2>1 DEF Persist
  <2>3. Settled(<<u.from, u.to>>)
    BY <2>2 DEF RerunInv
  <2>4. \A k \in Loaded(u.from, u.to) : u.from <= k.started
    <3>1. last[1] = u.from /\ last[2] = u.to
      BY <2>2
    <3> QED BY <3>1
  <2> QED BY <1>2, <2>1, <2>2, <2>3, <2>4, SameDescriptions
<1>3. CASE Detection
  <2>1. PICK ended \in {Ongoing} \cup 1 .. now :
           \/ \E p \in Probes, started \in 1 .. now : Detected(p, started, ended)
           \/ \E k \in DOMAIN events : Redetected(k, ended)
    BY <1>3, Zenon DEF Detection
  <2>2. incidents' = incidents
    BY <2>1, Zenon DEF Detected, Redetected
  <2> QED BY <1>1, <2>2
<1>4. CASE \/ \E p \in Probes : \E measured \in Offsets[p] : Touch(p, measured)
           \/ Tick \/ CorrelateTrailing \/ CorrelateRerun
           \/ \E c \in Correlators : PersistFails(c)
           \/ UNCHANGED vars
  <2>1. incidents' = incidents
    BY <1>4 DEF Touch, Tick, CorrelateTrailing, CorrelateRerun, Load, PersistFails, vars
  <2> QED BY <1>1, <2>1
<1> QED BY <1>2, <1>3, <1>4 DEF Next

\* Correlating a window once more, with nothing changed, changes nothing but the
\* numbers of its incidents (correlate.py:93), if its events started inside it.
THEOREM AlwaysIdempotent == Spec => RerunIsIdempotent
<1>1. RerunInv /\ [Next]_vars => [Repeated]_vars
  BY StepsAreIdempotent
<1>2. RerunIsIdempotent <=> [][Repeated]_vars
  BY PTL DEF RerunIsIdempotent, Repeated
<1> QED BY <1>1, <1>2, RerunInvHolds, PTL DEF Spec
==================================================================================
