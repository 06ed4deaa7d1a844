------------------------------- MODULE RulesProofs -------------------------------
(***************************************************************************)
(* That find_spans (detect/hysteresis.py) finds the spans its docstring    *)
(* describes, for every sequence of points and every number of             *)
(* confirmations, and what its spans say about the instants of a window.   *)
(*                                                                         *)
(* The walk is a recursive function, so it is followed by induction on the *)
(* points it has seen: what it has closed and what it holds open are spans *)
(* of the points so far, and no stretch that was confirmed is missing.     *)
(* The points are then read as times: a span lasts as long as no Exit      *)
(* considered instants in a row were good (BrokenUp).                      *)
(***************************************************************************)
EXTENDS Rules, InductionLemmas, SequenceTheorems, FunctionTheorems

-----------------------------------------------------------------------------
(* The walk as a recursive function                                          *)
(* The recursive definition of the walk satisfies its equation.              *)
WalkStep(points, before, i) ==
    IF RunEnds(points, i) THEN Walk(points, before, RunTo(points, i)) ELSE before

WalkTo(points, walk, n) ==
    walk = [i \in 0 .. n |->
               IF i = 0 THEN [open |-> NoSpan, spans |-> {}]
               ELSE WalkStep(points, walk[i - 1], i)]

LEMMA WalkValues ==
    ASSUME NEW points, NEW n \in Nat, NEW walk, WalkTo(points, walk, n)
    PROVE  /\ walk[0] = [open |-> NoSpan, spans |-> {}]
           /\ \A i \in 1 .. n : walk[i] = WalkStep(points, walk[i - 1], i)
<1>1. \A i \in 0 .. n : walk[i] = IF i = 0 THEN [open |-> NoSpan, spans |-> {}]
                                  ELSE WalkStep(points, walk[i - 1], i)
  BY Zenon DEF WalkTo
<1>2. 0 \in 0 .. n /\ \A i \in 1 .. n : i \in 0 .. n /\ i # 0
  OBVIOUS
<1> QED BY <1>1, <1>2, Zenon

LEMMA WalkExists ==
    ASSUME NEW points
    PROVE  \A n \in Nat : \E walk : WalkTo(points, walk, n)
<1> DEFINE S == {n \in Nat : \E walk : WalkTo(points, walk, n)}
<1>1. 0 \in S
  <2> DEFINE walk == [i \in 0 .. 0 |-> [open |-> NoSpan, spans |-> {}]]
  <2>1. WalkTo(points, walk, 0)
    BY DEF WalkTo
  <2> QED BY <2>1
<1>2. ASSUME NEW n \in Nat, n \in S
      PROVE  n + 1 \in S
  <2>1. PICK walk : WalkTo(points, walk, n)
    BY <1>2
  <2> DEFINE more == [i \in 0 .. n + 1 |->
                         IF i = n + 1 THEN WalkStep(points, walk[n], n + 1) ELSE walk[i]]
  <2>2. \A i \in 0 .. n + 1 : more[i] = IF i = 0 THEN [open |-> NoSpan, spans |-> {}]
                                        ELSE WalkStep(points, more[i - 1], i)
    <3>1. more[n + 1] = WalkStep(points, walk[n], n + 1) /\ \A j \in 0 .. n : more[j] = walk[j]
      OBVIOUS
    <3> HIDE DEF more
    <3>2. more[0] = [open |-> NoSpan, spans |-> {}]
      BY <2>1, <3>1, WalkValues
    <3>3. ASSUME NEW i \in 1 .. n PROVE more[i] = WalkStep(points, more[i - 1], i)
      <4>1. more[i] = walk[i] /\ more[i - 1] = walk[i - 1]
        BY <3>1
      <4>2. walk[i] = WalkStep(points, walk[i - 1], i)
        BY <2>1, WalkValues
      <4> QED BY <4>1, <4>2
    <3>4. more[n + 1] = WalkStep(points, more[(n + 1) - 1], n + 1)
      <4>1. (n + 1) - 1 = n /\ more[n] = walk[n]
        BY <3>1
      <4> QED BY <3>1, <4>1
    <3>5. \A i \in 0 .. n + 1 : i = 0 \/ i \in 1 .. n \/ i = n + 1
      OBVIOUS
    <3> QED BY <3>2, <3>3, <3>4, <3>5
  <2>3. WalkTo(points, more, n + 1)
    <3> HIDE DEF more
    <3>1. DOMAIN more = 0 .. n + 1 /\ more = [i \in DOMAIN more |-> more[i]]
      BY DEF more
    <3> QED BY <2>2, <3>1 DEF WalkTo
  <2> QED BY <2>3
<1>3. Nat \subseteq S
  <2> HIDE DEF S
  <2> QED BY <1>1, <1>2, Induction
<1> QED BY <1>3

LEMMA WalkedEquation ==
    ASSUME NEW points, Len(points) \in Nat
    PROVE  \E walk : 
              /\ walk[0] = [open |-> NoSpan, spans |-> {}]
              /\ \A i \in 1 .. Len(points) : walk[i] = WalkStep(points, walk[i - 1], i)
              /\ Walked(points) = walk[Len(points)]
<1> DEFINE walk == CHOOSE w : WalkTo(points, w, Len(points))
<1>1. WalkTo(points, walk, Len(points))
  BY WalkExists
<1>2. Walked(points) = walk[Len(points)]
  BY Zenon DEF Walked, WalkTo, WalkStep
<1> HIDE DEF walk
<1>3. /\ walk[0] = [open |-> NoSpan, spans |-> {}]
      /\ \A i \in 1 .. Len(points) : walk[i] = WalkStep(points, walk[i - 1], i)
  BY <1>1, WalkValues
<1> QED BY <1>2, <1>3

-----------------------------------------------------------------------------
PointSeqs ==
    {points \in Seq([ts : Nat \ {0}, bad : BOOLEAN]) :
        \A i, j \in 1 .. Len(points) : i < j => points[i].ts < points[j].ts}

Bads(points) == {i \in 1 .. Len(points) : points[i].bad}

LEMMA PointsTyped ==
    ASSUME NEW points \in PointSeqs
    PROVE  /\ Len(points) \in Nat
           /\ DOMAIN points = 1 .. Len(points)
           /\ \A i \in 1 .. Len(points) : points[i] \in [ts : Nat \ {0}, bad : BOOLEAN]
           /\ \A i \in 1 .. Len(points) : points[i].ts \in Nat \ {0}
           /\ \A i, j \in 1 .. Len(points) : i < j => points[i].ts < points[j].ts
           /\ \A i, j \in 1 .. Len(points) : points[i].ts = points[j].ts => i = j
<1>1. points \in Seq([ts : Nat \ {0}, bad : BOOLEAN])
  BY DEF PointSeqs
<1>2. Len(points) \in Nat /\ DOMAIN points = 1 .. Len(points)
  BY <1>1
<1>3. \A i \in 1 .. Len(points) : points[i] \in [ts : Nat \ {0}, bad : BOOLEAN]
  BY <1>1, ElementOfSeq, Zenon
<1>4. \A i \in 1 .. Len(points) : points[i].ts \in Nat \ {0}
  BY <1>3
<1>5. \A i, j \in 1 .. Len(points) : i < j => points[i].ts < points[j].ts
  BY DEF PointSeqs
<1>6. \A i, j \in 1 .. Len(points) : points[i].ts = points[j].ts => i = j
  BY <1>2, <1>4, <1>5
<1> QED BY <1>2, <1>3, <1>4, <1>5, <1>6

LEMMA BadsAre ==
    ASSUME NEW points \in PointSeqs
    PROVE  /\ \A i \in 1 .. Len(points) : points[i].bad <=> i \in Bads(points)
           /\ \A i, j \in 1 .. Len(points) :
                 points[i].bad # points[j].bad <=> ~(i \in Bads(points) <=> j \in Bads(points))
<1>1. \A i \in 1 .. Len(points) : points[i].bad \in BOOLEAN
  BY PointsTyped
<1>2. \A i \in 1 .. Len(points) : points[i].bad <=> i \in Bads(points)
  BY Zenon DEF Bads
<1> QED BY <1>1, <1>2, Zenon

LEMMA RunsAre ==
    ASSUME NEW points \in PointSeqs
    PROVE  /\ \A i \in 1 .. Len(points) :
                 RunBegins(points, i) <=>
                    i = 1 \/ ~(i \in Bads(points) <=> i - 1 \in Bads(points))
           /\ \A i \in 1 .. Len(points) :
                 RunEnds(points, i) <=>
                    i = Len(points) \/ ~(i \in Bads(points) <=> i + 1 \in Bads(points))
<1>1. Len(points) \in Nat
  BY PointsTyped
<1>2. ASSUME NEW i \in 1 .. Len(points)
      PROVE  RunBegins(points, i) <=>
                    i = 1 \/ ~(i \in Bads(points) <=> i - 1 \in Bads(points))
  <2>1. i = 1 \/ i - 1 \in 1 .. Len(points)
    BY <1>1
  <2>2. i - 1 \in 1 .. Len(points) =>
          (points[i - 1].bad # points[i].bad <=> ~(i \in Bads(points) <=> i - 1 \in Bads(points)))
    BY BadsAre, Zenon
  <2> QED BY <2>1, <2>2, Zenon DEF RunBegins
<1>3. ASSUME NEW i \in 1 .. Len(points)
      PROVE  RunEnds(points, i) <=>
                    i = Len(points) \/ ~(i \in Bads(points) <=> i + 1 \in Bads(points))
  <2>1. i = Len(points) \/ i + 1 \in 1 .. Len(points)
    BY <1>1
  <2>2. i + 1 \in 1 .. Len(points) =>
          (points[i + 1].bad # points[i].bad <=> ~(i \in Bads(points) <=> i + 1 \in Bads(points)))
    BY BadsAre, Zenon
  <2> QED BY <2>1, <2>2, Zenon DEF RunEnds
<1> QED BY <1>2, <1>3, Zenon

(* q is the end of a run, or the beginning of the points, and e the end of   *)
(* the next.                                                                 *)
NextRun(points, q, e) ==
    /\ q \in 0 .. Len(points) /\ e \in 1 .. Len(points) /\ q < e
    /\ q = 0 \/ RunEnds(points, q)
    /\ RunEnds(points, e)
    /\ \A k \in q + 1 .. e - 1 : ~RunEnds(points, k)

LEMMA RunIsAlike ==
    ASSUME NEW points \in PointSeqs, NEW q, NEW e, NextRun(points, q, e)
    PROVE  /\ \A k \in q + 1 .. e : k \in Bads(points) <=> e \in Bads(points)
           /\ q # 0 => ~(q \in Bads(points) <=> e \in Bads(points))
<1> DEFINE B == Bads(points)
           Odd == {k \in q + 1 .. e : ~(k \in B <=> e \in B)}
<1>0. Len(points) \in Nat /\ q \in Nat /\ e \in Nat /\ q < e /\ e <= Len(points)
  BY PointsTyped DEF NextRun
<1>1. \A k \in q + 1 .. e - 1 : k \in B <=> k + 1 \in B
  <2>1. \A k \in q + 1 .. e - 1 : k \in 1 .. Len(points) /\ k # Len(points)
    BY <1>0
  <2> QED BY <2>1, RunsAre, Zenon DEF NextRun
<1>2. q # 0 => ~(q \in B <=> q + 1 \in B)
  <2>1. q # 0 => q \in 1 .. Len(points) /\ q # Len(points)
    BY <1>0
  <2> QED BY <2>1, RunsAre, Zenon DEF NextRun
<1> HIDE DEF B
<1>3. Odd = {}
  <2> SUFFICES ASSUME Odd # {} PROVE FALSE
    OBVIOUS
  <2>1. PICK m \in Odd : \A k \in Odd : k <= m
    <3>1. Odd \in SUBSET Int /\ (\A k \in Odd : k <= e) /\ e \in Int
      BY <1>0
    <3> HIDE DEF Odd
    <3> QED BY <3>1, Largest, Zenon
  <2>2. m \in q + 1 .. e - 1 /\ m + 1 \in q + 1 .. e
    BY <1>0
  <2> QED BY <1>0, <1>1, <2>1, <2>2
<1>4. q + 1 \in q + 1 .. e
  BY <1>0
<1> QED BY <1>2, <1>3, <1>4 DEF B

LEMMA RunToIsRun ==
    ASSUME NEW points \in PointSeqs, NEW q, NEW e, NextRun(points, q, e)
    PROVE  RunTo(points, e) = <<q + 1, e>>
<1> DEFINE Begin(i) == RunBegins(points, i) /\ \A k \in i + 1 .. e : ~RunBegins(points, k)
<1>0. Len(points) \in Nat /\ q \in Nat /\ e \in Nat /\ q < e /\ e <= Len(points)
  BY PointsTyped DEF NextRun
<1>1. \A k \in 2 .. e : RunBegins(points, k) <=> RunEnds(points, k - 1)
  <2> SUFFICES ASSUME NEW k \in 2 .. e PROVE RunBegins(points, k) <=> RunEnds(points, k - 1)
    OBVIOUS
  <2>1. k \in 1 .. Len(points) /\ k # 1 /\ k - 1 \in 1 .. Len(points) /\ k - 1 # Len(points)
        /\ (k - 1) + 1 = k
    BY <1>0
  <2>2. RunBegins(points, k) <=> ~(k \in Bads(points) <=> k - 1 \in Bads(points))
    BY <2>1, RunsAre, Zenon
  <2>3. RunEnds(points, k - 1) <=> ~(k - 1 \in Bads(points) <=> (k - 1) + 1 \in Bads(points))
    BY <2>1, RunsAre, Zenon
  <2> QED BY <2>1, <2>2, <2>3, Zenon
<1>2. RunBegins(points, q + 1)
  <2>1. CASE q = 0
    BY <2>1 DEF RunBegins
  <2>2. CASE q # 0
    <3>1. q + 1 \in 2 .. e /\ (q + 1) - 1 = q
      BY <1>0, <2>2
    <3> QED BY <1>1, <2>2, <3>1, Zenon DEF NextRun
  <2> QED BY <2>1, <2>2
<1>3. \A k \in q + 2 .. e : ~RunBegins(points, k)
  <2>1. \A k \in q + 2 .. e : k \in 2 .. e /\ k - 1 \in q + 1 .. e - 1
    BY <1>0
  <2> QED BY <1>1, <2>1, Zenon DEF NextRun
<1>4. q + 1 \in 1 .. e /\ (q + 1) + 1 = q + 2
  BY <1>0
<1>5. Begin(q + 1)
  BY <1>2, <1>3, <1>4, Zenon
<1>6. \A i \in 1 .. e : Begin(i) => i = q + 1
  <2> SUFFICES ASSUME NEW i \in 1 .. e, Begin(i), i # q + 1 PROVE FALSE
    OBVIOUS
  <2>1. CASE i < q + 1
    <3>1. q + 1 \in i + 1 .. e
      BY <1>0, <2>1
    <3> QED BY <1>2, <3>1, Zenon
  <2>2. CASE ~(i < q + 1)
    <3>1. i \in q + 2 .. e
      BY <1>0, <2>2
    <3> QED BY <1>3, <3>1, Zenon
  <2> QED BY <2>1, <2>2
<1>7. (CHOOSE i \in 1 .. e : Begin(i)) = q + 1
  <2> HIDE DEF Begin
  <2> QED BY <1>4, <1>5, <1>6
<1> QED BY <1>7, Zenon DEF RunTo

-----------------------------------------------------------------------------
Long(B, i) == \A k \in i .. i + Enter - 1 : k \in B

Interrupted(B, a, b) ==
    \E i \in a .. b : i + Exit - 1 <= b /\ \A k \in i .. i + Exit - 1 : k \notin B

(* A span may start at a: the points before it are good or not confirmed,    *)
(* and every stretch that was is interrupted before a.                       *)
Starts(B, a) ==
    /\ Long(B, a)
    /\ a = 1 \/ a - 1 \notin B
    /\ \A i \in 1 .. a : (i + Enter - 1 < a /\ Long(B, i)) => Interrupted(B, i, a - 1)

ClosedAt(B, a, b, q) ==
    /\ a + Enter - 1 <= b /\ b \in B /\ b + Exit <= q
    /\ \A k \in b + 1 .. b + Exit : k \notin B
    /\ ~Interrupted(B, a, b)

OpenAt(B, a, b, q) ==
    /\ a + Enter - 1 <= b /\ b \in B /\ b <= q
    /\ \A k \in b + 1 .. q : k \notin B
    /\ ~Interrupted(B, a, q)

SpanIs(points, span, a, b) ==
    /\ span.started = points[a].ts /\ span.ended = points[b].ts
    /\ span.count = Cardinality(Bads(points) \cap (a .. b))

SpanRecords == [started : Nat, ended : Nat, count : Nat]

WalkInv(points, w, q) ==
    /\ w \in [open : SpanRecords, spans : SUBSET SpanRecords]
    /\ \A s \in w.spans : \E a, b \in 1 .. q :
          SpanIs(points, s, a, b) /\ Starts(Bads(points), a) /\ ClosedAt(Bads(points), a, b, q)
    /\ w.open # NoSpan => \E a, b \in 1 .. q :
          SpanIs(points, w.open, a, b) /\ Starts(Bads(points), a) /\ OpenAt(Bads(points), a, b, q)
    /\ \A i \in 1 .. q : (i + Enter - 1 <= q /\ Long(Bads(points), i)) =>
          \E s \in w.spans \cup ({w.open} \ {NoSpan}), a \in 1 .. i :
             s.started = points[a].ts /\ Starts(Bads(points), a) /\ ~Interrupted(Bads(points), a, i)

LEMMA WalkCases ==
    ASSUME NEW points \in PointSeqs, NEW q, NEW e, NextRun(points, q, e),
           NEW w \in [open : SpanRecords, spans : SUBSET SpanRecords]
    PROVE  /\ (w.open = NoSpan /\ e \in Bads(points) /\ Enter <= e - q) =>
                 WalkStep(points, w, e) =
                    [open |-> [started |-> points[q + 1].ts, ended |-> points[e].ts,
                               count |-> e - q], spans |-> w.spans]
           /\ (w.open # NoSpan /\ e \in Bads(points)) =>
                 WalkStep(points, w, e) =
                    [open |-> [started |-> w.open.started, ended |-> points[e].ts,
                               count |-> w.open.count + (e - q)], spans |-> w.spans]
           /\ (w.open # NoSpan /\ e \notin Bads(points) /\ Exit <= e - q) =>
                 WalkStep(points, w, e) = [open |-> NoSpan, spans |-> w.spans \cup {w.open}]
           /\ (w.open = NoSpan /\ (e \notin Bads(points) \/ e - q < Enter)) =>
                 WalkStep(points, w, e) = w
           /\ (w.open # NoSpan /\ e \notin Bads(points) /\ e - q < Exit) =>
                 WalkStep(points, w, e) = w
<1> DEFINE B == Bads(points)
           length == e - (q + 1) + 1
<1>0. Len(points) \in Nat /\ q \in Nat /\ e \in Nat /\ q < e /\ e <= Len(points)
  BY PointsTyped DEF NextRun
<1>1. WalkStep(points, w, e) = Walk(points, w, <<q + 1, e>>)
  BY RunToIsRun, Zenon DEF WalkStep, NextRun
<1>2. length = e - q /\ e - q \in Nat /\ Enter \in Nat /\ Exit \in Nat
  BY <1>0, RulesConstants DEF RulesConstants
<1>3. points[q + 1].bad <=> e \in B
  <2>1. q + 1 \in 1 .. Len(points) /\ q + 1 \in q + 1 .. e
    BY <1>0
  <2>2. points[q + 1].bad <=> q + 1 \in B
    BY <2>1, BadsAre, Zenon
  <2>3. q + 1 \in B <=> e \in B
    BY <2>1, RunIsAlike, Zenon
  <2> QED BY <2>2, <2>3, Zenon
<1>4. Opens(points[q + 1].bad, length) <=> e \in B /\ Enter <= e - q
  BY <1>2, <1>3 DEF Opens
<1>5. Closes(points[q + 1].bad, length) <=> e \notin B /\ Exit <= e - q
  BY <1>2, <1>3 DEF Closes
<1>6. <<q + 1, e>>[1] = q + 1 /\ <<q + 1, e>>[2] = e
  OBVIOUS
<1> DEFINE
      op == Opens(points[q + 1].bad, length)
      cl == Closes(points[q + 1].bad, length)
      bd == points[q + 1].bad
      A1 == [w EXCEPT !.open = [started |-> points[q + 1].ts,
                                ended |-> points[e].ts, count |-> length]]
      A2 == [w EXCEPT !.open = [started |-> @.started, ended |-> points[e].ts,
                                 count |-> @.count + length]]
      A3 == [open |-> NoSpan, spans |-> w.spans \cup {w.open}]
<1>7. Walk(points, w, <<q + 1, e>>) =
         CASE w.open = NoSpan /\ op -> A1
           [] w.open # NoSpan /\ bd -> A2
           [] w.open # NoSpan /\ cl -> A3
           [] OTHER -> w
  BY <1>6, Zenon DEF Walk
<1>8. e - q < Enter <=> ~(Enter <= e - q)
  BY <1>2
<1>9. e - q < Exit <=> ~(Exit <= e - q)
  BY <1>2
<1> HIDE DEF op, cl, bd, A1, A2, A3, B
<1>10. (w.open = NoSpan /\ op) => Walk(points, w, <<q + 1, e>>) = A1
  BY <1>7
<1>11. (w.open # NoSpan /\ bd /\ ~cl) => Walk(points, w, <<q + 1, e>>) = A2
  BY <1>7
<1>12. (w.open # NoSpan /\ cl /\ ~bd) => Walk(points, w, <<q + 1, e>>) = A3
  BY <1>7
<1>13. (w.open = NoSpan /\ ~op) => Walk(points, w, <<q + 1, e>>) = w
  BY <1>7
<1>14. (w.open # NoSpan /\ ~bd /\ ~cl) => Walk(points, w, <<q + 1, e>>) = w
  BY <1>7
<1>15. /\ bd <=> e \in B
       /\ op <=> e \in B /\ Enter <= e - q
       /\ cl <=> e \notin B /\ Exit <= e - q
  BY <1>3, <1>4, <1>5, Zenon DEF op, cl, bd
<1>16. A1 = [open |-> [started |-> points[q + 1].ts, ended |-> points[e].ts,
                       count |-> e - q], spans |-> w.spans]
  BY <1>2 DEF A1
<1>17. A2 = [open |-> [started |-> w.open.started, ended |-> points[e].ts,
                       count |-> w.open.count + (e - q)], spans |-> w.spans]
  <2>1. w.open \in SpanRecords
    OBVIOUS
  <2> QED BY <1>2, <2>1 DEF A2, SpanRecords
<1> HIDE <1>3, <1>4, <1>5, <1>7
<1> QED
  BY <1>1, <1>8, <1>9, <1>10, <1>11, <1>12, <1>13, <1>14, <1>15, <1>16, <1>17, Zenon DEF A3, B

LEMMA InterruptedMonotone ==
    ASSUME NEW B, NEW a \in Int, NEW b \in Int, NEW c \in Int, NEW d \in Int,
           c <= a, b <= d, Interrupted(B, a, b)
    PROVE  Interrupted(B, c, d)
<1>1. PICK i \in a .. b : i + Exit - 1 <= b /\ \A k \in i .. i + Exit - 1 : k \notin B
  BY DEF Interrupted
<1>2. i \in c .. d /\ i + Exit - 1 <= d
  BY <1>1, RulesConstants DEF RulesConstants
<1> QED BY <1>1, <1>2 DEF Interrupted

(* A run of bad points does not interrupt, nor does a short run of good ones.*)
LEMMA BadRunContinues ==
    ASSUME NEW B, NEW a \in Nat, NEW q \in Nat, NEW e \in Nat,
           \A k \in q + 1 .. e : k \in B, ~Interrupted(B, a, q)
    PROVE  ~Interrupted(B, a, e)
<1> SUFFICES ASSUME NEW i \in a .. e, i + Exit - 1 <= e,
                    \A k \in i .. i + Exit - 1 : k \notin B
             PROVE  FALSE
  BY DEF Interrupted
<1>1. Exit \in Nat \ {0}
  BY RulesConstants DEF RulesConstants
<1>2. i \in i .. i + Exit - 1 /\ i + Exit - 1 \in i .. i + Exit - 1
  BY <1>1
<1>3. i \notin q + 1 .. e /\ i + Exit - 1 \notin q + 1 .. e
  BY <1>2
<1>4. i \in a .. q /\ i + Exit - 1 <= q
  BY <1>1, <1>3
<1> QED BY <1>4 DEF Interrupted

LEMMA ShortRunContinues ==
    ASSUME NEW B, NEW a \in Nat, NEW q \in Nat, NEW e \in Nat,
           a <= q, q \in B, e - q < Exit, ~Interrupted(B, a, q)
    PROVE  ~Interrupted(B, a, e)
<1> SUFFICES ASSUME NEW i \in a .. e, i + Exit - 1 <= e,
                    \A k \in i .. i + Exit - 1 : k \notin B
             PROVE  FALSE
  BY DEF Interrupted
<1>1. Exit \in Nat \ {0}
  BY RulesConstants DEF RulesConstants
<1>2. i <= q
  BY <1>1
<1>3. q \notin i .. i + Exit - 1
  OBVIOUS
<1>4. i \in a .. q /\ i + Exit - 1 <= q
  BY <1>1, <1>2, <1>3
<1> QED BY <1>4 DEF Interrupted

(* The facts about the next run that the steps of the walk need.             *)
LEMMA NextRunFacts ==
    ASSUME NEW points \in PointSeqs, NEW q, NEW e, NextRun(points, q, e)
    PROVE  LET B == Bads(points)
           IN  /\ Len(points) \in Nat /\ q \in Nat /\ e \in Nat /\ q < e /\ e <= Len(points)
               /\ e \in B => (\A k \in q + 1 .. e : k \in B) /\ (q = 0 \/ q \notin B)
               /\ e \notin B => (\A k \in q + 1 .. e : k \notin B) /\ (q # 0 => q \in B)
               /\ \A i \in 1 .. e : (i + Enter - 1 <= e /\ Long(B, i)) =>
                     \/ i + Enter - 1 <= q
                     \/ e \in B /\ q + 1 <= i /\ Enter <= e - q
<1> DEFINE B == Bads(points)
<1>0. Len(points) \in Nat /\ q \in Nat /\ e \in Nat /\ q < e /\ e <= Len(points)
  BY PointsTyped DEF NextRun
<1>1. \A k \in q + 1 .. e : k \in B <=> e \in B
  BY RunIsAlike
<1>2. q # 0 => ~(q \in B <=> e \in B)
  BY RunIsAlike
<1>3. Enter \in Nat \ {0}
  BY RulesConstants DEF RulesConstants
<1> HIDE DEF B
<1>4. ASSUME NEW i \in 1 .. e, i + Enter - 1 <= e, Long(B, i), ~(i + Enter - 1 <= q)
      PROVE  e \in B /\ q + 1 <= i /\ Enter <= e - q
  <2>1. i + Enter - 1 \in q + 1 .. e /\ i + Enter - 1 \in B
    BY <1>0, <1>3, <1>4 DEF Long
  <2>2. e \in B /\ (q = 0 \/ q \notin B)
    BY <1>1, <1>2, <2>1
  <2>3. q \notin i .. i + Enter - 1
    BY <1>0, <1>3, <1>4, <2>2 DEF Long
  <2> QED BY <1>0, <1>3, <1>4, <2>2, <2>3
<1>5. \A i \in 1 .. e : (i + Enter - 1 <= e /\ Long(B, i)) =>
                     \/ i + Enter - 1 <= q
                     \/ e \in B /\ q + 1 <= i /\ Enter <= e - q
  BY <1>4
<1> HIDE <1>4
<1> QED BY <1>0, <1>1, <1>2, <1>5 DEF B

LEMMA CardinalityOfParts ==
    ASSUME NEW S, NEW T, IsFiniteSet(S), IsFiniteSet(T), S \cap T = {}
    PROVE  Cardinality(S \cup T) = Cardinality(S) + Cardinality(T)
<1>1. Cardinality(S \cap T) = 0
  BY FS_EmptySet
<1>2. Cardinality(S) \in Nat /\ Cardinality(T) \in Nat
  BY FS_CardinalityType
<1>3. Cardinality(S \cup T) = Cardinality(S) + Cardinality(T) - Cardinality(S \cap T)
  BY FS_Union
<1> QED BY <1>1, <1>2, <1>3

LEMMA SpansStayClosed ==
    ASSUME NEW points \in PointSeqs, NEW w, NEW q \in Nat, NEW e \in Nat, q < e, 
           WalkInv(points, w, q)
    PROVE  \A s \in w.spans : \E a, b \in 1 .. e :
              SpanIs(points, s, a, b) /\ Starts(Bads(points), a) /\ ClosedAt(Bads(points), a, b, e)
<1> SUFFICES ASSUME NEW s \in w.spans
             PROVE  \E a, b \in 1 .. e :
              SpanIs(points, s, a, b) /\ Starts(Bads(points), a) /\ ClosedAt(Bads(points), a, b, e)
  OBVIOUS
<1>1. PICK a \in 1 .. q, b \in 1 .. q :
          SpanIs(points, s, a, b) /\ Starts(Bads(points), a) /\ ClosedAt(Bads(points), a, b, q)
  BY Zenon DEF WalkInv
<1>2. ClosedAt(Bads(points), a, b, e)
  BY <1>1, RulesConstants DEF ClosedAt, RulesConstants
<1>3. a \in 1 .. e /\ b \in 1 .. e
  OBVIOUS
<1> QED BY <1>1, <1>2, <1>3

(* A span may start where a run confirms and no span is open.                *)
LEMMA StartsAtRun ==
    ASSUME NEW points \in PointSeqs, NEW w, NEW q, NEW e, NextRun(points, q, e),
           WalkInv(points, w, q), w.open = NoSpan, e \in Bads(points), Enter <= e - q
    PROVE  Starts(Bads(points), q + 1)
<1> DEFINE B == Bads(points)
<1>0. Len(points) \in Nat /\ q \in Nat /\ e \in Nat /\ q < e /\ e <= Len(points)
  BY NextRunFacts
<1>1. (\A k \in q + 1 .. e : k \in B) /\ (q = 0 \/ q \notin B)
  BY NextRunFacts
<1>2. Enter \in Nat \ {0} /\ Exit \in Nat \ {0}
  BY RulesConstants DEF RulesConstants
<1>3. Long(B, q + 1)
  BY <1>0, <1>1, <1>2 DEF Long
<1>4. ASSUME NEW i \in 1 .. q + 1, i + Enter - 1 < q + 1, Long(B, i)
      PROVE  Interrupted(B, i, q)
  <2>0. i \in 1 .. q /\ i + Enter - 1 <= q
    BY <1>0, <1>2, <1>4
  <2>1. PICK s \in w.spans \cup ({w.open} \ {NoSpan}), a \in 1 .. i :
             s.started = points[a].ts /\ Starts(B, a) /\ ~Interrupted(B, a, i)
    BY <1>4, <2>0 DEF WalkInv
  <2>2. s \in w.spans
    OBVIOUS
  <2>3. PICK a1 \in 1 .. q, b \in 1 .. q :
             SpanIs(points, s, a1, b) /\ ClosedAt(B, a1, b, q)
    BY <2>2, Zenon DEF WalkInv
  <2>4. a = a1
    <3>1. a \in 1 .. Len(points) /\ a1 \in 1 .. Len(points)
      BY <1>0, <2>0
    <3>2. points[a].ts = points[a1].ts
      BY <2>1, <2>3 DEF SpanIs
    <3> QED BY <3>1, <3>2, PointsTyped
  <2> HIDE DEF B
  <2>5. i \in B
    BY <1>2, <1>4 DEF Long
  <2>6. i <= b
    <3> SUFFICES ASSUME b < i PROVE FALSE
      OBVIOUS
    <3>1. b + Exit < i
      BY <1>2, <2>3, <2>5 DEF ClosedAt
    <3>2. b + 1 \in a .. i /\ (b + 1) + Exit - 1 <= i
      BY <1>2, <2>3, <2>4, <3>1 DEF ClosedAt
    <3>3. \A k \in b + 1 .. (b + 1) + Exit - 1 : k \notin B
      BY <1>2, <2>3 DEF ClosedAt
    <3> QED BY <2>1, <3>2, <3>3 DEF Interrupted
  <2>7. b + 1 \in i .. q /\ (b + 1) + Exit - 1 <= q
    BY <1>0, <1>2, <2>3, <2>6 DEF ClosedAt
  <2>8. \A k \in b + 1 .. (b + 1) + Exit - 1 : k \notin B
    BY <1>2, <2>3 DEF ClosedAt
  <2> QED BY <2>7, <2>8 DEF Interrupted
<1>5. q + 1 = 1 \/ (q + 1) - 1 \notin B
  BY <1>0, <1>1
<1>6. (q + 1) - 1 = q
  BY <1>0
<1> QED BY <1>3, <1>4, <1>5, <1>6 DEF Starts

LEMMA WalkOpens ==
    ASSUME NEW points \in PointSeqs, NEW w, NEW q, NEW e, NextRun(points, q, e),
           WalkInv(points, w, q), w.open = NoSpan, e \in Bads(points), Enter <= e - q
    PROVE  WalkInv(points, WalkStep(points, w, e), e)
<1> DEFINE B == Bads(points)
           new == [started |-> points[q + 1].ts, ended |-> points[e].ts, count |-> e - q]
           next == WalkStep(points, w, e)
<1>0. Len(points) \in Nat /\ q \in Nat /\ e \in Nat /\ q < e /\ e <= Len(points)
  BY NextRunFacts
<1>1. (\A k \in q + 1 .. e : k \in B) /\ (q = 0 \/ q \notin B)
  BY NextRunFacts
<1>2. Enter \in Nat \ {0} /\ Exit \in Nat \ {0}
  BY RulesConstants DEF RulesConstants
<1>3. w \in [open : SpanRecords, spans : SUBSET SpanRecords]
  BY DEF WalkInv
<1>4. points[q + 1].ts \in Nat \ {0} /\ points[e].ts \in Nat \ {0}
  <2>1. q + 1 \in 1 .. Len(points) /\ e \in 1 .. Len(points)
    BY <1>0
  <2> QED BY <2>1, PointsTyped
<1>5. new \in SpanRecords /\ new # NoSpan
  BY <1>0, <1>4 DEF SpanRecords, NoSpan, Ongoing
<1>6. next = [open |-> new, spans |-> w.spans]
  BY <1>3, WalkCases
<1> HIDE DEF next
<1>7. next.open = new /\ next.spans = w.spans
      /\ next \in [open : SpanRecords, spans : SUBSET SpanRecords]
  BY <1>3, <1>5, <1>6
<1>8. SpanIs(points, new, q + 1, e)
  <2>1. B \cap (q + 1 .. e) = q + 1 .. e
    BY <1>1
  <2>2. Cardinality(q + 1 .. e) = e - q
    BY <1>0, FS_Interval
  <2> QED BY <2>1, <2>2 DEF SpanIs
<1>9. Starts(B, q + 1)
  BY StartsAtRun
<1> HIDE DEF B, new
<1>10. OpenAt(B, q + 1, e, e)
  <2>1. ~Interrupted(B, q + 1, e)
    <3>1. ~Interrupted(B, q + 1, q)
      BY <1>0 DEF Interrupted
    <3> QED BY <1>0, <1>1, <3>1, BadRunContinues
  <2> QED BY <1>0, <1>1, <1>2, <2>1 DEF OpenAt
<1>11. q + 1 \in 1 .. e /\ e \in 1 .. e
  BY <1>0
<1>12. \E a, b \in 1 .. e : SpanIs(points, next.open, a, b) /\ Starts(B, a) /\ OpenAt(B, a, b, e)
  BY <1>7, <1>8, <1>9, <1>10, <1>11, Zenon
<1>13. \A s \in next.spans : \E a, b \in 1 .. e :
          SpanIs(points, s, a, b) /\ Starts(B, a) /\ ClosedAt(B, a, b, e)
  BY <1>0, <1>7, SpansStayClosed, Zenon DEF B
<1>14. ASSUME NEW i \in 1 .. e, i + Enter - 1 <= e, Long(B, i)
       PROVE  \E s \in next.spans \cup ({next.open} \ {NoSpan}), a \in 1 .. i :
                 s.started = points[a].ts /\ Starts(B, a) /\ ~Interrupted(B, a, i)
  <2>1. CASE i + Enter - 1 <= q
    <3>1. i \in 1 .. q
      BY <1>0, <1>2, <2>1
    <3>2. PICK s \in w.spans \cup ({w.open} \ {NoSpan}), a \in 1 .. i :
             s.started = points[a].ts /\ Starts(B, a) /\ ~Interrupted(B, a, i)
      BY <1>14, <2>1, <3>1, Zenon DEF WalkInv, B
    <3>3. s \in next.spans
      BY <1>7
    <3> QED BY <3>2, <3>3
  <2>2. CASE ~(i + Enter - 1 <= q)
    <3>1. q + 1 <= i
      BY <1>14, <2>2, NextRunFacts DEF B
    <3>2. q + 1 \in 1 .. i /\ i <= e
      BY <1>0, <3>1
    <3>3. ~Interrupted(B, q + 1, i)
      BY <1>0, <1>10, InterruptedMonotone DEF OpenAt
    <3>4. new \in next.spans \cup ({next.open} \ {NoSpan}) /\ new.started = points[q + 1].ts
      BY <1>5, <1>7 DEF new
    <3> QED BY <1>9, <3>2, <3>3, <3>4
  <2> QED BY <2>1, <2>2
<1>15. WalkInv(points, next, e)
  BY <1>7, <1>12, <1>13, <1>14, Zenon DEF WalkInv, B
<1> QED BY <1>15 DEF next

LEMMA WalkExtends ==
    ASSUME NEW points \in PointSeqs, NEW w, NEW q, NEW e, NextRun(points, q, e),
           WalkInv(points, w, q), w.open # NoSpan, e \in Bads(points)
    PROVE  WalkInv(points, WalkStep(points, w, e), e)
<1> DEFINE B == Bads(points)
           next == WalkStep(points, w, e)
<1>0. Len(points) \in Nat /\ q \in Nat /\ e \in Nat /\ q < e /\ e <= Len(points)
  BY NextRunFacts
<1>1. (\A k \in q + 1 .. e : k \in B) /\ (q = 0 \/ q \notin B)
  BY NextRunFacts
<1>2. Enter \in Nat \ {0} /\ Exit \in Nat \ {0}
  BY RulesConstants DEF RulesConstants
<1>3. w \in [open : SpanRecords, spans : SUBSET SpanRecords]
  BY DEF WalkInv
<1>4. PICK a \in 1 .. q, b \in 1 .. q :
          SpanIs(points, w.open, a, b) /\ Starts(B, a) /\ OpenAt(B, a, b, q)
  BY Zenon DEF WalkInv
<1>5. points[a].ts \in Nat \ {0} /\ points[e].ts \in Nat \ {0}
  <2>1. a \in 1 .. Len(points) /\ e \in 1 .. Len(points)
    BY <1>0
  <2> QED BY <2>1, PointsTyped
<1>6. next = [open |-> [started |-> w.open.started, ended |-> points[e].ts,
                        count |-> w.open.count + (e - q)], spans |-> w.spans]
  BY <1>3, WalkCases
<1> HIDE DEF next
<1>7. w.open \in SpanRecords
  BY <1>3
<1>8. /\ next.spans = w.spans
      /\ next.open.started = w.open.started
      /\ next.open.ended = points[e].ts /\ next.open.count = w.open.count + (e - q)
      /\ next \in [open : SpanRecords, spans : SUBSET SpanRecords]
  <2> DEFINE open == [started |-> w.open.started, ended |-> points[e].ts,
                      count |-> w.open.count + (e - q)]
  <2>1. next = [open |-> open, spans |-> w.spans]
    BY <1>6
  <2>2. w.open.started \in Nat /\ w.open.count \in Nat
    BY <1>7 DEF SpanRecords
  <2>3. w.open.count + (e - q) \in Nat
    BY <1>0, <2>2
  <2>4. open \in SpanRecords
    BY <1>5, <2>2, <2>3 DEF SpanRecords
  <2>5. /\ open.started = w.open.started /\ open.ended = points[e].ts
        /\ open.count = w.open.count + (e - q)
    OBVIOUS
  <2>6. w.spans \in SUBSET SpanRecords
    BY <1>3
  <2> HIDE DEF open
  <2> QED BY <2>1, <2>4, <2>5, <2>6
<1>9. next.open # NoSpan
  BY <1>4, <1>5, <1>8 DEF SpanIs, NoSpan, Ongoing
<1>10. SpanIs(points, next.open, a, e)
  <2>1. Cardinality(B \cap (a .. e)) = Cardinality(B \cap (a .. b)) + (e - q)
    <3> DEFINE S == B \cap (a .. b)
               T == q + 1 .. e
    <3>1. IsFiniteSet(T) /\ Cardinality(T) = e - q
      BY <1>0, FS_Interval
    <3>2. IsFiniteSet(S)
      <4>1. IsFiniteSet(a .. b)
        BY <1>0, FS_Interval
      <4> QED BY <4>1, FS_Subset
    <3>3. S \cap T = {} /\ B \cap (a .. e) = S \cup T
      BY <1>0, <1>1, <1>4 DEF OpenAt
    <3>4. Cardinality(S \cup T) = Cardinality(S) + Cardinality(T)
      <4> HIDE DEF S, T
      <4> QED BY <3>1, <3>2, <3>3, CardinalityOfParts
    <3> QED BY <3>1, <3>3, <3>4
  <2> QED BY <1>4, <1>8, <2>1 DEF SpanIs
<1> HIDE DEF B
<1>11. OpenAt(B, a, e, e)
  <2>1. ~Interrupted(B, a, e)
    BY <1>0, <1>1, <1>4, BadRunContinues DEF OpenAt
  <2> QED BY <1>0, <1>1, <1>2, <1>4, <2>1 DEF OpenAt
<1>12. \E c, d \in 1 .. e : SpanIs(points, next.open, c, d) /\ Starts(B, c) /\ OpenAt(B, c, d, e)
  <2>1. a \in 1 .. e /\ e \in 1 .. e
    BY <1>0
  <2> QED BY <1>4, <1>10, <1>11, <2>1
<1>13. \A s \in next.spans : \E c, d \in 1 .. e :
          SpanIs(points, s, c, d) /\ Starts(B, c) /\ ClosedAt(B, c, d, e)
  BY <1>0, <1>8, SpansStayClosed, Zenon DEF B
<1>14. ASSUME NEW i \in 1 .. e, i + Enter - 1 <= e, Long(B, i)
       PROVE  \E s \in next.spans \cup ({next.open} \ {NoSpan}), c \in 1 .. i :
                 s.started = points[c].ts /\ Starts(B, c) /\ ~Interrupted(B, c, i)
  <2>1. CASE i + Enter - 1 <= q
    <3>1. i \in 1 .. q
      BY <1>0, <1>2, <2>1
    <3>2. PICK s \in w.spans \cup ({w.open} \ {NoSpan}), c \in 1 .. i :
             s.started = points[c].ts /\ Starts(B, c) /\ ~Interrupted(B, c, i)
      BY <1>14, <2>1, <3>1, Zenon DEF WalkInv, B
    <3>3. CASE s \in w.spans
      BY <1>8, <3>2, <3>3
    <3>4. CASE s = w.open
      BY <1>8, <1>9, <3>2, <3>4
    <3> QED BY <3>3, <3>4
  <2>2. CASE ~(i + Enter - 1 <= q)
    <3>1. q + 1 <= i
      BY <1>14, <2>2, NextRunFacts DEF B
    <3>2. a \in 1 .. i /\ i <= e
      BY <1>0, <3>1
    <3>3. ~Interrupted(B, a, i)
      BY <1>0, <1>11, InterruptedMonotone DEF OpenAt
    <3>4. next.open.started = points[a].ts
      BY <1>4, <1>8 DEF SpanIs
    <3> QED BY <1>4, <1>9, <3>2, <3>3, <3>4
  <2> QED BY <2>1, <2>2
<1>15. WalkInv(points, next, e)
  BY <1>8, <1>12, <1>13, <1>14, Zenon DEF WalkInv, B
<1> QED BY <1>15 DEF next

LEMMA WalkCloses ==
    ASSUME NEW points \in PointSeqs, NEW w, NEW q, NEW e, NextRun(points, q, e),
           WalkInv(points, w, q), w.open # NoSpan, e \notin Bads(points), Exit <= e - q
    PROVE  WalkInv(points, WalkStep(points, w, e), e)
<1> DEFINE B == Bads(points)
           next == WalkStep(points, w, e)
<1>0. Len(points) \in Nat /\ q \in Nat /\ e \in Nat /\ q < e /\ e <= Len(points)
  BY NextRunFacts
<1>1. (\A k \in q + 1 .. e : k \notin B) /\ (q # 0 => q \in B)
  BY NextRunFacts
<1>2. Enter \in Nat \ {0} /\ Exit \in Nat \ {0}
  BY RulesConstants DEF RulesConstants
<1>3. w \in [open : SpanRecords, spans : SUBSET SpanRecords]
  BY DEF WalkInv
<1>4. PICK a \in 1 .. q, b \in 1 .. q :
          SpanIs(points, w.open, a, b) /\ Starts(B, a) /\ OpenAt(B, a, b, q)
  BY Zenon DEF WalkInv
<1>5. next = [open |-> NoSpan, spans |-> w.spans \cup {w.open}]
  BY <1>3, WalkCases
<1> HIDE DEF next
<1>6. NoSpan \in SpanRecords
  BY DEF NoSpan, SpanRecords, Ongoing
<1>7. /\ next.open = NoSpan /\ next.spans = w.spans \cup {w.open}
      /\ next \in [open : SpanRecords, spans : SUBSET SpanRecords]
  BY <1>3, <1>5, <1>6
<1> HIDE DEF B
<1>8. b = q
  BY <1>0, <1>1, <1>4 DEF OpenAt
<1>9. ClosedAt(B, a, q, e)
  BY <1>0, <1>1, <1>2, <1>4, <1>8 DEF OpenAt, ClosedAt
<1>10. \A s \in next.spans : \E c, d \in 1 .. e :
          SpanIs(points, s, c, d) /\ Starts(B, c) /\ ClosedAt(B, c, d, e)
  <2> SUFFICES ASSUME NEW s \in next.spans
               PROVE  \E c, d \in 1 .. e :
                         SpanIs(points, s, c, d) /\ Starts(B, c) /\ ClosedAt(B, c, d, e)
    OBVIOUS
  <2>1. CASE s \in w.spans
    BY <1>0, <2>1, SpansStayClosed, Zenon DEF B
  <2>2. CASE s = w.open
    <3>1. a \in 1 .. e /\ q \in 1 .. e
      BY <1>0, <1>4, <1>8
    <3> QED BY <1>4, <1>8, <1>9, <2>2, <3>1
  <2> QED BY <1>7, <2>1, <2>2
<1>11. ASSUME NEW i \in 1 .. e, i + Enter - 1 <= e, Long(B, i)
       PROVE  \E s \in next.spans \cup ({next.open} \ {NoSpan}), c \in 1 .. i :
                 s.started = points[c].ts /\ Starts(B, c) /\ ~Interrupted(B, c, i)
  <2>1. i + Enter - 1 <= q
    BY <1>11, NextRunFacts DEF B
  <2>2. i \in 1 .. q
    BY <1>0, <1>2, <2>1
  <2>3. PICK s \in w.spans \cup ({w.open} \ {NoSpan}), c \in 1 .. i :
             s.started = points[c].ts /\ Starts(B, c) /\ ~Interrupted(B, c, i)
    BY <1>11, <2>1, <2>2, Zenon DEF WalkInv, B
  <2>4. s \in next.spans
    BY <1>7
  <2> QED BY <2>3, <2>4
<1>12. WalkInv(points, next, e)
  BY <1>7, <1>10, <1>11, Zenon DEF WalkInv, B
<1> QED BY <1>12 DEF next

(* A bad run too short to open, and any good run while no span is open.      *)
LEMMA WalkIgnores ==
    ASSUME NEW points \in PointSeqs, NEW w, NEW q, NEW e, NextRun(points, q, e),
           WalkInv(points, w, q), w.open = NoSpan, e \notin Bads(points) \/ e - q < Enter
    PROVE  WalkInv(points, WalkStep(points, w, e), e)
<1> DEFINE B == Bads(points)
<1>0. Len(points) \in Nat /\ q \in Nat /\ e \in Nat /\ q < e /\ e <= Len(points)
  BY NextRunFacts
<1>1. w \in [open : SpanRecords, spans : SUBSET SpanRecords]
  BY DEF WalkInv
<1>2. WalkStep(points, w, e) = w
  BY <1>1, WalkCases
<1>3. Enter \in Nat \ {0}
  BY RulesConstants DEF RulesConstants
<1>4. ASSUME NEW i \in 1 .. e, i + Enter - 1 <= e, Long(B, i)
      PROVE  i + Enter - 1 <= q /\ i \in 1 .. q
  <2>1. i + Enter - 1 <= q \/ (e \in B /\ q + 1 <= i /\ Enter <= e - q)
    BY <1>4, NextRunFacts
  <2> HIDE DEF B
  <2>2. i + Enter - 1 <= q
    BY <1>0, <1>3, <2>1 DEF B
  <2> QED BY <1>0, <1>3, <2>2
<1>5. \A s \in w.spans : \E c, d \in 1 .. e :
          SpanIs(points, s, c, d) /\ Starts(B, c) /\ ClosedAt(B, c, d, e)
  BY <1>0, SpansStayClosed, Zenon
<1>6. \A i \in 1 .. e : (i + Enter - 1 <= e /\ Long(B, i)) =>
          \E s \in w.spans \cup ({w.open} \ {NoSpan}), a \in 1 .. i :
             s.started = points[a].ts /\ Starts(B, a) /\ ~Interrupted(B, a, i)
  BY <1>4, Zenon DEF WalkInv
<1> QED BY <1>1, <1>2, <1>5, <1>6, Zenon DEF WalkInv

(* A good run too short to close the span that is open.                      *)
LEMMA WalkSwallows ==
    ASSUME NEW points \in PointSeqs, NEW w, NEW q, NEW e, NextRun(points, q, e),
           WalkInv(points, w, q), w.open # NoSpan, e \notin Bads(points), e - q < Exit
    PROVE  WalkInv(points, WalkStep(points, w, e), e)
<1> DEFINE B == Bads(points)
<1>0. Len(points) \in Nat /\ q \in Nat /\ e \in Nat /\ q < e /\ e <= Len(points)
  BY NextRunFacts
<1>1. w \in [open : SpanRecords, spans : SUBSET SpanRecords]
  BY DEF WalkInv
<1>2. WalkStep(points, w, e) = w
  BY <1>1, WalkCases
<1>3. Enter \in Nat \ {0}
  BY RulesConstants DEF RulesConstants
<1>4. ASSUME NEW i \in 1 .. e, i + Enter - 1 <= e, Long(B, i)
      PROVE  i + Enter - 1 <= q /\ i \in 1 .. q
  <2>1. i + Enter - 1 <= q
    BY <1>4, NextRunFacts
  <2> QED BY <1>0, <1>3, <2>1
<1>5. \A s \in w.spans : \E c, d \in 1 .. e :
          SpanIs(points, s, c, d) /\ Starts(B, c) /\ ClosedAt(B, c, d, e)
  BY <1>0, SpansStayClosed, Zenon
<1>6. \A i \in 1 .. e : (i + Enter - 1 <= e /\ Long(B, i)) =>
          \E s \in w.spans \cup ({w.open} \ {NoSpan}), a \in 1 .. i :
             s.started = points[a].ts /\ Starts(B, a) /\ ~Interrupted(B, a, i)
  BY <1>4, Zenon DEF WalkInv
<1>7. PICK a \in 1 .. q, b \in 1 .. q :
          SpanIs(points, w.open, a, b) /\ Starts(B, a) /\ OpenAt(B, a, b, q)
  BY Zenon DEF WalkInv
<1>8. (\A k \in q + 1 .. e : k \notin B) /\ (q # 0 => q \in B)
  BY NextRunFacts
<1>9. OpenAt(B, a, b, e)
  <2> HIDE DEF B
  <2>1. a <= q /\ q \in B /\ b = q /\ a \in Nat
    BY <1>0, <1>7, <1>8 DEF OpenAt
  <2>2. ~Interrupted(B, a, e)
    BY <1>0, <1>7, <2>1, ShortRunContinues DEF OpenAt
  <2> QED BY <1>0, <1>7, <1>8, <2>1, <2>2 DEF OpenAt
<1>10. a \in 1 .. e /\ b \in 1 .. e
  BY <1>0
<1>11. \E c, d \in 1 .. e : SpanIs(points, w.open, c, d) /\ Starts(B, c) /\ OpenAt(B, c, d, e)
  BY <1>7, <1>9, <1>10, Zenon
<1> QED BY <1>1, <1>2, <1>5, <1>6, <1>11, Zenon DEF WalkInv

LEMMA WalkStepKeeps ==
    ASSUME NEW points \in PointSeqs, NEW w, NEW q, NEW e, NextRun(points, q, e),
           WalkInv(points, w, q)
    PROVE  WalkInv(points, WalkStep(points, w, e), e)
<1>1. q \in Nat /\ e \in Nat /\ Enter \in Nat /\ Exit \in Nat
  BY NextRunFacts, RulesConstants DEF RulesConstants
<1>2. (Enter <= e - q \/ e - q < Enter) /\ (Exit <= e - q \/ e - q < Exit)
  BY <1>1
<1> QED BY <1>2, WalkOpens, WalkExtends, WalkCloses, WalkIgnores, WalkSwallows, Zenon

(* What the walk over all points has found.                                  *)
LEMMA WalkedInv ==
    ASSUME NEW points \in PointSeqs
    PROVE  WalkInv(points, Walked(points), Len(points))
<1> DEFINE N == Len(points)
<1>0. N \in Nat
  BY PointsTyped
<1>1. PICK walk :
          /\ walk[0] = [open |-> NoSpan, spans |-> {}]
          /\ \A i \in 1 .. Len(points) : walk[i] = WalkStep(points, walk[i - 1], i)
          /\ Walked(points) = walk[Len(points)]
  BY <1>0, WalkedEquation, Zenon
<1> DEFINE
      At(n, q) == /\ q \in 0 .. n /\ (q = 0 \/ RunEnds(points, q))
                  /\ \A k \in q + 1 .. n : ~RunEnds(points, k)
                  /\ WalkInv(points, walk[n], q)
      S == {n \in 0 .. N : \E q \in 0 .. n : At(n, q)}
<1>2. 0 \in S
  <2>1. WalkInv(points, walk[0], 0)
    BY <1>1 DEF WalkInv, SpanRecords, NoSpan, Ongoing
  <2>2. At(0, 0)
    BY <2>1
  <2> QED BY <1>0, <2>2
<1>3. ASSUME NEW n \in 0 .. N, n # N, n \in S
      PROVE  n + 1 \in S
  <2>1. PICK q \in 0 .. n : At(n, q)
    BY <1>3
  <2>2. n + 1 \in 1 .. N /\ n + 1 \in 0 .. N /\ (n + 1) - 1 = n
    BY <1>0, <1>3
  <2>3. walk[n + 1] = WalkStep(points, walk[n], n + 1)
    BY <1>1, <2>2
  <2>4. CASE RunEnds(points, n + 1)
    <3>1. NextRun(points, q, n + 1)
      BY <1>0, <2>1, <2>2, <2>4 DEF NextRun
    <3>2. WalkInv(points, walk[n + 1], n + 1)
      BY <2>1, <2>3, <3>1, WalkStepKeeps
    <3>3. At(n + 1, n + 1)
      BY <2>2, <2>4, <3>2
    <3> QED BY <2>2, <3>3
  <2>5. CASE ~RunEnds(points, n + 1)
    <3>1. walk[n + 1] = walk[n]
      BY <2>3, <2>5, Zenon DEF WalkStep
    <3>2. \A k \in q + 1 .. n + 1 : k \in q + 1 .. n \/ k = n + 1
      BY <2>1
    <3>3. q \in 0 .. n + 1
      BY <2>1
    <3>4. At(n + 1, q)
      BY <2>1, <2>5, <3>1, <3>2, <3>3, Zenon
    <3> QED BY <2>2, <3>3, <3>4, Zenon
  <2> QED BY <2>4, <2>5
<1>4. 0 .. N \subseteq S
  <2> HIDE DEF S, N
  <2> QED BY <1>0, <1>2, <1>3, InductionUpTo
<1>5. PICK q \in 0 .. N : At(N, q)
  BY <1>0, <1>4
<1>6. q = N
  <2>1. CASE N = 0
    BY <2>1
  <2>2. CASE N # 0
    <3>1. RunEnds(points, N)
      BY DEF RunEnds
    <3>2. ~(N \in q + 1 .. N)
      BY <1>5, <3>1
    <3> QED BY <1>0, <3>2
  <2> QED BY <2>1, <2>2
<1> QED BY <1>1, <1>5, <1>6

-----------------------------------------------------------------------------
(* What find_spans returns.                                                  *)
SpanFound(points, span, a, b) ==
    LET B == Bads(points)
    IN  /\ span.started = points[a].ts
        /\ span.count = Cardinality(B \cap (a .. b))
        /\ Starts(B, a)
        /\ \/ span.ended = Ongoing /\ OpenAt(B, a, b, Len(points))
           \/ span.ended = points[b].ts /\ ClosedAt(B, a, b, Len(points))

LEMMA FindSpansSound ==
    ASSUME NEW points \in PointSeqs, NEW span \in FindSpans(points)
    PROVE  /\ span \in SpanRecords
           /\ \E a, b \in 1 .. Len(points) : SpanFound(points, span, a, b)
<1> DEFINE w == Walked(points)
           N == Len(points)
           B == Bads(points)
<1>1. WalkInv(points, w, N)
  BY WalkedInv
<1>2. w \in [open : SpanRecords, spans : SUBSET SpanRecords]
  BY <1>1 DEF WalkInv
<1>3. span \in w.spans \/ (w.open # NoSpan /\ span = [w.open EXCEPT !.ended = Ongoing])
  BY DEF FindSpans
<1> HIDE DEF w, B
<1>4. CASE span \in w.spans
  <2>1. PICK a \in 1 .. N, b \in 1 .. N :
          SpanIs(points, span, a, b) /\ Starts(B, a) /\ ClosedAt(B, a, b, N)
    BY <1>1, <1>4, Zenon DEF WalkInv, B
  <2>2. SpanFound(points, span, a, b)
    BY <2>1 DEF SpanFound, SpanIs, B
  <2> QED BY <1>2, <1>4, <2>2
<1>5. CASE w.open # NoSpan /\ span = [w.open EXCEPT !.ended = Ongoing]
  <2>1. PICK a \in 1 .. N, b \in 1 .. N :
          SpanIs(points, w.open, a, b) /\ Starts(B, a) /\ OpenAt(B, a, b, N)
    BY <1>1, <1>5, Zenon DEF WalkInv, B
  <2>2. /\ span.started = w.open.started /\ span.count = w.open.count
        /\ span.ended = Ongoing /\ span \in SpanRecords
    BY <1>2, <1>5 DEF SpanRecords, Ongoing
  <2>3. SpanFound(points, span, a, b)
    BY <2>1, <2>2 DEF SpanFound, SpanIs, B
  <2> QED BY <2>2, <2>3
<1> QED BY <1>3, <1>4, <1>5

LEMMA FindSpansComplete ==
    ASSUME NEW points \in PointSeqs, NEW i \in 1 .. Len(points),
           i + Enter - 1 <= Len(points), Long(Bads(points), i)
    PROVE  \E span \in FindSpans(points), a \in 1 .. i :
              /\ span.started = points[a].ts /\ Starts(Bads(points), a)
              /\ ~Interrupted(Bads(points), a, i)
<1> DEFINE w == Walked(points)
           N == Len(points)
           B == Bads(points)
<1>1. WalkInv(points, w, N)
  BY WalkedInv
<1>2. w \in [open : SpanRecords, spans : SUBSET SpanRecords]
  BY <1>1 DEF WalkInv
<1> HIDE DEF w
<1>3. PICK s \in w.spans \cup ({w.open} \ {NoSpan}), a \in 1 .. i :
          s.started = points[a].ts /\ Starts(B, a) /\ ~Interrupted(B, a, i)
  BY <1>1, Zenon DEF WalkInv
<1>4. CASE s \in w.spans
  <2>1. s \in FindSpans(points)
    BY <1>4 DEF FindSpans, w
  <2> QED BY <1>3, <2>1
<1>5. CASE s \in {w.open} \ {NoSpan}
  <2>1. [s EXCEPT !.ended = Ongoing] \in FindSpans(points)
    BY <1>5 DEF FindSpans, w
  <2>2. [s EXCEPT !.ended = Ongoing].started = s.started
    BY <1>2, <1>5 DEF SpanRecords
  <2> QED BY <1>3, <2>1, <2>2
<1> QED BY <1>4, <1>5

LEMMA ReferenceWords ==
    ASSUME NEW points \in PointSeqs
    PROVE  /\ \A i \in 1 .. Len(points) :
                 Confirmed(points, i) <=> i + Enter - 1 <= Len(points) /\ Long(Bads(points), i)
           /\ \A i \in 1 .. Len(points) :
                 Recovered(points, i) <=>
                    /\ i + Exit - 1 <= Len(points)
                    /\ \A k \in i .. i + Exit - 1 : k \notin Bads(points)
           /\ \A a \in 1 .. Len(points) : SpanStarts(points, a) <=>
                 Starts(Bads(points), a) /\ a + Enter - 1 <= Len(points)
           /\ \A a \in 1 .. Len(points) : Recoveries(points, a) = {} <=>
                 ~Interrupted(Bads(points), a, Len(points))
<1> DEFINE B == Bads(points)
           N == Len(points)
<1>0. N \in Nat /\ DOMAIN points = 1 .. N /\ Enter \in Nat \ {0} /\ Exit \in Nat \ {0}
  BY PointsTyped, RulesConstants DEF RulesConstants
<1>1. \A k : k \in B <=> k \in DOMAIN points /\ points[k].bad
  BY <1>0, Zenon DEF Bads
<1>2. \A k : k \in 1 .. N \ B <=> k \in DOMAIN points /\ ~points[k].bad
  BY <1>0, Zenon DEF Bads
<1>3. \A i : Confirmed(points, i) <=> \A k \in i .. i + Enter - 1 : k \in B
  BY <1>1, Zenon DEF Confirmed
<1>4. \A i : Recovered(points, i) <=> \A k \in i .. i + Exit - 1 : k \in 1 .. N \ B
  BY <1>2, Zenon DEF Recovered
<1>5. B \subseteq 1 .. N
  BY DEF Bads
<1>6. \A a \in 1 .. N : (a = 1 \/ ~points[a - 1].bad) <=> (a = 1 \/ a - 1 \notin B)
  <2> SUFFICES ASSUME NEW a \in 1 .. N
               PROVE  (a = 1 \/ ~points[a - 1].bad) <=> (a = 1 \/ a - 1 \notin B)
    OBVIOUS
  <2>1. a = 1 \/ a - 1 \in DOMAIN points
    BY <1>0
  <2> QED BY <1>1, <2>1, Zenon
<1> HIDE DEF B, N
<1>7. \A i \in 1 .. N : Confirmed(points, i) <=> i + Enter - 1 <= N /\ Long(B, i)
  <2> SUFFICES ASSUME NEW i \in 1 .. N
               PROVE  (\A k \in i .. i + Enter - 1 : k \in B) <=>
                      i + Enter - 1 <= N /\ \A k \in i .. i + Enter - 1 : k \in B
    BY <1>3 DEF Long
  <2>1. i + Enter - 1 \in i .. i + Enter - 1
    BY <1>0
  <2> QED BY <1>0, <1>5, <2>1
<1>8. \A i \in 1 .. N : Recovered(points, i) <=>
                    i + Exit - 1 <= N /\ \A k \in i .. i + Exit - 1 : k \notin B
  <2> SUFFICES ASSUME NEW i \in 1 .. N
               PROVE  (\A k \in i .. i + Exit - 1 : k \in 1 .. N \ B) <=>
                      i + Exit - 1 <= N /\ \A k \in i .. i + Exit - 1 : k \notin B
    BY <1>4
  <2>1. i + Exit - 1 \in i .. i + Exit - 1
    BY <1>0
  <2> QED BY <1>0, <2>1
<1>9. \A i, b \in 1 .. N : (b = N \/ b + 1 \in B) =>
          ((\E j \in i .. b : Recovered(points, j)) <=> Interrupted(B, i, b))
  <2> SUFFICES ASSUME NEW i \in 1 .. N, NEW b \in 1 .. N, b = N \/ b + 1 \in B
               PROVE  (\E j \in i .. b : Recovered(points, j)) <=> Interrupted(B, i, b)
    OBVIOUS
  <2>1. ASSUME NEW j \in i .. b
        PROVE  Recovered(points, j) <=> j + Exit - 1 <= b /\ \A k \in j .. j + Exit - 1 : k \notin B
    <3>1. j \in 1 .. N
      BY <1>0
    <3>2. CASE Recovered(points, j)
      <4>1. j + Exit - 1 <= N /\ \A k \in j .. j + Exit - 1 : k \notin B
        BY <1>8, <3>1, <3>2
      <4>2. j + Exit - 1 <= b
        BY <1>0, <4>1
      <4> QED BY <3>2, <4>1, <4>2
    <3>3. CASE j + Exit - 1 <= b /\ \A k \in j .. j + Exit - 1 : k \notin B
      BY <1>0, <1>8, <3>1, <3>3
    <3> QED BY <3>2, <3>3
  <2> QED BY <2>1, Zenon DEF Interrupted
<1>10. ASSUME NEW a \in 1 .. N
       PROVE  SpanStarts(points, a) <=> Starts(B, a) /\ a + Enter - 1 <= N
  <2>1. Confirmed(points, a) <=> a + Enter - 1 <= N /\ Long(B, a)
    BY <1>7
  <2>2. ASSUME Long(B, a)
        PROVE  (\A i \in 1 .. a - Enter : Confirmed(points, i) =>
                   \E j \in i .. a - 1 : Recovered(points, j))
               <=> \A i \in 1 .. a : (i + Enter - 1 < a /\ Long(B, i)) => Interrupted(B, i, a - 1)
    <3>1. a \in B
      BY <1>0, <2>2 DEF Long
    <3>2. \A i \in 1 .. a - Enter : i \in 1 .. N /\ a - 1 \in 1 .. N /\ (a - 1) + 1 \in B
      BY <1>0, <3>1
    <3>3. \A i \in 1 .. a - Enter :
             (\E j \in i .. a - 1 : Recovered(points, j)) <=> Interrupted(B, i, a - 1)
      BY <1>9, <3>2, Zenon
    <3>4. \A i \in 1 .. a - Enter : i + Enter - 1 <= N
      BY <1>0
    <3>5. \A i \in 1 .. a - Enter : Confirmed(points, i) <=> Long(B, i)
      BY <1>7, <3>2, <3>4, Zenon
    <3>6. \A i : i \in 1 .. a - Enter <=> i \in 1 .. a /\ i + Enter - 1 < a
      BY <1>0
    <3> QED BY <3>3, <3>5, <3>6, Zenon
  <2>3. (a = 1 \/ ~points[a - 1].bad) <=> (a = 1 \/ a - 1 \notin B)
    BY <1>6 DEF N
  <2>4. Confirmed(points, a) => Long(B, a)
    BY <2>1
  <2> QED BY <2>1, <2>2, <2>3, <2>4, Zenon DEF SpanStarts, Starts
<1>11. \A a \in 1 .. N : Recoveries(points, a) = {} <=> ~Interrupted(B, a, N)
  <2>1. \A a \in 1 .. N : N \in 1 .. N
    BY <1>0
  <2> QED BY <1>9, <2>1, Zenon DEF Recoveries, N
<1> QED BY <1>7, <1>8, <1>10, <1>11, Zenon DEF N, B

(* A span that was found has the bad points of the reference.                *)
LEMMA FoundSpanPoints ==
    ASSUME NEW points \in PointSeqs, NEW span, NEW a \in 1 .. Len(points),
           NEW b \in 1 .. Len(points), SpanFound(points, span, a, b)
    PROVE  /\ \A i : i \in SpanPoints(points, a) <=> i \in a .. b /\ i \in Bads(points)
           /\ b \in SpanPoints(points, a) /\ \A i \in SpanPoints(points, a) : i <= b
           /\ Recoveries(points, a) = {} <=> OpenAt(Bads(points), a, b, Len(points))
           /\ Recoveries(points, a) # {} <=> ClosedAt(Bads(points), a, b, Len(points))
           /\ a + Enter - 1 <= b
<1> DEFINE B == Bads(points)
           N == Len(points)
           R == Recoveries(points, a)
<1>0. N \in Nat /\ Enter \in Nat \ {0} /\ Exit \in Nat \ {0}
  BY PointsTyped, RulesConstants DEF RulesConstants
<1>1. \A i : i \in SpanPoints(points, a) <=> i \in a .. N /\ i \in B /\ \A j \in R : i < j
  <2>1. \A i \in a .. N : points[i].bad <=> i \in B
    <3>1. \A i \in a .. N : i \in 1 .. N
      BY <1>0
    <3> QED BY <3>1, BadsAre, Zenon
  <2> QED BY <2>1, Zenon DEF SpanPoints
<1>2. \A j : j \in R <=>
         j \in a .. N /\ j + Exit - 1 <= N /\ \A k \in j .. j + Exit - 1 : k \notin B
  <2>1. \A j \in a .. N : j \in 1 .. N
    BY <1>0
  <2> QED BY <2>1, ReferenceWords, Zenon DEF Recoveries
<1>3. R = {} <=> ~Interrupted(B, a, N)
  BY ReferenceWords
<1>4. \/ OpenAt(B, a, b, N) \/ ClosedAt(B, a, b, N)
  BY DEF SpanFound
<1> HIDE DEF B, N, R
<1>5. a + Enter - 1 <= b /\ b \in B /\ a <= b
  BY <1>0, <1>4 DEF OpenAt, ClosedAt
<1>6. CASE OpenAt(B, a, b, N)
  <2>1. R = {}
    BY <1>3, <1>6 DEF OpenAt
  <2>2. \A i : i \in SpanPoints(points, a) <=> i \in a .. b /\ i \in B
    BY <1>0, <1>1, <1>6, <2>1 DEF OpenAt, N
  <2>3. ~ClosedAt(B, a, b, N)
    <3> SUFFICES ASSUME ClosedAt(B, a, b, N) PROVE FALSE
      OBVIOUS
    <3>1. b + 1 \in a .. N /\ (b + 1) + Exit - 1 <= N
      BY <1>0, <1>5 DEF ClosedAt, N
    <3>2. \A k \in b + 1 .. (b + 1) + Exit - 1 : k \notin B
      BY <1>0 DEF ClosedAt
    <3> QED BY <1>6, <3>1, <3>2 DEF OpenAt, Interrupted
  <2>4. b \in SpanPoints(points, a) /\ \A i \in SpanPoints(points, a) : i <= b
    BY <1>5, <2>2
  <2> QED BY <1>5, <1>6, <2>1, <2>2, <2>3, <2>4, Zenon DEF R, N, B
<1>7. CASE ClosedAt(B, a, b, N)
  <2>1. b + 1 \in R
    <3>1. b + 1 \in a .. N /\ (b + 1) + Exit - 1 <= N
      BY <1>0, <1>5, <1>7 DEF ClosedAt, N
    <3>2. \A k \in b + 1 .. (b + 1) + Exit - 1 : k \notin B
      BY <1>0, <1>7 DEF ClosedAt
    <3> QED BY <1>2, <3>1, <3>2
  <2>2. \A j \in R : b < j
    <3> SUFFICES ASSUME NEW j \in R, j <= b PROVE FALSE
      BY <1>0, <1>2
    <3>1. j \in a .. b /\ b \notin j .. j + Exit - 1 /\ \A k \in j .. j + Exit - 1 : k \notin B
      BY <1>0, <1>2, <1>5
    <3>2. j + Exit - 1 <= b
      BY <1>0, <3>1
    <3> QED BY <1>7, <3>1, <3>2 DEF ClosedAt, Interrupted
  <2>3. \A i : i \in SpanPoints(points, a) <=> i \in a .. b /\ i \in B
    <3>1. ASSUME NEW i, i \in SpanPoints(points, a) PROVE i \in a .. b /\ i \in B
      <4>1. i \in a .. N /\ i \in B /\ i < b + 1
        BY <1>1, <2>1, <3>1
      <4> QED BY <1>0, <4>1
    <3>2. ASSUME NEW i, i \in a .. b, i \in B PROVE i \in SpanPoints(points, a)
      <4>1. i \in a .. N
        BY <1>0, <3>2 DEF N
      <4>2. \A j \in R : i < j
        BY <1>0, <1>2, <2>2, <3>2
      <4> QED BY <1>1, <3>2, <4>1, <4>2
    <3> QED BY <3>1, <3>2
  <2>4. b \in SpanPoints(points, a) /\ \A i \in SpanPoints(points, a) : i <= b
    BY <1>5, <2>3
  <2>5. ~OpenAt(B, a, b, N)
    BY <1>3, <2>1 DEF OpenAt
  <2>6. R # {}
    BY <2>1
  <2> QED BY <1>5, <1>7, <2>3, <2>4, <2>5, <2>6, Zenon DEF R, N, B
<1> QED BY <1>4, <1>6, <1>7

LEMMA FoundSpanIsReference ==
    ASSUME NEW points \in PointSeqs, NEW span \in SpanRecords, NEW a \in 1 .. Len(points),
           NEW b \in 1 .. Len(points), SpanFound(points, span, a, b)
    PROVE  span = SpanAt(points, a)
<1> DEFINE S == SpanPoints(points, a)
<1>1. /\ S = Bads(points) \cap (a .. b) /\ b \in S /\ \A i \in S : i <= b
      /\ Recoveries(points, a) = {} <=> OpenAt(Bads(points), a, b, Len(points))
      /\ Recoveries(points, a) # {} <=> ClosedAt(Bads(points), a, b, Len(points))
  <2>1. S = Bads(points) \cap (a .. b)
    <3>1. \A i : i \in S <=> i \in a .. b /\ i \in Bads(points)
      BY FoundSpanPoints
    <3> HIDE DEF S
    <3> QED BY <3>1
  <2>2. b \in S
    BY FoundSpanPoints
  <2>3. \A i \in S : i <= b
    BY FoundSpanPoints
  <2>4. Recoveries(points, a) = {} <=> OpenAt(Bads(points), a, b, Len(points))
    BY FoundSpanPoints
  <2>5. Recoveries(points, a) # {} <=> ClosedAt(Bads(points), a, b, Len(points))
    BY FoundSpanPoints
  <2> QED BY <2>1, <2>2, <2>3, <2>4, <2>5
<1>2. Max(S) = b
  <2>1. S \in SUBSET Int /\ S # {} /\ IsFiniteSet(S)
    <3>1. IsFiniteSet(a .. b)
      BY FS_Interval
    <3>2. S \in SUBSET (a .. b)
      BY <1>1
    <3>3. IsFiniteSet(S)
      BY <3>1, <3>2, FS_Subset
    <3> QED BY <1>1, <3>2, <3>3
  <2> HIDE DEF S
  <2>2. Max(S) \in S /\ \A s \in S : s <= Max(S)
    BY <2>1, MaxIsLargest
  <2>3. Max(S) <= b /\ b <= Max(S) /\ Max(S) \in Int
    BY <1>1, <2>1, <2>2
  <2> QED BY <2>3
<1>3. span.started = SpanAt(points, a).started /\ span.count = SpanAt(points, a).count
  BY <1>1 DEF SpanFound, SpanAt
<1>4. span.ended = SpanAt(points, a).ended
  <2>1. CASE Recoveries(points, a) = {}
    <3>1. ~ClosedAt(Bads(points), a, b, Len(points))
      BY <1>1, <2>1
    <3> QED BY <2>1, <3>1, Zenon DEF SpanFound, SpanAt
  <2>2. CASE Recoveries(points, a) # {}
    <3>1. ~OpenAt(Bads(points), a, b, Len(points))
      BY <1>1, <2>2
    <3> QED BY <1>2, <2>2, <3>1, Zenon DEF SpanFound, SpanAt
  <2> QED BY <2>1, <2>2
<1>5. span = [started |-> span.started, ended |-> span.ended, count |-> span.count]
  BY DEF SpanRecords
<1> QED BY <1>3, <1>4, <1>5 DEF SpanAt

(* The walk of find_spans finds exactly the spans of the reference, whatever *)
(* the points and the numbers of confirmations are.                          *)
THEOREM FindSpansCorrect ==
    ASSUME NEW points \in PointSeqs
    PROVE  FindSpans(points) = SpansOf(points)
<1> DEFINE N == Len(points)
           B == Bads(points)
<1>0. N \in Nat /\ DOMAIN points = 1 .. N /\ Enter \in Nat \ {0} /\ Exit \in Nat \ {0}
  BY PointsTyped, RulesConstants DEF RulesConstants
<1>1. ASSUME NEW span \in FindSpans(points)
      PROVE  span \in SpansOf(points)
  <2>1. span \in SpanRecords
    BY FindSpansSound
  <2>2. PICK a \in 1 .. N, b \in 1 .. N : SpanFound(points, span, a, b)
    BY FindSpansSound
  <2>3. span = SpanAt(points, a)
    BY <2>1, <2>2, FoundSpanIsReference
  <2>4. SpanStarts(points, a)
    <3>1. Starts(B, a) /\ a + Enter - 1 <= b
      BY <2>2, FoundSpanPoints DEF SpanFound
    <3>2. a + Enter - 1 <= N
      BY <1>0, <3>1
    <3> QED BY <3>1, <3>2, ReferenceWords
  <2> QED BY <1>0, <2>3, <2>4 DEF SpansOf
<1>2. ASSUME NEW a \in 1 .. N, SpanStarts(points, a)
      PROVE  SpanAt(points, a) \in FindSpans(points)
  <2>1. Starts(B, a) /\ a + Enter - 1 <= N
    BY <1>2, ReferenceWords
  <2>2. PICK span \in FindSpans(points), c \in 1 .. a :
           span.started = points[c].ts /\ Starts(B, c) /\ ~Interrupted(B, c, a)
    BY <2>1, FindSpansComplete DEF Starts
  <2>3. c = a
    <3> SUFFICES ASSUME c < a PROVE FALSE
      OBVIOUS
    <3>1. c + Enter - 1 < a
      <4> SUFFICES ASSUME a <= c + Enter - 1 PROVE FALSE
        BY <1>0
      <4>1. a - 1 \in c .. c + Enter - 1 /\ a # 1
        BY <1>0
      <4>2. a - 1 \in B
        BY <2>2, <4>1 DEF Starts, Long
      <4> QED BY <2>1, <4>1, <4>2 DEF Starts
    <3>2. Interrupted(B, c, a - 1)
      BY <2>1, <2>2, <3>1 DEF Starts
    <3>3. Interrupted(B, c, a)
      BY <3>2, InterruptedMonotone
    <3> QED BY <2>2, <3>3
  <2>4. span \in SpanRecords
    BY FindSpansSound
  <2>5. PICK d \in 1 .. N, b \in 1 .. N : SpanFound(points, span, d, b)
    BY FindSpansSound
  <2>6. d = a
    <3>1. points[d].ts = points[a].ts
      BY <2>2, <2>3, <2>5 DEF SpanFound
    <3> QED BY <3>1, PointsTyped
  <2> QED BY <2>4, <2>5, <2>6, FoundSpanIsReference
<1> QED BY <1>0, <1>1, <1>2 DEF SpansOf

-----------------------------------------------------------------------------
(* The points of a rule.                                                     *)
PointStep(before, t, considered, bad) ==
    before \o (IF t \in considered THEN <<[ts |-> t, bad |-> t \in bad]>> ELSE << >>)

PointsTo(points, considered, bad, n) ==
    points = [t \in 0 .. n |-> IF t = 0 THEN << >>
                               ELSE PointStep(points[t - 1], t, considered, bad)]

LEMMA PointsValues ==
    ASSUME NEW considered, NEW bad, NEW n \in Nat, NEW points,
           PointsTo(points, considered, bad, n)
    PROVE  /\ points[0] = << >>
           /\ \A t \in 1 .. n : points[t] = PointStep(points[t - 1], t, considered, bad)
<1>1. \A t \in 0 .. n : points[t] = IF t = 0 THEN << >>
                                    ELSE PointStep(points[t - 1], t, considered, bad)
  BY Zenon DEF PointsTo
<1>2. 0 \in 0 .. n /\ \A t \in 1 .. n : t \in 0 .. n /\ t # 0
  OBVIOUS
<1> QED BY <1>1, <1>2, Zenon

LEMMA PointsExist ==
    ASSUME NEW considered, NEW bad
    PROVE  \A n \in Nat : \E points : PointsTo(points, considered, bad, n)
<1> DEFINE S == {n \in Nat : \E points : PointsTo(points, considered, bad, n)}
           Step(before, t) == PointStep(before, t, considered, bad)
<1>1. 0 \in S
  <2> DEFINE points == [t \in 0 .. 0 |-> << >>]
  <2>1. PointsTo(points, considered, bad, 0)
    BY DEF PointsTo
  <2> QED BY <2>1
<1>2. ASSUME NEW n \in Nat, n \in S
      PROVE  n + 1 \in S
  <2>1. PICK points : PointsTo(points, considered, bad, n)
    BY <1>2
  <2> DEFINE more == [t \in 0 .. n + 1 |->
                         IF t = n + 1 THEN Step(points[n], n + 1) ELSE points[t]]
  <2>2. \A t \in 0 .. n + 1 : more[t] = IF t = 0 THEN << >> ELSE Step(more[t - 1], t)
    <3> HIDE DEF Step
    <3>1. more[n + 1] = Step(points[n], n + 1) /\ \A j \in 0 .. n : more[j] = points[j]
      OBVIOUS
    <3> HIDE DEF more
    <3>2. more[0] = << >>
      <4>1. points[0] = << >>
        BY <2>1, PointsValues, Zenon
      <4> QED BY <3>1, <4>1
    <3>3. ASSUME NEW t \in 1 .. n PROVE more[t] = Step(more[t - 1], t)
      <4>1. more[t] = points[t] /\ more[t - 1] = points[t - 1]
        BY <3>1
      <4>2. points[t] = Step(points[t - 1], t)
        BY <2>1, PointsValues DEF Step
      <4> QED BY <4>1, <4>2
    <3>4. more[n + 1] = Step(more[(n + 1) - 1], n + 1)
      <4>1. (n + 1) - 1 = n /\ more[n] = points[n]
        BY <3>1
      <4> QED BY <3>1, <4>1
    <3>5. \A t \in 0 .. n + 1 : t = 0 \/ t \in 1 .. n \/ t = n + 1
      OBVIOUS
    <3> QED BY <3>2, <3>3, <3>4, <3>5
  <2>3. PointsTo(more, considered, bad, n + 1)
    <3> HIDE DEF more
    <3>1. DOMAIN more = 0 .. n + 1 /\ more = [t \in DOMAIN more |-> more[t]]
      BY DEF more
    <3> QED BY <2>2, <3>1 DEF PointsTo
  <2> QED BY <2>3
<1>3. Nat \subseteq S
  <2> HIDE DEF S
  <2> QED BY <1>1, <1>2, Induction
<1> QED BY <1>3

PointsAre(points, to, considered, bad) ==
    /\ points \in PointSeqs
    /\ \A i \in 1 .. Len(points) : points[i].ts \in 1 .. to /\ points[i].ts \in considered
    /\ \A i \in 1 .. Len(points) : i \in Bads(points) <=> points[i].ts \in bad
    /\ \A t \in 1 .. to : t \in considered => \E i \in 1 .. Len(points) : points[i].ts = t

LEMMA NoPoints ==
    ASSUME NEW considered, NEW bad
    PROVE  PointsAre(<< >>, 0, considered, bad)
<1>1. << >> \in Seq([ts : Nat \ {0}, bad : BOOLEAN]) /\ Len(<< >>) = 0
  BY EmptySeq
<1> QED BY <1>1 DEF PointsAre, PointSeqs, Bads

LEMMA OnePointMore ==
    ASSUME NEW considered, NEW bad, NEW n \in Nat, NEW points,
           PointsAre(points, n, considered, bad)
    PROVE  PointsAre(PointStep(points, n + 1, considered, bad), n + 1, considered, bad)
<1> DEFINE Point == [ts : Nat \ {0}, bad : BOOLEAN]
           p == [ts |-> n + 1, bad |-> n + 1 \in bad]
           more == points \o <<p>>
           N == Len(points)
<1>0. points \in PointSeqs
  BY DEF PointsAre
<1>1. points \in Seq(Point) /\ N \in Nat
  BY <1>0, PointsTyped DEF PointSeqs
<1>2. CASE n + 1 \notin considered
  <2>1. PointStep(points, n + 1, considered, bad) = points
    <3>1. points \o << >> = points
      BY <1>1, ConcatEmptySeq
    <3> QED BY <1>2, <3>1, Zenon DEF PointStep
  <2>2. \A t \in 1 .. n + 1 : t \in considered => t \in 1 .. n
    BY <1>2
  <2>3. \A i \in 1 .. N : points[i].ts \in 1 .. n + 1
    BY DEF PointsAre
  <2> QED BY <2>1, <2>2, <2>3, Zenon DEF PointsAre
<1>3. CASE n + 1 \in considered
  <2>1. PointStep(points, n + 1, considered, bad) = more
    BY <1>3, Zenon DEF PointStep
  <2>2. p \in Point /\ p.ts = n + 1 /\ (p.bad <=> n + 1 \in bad)
    <3>1. (n + 1 \in bad) \in BOOLEAN
      OBVIOUS
    <3>2. n + 1 \in Nat \ {0}
      OBVIOUS
    <3> QED BY <3>1, <3>2
  <2> HIDE DEF p
  <2>3. <<p>> \in Seq(Point) /\ Len(<<p>>) = 1 /\ <<p>>[1] = p
    BY <2>2
  <2> HIDE DEF Point
  <2>4. /\ more \in Seq(Point) /\ Len(more) = N + 1
        /\ \A i \in 1 .. N : more[i] = points[i]
        /\ more[N + 1] = p
    <3>1. /\ points \o <<p>> \in Seq(Point)
          /\ Len(points \o <<p>>) = N + Len(<<p>>)
          /\ \A i \in 1 .. N + Len(<<p>>) :
                 (points \o <<p>>)[i] = IF i <= N THEN points[i] ELSE <<p>>[i - N]
      BY <1>1, <2>3, ConcatProperties
    <3> HIDE DEF N
    <3>2. N + 1 \in 1 .. N + 1 /\ ~(N + 1 <= N) /\ (N + 1) - N = 1
          /\ \A i \in 1 .. N : i \in 1 .. N + 1 /\ i <= N
      BY <1>1
    <3> QED BY <2>3, <3>1, <3>2
  <2> HIDE DEF more
  <2>5. \A i \in 1 .. N : points[i].ts \in 1 .. n /\ points[i].ts \in considered
    BY DEF PointsAre
  <2>6. \A i, j \in 1 .. N : i < j => points[i].ts < points[j].ts
    BY <1>0, PointsTyped
  <2>7. \A i \in 1 .. N + 1 : i \in 1 .. N \/ i = N + 1
    BY <1>1
  <2>8. \A i, j \in 1 .. N + 1 : i < j => more[i].ts < more[j].ts
    <3> SUFFICES ASSUME NEW i \in 1 .. N + 1, NEW j \in 1 .. N + 1, i < j
                 PROVE  more[i].ts < more[j].ts
      OBVIOUS
    <3>1. i \in 1 .. N
      BY <1>1
    <3>2. CASE j \in 1 .. N
      BY <2>4, <2>6, <3>1, <3>2
    <3>3. CASE j = N + 1
      <4>1. more[i].ts \in 1 .. n /\ more[j].ts = n + 1
        BY <2>2, <2>4, <2>5, <3>1, <3>3
      <4> QED BY <4>1
    <3> QED BY <2>7, <3>2, <3>3
  <2>9. more \in PointSeqs
    BY <2>4, <2>8 DEF PointSeqs, Point
  <2>10. \A i \in 1 .. N + 1 : more[i].ts \in 1 .. n + 1 /\ more[i].ts \in considered
    BY <1>3, <2>2, <2>4, <2>5, <2>7
  <2>11. \A i \in 1 .. N + 1 : i \in Bads(more) <=> more[i].ts \in bad
    <3>1. ASSUME NEW i \in 1 .. N PROVE i \in Bads(more) <=> more[i].ts \in bad
      <4>1. i \in 1 .. N + 1
        BY <1>1
      <4>2. i \in Bads(more) <=> more[i].bad
        BY <2>4, <2>9, <4>1, BadsAre
      <4>3. i \in Bads(points) <=> points[i].bad
        BY <1>0, BadsAre
      <4>4. i \in Bads(points) <=> points[i].ts \in bad
        BY DEF PointsAre
      <4>5. more[i] = points[i]
        BY <2>4
      <4> QED BY <4>2, <4>3, <4>4, <4>5, Zenon
    <3>2. N + 1 \in Bads(more) <=> more[N + 1].ts \in bad
      <4>1. N + 1 \in 1 .. N + 1
        BY <1>1
      <4>2. N + 1 \in Bads(more) <=> more[N + 1].bad
        BY <2>4, <2>9, <4>1, BadsAre
      <4> QED BY <2>2, <2>4, <4>2, Zenon
    <3> QED BY <2>7, <3>1, <3>2, Zenon
  <2>12. \A t \in 1 .. n + 1 : t \in considered => \E i \in 1 .. N + 1 : more[i].ts = t
    <3> SUFFICES ASSUME NEW t \in 1 .. n + 1, t \in considered
                 PROVE  \E i \in 1 .. N + 1 : more[i].ts = t
      OBVIOUS
    <3>1. CASE t \in 1 .. n
      <4>1. PICK i \in 1 .. N : points[i].ts = t
        BY <3>1, Zenon DEF PointsAre
      <4>2. i \in 1 .. N + 1
        BY <1>1
      <4> QED BY <2>4, <4>1, <4>2
    <3>2. CASE t = n + 1
      <4>1. N + 1 \in 1 .. N + 1
        BY <1>1
      <4> QED BY <2>2, <2>4, <3>2, <4>1
    <3> QED BY <3>1, <3>2
  <2>13. PointsAre(more, n + 1, considered, bad)
    BY <2>4, <2>9, <2>10, <2>11, <2>12, Zenon DEF PointsAre
  <2> QED BY <2>1, <2>13
<1> QED BY <1>2, <1>3

LEMMA PointsOfAre ==
    ASSUME NEW to \in Nat, NEW considered, NEW bad
    PROVE  PointsAre(PointsOf(to, considered, bad), to, considered, bad)
<1> DEFINE points == CHOOSE p : PointsTo(p, considered, bad, to)
<1>1. PointsTo(points, considered, bad, to)
  BY PointsExist
<1>2. PointsOf(to, considered, bad) = points[to]
  BY Zenon DEF PointsOf, PointsTo, PointStep
<1> HIDE DEF points
<1> DEFINE S == {n \in 0 .. to : PointsAre(points[n], n, considered, bad)}
<1>3. 0 \in S
  <2>1. points[0] = << >>
    BY <1>1, PointsValues, Zenon
  <2> QED BY <2>1, NoPoints
<1>4. ASSUME NEW n \in 0 .. to, n # to, n \in S
      PROVE  n + 1 \in S
  <2>1. n + 1 \in 1 .. to /\ n + 1 \in 0 .. to /\ (n + 1) - 1 = n /\ n \in Nat
    BY <1>4
  <2>2. points[n + 1] = PointStep(points[n], n + 1, considered, bad)
    <3>1. \A t \in 1 .. to : points[t] = PointStep(points[t - 1], t, considered, bad)
      BY <1>1, PointsValues
    <3> QED BY <2>1, <3>1
  <2>3. PointsAre(points[n + 1], n + 1, considered, bad)
    BY <1>4, <2>1, <2>2, OnePointMore
  <2> QED BY <2>1, <2>3
<1>5. 0 .. to \subseteq S
  <2> HIDE DEF S
  <2> QED BY <1>3, <1>4, InductionUpTo
<1> QED BY <1>2, <1>5

-----------------------------------------------------------------------------
(* From indices to instants: C the instants considered, B the bad ones.      *)
Instants(points, C, B) ==
    /\ points \in PointSeqs
    /\ \A i \in 1 .. Len(points) : points[i].ts \in C
    /\ \A i \in 1 .. Len(points) : i \in Bads(points) <=> points[i].ts \in B
    /\ \A x \in C : \E i \in 1 .. Len(points) : points[i].ts = x

Quiet(C, B, u, v) ==
    /\ \A x \in C : (u <= x /\ x <= v) => x \notin B
    /\ Exit <= Cardinality(C \cap (u .. v))

BrokenUp(C, B, s, t) == \E u, v \in s .. t : Quiet(C, B, u, v)

Between(points, C, a, b) ==
    /\ \A x \in C : (points[a].ts <= x /\ x <= points[b].ts) =>
          \E k \in a .. b : points[k].ts = x
    /\ \A k \in a .. b : points[k].ts \in C \cap (points[a].ts .. points[b].ts)
    /\ a <= b => Cardinality(C \cap (points[a].ts .. points[b].ts)) = b - a + 1

LEMMA InstantsOf ==
    ASSUME NEW to \in Nat, NEW C \in SUBSET (1 .. to), NEW B
    PROVE  Instants(PointsOf(to, C, B), C, B)
<1> DEFINE points == PointsOf(to, C, B)
<1>1. PointsAre(points, to, C, B)
  BY PointsOfAre
<1> HIDE DEF points
<1>2. \A x \in C : x \in 1 .. to
  OBVIOUS
<1>3. Instants(points, C, B)
  BY <1>1, <1>2, Zenon DEF PointsAre, Instants
<1> QED BY <1>3 DEF points

LEMMA InstantsFacts ==
    ASSUME NEW C, NEW B, NEW points, Instants(points, C, B)
    PROVE  /\ points \in PointSeqs /\ Len(points) \in Nat
           /\ \A i \in 1 .. Len(points) : points[i].ts \in Nat \ {0}
           /\ \A i \in 1 .. Len(points) : points[i].ts \in C
           /\ \A i \in 1 .. Len(points) : i \in Bads(points) <=> points[i].ts \in B
           /\ \A i, j \in 1 .. Len(points) : i < j => points[i].ts < points[j].ts
           /\ \A i, j \in 1 .. Len(points) : i <= j => points[i].ts <= points[j].ts
           /\ \A x \in C : \E i \in 1 .. Len(points) : points[i].ts = x
<1>1. points \in PointSeqs
  BY DEF Instants
<1>2. /\ Len(points) \in Nat /\ \A i \in 1 .. Len(points) : points[i].ts \in Nat \ {0}
      /\ \A i, j \in 1 .. Len(points) : i < j => points[i].ts < points[j].ts
  BY <1>1, PointsTyped
<1>3. \A i, j \in 1 .. Len(points) : i <= j => points[i].ts <= points[j].ts
  <2> SUFFICES ASSUME NEW i \in 1 .. Len(points), NEW j \in 1 .. Len(points), i <= j
               PROVE  points[i].ts <= points[j].ts
    OBVIOUS
  <2>1. i = j \/ i < j
    BY <1>2
  <2>2. points[i].ts \in Nat /\ points[j].ts \in Nat
    BY <1>2
  <2>3. i < j => points[i].ts < points[j].ts
    BY <1>2
  <2> QED BY <2>1, <2>2, <2>3
<1> QED BY <1>1, <1>2, <1>3, Zenon DEF Instants

LEMMA InstantsBetween ==
    ASSUME NEW C, NEW B, NEW points, Instants(points, C, B),
           NEW a \in 1 .. Len(points), NEW b \in 1 .. Len(points)
    PROVE  Between(points, C, a, b)
<1> DEFINE N == Len(points)
           ts(i) == points[i].ts
           T == C \cap (ts(a) .. ts(b))
<1>1. points \in PointSeqs
  BY DEF Instants
<1>2. /\ N \in Nat /\ \A i \in 1 .. N : ts(i) \in Nat
      /\ \A i, j \in 1 .. N : i < j => ts(i) < ts(j)
      /\ \A i, j \in 1 .. N : ts(i) = ts(j) => i = j
  BY <1>1, PointsTyped
<1>3. \A i \in 1 .. N : ts(i) \in C
  BY DEF Instants
<1>4. \A x \in C : \E i \in 1 .. N : ts(i) = x
  BY Zenon DEF Instants
<1> HIDE DEF ts, N
<1>5. \A x \in C : (ts(a) <= x /\ x <= ts(b)) => \E k \in a .. b : ts(k) = x
  <2> SUFFICES ASSUME NEW x \in C, ts(a) <= x, x <= ts(b) PROVE \E k \in a .. b : ts(k) = x
    OBVIOUS
  <2>1. PICK k \in 1 .. N : ts(k) = x
    BY <1>4
  <2>2. ~(k < a) /\ ~(b < k)
    <3>1. a \in 1 .. N /\ b \in 1 .. N
      BY DEF N
    <3>2. k < a => ts(k) < ts(a)
      BY <1>2, <3>1
    <3>3. b < k => ts(b) < ts(k)
      BY <1>2, <3>1
    <3>4. ts(k) \in Nat /\ ts(a) \in Nat /\ ts(b) \in Nat
      BY <1>2, <3>1
    <3> QED BY <2>1, <3>2, <3>3, <3>4
  <2>3. k \in a .. b
    BY <1>2, <2>2 DEF N
  <2> QED BY <2>1, <2>3
<1>6. \A k \in a .. b : k \in 1 .. N /\ ts(k) \in T
  <2> SUFFICES ASSUME NEW k \in a .. b PROVE k \in 1 .. N /\ ts(k) \in T
    OBVIOUS
  <2>1. k \in 1 .. N /\ a \in 1 .. N /\ b \in 1 .. N
    BY <1>2 DEF N
  <2>2. /\ a < k => ts(a) < ts(k)
        /\ k < b => ts(k) < ts(b)
        /\ ts(a) \in Nat /\ ts(b) \in Nat /\ ts(k) \in Nat
    BY <1>2, <2>1
  <2>3. a = k \/ a < k
    BY <2>1
  <2>4. k = b \/ k < b
    BY <2>1
  <2>5. ts(a) <= ts(k) /\ ts(k) <= ts(b)
    BY <2>2, <2>3, <2>4
  <2> QED BY <1>3, <2>1, <2>2, <2>5
<1>7. ASSUME a <= b PROVE Cardinality(T) = b - a + 1
  <2> DEFINE f == [k \in a .. b |-> ts(k)]
  <2>1. f \in Bijection(a .. b, T)
    <3>1. f \in [a .. b -> T]
      BY <1>6
    <3>2. \A i, j \in a .. b : f[i] = f[j] => i = j
      BY <1>2, <1>6
    <3>3. \A x \in T : \E k \in a .. b : f[k] = x
      <4>1. \A x \in T : x \in C /\ ts(a) <= x /\ x <= ts(b)
        OBVIOUS
      <4> QED BY <1>5, <4>1
    <3> HIDE DEF f, T
    <3> QED BY <3>1, <3>2, <3>3, Fun_IsBij
  <2>2. IsFiniteSet(a .. b) /\ Cardinality(a .. b) = b - a + 1
    <3>1. a \in Int /\ b \in Int
      BY <1>2
    <3>2. ~(a > b)
      BY <1>7, <3>1
    <3> QED BY <3>1, <3>2, FS_Interval
  <2> HIDE DEF f, T
  <2>3. ExistsBijection(a .. b, T)
    BY <2>1, Fun_ExistsBij
  <2> QED BY <2>2, <2>3, FS_Bijection
<1> QED BY <1>5, <1>6, <1>7 DEF ts, Between


(* Exit good points in a row are as many considered instants in a row.       *)
LEMMA RecoveryIsQuiet ==
    ASSUME NEW C, NEW B, NEW points, Instants(points, C, B),
           NEW i \in 1 .. Len(points), NEW j \in 1 .. Len(points), j = i + Exit - 1,
           \A k \in i .. j : k \notin Bads(points)
    PROVE  Quiet(C, B, points[i].ts, points[j].ts)
<1>0. Exit \in Nat \ {0} /\ Len(points) \in Nat
  BY InstantsFacts, RulesConstants DEF RulesConstants
<1>1. i <= j /\ j - i + 1 = Exit
  BY <1>0
<1>2. Between(points, C, i, j)
  BY InstantsBetween
<1>3. Cardinality(C \cap (points[i].ts .. points[j].ts)) = Exit
  BY <1>1, <1>2 DEF Between
<1>4. \A k \in i .. j : k \in 1 .. Len(points) /\ k \notin Bads(points)
  BY <1>0
<1>5. \A k \in i .. j : points[k].ts \notin B
  BY <1>4, InstantsFacts, Zenon
<1>6. \A x \in C : (points[i].ts <= x /\ x <= points[j].ts) => x \notin B
  BY <1>2, <1>5, Zenon DEF Between
<1> QED BY <1>0, <1>3, <1>6 DEF Quiet

(* And the other way round.                                                  *)
LEMMA QuietIsRecovery ==
    ASSUME NEW C, NEW B, NEW points, Instants(points, C, B),
           NEW a \in 1 .. Len(points), NEW b \in 1 .. Len(points),
           NEW u \in Int, NEW v \in Int, points[a].ts <= u,
           b = Len(points) \/ v <= points[b].ts, Quiet(C, B, u, v)
    PROVE  Interrupted(Bads(points), a, b)
<1> DEFINE N == Len(points)
           ts(i) == points[i].ts
           I == {k \in 1 .. N : u <= ts(k) /\ ts(k) <= v}
<1>0. Exit \in Nat \ {0} /\ N \in Nat
  BY InstantsFacts, RulesConstants DEF RulesConstants
<1>a. /\ \A x \in C : \E k \in 1 .. N : ts(k) = x
      /\ \A i \in 1 .. N : ts(i) \in C /\ (i \in Bads(points) <=> ts(i) \in B)
  <2>1. \A x \in C : \E k \in 1 .. N : ts(k) = x
    BY InstantsFacts
  <2>2. \A i \in 1 .. N : ts(i) \in C
    BY InstantsFacts
  <2>3. \A i \in 1 .. N : i \in Bads(points) <=> ts(i) \in B
    BY InstantsFacts
  <2> QED BY <2>1, <2>2, <2>3, Zenon
<1>b. /\ \A i \in 1 .. N : ts(i) \in Nat
      /\ \A i, j \in 1 .. N : i < j => ts(i) < ts(j)
      /\ \A i, j \in 1 .. N : i <= j => ts(i) <= ts(j)
  BY InstantsFacts
<1>c. a \in 1 .. N /\ b \in 1 .. N /\ ts(a) <= u /\ (b = N \/ v <= ts(b))
  OBVIOUS
<1>d. \A i, j \in 1 .. N : Between(points, C, i, j)
  BY InstantsBetween, Zenon
<1>1. I # {}
  <2>1. C \cap (u .. v) # {}
    <3> SUFFICES ASSUME C \cap (u .. v) = {} PROVE FALSE
      OBVIOUS
    <3>1. Cardinality(C \cap (u .. v)) = 0
      BY FS_EmptySet
    <3>2. Exit <= Cardinality(C \cap (u .. v))
      BY DEF Quiet
    <3> QED BY <1>0, <3>1, <3>2
  <2>2. PICK x : x \in C /\ x \in u .. v
    BY <2>1
  <2> HIDE DEF ts
  <2>3. PICK k \in 1 .. N : ts(k) = x
    BY <2>2, <1>a, Zenon
  <2> QED BY <2>2, <2>3
<1> HIDE DEF ts, N
<1>2. I \in SUBSET Int /\ (\A k \in I : k <= N) /\ (\A k \in I : 1 <= k) /\ N \in Int /\ 1 \in Int
  BY <1>0
<1>e. \A k : k \in I <=> (k \in 1 .. N /\ u <= ts(k) /\ ts(k) <= v)
  OBVIOUS
<1> HIDE DEF I
<1>3. PICK i \in I : \A k \in I : i <= k
  BY <1>1, <1>2, SmallestInt, Zenon
<1>4. PICK j \in I : \A k \in I : k <= j
  BY <1>1, <1>2, Largest, Zenon
<1>5. i \in 1 .. N /\ j \in 1 .. N /\ i <= j /\ u <= ts(i) /\ ts(j) <= v
  BY <1>3, <1>4, <1>e
<1>6. C \cap (u .. v) = C \cap (ts(i) .. ts(j))
  <2>1. ts(i) \in Nat /\ ts(j) \in Nat
    BY <1>5, <1>b
  <2>2. ASSUME NEW x \in C, x \in u .. v
        PROVE  x \in ts(i) .. ts(j)
    <3>1. PICK k \in 1 .. N : ts(k) = x
      BY <1>a, Zenon
    <3>2. k \in I
      BY <2>2, <3>1, <1>e
    <3>3. i <= k /\ k <= j
      BY <1>3, <1>4, <3>2
    <3>4. ts(i) <= ts(k) /\ ts(k) <= ts(j)
      BY <1>5, <3>3, <1>b
    <3> QED BY <2>1, <2>2, <3>1, <3>4
  <2>3. \A x \in ts(i) .. ts(j) : x \in u .. v
    BY <2>1, <1>5
  <2> QED BY <2>2, <2>3
<1>7. Cardinality(C \cap (ts(i) .. ts(j))) = j - i + 1
  BY <1>5, <1>d DEF Between, ts
<1>8. Exit <= j - i + 1
  BY <1>6, <1>7 DEF Quiet
<1>9. \A k \in i .. j : k \notin Bads(points)
  <2> SUFFICES ASSUME NEW k \in i .. j PROVE k \notin Bads(points)
    OBVIOUS
  <2>1. k \in 1 .. N /\ i <= k /\ k <= j
    BY <1>0, <1>5
  <2>2. ts(i) <= ts(k) /\ ts(k) <= ts(j) /\ ts(k) \in Nat /\ ts(i) \in Nat /\ ts(j) \in Nat
    BY <1>5, <2>1, <1>b
  <2>3. u <= ts(k) /\ ts(k) <= v
    BY <1>5, <2>2
  <2>4. ts(k) \in C
    BY <2>1, <1>a
  <2>5. ts(k) \notin B
    BY <2>3, <2>4, Zenon DEF Quiet
  <2> QED BY <2>1, <2>5, <1>a
<1>10. a <= i
  <2> SUFFICES ASSUME i < a PROVE FALSE
    BY <1>5, <1>c
  <2>1. ts(i) < ts(a) /\ ts(i) \in Nat /\ ts(a) \in Nat
    BY <1>5, <1>b, <1>c
  <2> QED BY <1>5, <1>c, <2>1
<1>11. j <= b
  <2> SUFFICES ASSUME b < j PROVE FALSE
    BY <1>5, <1>c
  <2>1. ts(b) < ts(j) /\ ts(j) \in Nat /\ ts(b) \in Nat
    BY <1>5, <1>b, <1>c
  <2>2. v <= ts(b)
    BY <1>5, <1>c
  <2> QED BY <1>5, <2>1, <2>2
<1>12. i \in a .. b /\ i + Exit - 1 <= b /\ \A k \in i .. i + Exit - 1 : k \in i .. j
  BY <1>0, <1>5, <1>8, <1>10, <1>11, <1>c
<1> QED BY <1>9, <1>12 DEF Interrupted

(* Where nothing changes between two instants, quiet stays quiet.            *)
LEMMA SameQuiet ==
    ASSUME NEW C, NEW B, NEW D, NEW E, NEW u \in Int, NEW v \in Int,
           \A x \in u .. v : (x \in C <=> x \in D) /\ (x \in B <=> x \in E),
           C \in SUBSET Int, D \in SUBSET Int,
           Quiet(C, B, u, v)
    PROVE  Quiet(D, E, u, v)
<1>1. C \cap (u .. v) = D \cap (u .. v)
  OBVIOUS
<1>2. \A x \in D : (u <= x /\ x <= v) => x \notin E
  <2> SUFFICES ASSUME NEW x \in D, u <= x, x <= v PROVE x \notin E
    OBVIOUS
  <2>1. x \in u .. v
    OBVIOUS
  <2> QED BY <2>1 DEF Quiet
<1> QED BY <1>1, <1>2 DEF Quiet

LEMMA SameBrokenUp ==
    ASSUME NEW C, NEW B, NEW D, NEW E, NEW s \in Int, NEW t \in Int,
           \A x \in s .. t : (x \in C <=> x \in D) /\ (x \in B <=> x \in E),
           C \in SUBSET Int, D \in SUBSET Int,
           BrokenUp(C, B, s, t)
    PROVE  BrokenUp(D, E, s, t)
<1>1. PICK u \in s .. t, v \in s .. t : Quiet(C, B, u, v)
  BY DEF BrokenUp
<1>2. /\ u \in Int /\ v \in Int
      /\ \A x \in u .. v : (x \in C <=> x \in D) /\ (x \in B <=> x \in E)
  OBVIOUS
<1>3. Quiet(D, E, u, v)
  BY <1>1, <1>2, SameQuiet
<1> QED BY <1>1, <1>3 DEF BrokenUp

(* A quiet stretch has an instant in it.                                     *)
LEMMA QuietIsLong ==
    ASSUME NEW C, NEW B, NEW u \in Int, NEW v \in Int, Quiet(C, B, u, v)
    PROVE  u <= v
<1>0. Exit \in Nat \ {0}
  BY RulesConstants DEF RulesConstants
<1> SUFFICES ASSUME v < u PROVE FALSE
  OBVIOUS
<1>1. C \cap (u .. v) = {}
  OBVIOUS
<1>2. Cardinality(C \cap (u .. v)) = 0
  BY <1>1, FS_EmptySet
<1> QED BY <1>0, <1>2 DEF Quiet

(* What a span that starts and ends at these times says about the window.    *)
Lasts(C, B, to, started, ended) ==
    /\ started \in B
    /\ \/ ended = Ongoing /\ ~BrokenUp(C, B, started, to)
       \/ /\ ended \in B /\ started <= ended /\ ~BrokenUp(C, B, started, ended)
          /\ \E v \in 1 .. to : Quiet(C, B, ended + 1, v)
    /\ \E v \in 1 .. to : /\ Enter <= Cardinality(B \cap (started .. v))
                          /\ ended = Ongoing \/ v <= ended

LEMMA SpanLasts ==
    ASSUME NEW to \in Nat, NEW C \in SUBSET (1 .. to), NEW B \in SUBSET C,
           NEW points, Instants(points, C, B), NEW span \in FindSpans(points)
    PROVE  Lasts(C, B, to, span.started, span.ended)
<1> DEFINE N == Len(points)
           ts(i) == points[i].ts
           P == Bads(points)
<1>0. Enter \in Nat \ {0} /\ Exit \in Nat \ {0} /\ N \in Nat /\ points \in PointSeqs
  BY InstantsFacts, RulesConstants DEF RulesConstants
<1>1. PICK a \in 1 .. N, b \in 1 .. N : SpanFound(points, span, a, b)
  BY <1>0, FindSpansSound
<1>2. /\ span.started = ts(a) /\ Starts(P, a)
      /\ \/ span.ended = Ongoing /\ OpenAt(P, a, b, N)
         \/ span.ended = ts(b) /\ ClosedAt(P, a, b, N)
  BY <1>1 DEF SpanFound
<1>3. /\ \A x \in C : \E k \in 1 .. N : ts(k) = x
      /\ \A i \in 1 .. N : ts(i) \in C
      /\ \A i \in 1 .. N : i \in P <=> ts(i) \in B
  BY Zenon DEF Instants
<1>4. /\ \A i \in 1 .. N : ts(i) \in Nat
      /\ \A i, j \in 1 .. N : i < j => ts(i) < ts(j)
      /\ \A i, j \in 1 .. N : i <= j => ts(i) <= ts(j)
  BY InstantsFacts
<1>5. a + Enter - 1 <= b /\ b \in P /\ a <= b /\ a \in P
  <2>1. a + Enter - 1 <= b /\ b \in P
    BY <1>2 DEF OpenAt, ClosedAt
  <2>2. a \in P
    BY <1>0, <1>2 DEF Starts, Long
  <2> QED BY <1>0, <2>1, <2>2
<1>6. \A u, v \in Int : (ts(a) <= u /\ Quiet(C, B, u, v)) =>
         /\ Interrupted(P, a, N)
         /\ v <= ts(b) => Interrupted(P, a, b)
  <2> SUFFICES ASSUME NEW u \in Int, NEW v \in Int, ts(a) <= u, Quiet(C, B, u, v)
               PROVE  Interrupted(P, a, N) /\ (v <= ts(b) => Interrupted(P, a, b))
    OBVIOUS
  <2>1. N \in 1 .. N
    BY <1>0
  <2> QED BY <2>1, QuietIsRecovery
<1>7. \A x \in C : x \in Int
  OBVIOUS
<1> HIDE DEF P, N
<1>8. ts(a) \in Nat /\ ts(b) \in Nat /\ ts(a) <= ts(b) /\ to \in Int /\ ts(a) \in B /\ ts(b) \in B
  BY <1>3, <1>4, <1>5
<1> DEFINE Ends(started, ended) ==
              \/ ended = Ongoing /\ ~BrokenUp(C, B, started, to)
              \/ /\ ended \in B /\ started <= ended /\ ~BrokenUp(C, B, started, ended)
                 /\ \E v \in 1 .. to : Quiet(C, B, ended + 1, v)
<1>9. ASSUME span.ended = Ongoing, OpenAt(P, a, b, N)
      PROVE  Ends(ts(a), span.ended)
  <2>1. ~BrokenUp(C, B, ts(a), to)
    BY <1>6, <1>8, <1>9 DEF BrokenUp, OpenAt
  <2> QED BY <1>9, <2>1
<1>10. ASSUME span.ended = ts(b), ClosedAt(P, a, b, N)
      PROVE  Ends(ts(a), span.ended)
  <2>1. ~BrokenUp(C, B, ts(a), ts(b))
    BY <1>6, <1>8, <1>10 DEF BrokenUp, ClosedAt
  <2> DEFINE i == b + 1
             j == b + Exit
  <2>2. i \in 1 .. N /\ j \in 1 .. N /\ j = i + Exit - 1 /\ i <= j /\ b \in 1 .. N /\ b < i
    BY <1>0, <1>10 DEF ClosedAt
  <2>3. \A k \in i .. j : k \notin P
    BY <1>10 DEF ClosedAt
  <2> HIDE DEF i, j
  <2>4. Quiet(C, B, ts(i), ts(j))
    BY <2>2, <2>3, RecoveryIsQuiet DEF P, N
  <2>5. ts(b) < ts(i) /\ ts(i) <= ts(j) /\ ts(i) \in Nat /\ ts(j) \in Nat /\ ts(j) \in 1 .. to
    BY <1>3, <1>4, <2>2
  <2>6. \A x \in C : x \in ts(b) + 1 .. ts(j) <=> x \in ts(i) .. ts(j)
    <3> SUFFICES ASSUME NEW x \in C PROVE x \in ts(b) + 1 .. ts(j) <=> x \in ts(i) .. ts(j)
      OBVIOUS
    <3>1. PICK k \in 1 .. N : ts(k) = x
      BY <1>3
    <3>2. k <= b \/ i <= k
      BY <1>0 DEF i
    <3>3. (k <= b => ts(k) <= ts(b)) /\ (i <= k => ts(i) <= ts(k)) /\ ts(k) \in Nat
      BY <1>4, <2>2
    <3> QED BY <1>8, <2>5, <3>1, <3>2, <3>3
  <2>7. C \cap (ts(b) + 1 .. ts(j)) = C \cap (ts(i) .. ts(j))
    BY <2>6
  <2>8. \A x \in C : (ts(b) + 1 <= x /\ x <= ts(j)) => x \notin B
    <3> SUFFICES ASSUME NEW x \in C, ts(b) + 1 <= x, x <= ts(j) PROVE x \notin B
      OBVIOUS
    <3>1. x \in ts(b) + 1 .. ts(j)
      <4>1. x \in Int
        BY <1>7
      <4> HIDE DEF ts, Ends
      <4>2. ts(b) \in Int /\ ts(j) \in Int
        BY <1>8, <2>5
      <4>3. ts(b) + 1 <= x /\ x <= ts(j)
        BY DEF ts
      <4> QED BY <4>1, <4>2, <4>3
    <3>2. ts(i) <= x /\ x <= ts(j)
      BY <2>5, <2>6, <3>1
    <3> QED BY <2>4, <3>2 DEF Quiet
  <2>9. Quiet(C, B, ts(b) + 1, ts(j))
    BY <2>4, <2>7, <2>8 DEF Quiet
  <2>10. ts(b) \in B /\ ts(a) <= ts(b) /\ \E v \in 1 .. to : Quiet(C, B, ts(b) + 1, v)
    BY <1>8, <2>5, <2>9
  <2> QED BY <1>10, <2>1, <2>10
<1>11. Ends(span.started, span.ended)
  BY <1>2, <1>9, <1>10
<1>12. \E v \in 1 .. to : /\ Enter <= Cardinality(B \cap (ts(a) .. v))
                          /\ v <= ts(b)
  <2> DEFINE e == a + Enter - 1
  <2>1. e \in 1 .. N /\ a <= e /\ e <= b /\ e - a + 1 = Enter
    BY <1>0, <1>5
  <2>2. \A k \in a .. e : k \in P
    BY <1>2 DEF Starts, Long
  <2> HIDE DEF e
  <2>3. Between(points, C, a, e)
    BY <2>1, InstantsBetween DEF N
  <2>4. Cardinality(C \cap (ts(a) .. ts(e))) = Enter
    BY <2>1, <2>3 DEF Between
  <2>5. C \cap (ts(a) .. ts(e)) = B \cap (ts(a) .. ts(e))
    <3>1. \A k \in a .. e : ts(k) \in B
      <4>1. \A k \in a .. e : k \in 1 .. N
        BY <2>1, <1>0
      <4> QED BY <1>3, <2>2, <4>1
    <3>2. \A x \in C : (ts(a) <= x /\ x <= ts(e)) => x \in B
      BY <2>3, <3>1, Zenon DEF Between
    <3> QED BY <3>2
  <2>6. ts(e) \in 1 .. to /\ ts(e) <= ts(b)
    BY <1>3, <1>4, <2>1
  <2>7. Enter <= Cardinality(B \cap (ts(a) .. ts(e)))
    BY <1>0, <2>4, <2>5
  <2> QED BY <2>6, <2>7
<1>13. \E v \in 1 .. to : /\ Enter <= Cardinality(B \cap (span.started .. v))
                          /\ span.ended = Ongoing \/ v <= span.ended
  BY <1>2, <1>12
<1>14. span.started \in B
  BY <1>2, <1>8
<1> QED BY <1>11, <1>13, <1>14, Zenon DEF Lasts

(* A condition that holds for Enter seconds in a row is in a span.           *)
LEMMA StretchInSpan ==
    ASSUME NEW to \in Nat, NEW C \in SUBSET (1 .. to), NEW B \in SUBSET C,
           NEW points, Instants(points, C, B),
           NEW t \in Nat, \A x \in t .. t + Enter - 1 : x \in B
    PROVE  \E span \in FindSpans(points) :
              span.started \in Nat /\ span.started <= t /\ ~BrokenUp(C, B, span.started, t)
<1> DEFINE N == Len(points)
           ts(i) == points[i].ts
           P == Bads(points)
           e == t + Enter - 1
<1>0. /\ Enter \in Nat \ {0} /\ N \in Nat /\ points \in PointSeqs /\ e \in Nat /\ t <= e
      /\ e - t + 1 = Enter
  BY InstantsFacts, RulesConstants DEF RulesConstants
<1>1. /\ \A x \in C : \E k \in 1 .. N : ts(k) = x
      /\ \A i \in 1 .. N : ts(i) \in C
      /\ \A i \in 1 .. N : i \in P <=> ts(i) \in B
  BY Zenon DEF Instants
<1>2. /\ \A i \in 1 .. N : ts(i) \in Nat
      /\ \A i, j \in 1 .. N : i < j => ts(i) < ts(j)
      /\ \A i, j \in 1 .. N : i <= j => ts(i) <= ts(j)
  BY InstantsFacts
<1>3. \A x \in t .. e : x \in C /\ x \in B
  OBVIOUS
<1> HIDE DEF e
<1>4. t \in t .. e /\ e \in t .. e
  BY <1>0
<1>5. PICK i \in 1 .. N : ts(i) = t
  BY <1>1, <1>3, <1>4
<1>6. PICK j \in 1 .. N : ts(j) = e
  BY <1>1, <1>3, <1>4
<1>7. i <= j
  <2> SUFFICES ASSUME j < i PROVE FALSE
    BY <1>0
  <2>1. ts(j) < ts(i)
    BY <1>2
  <2> QED BY <1>0, <1>5, <1>6, <2>1
<1>8. Between(points, C, i, j)
  BY InstantsBetween
<1>9. j - i + 1 = Enter
  <2>1. Cardinality(C \cap (t .. e)) = j - i + 1
    BY <1>5, <1>6, <1>7, <1>8 DEF Between
  <2>2. C \cap (t .. e) = t .. e
    BY <1>3
  <2>3. Cardinality(t .. e) = e - t + 1
    <3>1. t \in Int /\ e \in Int /\ ~(t > e)
      BY <1>0
    <3> QED BY <3>1, FS_Interval
  <2> QED BY <1>0, <2>1, <2>2, <2>3
<1>10. Long(P, i)
  <2>1. \A k \in i .. j : ts(k) \in t .. e /\ k \in 1 .. N
    <3>1. \A k \in i .. j : ts(k) \in C \cap (t .. e)
      BY <1>5, <1>6, <1>8 DEF Between
    <3>2. \A k \in i .. j : k \in 1 .. N
      BY <1>0
    <3> QED BY <3>1, <3>2
  <2>2. \A k \in i .. j : k \in P
    BY <1>1, <1>3, <2>1
  <2>3. i + Enter - 1 = j
    BY <1>0, <1>9
  <2> QED BY <2>2, <2>3 DEF Long
<1>11. i + Enter - 1 <= N
  BY <1>0, <1>9
<1>12. PICK span \in FindSpans(points), a \in 1 .. i :
          span.started = ts(a) /\ ~Interrupted(P, a, i)
  BY <1>0, <1>10, <1>11, FindSpansComplete
<1>13. a \in 1 .. N /\ ts(a) \in Nat /\ ts(a) <= t
  <2>1. a \in 1 .. N /\ a <= i
    BY <1>0
  <2> QED BY <1>2, <1>5, <2>1
<1>14. \A u, v \in Int : (ts(a) <= u /\ v <= t /\ Quiet(C, B, u, v)) => Interrupted(P, a, i)
  BY <1>5, <1>13, QuietIsRecovery
<1>15. ~BrokenUp(C, B, ts(a), t)
  <2> HIDE DEF ts, N, P
  <2>1. \A u \in ts(a) .. t : u \in Int /\ ts(a) <= u /\ u <= t
    BY <1>13
  <2> QED BY <1>12, <1>14, <2>1 DEF BrokenUp
<1> QED BY <1>12, <1>13, <1>15
==================================================================================
