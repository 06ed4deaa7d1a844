------------------------------- MODULE EventsProofs ------------------------------
(***************************************************************************)
(* What detection leaves in the database, for every history, every order   *)
(* of arrival and every sequence of passes and reruns.                     *)
(*                                                                         *)
(* The argument is about the stored samples alone.  A window shows a part  *)
(* of them, and what a span found in it says of the window (Lasts) is true *)
(* of all that is stored, for nothing outside of the window lies between   *)
(* the span's start and the instants that closed it.  So events agree with *)
(* the samples however often they are rewritten: an event that a stretch   *)
(* follows from without a break can only be found again with an end past   *)
(* the stretch, and an event that closed can only be found with that end.  *)
(* A backfill may break a connection, but only above the watermark that it *)
(* sets back itself.                                                       *)
(***************************************************************************)
EXTENDS Events, RulesProofs

-----------------------------------------------------------------------------
(* Windows and the rules                                                     *)

Considered(type, at) ==
    {t \in DOMAIN at : IF type = "outage" THEN SomePing(at[t]) ELSE BothSides(at[t])}

BadTimes(type, at) == {t \in DOMAIN at : Holds(type, at[t])}

RulePoints(type, window) ==
    IF type = "outage" THEN OutagePoints(window) ELSE UpstreamPoints(window)

LEMMA BadAreConsidered ==
    ASSUME NEW type, NEW at
    PROVE  BadTimes(type, at) \in SUBSET Considered(type, at)
BY DEF BadTimes, Considered, Holds

LEMMA RuleInstants ==
    ASSUME NEW type, NEW window, window.to \in Nat, DOMAIN window.at \in SUBSET (1 .. window.to)
    PROVE  /\ Considered(type, window.at) \in SUBSET (1 .. window.to)
           /\ Instants(RulePoints(type, window), Considered(type, window.at),
                       BadTimes(type, window.at))
<1> DEFINE C == Considered(type, window.at)
           B == BadTimes(type, window.at)
<1>1. C \in SUBSET (1 .. window.to)
  BY DEF Considered
<1>2. RulePoints(type, window) = PointsOf(window.to, C, B)
  <2>1. CASE type = "outage"
    <3>1. C = {t \in DOMAIN window.at : SomePing(window.at[t])}
      BY <2>1 DEF Considered
    <3>2. B = {t \in C : AllDown(window.at[t])}
      BY <2>1, <3>1 DEF BadTimes, Holds
    <3> QED BY <2>1, <3>1, <3>2 DEF RulePoints, OutagePoints
  <2>2. CASE type # "outage"
    <3>1. C = {t \in DOMAIN window.at : BothSides(window.at[t])}
      BY <2>2 DEF Considered
    <3>2. B = {t \in C : InternetDown(window.at[t])}
      BY <2>2, <3>1 DEF BadTimes, Holds
    <3> QED BY <2>2, <3>1, <3>2 DEF RulePoints, UpstreamPoints
  <2> QED BY <2>1, <2>2
<1> HIDE DEF C, B
<1>3. Instants(PointsOf(window.to, C, B), C, B)
  BY <1>1, InstantsOf
<1> QED BY <1>1, <1>2, <1>3 DEF C, B

LEMMA RuleFinds ==
    ASSUME NEW window, NEW e \in Detect(window)
    PROVE  /\ e.type \in Types /\ e = [type |-> e.type, started |-> e.started, ended |-> e.ended]
           /\ \E s \in FindSpans(RulePoints(e.type, window)) :
                 e.started = s.started /\ e.ended = s.ended
<1>1. CASE e \in OutageRule(window)
  <2>1. PICK s \in FindSpans(OutagePoints(window)) :
           e = [type |-> "outage", started |-> s.started, ended |-> s.ended]
    BY <1>1 DEF OutageRule
  <2> QED BY <2>1 DEF Types, RulePoints
<1>2. CASE e \in GatewayUpInternetDownRule(window)
  <2>1. PICK s \in FindSpans(UpstreamPoints(window)) :
           e = [type |-> IF HttpSucceededDuring(window, s) THEN "icmp_filtered"
                         ELSE "gateway_up_internet_down",
                started |-> s.started, ended |-> s.ended]
    BY <1>2 DEF GatewayUpInternetDownRule
  <2> QED BY <2>1 DEF Types, RulePoints
<1> QED BY <1>1, <1>2 DEF Detect

LEMMA RuleReports ==
    ASSUME NEW window, NEW type \in {"outage", "gateway_up_internet_down"},
           NEW s \in FindSpans(RulePoints(type, window))
    PROVE  \E e \in Detect(window) :
              e.type \in Diagnoses(type) /\ e.started = s.started /\ e.ended = s.ended
<1>1. CASE type = "outage"
  <2> DEFINE e == [type |-> "outage", started |-> s.started, ended |-> s.ended]
  <2>1. e \in OutageRule(window)
    BY <1>1 DEF OutageRule, RulePoints
  <2> QED BY <1>1, <2>1 DEF Detect, Diagnoses
<1>2. CASE type # "outage"
  <2> DEFINE e == [type |-> IF HttpSucceededDuring(window, s) THEN "icmp_filtered"
                            ELSE "gateway_up_internet_down",
                   started |-> s.started, ended |-> s.ended]
  <2>1. e \in GatewayUpInternetDownRule(window)
    BY <1>2 DEF GatewayUpInternetDownRule, RulePoints
  <2> QED BY <1>2, <2>1 DEF Detect, Diagnoses, Types
<1> QED BY <1>1, <1>2

LEMMA TypesAlike ==
    ASSUME NEW type \in {"outage", "gateway_up_internet_down"}, NEW other \in Diagnoses(type),
           NEW at
    PROVE  /\ other \in Types
           /\ Considered(other, at) = Considered(type, at)
           /\ BadTimes(other, at) = BadTimes(type, at)
<1>1. other \in Types /\ (other = "outage" <=> type = "outage")
  BY DEF Diagnoses, Types
<1>2. \A reading : Holds(other, reading) <=> Holds(type, reading)
  BY <1>1 DEF Holds
<1> QED BY <1>1, <1>2, Zenon DEF Considered, BadTimes

-----------------------------------------------------------------------------
(* What a span says                                                          *)

LEMMA FoundLasts ==
    ASSUME NEW window, window.to \in Nat, DOMAIN window.at \in SUBSET (1 .. window.to),
           NEW e \in Detect(window)
    PROVE  Lasts(Considered(e.type, window.at), BadTimes(e.type, window.at), window.to,
                 e.started, e.ended)
<1> DEFINE C == Considered(e.type, window.at)
           B == BadTimes(e.type, window.at)
           points == RulePoints(e.type, window)
<1>1. C \in SUBSET (1 .. window.to) /\ Instants(points, C, B) /\ B \in SUBSET C
  BY RuleInstants, BadAreConsidered
<1>2. PICK s \in FindSpans(points) : e.started = s.started /\ e.ended = s.ended
  BY RuleFinds
<1> HIDE DEF C, B, points
<1>3. Lasts(C, B, window.to, s.started, s.ended)
  BY <1>1, SpanLasts
<1> QED BY <1>2, <1>3 DEF C, B

LEMMA FoundStretch ==
    ASSUME NEW window, window.to \in Nat, DOMAIN window.at \in SUBSET (1 .. window.to),
           NEW type \in {"outage", "gateway_up_internet_down"},
           NEW t \in Nat, \A x \in t .. t + Enter - 1 : x \in BadTimes(type, window.at)
    PROVE  \E e \in Detect(window) :
              /\ e.type \in Diagnoses(type) /\ e.started \in Nat /\ e.started <= t
              /\ ~BrokenUp(Considered(type, window.at), BadTimes(type, window.at), e.started, t)
<1> DEFINE C == Considered(type, window.at)
           B == BadTimes(type, window.at)
           points == RulePoints(type, window)
<1>1. C \in SUBSET (1 .. window.to) /\ Instants(points, C, B) /\ B \in SUBSET C
  BY RuleInstants, BadAreConsidered
<1>2. \A x \in t .. t + Enter - 1 : x \in B
  OBVIOUS
<1> HIDE DEF C, B
<1>3. PICK s \in FindSpans(points) :
         s.started \in Nat /\ s.started <= t /\ ~BrokenUp(C, B, s.started, t)
  BY <1>1, <1>2, StretchInSpan
<1>4. PICK e \in Detect(window) :
         e.type \in Diagnoses(type) /\ e.started = s.started /\ e.ended = s.ended
  BY RuleReports
<1> QED BY <1>3, <1>4 DEF C, B

(* An event that is found covers every stretch that follows its start        *)
(* without a break.                                                          *)
LEMMA LastsOverStretch ==
    ASSUME NEW C \in SUBSET Nat, NEW B \in SUBSET C, NEW to \in Nat, NEW s, NEW e,
           Lasts(C, B, to, s, e),
           NEW t \in Nat, \A x \in t .. t + Enter - 1 : x \in B,
           s <= t, ~BrokenUp(C, B, s, t)
    PROVE  e = Ongoing \/ t + Enter - 1 <= e
<1>0. Enter \in Nat \ {0}
  BY RulesConstants DEF RulesConstants
<1> SUFFICES ASSUME e # Ongoing, ~(t + Enter - 1 <= e) PROVE FALSE
  OBVIOUS
<1>1. s \in B /\ e \in B /\ s <= e
  BY DEF Lasts
<1>2. PICK v \in 1 .. to : Quiet(C, B, e + 1, v)
  BY DEF Lasts
<1>3. s \in Nat /\ e \in Nat /\ v \in Nat /\ e + 1 \in Int
  BY <1>1
<1>4. e + 1 <= v
  BY <1>2, <1>3, QuietIsLong
<1>5. \A x \in C : (e + 1 <= x /\ x <= v) => x \notin B
  BY <1>2 DEF Quiet
<1>6. CASE t <= e
  <2>1. e + 1 \in t .. t + Enter - 1
    BY <1>0, <1>3, <1>6
  <2>2. e + 1 \in B /\ e + 1 \in C
    BY <2>1
  <2> QED BY <1>3, <1>4, <1>5, <2>2
<1>7. CASE e < t
  <2>1. t \in B /\ t \in C
    BY <1>0
  <2>2. ~(t <= v)
    BY <1>3, <1>5, <1>7, <2>1
  <2>3. e + 1 \in s .. t /\ v \in s .. t
    BY <1>1, <1>3, <1>4, <1>7, <2>2
  <2> QED BY <1>2, <2>3 DEF BrokenUp
<1> QED BY <1>3, <1>6, <1>7

(* Nothing but the samples says where a span of a given start ends.          *)
Ends(C, B, to, s, e) ==
    /\ e \in B /\ s <= e /\ ~BrokenUp(C, B, s, e)
    /\ \E v \in 1 .. to : Quiet(C, B, e + 1, v)

LEMMA OneEnd ==
    ASSUME NEW C \in SUBSET Nat, NEW B \in SUBSET C, NEW to \in Nat, NEW s \in B,
           NEW d, NEW e, Ends(C, B, to, s, d), Ends(C, B, to, s, e), d < e
    PROVE  FALSE
<1>1. d \in Nat /\ e \in Nat /\ s \in Nat /\ s <= d /\ e \in B /\ e \in C
  BY DEF Ends
<1>2. PICK v \in 1 .. to : Quiet(C, B, d + 1, v)
  BY DEF Ends
<1>3. d + 1 <= v
  BY <1>1, <1>2, QuietIsLong
<1>4. ~(e <= v)
  BY <1>1, <1>2 DEF Quiet
<1>5. d + 1 \in s .. e /\ v \in s .. e
  BY <1>1, <1>3, <1>4
<1> QED BY <1>2, <1>5 DEF Ends, BrokenUp

LEMMA EndsIsLast ==
    ASSUME NEW C \in SUBSET (Nat \ {0}), NEW B \in SUBSET C, NEW to \in Nat,
           NEW s, NEW d, NEW e, Ends(C, B, to, s, d), Lasts(C, B, to, s, e)
    PROVE  d = e
<1>1. s \in B /\ s \in Nat /\ d \in Nat /\ s <= d
  BY DEF Ends, Lasts
<1>2. e # Ongoing
  <2> SUFFICES ASSUME e = Ongoing PROVE FALSE
    OBVIOUS
  <2>1. ~BrokenUp(C, B, s, to)
    <3>1. Ongoing \notin B
      BY DEF Ongoing
    <3> QED BY <3>1 DEF Lasts
  <2>2. PICK v \in 1 .. to : Quiet(C, B, d + 1, v)
    BY DEF Ends
  <2>3. d + 1 <= v
    BY <1>1, <2>2, QuietIsLong
  <2>4. d + 1 \in s .. to /\ v \in s .. to
    BY <1>1, <2>3
  <2> QED BY <2>1, <2>2, <2>4 DEF BrokenUp
<1>3. Ends(C, B, to, s, e)
  BY <1>2 DEF Lasts, Ends
<1>4. e \in Nat
  BY <1>3 DEF Ends
<1>5. ~(d < e) /\ ~(e < d)
  BY <1>1, <1>3, OneEnd
<1> QED BY <1>1, <1>4, <1>5

-----------------------------------------------------------------------------
(* A window shows a part of the history                                      *)

Part(at, low, to) ==
    [to |-> to, at |-> [t \in {u \in DOMAIN at : low <= u /\ u <= to} |-> at[t]]]

LEMMA PartAgrees ==
    ASSUME NEW at, NEW low, NEW to, NEW type
    PROVE  /\ \A x : x \in Considered(type, Part(at, low, to).at) <=>
                        (x \in Considered(type, at) /\ low <= x /\ x <= to)
           /\ \A x : x \in BadTimes(type, Part(at, low, to).at) <=>
                        (x \in BadTimes(type, at) /\ low <= x /\ x <= to)
<1> DEFINE W == [t \in {u \in DOMAIN at : low <= u /\ u <= to} |-> at[t]]
<1>1. Part(at, low, to).at = W
  BY DEF Part
<1>2. DOMAIN W = {u \in DOMAIN at : low <= u /\ u <= to} /\ \A x \in DOMAIN W : W[x] = at[x]
  OBVIOUS
<1> HIDE DEF W
<1>3. \A x : x \in DOMAIN W <=> (x \in DOMAIN at /\ low <= x /\ x <= to)
  BY <1>2
<1>4. \A x : x \in Considered(type, W) <=> (x \in Considered(type, at) /\ low <= x /\ x <= to)
  BY <1>2, <1>3, Zenon DEF Considered
<1>5. \A x : x \in BadTimes(type, W) <=> (x \in BadTimes(type, at) /\ low <= x /\ x <= to)
  BY <1>2, <1>3, Zenon DEF BadTimes
<1> QED BY <1>1, <1>4, <1>5

LEMMA PartLasts ==
    ASSUME NEW at, NEW n \in Nat, DOMAIN at \in SUBSET (1 .. n), NEW low \in Int,
           NEW to \in 0 .. n, NEW e \in Detect(Part(at, low, to))
    PROVE  /\ e.type \in Types /\ e.started \in 1 .. to
           /\ e.ended = Ongoing \/ e.ended \in e.started .. to
           /\ Lasts(Considered(e.type, at), BadTimes(e.type, at), to, e.started, e.ended)
<1> DEFINE window == Part(at, low, to)
           D == Considered(e.type, window.at)
           E == BadTimes(e.type, window.at)
           C == Considered(e.type, at)
           B == BadTimes(e.type, at)
           s == e.started
           d == e.ended
<1>1. window.to = to /\ DOMAIN window.at \in SUBSET (1 .. to)
  BY DEF Part
<1>2. \A x : x \in D <=> (x \in C /\ low <= x /\ x <= to)
  BY PartAgrees
<1>3. \A x : x \in E <=> (x \in B /\ low <= x /\ x <= to)
  BY PartAgrees
<1>4. C \in SUBSET (1 .. n) /\ B \in SUBSET C /\ D \in SUBSET Int
  <2>1. C \in SUBSET (1 .. n)
    BY DEF Considered
  <2> QED BY <2>1, <1>2, BadAreConsidered
<1>5. e.type \in Types
  BY RuleFinds
<1>6. Lasts(D, E, to, s, d)
  BY <1>1, FoundLasts
<1> HIDE DEF window, C, B, D, E, s, d
<1>a. \A x \in E : x \in B /\ x \in 1 .. to /\ x \in Int /\ low <= x
  <2>1. \A x \in E : x \in B /\ low <= x /\ x <= to
    BY <1>3
  <2>2. \A x \in B : x \in 1 .. n
    BY <1>4
  <2> QED BY <2>1, <2>2
<1>7. s \in E /\ s \in B /\ s \in 1 .. to /\ s \in Int /\ low <= s /\ to \in Int
  <2>1. s \in E
    BY <1>6 DEF Lasts
  <2> QED BY <1>a, <2>1
<1>8. ASSUME NEW t \in 1 .. to, BrokenUp(C, B, s, t)
      PROVE  BrokenUp(D, E, s, t)
  <2>1. \A x \in s .. t : (x \in C <=> x \in D) /\ (x \in B <=> x \in E)
    BY <1>2, <1>3, <1>7
  <2>2. t \in Int /\ C \in SUBSET Int
    BY <1>4
  <2> QED BY <1>4, <1>7, <1>8, <2>1, <2>2, SameBrokenUp
<1>9. \E v \in 1 .. to : /\ Enter <= Cardinality(B \cap (s .. v))
                         /\ d = Ongoing \/ v <= d
  <2>1. PICK v \in 1 .. to : /\ Enter <= Cardinality(E \cap (s .. v))
                             /\ d = Ongoing \/ v <= d
    BY <1>6 DEF Lasts
  <2>2. E \cap (s .. v) = B \cap (s .. v)
    BY <1>3, <1>7
  <2> QED BY <2>1, <2>2
<1>10. CASE d = Ongoing /\ ~BrokenUp(D, E, s, to)
  <2>1. to \in 1 .. to
    BY <1>7
  <2>2. ~BrokenUp(C, B, s, to)
    BY <1>8, <1>10, <2>1
  <2>3. Lasts(C, B, to, s, d)
    BY <1>7, <1>9, <1>10, <2>2 DEF Lasts
  <2> QED BY <1>5, <1>7, <1>10, <2>3 DEF s, d, C, B
<1>11. CASE /\ d \in E /\ s <= d /\ ~BrokenUp(D, E, s, d)
            /\ \E v \in 1 .. to : Quiet(D, E, d + 1, v)
  <2>1. d \in B /\ d \in 1 .. to /\ d <= to /\ d + 1 \in Int
    BY <1>a, <1>11
  <2>2. ~BrokenUp(C, B, s, d)
    BY <1>8, <1>11, <2>1
  <2>3. PICK v \in 1 .. to : Quiet(D, E, d + 1, v)
    BY <1>11
  <2>4. \A x \in d + 1 .. v : (x \in D <=> x \in C) /\ (x \in E <=> x \in B)
    BY <1>2, <1>3, <1>7, <1>11, <2>1
  <2>5. v \in Int /\ C \in SUBSET Int
    BY <1>4
  <2>6. Quiet(C, B, d + 1, v)
    BY <1>4, <2>1, <2>3, <2>4, <2>5, SameQuiet
  <2>7. Lasts(C, B, to, s, d)
    BY <1>7, <1>9, <1>11, <2>1, <2>2, <2>6 DEF Lasts
  <2>8. d \in s .. to
    BY <1>7, <1>11, <2>1
  <2> QED BY <1>5, <1>7, <2>7, <2>8 DEF s, d, C, B
<1> QED BY <1>6, <1>10, <1>11 DEF Lasts

LEMMA PartFindsStretch ==
    ASSUME NEW at, NEW n \in Nat, DOMAIN at \in SUBSET (1 .. n), NEW low \in Int,
           NEW to \in 0 .. n, NEW type \in {"outage", "gateway_up_internet_down"},
           NEW t \in Nat, low <= t, t + Enter - 1 <= to,
           \A x \in t .. t + Enter - 1 : x \in BadTimes(type, at)
    PROVE  \E e \in Detect(Part(at, low, to)) :
              /\ e.type \in Diagnoses(type) /\ e.started <= t
              /\ ~BrokenUp(Considered(type, at), BadTimes(type, at), e.started, t)
<1> DEFINE window == Part(at, low, to)
           D == Considered(type, window.at)
           E == BadTimes(type, window.at)
           C == Considered(type, at)
           B == BadTimes(type, at)
<1>0. Enter \in Nat \ {0}
  BY RulesConstants DEF RulesConstants
<1>1. window.to = to /\ DOMAIN window.at \in SUBSET (1 .. to)
  BY DEF Part
<1>2. \A x : x \in D <=> (x \in C /\ low <= x /\ x <= to)
  BY PartAgrees
<1>3. \A x : x \in E <=> (x \in B /\ low <= x /\ x <= to)
  BY PartAgrees
<1>4. C \in SUBSET Int /\ D \in SUBSET Int
  <2>1. C \in SUBSET (1 .. n)
    BY DEF Considered
  <2> QED BY <2>1, <1>2
<1>5. \A x \in t .. t + Enter - 1 : x \in B
  OBVIOUS
<1> HIDE DEF C, B, D, E
<1>6. \A x \in t .. t + Enter - 1 : x \in E
  BY <1>0, <1>3, <1>5
<1>7. PICK e \in Detect(window) :
         /\ e.type \in Diagnoses(type) /\ e.started \in Nat /\ e.started <= t
         /\ ~BrokenUp(D, E, e.started, t)
  <2>1. window.to \in Nat /\ DOMAIN window.at \in SUBSET (1 .. window.to)
    BY <1>1
  <2> HIDE DEF window
  <2> QED BY <1>6, <2>1, FoundStretch DEF D, E
<1>8. e.type \in Types /\ BadTimes(e.type, window.at) = E /\ Considered(e.type, window.at) = D
  BY <1>7, TypesAlike DEF D, E
<1>9. e.started \in E
  <2>1. Lasts(D, E, window.to, e.started, e.ended)
    <3>1. window.to \in Nat /\ DOMAIN window.at \in SUBSET (1 .. window.to)
      BY <1>1
    <3> HIDE DEF window
    <3>2. Lasts(Considered(e.type, window.at), BadTimes(e.type, window.at), window.to,
                e.started, e.ended)
      BY <3>1, FoundLasts
    <3> QED BY <3>2, <1>8
  <2> QED BY <2>1 DEF Lasts
<1>10. \A x \in e.started .. t : (x \in C <=> x \in D) /\ (x \in B <=> x \in E)
  <2>1. low <= e.started /\ t <= to /\ e.started \in Int
    BY <1>0, <1>3, <1>7, <1>9
  <2> QED BY <1>2, <1>3, <2>1
<1>11. ~BrokenUp(C, B, e.started, t)
  <2>1. e.started \in Int /\ t \in Int
    BY <1>7
  <2> QED BY <1>4, <1>7, <1>10, <2>1, SameBrokenUp
<1> QED BY <1>7, <1>11 DEF C, B

-----------------------------------------------------------------------------
(* A reading that is stored changes nothing at other times.                  *)
With(at, t, reading) == [u \in DOMAIN at \cup {t} |-> IF u = t THEN reading ELSE at[u]]

LEMMA WithAgrees ==
    ASSUME NEW at, NEW t, t \notin DOMAIN at, NEW reading, NEW type
    PROVE  /\ \A x : x # t => (x \in Considered(type, With(at, t, reading)) <=>
                                   x \in Considered(type, at))
           /\ \A x : x # t => (x \in BadTimes(type, With(at, t, reading)) <=>
                                   x \in BadTimes(type, at))
           /\ BadTimes(type, at) \in SUBSET BadTimes(type, With(at, t, reading))
<1> DEFINE W == With(at, t, reading)
<1>1. DOMAIN W = DOMAIN at \cup {t} /\ \A x \in DOMAIN at : W[x] = at[x]
  BY DEF With
<1> HIDE DEF W
<1>2. \A x : x # t => (x \in DOMAIN W <=> x \in DOMAIN at)
  BY <1>1
<1>3. \A x : x # t => (x \in Considered(type, W) <=> x \in Considered(type, at))
  BY <1>1, <1>2, Zenon DEF Considered
<1>4. \A x : x # t => (x \in BadTimes(type, W) <=> x \in BadTimes(type, at))
  BY <1>1, <1>2, Zenon DEF BadTimes
<1>5. \A x \in BadTimes(type, at) : x \in BadTimes(type, W)
  <2>1. \A x \in BadTimes(type, at) : x # t
    BY DEF BadTimes
  <2> QED BY <1>4, <2>1
<1> QED BY <1>3, <1>4, <1>5 DEF W

(* The upsert keeps each event that is not found again and gives every found *)
(* one the end that was found for its key.                                   *)
Upserted(before, found) ==
    [k \in DOMAIN before \cup {Key(e) : e \in found} |->
        IF \E e \in found : Key(e) = k
        THEN (CHOOSE e \in found : Key(e) = k).ended
        ELSE before[k]]

LEMMA UpsertedIs ==
    ASSUME NEW before, NEW found
    PROVE  /\ DOMAIN Upserted(before, found) = DOMAIN before \cup {Key(e) : e \in found}
           /\ \A k \in DOMAIN Upserted(before, found) :
                 \/ \E e \in found : Key(e) = k /\ Upserted(before, found)[k] = e.ended
                 \/ k \in DOMAIN before /\ Upserted(before, found)[k] = before[k]
<1> DEFINE W == Upserted(before, found)
<1>1. DOMAIN W = DOMAIN before \cup {Key(e) : e \in found}
  BY DEF Upserted
<1>2. ASSUME NEW k \in DOMAIN W
      PROVE  \/ \E e \in found : Key(e) = k /\ W[k] = e.ended
             \/ k \in DOMAIN before /\ W[k] = before[k]
  <2>1. CASE \E e \in found : Key(e) = k
    <3> DEFINE e == CHOOSE e \in found : Key(e) = k
    <3>1. e \in found /\ Key(e) = k
      BY <2>1
    <3>2. W[k] = e.ended
      BY <1>2, <2>1 DEF Upserted
    <3> QED BY <3>1, <3>2
  <2>2. CASE ~\E e \in found : Key(e) = k
    <3>1. W[k] = before[k]
      BY <1>2, <2>2 DEF Upserted
    <3>2. k \in DOMAIN before
      BY <1>1, <2>2
    <3> QED BY <3>1, <3>2
  <2> QED BY <2>1, <2>2
<1> QED BY <1>1, <1>2

LEMMA UpsertedFound ==
    ASSUME NEW before, NEW found, NEW e \in found
    PROVE  \E f \in found : Key(f) = Key(e) /\ Upserted(before, found)[Key(e)] = f.ended
<1> DEFINE f == CHOOSE f \in found : Key(f) = Key(e)
<1>1. f \in found /\ Key(f) = Key(e)
  OBVIOUS
<1>2. Upserted(before, found)[Key(e)] = f.ended
  BY DEF Upserted
<1> QED BY <1>1, <1>2

-----------------------------------------------------------------------------
(* The inductive invariant, as relations between samples, watermark, clock   *)
(* and events.                                                               *)
EventsIn(ev, n) ==
    \A k \in DOMAIN ev :
        /\ k \in [type : Types, started : 1 .. n]
        /\ ev[k] = Ongoing \/ ev[k] \in k.started .. n

\* The bad seconds of an event.
Lived(bad, started, ended) == {t \in bad : started <= t /\ (ended = Ongoing \/ t <= ended)}

EarnedIn(at, ev) ==
    \A k \in DOMAIN ev :
        LET bad == BadTimes(k.type, at)
        IN  /\ k.started \in bad
            /\ ev[k] = Ongoing \/ ev[k] \in bad
            /\ Enter <= Cardinality(Lived(bad, k.started, ev[k]))

(* The event reaches the stretch without a break that could have closed it.  *)
Reaches(at, ev, k, type, t) ==
    /\ k.type \in Diagnoses(type) /\ k.started <= t
    /\ ~BrokenUp(Considered(type, at), BadTimes(type, at), k.started, t)
    /\ ev[k] = Ongoing \/ t + Enter - 1 <= ev[k]

CoveredIn(at, w, ev) ==
    \A type \in {"outage", "gateway_up_internet_down"}, t \in Nat :
        (t + Enter - 1 < w /\ \A x \in t .. t + Enter - 1 : x \in BadTimes(type, at)) =>
            \E k \in DOMAIN ev : Reaches(at, ev, k, type, t)

ClosedIn(at, n, ev) ==
    \A k \in DOMAIN ev :
        ev[k] = Ongoing \/
        Ends(Considered(k.type, at), BadTimes(k.type, at), n, k.started, ev[k])

-----------------------------------------------------------------------------
(* Samples that are stored                                                   *)

LEMMA ConsideredTimes ==
    ASSUME NEW at, NEW n \in Nat, DOMAIN at \in SUBSET (1 .. n), NEW type
    PROVE  /\ Considered(type, at) \in SUBSET (1 .. n)
           /\ BadTimes(type, at) \in SUBSET Considered(type, at)
           /\ BadTimes(type, at) \in SUBSET (1 .. n)
<1>1. Considered(type, at) \in SUBSET (1 .. n)
  BY DEF Considered
<1>2. BadTimes(type, at) \in SUBSET Considered(type, at)
  BY BadAreConsidered
<1> QED BY <1>1, <1>2

LEMMA StoreKeepsEarned ==
    ASSUME NEW at, NEW n \in Nat, DOMAIN at \in SUBSET (1 .. n), NEW ev,
           NEW t \in 1 .. n + 1, t \notin DOMAIN at, NEW reading, EarnedIn(at, ev)
    PROVE  EarnedIn(With(at, t, reading), ev)
<1> DEFINE W == With(at, t, reading)
<1>1. DOMAIN W \in SUBSET (1 .. n + 1)
  BY DEF With
<1>2. ASSUME NEW k \in DOMAIN ev
      PROVE  LET bad == BadTimes(k.type, W)
             IN  /\ k.started \in bad
                 /\ ev[k] = Ongoing \/ ev[k] \in bad
                 /\ Enter <= Cardinality(Lived(bad, k.started, ev[k]))
  <2> DEFINE B == BadTimes(k.type, at)
             E == BadTimes(k.type, W)
             S == Lived(B, k.started, ev[k])
             T == Lived(E, k.started, ev[k])
  <2>1. /\ k.started \in B
        /\ ev[k] = Ongoing \/ ev[k] \in B
        /\ Enter <= Cardinality(S)
    BY DEF EarnedIn
  <2>2. B \in SUBSET E
    BY WithAgrees
  <2>3. n + 1 \in Nat /\ E \in SUBSET (1 .. n + 1)
    <3> HIDE DEF W
    <3>1. n + 1 \in Nat
      OBVIOUS
    <3> QED BY <1>1, <3>1, ConsideredTimes
  <2>4. S \subseteq T /\ T \subseteq 1 .. n + 1
    <3> HIDE DEF B, E
    <3> QED BY <2>2, <2>3 DEF Lived
  <2>5. IsFiniteSet(1 .. n + 1)
    <3>1. 1 \in Int /\ n + 1 \in Int
      OBVIOUS
    <3> QED BY <3>1, FS_Interval
  <2> HIDE DEF S, T, B, E
  <2>6. IsFiniteSet(T)
    BY <2>4, <2>5, FS_Subset
  <2>7. Cardinality(S) <= Cardinality(T) /\ Cardinality(S) \in Nat /\ Cardinality(T) \in Nat
    BY <2>4, <2>6, FS_Subset, FS_CardinalityType
  <2>8. Enter <= Cardinality(T)
    BY <2>1, <2>7, RulesConstants DEF RulesConstants
  <2>9. k.started \in E /\ (ev[k] = Ongoing \/ ev[k] \in E)
    BY <2>1, <2>2
  <2> QED BY <2>8, <2>9 DEF T, E
<1> QED BY <1>2 DEF EarnedIn

LEMMA StoreKeepsCovered ==
    ASSUME NEW at, NEW n \in Nat, DOMAIN at \in SUBSET (1 .. n), NEW ev,
           NEW new \in 1 .. n + 1, new \notin DOMAIN at, NEW reading,
           EarnedIn(at, ev), NEW w \in Nat, CoveredIn(at, w, ev),
           NEW v \in Nat, v <= w, v <= new
    PROVE  CoveredIn(With(at, new, reading), v, ev)
<1> DEFINE W == With(at, new, reading)
<1>0. Enter \in Nat \ {0}
  BY RulesConstants DEF RulesConstants
<1> SUFFICES ASSUME NEW type \in {"outage", "gateway_up_internet_down"}, NEW t \in Nat,
                    t + Enter - 1 < v, \A x \in t .. t + Enter - 1 : x \in BadTimes(type, W)
             PROVE  \E k \in DOMAIN ev : Reaches(W, ev, k, type, t)
  BY DEF CoveredIn
<1> DEFINE C == Considered(type, at)
           B == BadTimes(type, at)
           D == Considered(type, W)
           E == BadTimes(type, W)
<1>1. /\ \A x : x # new => (x \in D <=> x \in C)
      /\ \A x : x # new => (x \in E <=> x \in B)
  BY WithAgrees
<1>2. C \in SUBSET Int /\ D \in SUBSET Int /\ B \in SUBSET Int
  <2>1. DOMAIN W \in SUBSET (1 .. n + 1) /\ n + 1 \in Nat
    BY DEF With
  <2>2. D \in SUBSET (1 .. n + 1)
    <3> HIDE DEF W
    <3> QED BY <2>1, ConsideredTimes
  <2>3. C \in SUBSET (1 .. n) /\ B \in SUBSET (1 .. n)
    BY ConsideredTimes
  <2> QED BY <2>2, <2>3
<1>3. \A x \in t .. t + Enter - 1 : x \in E
  OBVIOUS
<1> HIDE DEF W
<1>4. \A x \in t .. t + Enter - 1 : x \in B
  <2> HIDE DEF C, B, D, E
  <2> QED BY <1>0, <1>1, <1>3
<1>5. PICK k \in DOMAIN ev : Reaches(at, ev, k, type, t)
  <2>1. t + Enter - 1 < w
    BY <1>0
  <2> QED BY <1>4, <2>1, Zenon DEF CoveredIn
<1>6. k.started \in Int
  <2>1. k.type \in Diagnoses(type)
    BY <1>5 DEF Reaches
  <2>2. BadTimes(k.type, at) = B
    BY <2>1, TypesAlike
  <2>3. k.started \in B
    BY <2>2 DEF EarnedIn
  <2> QED BY <1>2, <2>3
<1>7. ~BrokenUp(D, E, k.started, t)
  <2>1. ~BrokenUp(C, B, k.started, t)
    BY <1>5 DEF Reaches
  <2> HIDE DEF C, B, D, E
  <2>2. \A x \in k.started .. t : (x \in D <=> x \in C) /\ (x \in E <=> x \in B)
    BY <1>0, <1>1, <1>6
  <2>3. t \in Int
    OBVIOUS
  <2> QED BY <1>2, <1>6, <2>1, <2>2, <2>3, SameBrokenUp
<1> QED BY <1>5, <1>7 DEF Reaches

LEMMA StoreKeepsClosed ==
    ASSUME NEW at, NEW n \in Nat, DOMAIN at \in SUBSET (1 .. n), NEW ev, NEW reading,
           EventsIn(ev, n), ClosedIn(at, n, ev)
    PROVE  ClosedIn(With(at, n + 1, reading), n + 1, ev)
<1> DEFINE W == With(at, n + 1, reading)
<1> SUFFICES ASSUME NEW k \in DOMAIN ev, ev[k] # Ongoing
             PROVE  Ends(Considered(k.type, W), BadTimes(k.type, W), n + 1, k.started, ev[k])
  BY DEF ClosedIn
<1> DEFINE C == Considered(k.type, at)
           B == BadTimes(k.type, at)
           D == Considered(k.type, W)
           E == BadTimes(k.type, W)
           e == ev[k]
           s == k.started
<1>1. n + 1 \notin DOMAIN at
  OBVIOUS
<1>2. /\ \A x : x # n + 1 => (x \in D <=> x \in C)
      /\ \A x : x # n + 1 => (x \in E <=> x \in B)
  BY <1>1, WithAgrees
<1>3. C \in SUBSET Int /\ D \in SUBSET Int
  <2>1. DOMAIN W \in SUBSET (1 .. n + 1) /\ n + 1 \in Nat
    BY DEF With
  <2>2. D \in SUBSET (1 .. n + 1)
    <3> HIDE DEF W
    <3> QED BY <2>1, ConsideredTimes
  <2>3. C \in SUBSET (1 .. n)
    BY ConsideredTimes
  <2> QED BY <2>2, <2>3
<1>4. s \in 1 .. n /\ e \in s .. n
  BY DEF EventsIn
<1>5. Ends(C, B, n, s, e)
  BY DEF ClosedIn
<1> HIDE DEF C, B, D, E, s, e
<1>6. \A x \in 1 .. n : (x \in C <=> x \in D) /\ (x \in B <=> x \in E)
  BY <1>2
<1>7. e \in E /\ s <= e
  BY <1>4, <1>5, <1>6 DEF Ends
<1>8. ~BrokenUp(D, E, s, e)
  <2>1. s \in Int /\ e \in Int /\ \A x \in s .. e : x \in 1 .. n
    BY <1>4
  <2>2. \A x \in s .. e : (x \in C <=> x \in D) /\ (x \in B <=> x \in E)
    BY <1>6, <2>1
  <2> QED BY <1>3, <1>5, <2>1, <2>2, SameBrokenUp DEF Ends
<1>9. \E v \in 1 .. n + 1 : Quiet(D, E, e + 1, v)
  <2>1. PICK v \in 1 .. n : Quiet(C, B, e + 1, v)
    BY <1>5 DEF Ends
  <2>2. e + 1 \in Int /\ v \in Int /\ v \in 1 .. n + 1 /\ \A x \in e + 1 .. v : x \in 1 .. n
    BY <1>4
  <2>3. \A x \in e + 1 .. v : (x \in C <=> x \in D) /\ (x \in B <=> x \in E)
    BY <1>6, <2>2
  <2> QED BY <1>3, <2>1, <2>2, <2>3, SameQuiet
<1>10. Ends(D, E, n + 1, s, e)
  BY <1>7, <1>8, <1>9, Zenon DEF Ends
<1> QED BY <1>10 DEF D, E, s, e

-----------------------------------------------------------------------------
(* Windows that are run                                                      *)
Ran(at, low, to, ev) == Upserted(ev, Detect(Part(at, low, to)))

LEMMA RanEvents ==
    ASSUME NEW at, NEW low, NEW to, NEW ev, NEW k \in DOMAIN Ran(at, low, to, ev)
    PROVE  \/ \E e \in Detect(Part(at, low, to)) :
                 k = Key(e) /\ k.type = e.type /\ k.started = e.started
                 /\ Ran(at, low, to, ev)[k] = e.ended
           \/ k \in DOMAIN ev /\ Ran(at, low, to, ev)[k] = ev[k]
<1>1. \/ \E e \in Detect(Part(at, low, to)) : Key(e) = k /\ Ran(at, low, to, ev)[k] = e.ended
      \/ k \in DOMAIN ev /\ Ran(at, low, to, ev)[k] = ev[k]
  BY UpsertedIs, Zenon DEF Ran
<1>2. \A e \in Detect(Part(at, low, to)) :
         Key(e).type = e.type /\ Key(e).started = e.started
  BY DEF Key
<1> QED BY <1>1, <1>2

LEMMA RanDomain ==
    ASSUME NEW at, NEW low, NEW to, NEW ev
    PROVE  /\ \A k \in DOMAIN ev : k \in DOMAIN Ran(at, low, to, ev)
           /\ \A e \in Detect(Part(at, low, to)) :
                 /\ Key(e) \in DOMAIN Ran(at, low, to, ev)
                 /\ Key(e).type = e.type /\ Key(e).started = e.started
                 /\ \E f \in Detect(Part(at, low, to)) :
                       /\ f.type = e.type /\ f.started = e.started
                       /\ Ran(at, low, to, ev)[Key(e)] = f.ended
<1>1. DOMAIN Ran(at, low, to, ev) = DOMAIN ev \cup {Key(e) : e \in Detect(Part(at, low, to))}
  BY UpsertedIs DEF Ran
<1>3. \A e \in Detect(Part(at, low, to)) :
         Key(e).type = e.type /\ Key(e).started = e.started
  BY DEF Key
<1>4. \A e \in Detect(Part(at, low, to)) : \E f \in Detect(Part(at, low, to)) :
         /\ f.type = e.type /\ f.started = e.started
         /\ Ran(at, low, to, ev)[Key(e)] = f.ended
  <2> SUFFICES ASSUME NEW e \in Detect(Part(at, low, to))
               PROVE  \E f \in Detect(Part(at, low, to)) :
                         /\ f.type = e.type /\ f.started = e.started
                         /\ Ran(at, low, to, ev)[Key(e)] = f.ended
    OBVIOUS
  <2>1. PICK f \in Detect(Part(at, low, to)) :
           Key(f) = Key(e) /\ Ran(at, low, to, ev)[Key(e)] = f.ended
    BY UpsertedFound DEF Ran
  <2>2. f.type = e.type /\ f.started = e.started
    BY <2>1, <1>3
  <2> QED BY <2>1, <2>2
<1>5. \A e \in Detect(Part(at, low, to)) : Key(e) \in DOMAIN Ran(at, low, to, ev)
  BY <1>1
<1>6. \A k \in DOMAIN ev : k \in DOMAIN Ran(at, low, to, ev)
  BY <1>1
<1> QED BY <1>3, <1>4, <1>5, <1>6, Zenon

LEMMA RanKeepsEvents ==
    ASSUME NEW at, NEW n \in Nat, DOMAIN at \in SUBSET (1 .. n), NEW low \in Int,
           NEW to \in 0 .. n, NEW ev, EventsIn(ev, n)
    PROVE  EventsIn(Ran(at, low, to, ev), n)
<1> DEFINE R == Ran(at, low, to, ev)
<1> SUFFICES ASSUME NEW k \in DOMAIN R
             PROVE  /\ k \in [type : Types, started : 1 .. n]
                    /\ R[k] = Ongoing \/ R[k] \in k.started .. n
  BY DEF EventsIn
<1>1. CASE k \in DOMAIN ev /\ R[k] = ev[k]
  BY <1>1 DEF EventsIn
<1>2. ASSUME NEW e \in Detect(Part(at, low, to)), k = Key(e), k.started = e.started, R[k] = e.ended
      PROVE  /\ k \in [type : Types, started : 1 .. n]
             /\ R[k] = Ongoing \/ R[k] \in k.started .. n
  <2>1. /\ e.type \in Types /\ e.started \in 1 .. to
        /\ e.ended = Ongoing \/ e.ended \in e.started .. to
    BY PartLasts
  <2> HIDE DEF R
  <2>2. e.started \in 1 .. n /\ (e.ended = Ongoing \/ e.ended \in e.started .. n)
    BY <2>1
  <2>3. k \in [type : Types, started : 1 .. n]
    BY <1>2, <2>1, <2>2 DEF Key
  <2> QED BY <1>2, <2>2, <2>3
<1> HIDE DEF R
<1> QED BY <1>1, <1>2, RanEvents DEF R

LEMMA RanKeepsEarned ==
    ASSUME NEW at, NEW n \in Nat, DOMAIN at \in SUBSET (1 .. n), NEW low \in Int,
           NEW to \in 0 .. n, NEW ev, EarnedIn(at, ev)
    PROVE  EarnedIn(at, Ran(at, low, to, ev))
<1> DEFINE R == Ran(at, low, to, ev)
           Earned(f, k) ==
              LET bad == BadTimes(k.type, at)
              IN  /\ k.started \in bad
                  /\ f[k] = Ongoing \/ f[k] \in bad
                  /\ Enter <= Cardinality(Lived(bad, k.started, f[k]))
<1> SUFFICES ASSUME NEW k \in DOMAIN R PROVE Earned(R, k)
  BY DEF EarnedIn
<1>1. CASE k \in DOMAIN ev /\ R[k] = ev[k]
  <2>1. Earned(ev, k)
    BY <1>1 DEF EarnedIn
  <2> QED BY <1>1, <2>1
<1>2. ASSUME NEW e \in Detect(Part(at, low, to)), k.type = e.type,
             k.started = e.started, R[k] = e.ended
      PROVE  Earned(R, k)
  <2> DEFINE C == Considered(k.type, at)
             B == BadTimes(k.type, at)
             s == k.started
             d == R[k]
  <2>1. Lasts(C, B, to, s, d)
    BY <1>2, PartLasts
  <2>2. B \in SUBSET (1 .. n)
    BY ConsideredTimes
  <2> DEFINE T == Lived(B, s, d)
  <2>3. PICK v \in 1 .. to : Enter <= Cardinality(B \cap (s .. v)) /\ (d = Ongoing \/ v <= d)
    BY <2>1 DEF Lasts
  <2> HIDE DEF B, s, d
  <2>4. s \in B /\ (d = Ongoing \/ d \in B)
    BY <2>1 DEF Lasts
  <2>5. B \cap (s .. v) \subseteq T /\ T \subseteq 1 .. n
    <3>1. s \in Int /\ v \in Int /\ (d = Ongoing \/ d \in Int)
      <4>1. \A x \in B : x \in Int
        BY <2>2
      <4>2. v \in Int
        OBVIOUS
      <4> QED BY <2>4, <4>1, <4>2
    <3>2. \A x \in B : x \in s .. v => (s <= x /\ (d = Ongoing \/ x <= d))
      BY <2>2, <2>3, <3>1
    <3> QED BY <2>2, <3>2 DEF Lived
  <2>6. IsFiniteSet(1 .. n)
    <3>1. 1 \in Int /\ n \in Int
      OBVIOUS
    <3> QED BY <3>1, FS_Interval
  <2> HIDE DEF T
  <2>7. IsFiniteSet(T)
    BY <2>5, <2>6, FS_Subset
  <2> DEFINE U == B \cap (s .. v)
  <2>8. Cardinality(U) <= Cardinality(T) /\ Cardinality(U) \in Nat /\ Cardinality(T) \in Nat
    <3>1. U \subseteq T
      BY <2>5
    <3> HIDE DEF U
    <3> QED BY <2>7, <3>1, FS_Subset, FS_CardinalityType
  <2>9. Enter <= Cardinality(T)
    BY <2>3, <2>8, RulesConstants DEF RulesConstants
  <2> QED BY <2>4, <2>9 DEF T, B, s, d
<1> HIDE DEF Earned
<1>3. \/ k \in DOMAIN ev /\ R[k] = ev[k]
      \/ \E e \in Detect(Part(at, low, to)) :
            k.type = e.type /\ k.started = e.started /\ R[k] = e.ended
  BY RanEvents
<1> QED BY <1>1, <1>2, <1>3

LEMMA RanKeepsClosed ==
    ASSUME NEW at, NEW n \in Nat, DOMAIN at \in SUBSET (1 .. n), NEW low \in Int,
           NEW to \in 0 .. n, NEW ev, ClosedIn(at, n, ev)
    PROVE  ClosedIn(at, n, Ran(at, low, to, ev))
<1> DEFINE R == Ran(at, low, to, ev)
<1> SUFFICES ASSUME NEW k \in DOMAIN R, R[k] # Ongoing
             PROVE  Ends(Considered(k.type, at), BadTimes(k.type, at), n, k.started, R[k])
  BY DEF ClosedIn
<1>1. CASE k \in DOMAIN ev /\ R[k] = ev[k]
  BY <1>1 DEF ClosedIn
<1>2. ASSUME NEW e \in Detect(Part(at, low, to)), k.type = e.type,
             k.started = e.started, R[k] = e.ended
      PROVE  Ends(Considered(k.type, at), BadTimes(k.type, at), n, k.started, R[k])
  <2>1. Lasts(Considered(k.type, at), BadTimes(k.type, at), to, k.started, R[k])
    BY <1>2, PartLasts
  <2>2. \A v \in 1 .. to : v \in 1 .. n
    OBVIOUS
  <2> HIDE DEF R
  <2> QED BY <2>1, <2>2 DEF Lasts, Ends
<1>3. \/ k \in DOMAIN ev /\ R[k] = ev[k]
      \/ \E e \in Detect(Part(at, low, to)) :
            k.type = e.type /\ k.started = e.started /\ R[k] = e.ended
  BY RanEvents
<1> QED BY <1>1, <1>2, <1>3

(* A window that reaches the present leaves closed events as they are.       *)
LEMMA RanSparesClosed ==
    ASSUME NEW at, NEW n \in Nat, DOMAIN at \in SUBSET (1 .. n), NEW low \in Int,
           NEW ev, ClosedIn(at, n, ev), NEW k \in DOMAIN ev, ev[k] # Ongoing
    PROVE  k \in DOMAIN Ran(at, low, n, ev) /\ Ran(at, low, n, ev)[k] = ev[k]
<1> DEFINE R == Ran(at, low, n, ev)
           C == Considered(k.type, at)
           B == BadTimes(k.type, at)
<1>1. k \in DOMAIN R
  BY RanDomain
<1>2. ASSUME NEW e \in Detect(Part(at, low, n)), k.type = e.type,
             k.started = e.started, R[k] = e.ended
      PROVE  R[k] = ev[k]
  <2>1. Lasts(C, B, n, k.started, R[k])
    <3>1. n \in 0 .. n
      OBVIOUS
    <3> QED BY <1>2, <3>1, PartLasts
  <2>2. Ends(C, B, n, k.started, ev[k])
    BY DEF ClosedIn
  <2>3. C \in SUBSET (Nat \ {0}) /\ B \in SUBSET C
    BY ConsideredTimes
  <2> HIDE DEF C, B, R
  <2> QED BY <2>1, <2>2, <2>3, EndsIsLast
<1>3. \/ k \in DOMAIN ev /\ R[k] = ev[k]
      \/ \E e \in Detect(Part(at, low, n)) :
            k.type = e.type /\ k.started = e.started /\ R[k] = e.ended
  BY <1>1, RanEvents
<1> QED BY <1>1, <1>2, <1>3

(* A found event whose start has a break-free way to the stretch reaches it. *)
LEMMA FoundReaches ==
    ASSUME NEW at, NEW n \in Nat, DOMAIN at \in SUBSET (1 .. n), NEW low \in Int,
           NEW to \in 0 .. n, NEW ev,
           NEW type \in {"outage", "gateway_up_internet_down"}, NEW t \in Nat,
           \A x \in t .. t + Enter - 1 : x \in BadTimes(type, at),
           NEW e \in Detect(Part(at, low, to)), e.type \in Diagnoses(type), e.started <= t,
           ~BrokenUp(Considered(type, at), BadTimes(type, at), e.started, t)
    PROVE  e.ended = Ongoing \/ t + Enter - 1 <= e.ended
<1> DEFINE C == Considered(type, at)
           B == BadTimes(type, at)
<1>1. Considered(e.type, at) = C /\ BadTimes(e.type, at) = B
  BY TypesAlike
<1>2. Lasts(C, B, to, e.started, e.ended)
  <2>1. Lasts(Considered(e.type, at), BadTimes(e.type, at), to, e.started, e.ended)
    BY PartLasts
  <2> QED BY <1>1, <2>1
<1>3. C \in SUBSET Nat /\ B \in SUBSET C /\ to \in Nat
  <2>1. C \in SUBSET (1 .. n) /\ B \in SUBSET C
    BY ConsideredTimes
  <2> QED BY <2>1
<1>4. \A x \in t .. t + Enter - 1 : x \in B
  OBVIOUS
<1> HIDE DEF C, B
<1> QED BY <1>2, <1>3, <1>4, LastsOverStretch DEF C, B

LEMMA RanKeepsReach ==
    ASSUME NEW at, NEW n \in Nat, DOMAIN at \in SUBSET (1 .. n), NEW low \in Int,
           NEW to \in 0 .. n, NEW ev,
           NEW type \in {"outage", "gateway_up_internet_down"}, NEW t \in Nat,
           \A x \in t .. t + Enter - 1 : x \in BadTimes(type, at),
           NEW k \in DOMAIN Ran(at, low, to, ev),
           k.type \in Diagnoses(type), k.started <= t,
           ~BrokenUp(Considered(type, at), BadTimes(type, at), k.started, t),
           k \in DOMAIN ev => Reaches(at, ev, k, type, t)
    PROVE  Reaches(at, Ran(at, low, to, ev), k, type, t)
<1> DEFINE R == Ran(at, low, to, ev)
<1>1. CASE k \in DOMAIN ev /\ R[k] = ev[k]
  BY <1>1 DEF Reaches
<1>2. ASSUME NEW e \in Detect(Part(at, low, to)), k.type = e.type,
             k.started = e.started, R[k] = e.ended
      PROVE  Reaches(at, R, k, type, t)
  <2>1. e.ended = Ongoing \/ t + Enter - 1 <= e.ended
    BY <1>2, FoundReaches
  <2> QED BY <1>2, <2>1 DEF Reaches
<1>3. \/ k \in DOMAIN ev /\ R[k] = ev[k]
      \/ \E e \in Detect(Part(at, low, to)) :
            k.type = e.type /\ k.started = e.started /\ R[k] = e.ended
  BY RanEvents
<1> QED BY <1>1, <1>2, <1>3

LEMMA RanKeepsCovered ==
    ASSUME NEW at, NEW n \in Nat, DOMAIN at \in SUBSET (1 .. n), NEW low \in Int,
           NEW to \in 0 .. n, NEW ev, NEW w \in Nat, CoveredIn(at, w, ev),
           NEW v \in Nat, v = w \/ (v = to /\ low <= w + 1 - Enter)
    PROVE  CoveredIn(at, v, Ran(at, low, to, ev))
<1> DEFINE R == Ran(at, low, to, ev)
<1>0. Enter \in Nat \ {0}
  BY RulesConstants DEF RulesConstants
<1> SUFFICES ASSUME NEW type \in {"outage", "gateway_up_internet_down"}, NEW t \in Nat,
                    t + Enter - 1 < v, \A x \in t .. t + Enter - 1 : x \in BadTimes(type, at)
             PROVE  \E k \in DOMAIN R : Reaches(at, R, k, type, t)
  BY DEF CoveredIn
<1>1. CASE t + Enter - 1 < w
  <2>1. PICK k \in DOMAIN ev : Reaches(at, ev, k, type, t)
    BY <1>1, Zenon DEF CoveredIn
  <2>2. k \in DOMAIN R
    BY RanDomain
  <2>3. Reaches(at, R, k, type, t)
    <3>1. k.type \in Diagnoses(type) /\ k.started <= t
          /\ ~BrokenUp(Considered(type, at), BadTimes(type, at), k.started, t)
      BY <2>1 DEF Reaches
    <3> QED BY <2>1, <2>2, <3>1, RanKeepsReach
  <2> QED BY <2>2, <2>3
<1>2. CASE ~(t + Enter - 1 < w)
  <2>1. v = to /\ low <= t /\ t + Enter - 1 <= to
    BY <1>0, <1>2
  <2>2. PICK e \in Detect(Part(at, low, to)) :
           /\ e.type \in Diagnoses(type) /\ e.started <= t
           /\ ~BrokenUp(Considered(type, at), BadTimes(type, at), e.started, t)
    BY <2>1, PartFindsStretch
  <2> DEFINE k == Key(e)
  <2>3. k \in DOMAIN R /\ k.type = e.type /\ k.started = e.started
    BY RanDomain
  <2> HIDE DEF k
  <2>4. PICK f \in Detect(Part(at, low, to)) :
           f.type = e.type /\ f.started = e.started /\ R[k] = f.ended
    BY RanDomain DEF k
  <2>5. f.ended = Ongoing \/ t + Enter - 1 <= f.ended
    BY <2>2, <2>4, FoundReaches
  <2>6. Reaches(at, R, k, type, t)
    BY <2>2, <2>3, <2>4, <2>5 DEF Reaches
  <2> QED BY <2>3, <2>6
<1> QED BY <1>1, <1>2

-----------------------------------------------------------------------------
(* The invariant and its steps                                               *)
Inv ==
    /\ TypeOK
    /\ EarnedIn(stored, events)
    /\ CoveredIn(stored, watermark, events)
    /\ late = {} => ClosedIn(stored, now, events)

LEMMA TypeFacts ==
    ASSUME TypeOK
    PROVE  /\ now \in Nat /\ now <= MaxTime /\ watermark \in Nat /\ watermark <= now
           /\ DOMAIN stored \in SUBSET (1 .. now)
           /\ EventsIn(events, now)
<1>1. now \in Nat /\ now <= MaxTime /\ watermark \in Nat /\ watermark <= now
  BY EventsConstants DEF TypeOK, EventsConstants
<1>2. EventsIn(events, now)
  <2> SUFFICES ASSUME NEW k \in DOMAIN events
               PROVE  /\ k \in [type : Types, started : 1 .. now]
                      /\ events[k] = Ongoing \/ events[k] \in k.started .. now
    BY DEF EventsIn
  <2>1. k \in [type : Types, started : 1 .. MaxTime] /\ k.started <= now
    BY DEF TypeOK, Keys, Times
  <2> QED BY <1>1, <2>1 DEF TypeOK
<1> QED BY <1>1, <1>2 DEF TypeOK

LEMMA EventsTyped ==
    ASSUME NEW ev, NEW n \in Nat, n <= MaxTime, EventsIn(ev, n)
    PROVE  /\ DOMAIN ev \subseteq Keys
           /\ \A k \in DOMAIN ev : k.started <= n /\ (ev[k] = Ongoing \/ ev[k] \in k.started .. n)
<1>0. MaxTime \in Nat
  BY EventsConstants DEF EventsConstants
<1>1. \A k \in DOMAIN ev : k \in [type : Types, started : 1 .. n]
  BY DEF EventsIn
<1> QED BY <1>0, <1>1 DEF EventsIn, Keys, Times

LEMMA LaterTyped ==
    ASSUME TypeOK, now < MaxTime
    PROVE  \A k \in DOMAIN events :
              k.started <= now + 1 /\ (events[k] = Ongoing \/ events[k] \in k.started .. now + 1)
<1>1. now \in Nat /\ EventsIn(events, now)
  BY TypeFacts
<1> SUFFICES ASSUME NEW k \in DOMAIN events
             PROVE  k.started <= now + 1 /\
                    (events[k] = Ongoing \/ events[k] \in k.started .. now + 1)
  OBVIOUS
<1>2. k.started \in 1 .. now /\ (events[k] = Ongoing \/ events[k] \in k.started .. now)
  BY <1>1 DEF EventsIn
<1> QED BY <1>1, <1>2

(* A window that is run, by a pass or a rerun.                               *)
LEMMA RunProbeRan ==
    ASSUME NEW from \in Int, NEW to, RunProbe(from, to)
    PROVE  \E low \in Int : low = from - Lookback /\ events' = Ran(stored, low, to, events)
<1>1. Window(from, to) = Part(stored, from - Lookback, to)
  BY DEF Window, Part
<1>2. events' = Upserted(events, Detect(Window(from, to)))
  BY DEF RunProbe, Upsert, Upserted
<1>3. from - Lookback \in Int
  BY EventsConstants DEF EventsConstants
<1> QED BY <1>1, <1>2, <1>3 DEF Ran

LEMMA StoreIsWith ==
    ASSUME NEW t, NEW reading, Store(t, reading)
    PROVE  stored' = With(stored, t, reading)
BY DEF Store, With

LEMMA InvInit == Init => Inv
<1> SUFFICES ASSUME Init PROVE Inv
  OBVIOUS
<1>1. /\ DOMAIN stored = {} /\ DOMAIN events = {}
      /\ now = 0 /\ watermark = 0 /\ late = {} /\ reruns = 0
  BY DEF Init
<1>2. TypeOK
  BY <1>1, EventsConstants DEF TypeOK, EventsConstants
<1>3. EarnedIn(stored, events) /\ ClosedIn(stored, now, events)
  BY <1>1 DEF EarnedIn, ClosedIn
<1>4. CoveredIn(stored, watermark, events)
  <2>1. \A type, t : t \notin BadTimes(type, stored)
    BY <1>1 DEF BadTimes
  <2>2. \A t \in Nat : t \in t .. t + Enter - 1
    BY RulesConstants DEF RulesConstants
  <2> QED BY <2>1, <2>2 DEF CoveredIn
<1> QED BY <1>2, <1>3, <1>4 DEF Inv

LEMMA RunKeepsInv ==
    ASSUME Inv, NEW from \in Int, NEW to \in 0 .. now, RunProbe(from, to)
    PROVE  /\ EventsIn(events', now)
           /\ EarnedIn(stored, events')
           /\ CoveredIn(stored, watermark, events')
           /\ (to = now /\ from = watermark + 1) => CoveredIn(stored, now, events')
           /\ late = {} => ClosedIn(stored, now, events')
<1>1. /\ now \in Nat /\ watermark \in Nat /\ DOMAIN stored \in SUBSET (1 .. now)
      /\ EventsIn(events, now)
  BY TypeFacts DEF Inv
<1>2. PICK low \in Int : low = from - Lookback /\ events' = Ran(stored, low, to, events)
  BY RunProbeRan
<1>4. (to = now /\ from = watermark + 1) => (now = to /\ low <= watermark + 1 - Enter)
  BY <1>1, <1>2, EventsConstants, RulesConstants DEF EventsConstants, RulesConstants
<1>5. EventsIn(Ran(stored, low, to, events), now)
  BY <1>1, RanKeepsEvents
<1>6. EarnedIn(stored, Ran(stored, low, to, events))
  BY <1>1, RanKeepsEarned DEF Inv
<1>7. CoveredIn(stored, watermark, Ran(stored, low, to, events))
  BY <1>1, RanKeepsCovered DEF Inv
<1>8. (to = now /\ from = watermark + 1) => CoveredIn(stored, now, Ran(stored, low, to, events))
  BY <1>1, <1>4, RanKeepsCovered DEF Inv
<1>9. late = {} => ClosedIn(stored, now, Ran(stored, low, to, events))
  BY <1>1, RanKeepsClosed DEF Inv
<1> QED BY <1>2, <1>5, <1>6, <1>7, <1>8, <1>9

LEMMA InvNext == Inv /\ [Next]_vars => Inv'
<1> SUFFICES ASSUME Inv, [Next]_vars PROVE Inv'
  OBVIOUS
<1>0. /\ now \in Nat /\ now <= MaxTime /\ watermark \in Nat /\ watermark <= now
      /\ DOMAIN stored \in SUBSET (1 .. now) /\ EventsIn(events, now) /\ TypeOK
  BY TypeFacts DEF Inv
<1>1. ASSUME NEW reading \in Readings, Measure(reading)
      PROVE  Inv'
  <2>1. /\ now < MaxTime /\ now' = now + 1 /\ stored' = With(stored, now + 1, reading)
        /\ UNCHANGED <<watermark, events, late, reruns>>
    BY <1>1, StoreIsWith DEF Measure
  <2>2. now + 1 \notin DOMAIN stored /\ now + 1 \in 1 .. now + 1 /\ now + 1 \in Nat
    BY <1>0
  <2>3. TypeOK'
    <3>1. now + 1 \in 0 .. MaxTime /\ watermark \in 0 .. now + 1 /\ late \subseteq 1 .. now + 1
      BY <1>0, <2>1, EventsConstants DEF TypeOK, EventsConstants
    <3>2. \A k \in DOMAIN events : k.started <= now + 1 /\
             (events[k] = Ongoing \/ events[k] \in k.started .. now + 1)
      BY <1>0, <2>1, LaterTyped
    <3>3. DOMAIN stored' \subseteq 1 .. now + 1 /\ \A t \in DOMAIN stored' : stored'[t] \in Readings
      BY <1>0, <2>1 DEF TypeOK, With
    <3> QED BY <1>0, <2>1, <3>1, <3>2, <3>3 DEF TypeOK
  <2>4. EarnedIn(With(stored, now + 1, reading), events)
    BY <1>0, <2>2, StoreKeepsEarned DEF Inv
  <2>5. CoveredIn(With(stored, now + 1, reading), watermark, events)
    <3>1. watermark <= watermark /\ watermark <= now + 1
      BY <1>0
    <3> QED BY <1>0, <2>2, <3>1, StoreKeepsCovered DEF Inv
  <2>6. late = {} => ClosedIn(With(stored, now + 1, reading), now + 1, events)
    BY <1>0, StoreKeepsClosed DEF Inv
  <2> QED BY <2>1, <2>3, <2>4, <2>5, <2>6 DEF Inv
<1>2. CASE Withhold
  <2>1. /\ now < MaxTime /\ now' = now + 1 /\ late' = late \cup {now + 1}
        /\ UNCHANGED <<stored, watermark, events, reruns>>
    BY <1>2 DEF Withhold
  <2>2. TypeOK'
    <3>1. /\ now + 1 \in 0 .. MaxTime /\ watermark \in 0 .. now + 1
          /\ late \cup {now + 1} \subseteq 1 .. now + 1 /\ DOMAIN stored \subseteq 1 .. now + 1
      <4>1. late \subseteq 1 .. now /\ MaxTime \in Nat /\ DOMAIN stored \subseteq 1 .. now
        BY <1>0, EventsConstants DEF TypeOK, EventsConstants
      <4>2. \A x \in 1 .. now : x \in 1 .. now + 1
        BY <1>0
      <4> QED BY <1>0, <2>1, <4>1, <4>2
    <3>2. \A k \in DOMAIN events : k.started <= now + 1 /\
             (events[k] = Ongoing \/ events[k] \in k.started .. now + 1)
      BY <1>0, <2>1, LaterTyped
    <3> QED BY <1>0, <2>1, <3>1, <3>2 DEF TypeOK
  <2>3. late' # {}
    BY <2>1
  <2> QED BY <2>1, <2>2, <2>3 DEF Inv
<1>3. ASSUME NEW t \in late, NEW reading \in Readings, Backfill(t, reading)
      PROVE  Inv'
  <2>1. /\ t \notin DOMAIN stored /\ stored' = With(stored, t, reading)
        /\ watermark' = (IF t < watermark THEN t - 1 ELSE watermark)
        /\ UNCHANGED <<now, events, late, reruns>>
    BY <1>3, StoreIsWith DEF Backfill
  <2>2. t \in 1 .. now /\ t \in 1 .. now + 1 /\ late' # {}
    BY <1>0, <2>1 DEF TypeOK
  <2>3. watermark' \in Nat /\ watermark' <= watermark /\ watermark' <= t
    BY <1>0, <2>1, <2>2
  <2>4. TypeOK'
    BY <1>0, <1>3, <2>1, <2>2, <2>3 DEF TypeOK, With
  <2>5. EarnedIn(With(stored, t, reading), events)
    BY <1>0, <2>1, <2>2, StoreKeepsEarned DEF Inv
  <2>6. CoveredIn(With(stored, t, reading), watermark', events)
    <3>1. ASSUME NEW v \in Nat, v <= watermark, v <= t
          PROVE  CoveredIn(With(stored, t, reading), v, events)
      BY <1>0, <2>1, <2>2, <3>1, StoreKeepsCovered DEF Inv
    <3> QED BY <2>3, <3>1
  <2> QED BY <2>1, <2>2, <2>4, <2>5, <2>6 DEF Inv
<1>4. CASE Pass
  <2>1. /\ RunProbe(watermark + 1, now) /\ watermark' = now
        /\ UNCHANGED <<now, stored, late, reruns>>
    BY <1>4 DEF Pass
  <2>2. /\ EventsIn(events', now) /\ EarnedIn(stored, events')
        /\ CoveredIn(stored, now, events')
        /\ late = {} => ClosedIn(stored, now, events')
    <3>1. watermark + 1 \in Int /\ now \in 0 .. now
      BY <1>0
    <3> QED BY <2>1, <3>1, RunKeepsInv
  <2>3. DOMAIN events' \subseteq Keys /\ \A k \in DOMAIN events' :
           k.started <= now /\ (events'[k] = Ongoing \/ events'[k] \in k.started .. now)
    BY <1>0, <2>2, EventsTyped
  <2>4. TypeOK'
    BY <1>0, <2>1, <2>3 DEF TypeOK
  <2> QED BY <2>1, <2>2, <2>4 DEF Inv
<1>5. ASSUME NEW to \in 1 .. now, NEW from \in {1} \cup (Lookback + 2 .. to), Rerun(from, to)
      PROVE  Inv'
  <2>1. /\ RunProbe(from, to) /\ reruns < MaxReruns /\ reruns' = reruns + 1
        /\ UNCHANGED <<now, stored, watermark, late>>
    BY <1>5 DEF Rerun
  <2>2. /\ EventsIn(events', now) /\ EarnedIn(stored, events')
        /\ CoveredIn(stored, watermark, events')
        /\ late = {} => ClosedIn(stored, now, events')
    <3>1. from \in Int /\ to \in 0 .. now
      BY <1>0, EventsConstants DEF EventsConstants
    <3> QED BY <2>1, <3>1, RunKeepsInv
  <2>3. DOMAIN events' \subseteq Keys /\ \A k \in DOMAIN events' :
           k.started <= now /\ (events'[k] = Ongoing \/ events'[k] \in k.started .. now)
    BY <1>0, <2>2, EventsTyped
  <2>4. reruns' \in 0 .. MaxReruns
    BY <1>0, <2>1, EventsConstants DEF TypeOK, EventsConstants
  <2>5. TypeOK'
    BY <1>0, <2>1, <2>3, <2>4 DEF TypeOK
  <2> QED BY <2>1, <2>2, <2>5 DEF Inv
<1>6. CASE UNCHANGED vars
  BY <1>6 DEF vars, Inv, TypeOK
<1> QED BY <1>1, <1>2, <1>3, <1>4, <1>5, <1>6 DEF Next

(* The invariant holds, for any thresholds, lookback and order of arrival.   *)
THEOREM InvHolds == Spec => []Inv
BY InvInit, InvNext, PTL DEF Spec

-----------------------------------------------------------------------------
(* The clock, the samples, the watermark and the events fit one another.     *)
THEOREM TypeCorrect == Spec => []TypeOK
<1>1. Inv => TypeOK
  BY DEF Inv
<1> QED BY <1>1, InvHolds, PTL

(* On every history the walk finds the spans of the docstring.               *)
THEOREM SpansCorrect == Spec => []SpansAreRight
<1>1. TypeOK => SpansAreRight
  <2> SUFFICES ASSUME TypeOK PROVE SpansAreRight
    OBVIOUS
  <2> DEFINE history == [to |-> now, at |-> stored]
  <2>1. now \in Nat
    BY TypeFacts
  <2>2. \A considered, bad : PointsOf(now, considered, bad) \in PointSeqs
    <3> SUFFICES ASSUME NEW considered, NEW bad
                 PROVE  PointsOf(now, considered, bad) \in PointSeqs
      OBVIOUS
    <3>1. PointsAre(PointsOf(now, considered, bad), now, considered, bad)
      BY <2>1, PointsOfAre
    <3> QED BY <3>1 DEF PointsAre
  <2>3. history.to = now
    OBVIOUS
  <2>4. OutagePoints(history) \in PointSeqs /\ UpstreamPoints(history) \in PointSeqs
    <3> HIDE DEF history
    <3> QED BY <2>2, <2>3 DEF OutagePoints, UpstreamPoints
  <2> HIDE DEF history
  <2>5. /\ FindSpans(OutagePoints(history)) = SpansOf(OutagePoints(history))
        /\ FindSpans(UpstreamPoints(history)) = SpansOf(UpstreamPoints(history))
    BY <2>4, FindSpansCorrect
  <2> QED BY <2>5 DEF SpansAreRight, history
<1> QED BY <1>1, TypeCorrect, PTL

(* Every event starts and ends at bad seconds and has Enter of them.         *)
THEOREM EventsEarned == Spec => []EventsAreEarned
<1>1. Inv => EventsAreEarned
  <2> SUFFICES ASSUME Inv, NEW k \in DOMAIN events
               PROVE  LET bad == {t \in DOMAIN stored : Holds(k.type, stored[t])}
                      IN  /\ k.started \in bad
                          /\ events[k] = Ongoing \/ events[k] \in bad
                          /\ Cardinality({t \in bad : Covers(k, t)}) >= Enter
    BY DEF EventsAreEarned
  <2> DEFINE bad == BadTimes(k.type, stored)
             S == Lived(bad, k.started, events[k])
             T == {t \in bad : Covers(k, t)}
  <2>1. /\ k.started \in bad /\ (events[k] = Ongoing \/ events[k] \in bad)
        /\ Enter <= Cardinality(S)
    BY DEF Inv, EarnedIn
  <2>2. S = T
    BY DEF Covers, Lived
  <2>3. Cardinality(T) >= Enter
    <3>1. IsFiniteSet(S)
      <4>1. now \in Nat /\ DOMAIN stored \in SUBSET (1 .. now)
        BY TypeFacts DEF Inv
      <4>2. S \subseteq 1 .. now
        BY <4>1 DEF BadTimes, Lived
      <4>3. IsFiniteSet(1 .. now)
        <5>1. 1 \in Int /\ now \in Int
          BY <4>1
        <5> QED BY <5>1, FS_Interval
      <4> HIDE DEF S
      <4> QED BY <4>2, <4>3, FS_Subset
    <3>2. Cardinality(S) \in Nat
      BY <3>1, FS_CardinalityType
    <3> QED BY <2>1, <2>2, <3>2, RulesConstants DEF RulesConstants
  <2> QED BY <2>1, <2>3 DEF BadTimes
<1> QED BY <1>1, InvHolds, PTL

(* No stretch the watermark has passed is missing from the events.           *)
THEOREM NothingIsMissed == Spec => []StretchesCovered
<1>1. Inv => StretchesCovered
  <2> SUFFICES ASSUME Inv, NEW type \in {"outage", "gateway_up_internet_down"},
                      NEW t \in 1 .. watermark, t + Enter - 1 < watermark,
                      \A u \in t .. t + Enter - 1 : u \in DOMAIN stored /\ Holds(type, stored[u])
               PROVE  \E k \in DOMAIN events :
                         k.type \in Diagnoses(type) /\ \A u \in t .. t + Enter - 1 : Covers(k, u)
    BY DEF StretchesCovered
  <2>1. t \in Nat /\ \A u \in t .. t + Enter - 1 : u \in BadTimes(type, stored)
    BY TypeFacts DEF Inv, BadTimes
  <2>2. PICK k \in DOMAIN events : Reaches(stored, events, k, type, t)
    BY <2>1, Zenon DEF Inv, CoveredIn
  <2>3. /\ k.type \in Diagnoses(type) /\ k.started <= t
        /\ events[k] = Ongoing \/ t + Enter - 1 <= events[k]
    BY <2>2 DEF Reaches
  <2>4. k.started \in Int /\ (events[k] = Ongoing \/ events[k] \in Int) /\ Enter \in Nat
    <3>1. EventsIn(events, now) /\ now \in Nat
      BY TypeFacts DEF Inv
    <3> QED BY <3>1, RulesConstants DEF EventsIn, RulesConstants
  <2>5. \A u \in t .. t + Enter - 1 : Covers(k, u)
    BY <2>1, <2>3, <2>4 DEF Covers
  <2> QED BY <2>3, <2>5
<1> QED BY <1>1, InvHolds, PTL

(* A live pass leaves what is closed alone while nothing arrives late.       *)
THEOREM ClosedEventsStay == Spec => ClosedStaysClosed
<1>1. Inv /\ [Next]_vars =>
         [late = {} /\ reruns' = reruns =>
             \A k \in DOMAIN events : events[k] # Ongoing => events'[k] = events[k]]_vars
  <2> SUFFICES ASSUME Inv, Next, late = {}, reruns' = reruns,
                      NEW k \in DOMAIN events, events[k] # Ongoing
               PROVE  events'[k] = events[k]
    BY DEF vars
  <2>1. CASE \E reading \in Readings : Measure(reading)
    BY <2>1 DEF Measure
  <2>2. CASE Withhold
    BY <2>2 DEF Withhold
  <2>3. ASSUME NEW t \in late, NEW reading \in Readings, Backfill(t, reading)
        PROVE  FALSE
    BY <2>3
  <2>4. CASE Pass
    <3>1. now \in Nat /\ watermark \in Nat /\ DOMAIN stored \in SUBSET (1 .. now)
      BY TypeFacts DEF Inv
    <3>2. RunProbe(watermark + 1, now) /\ watermark + 1 \in Int
      BY <2>4, <3>1 DEF Pass
    <3>3. PICK low \in Int : events' = Ran(stored, low, now, events)
      BY <3>2, RunProbeRan
    <3>4. ClosedIn(stored, now, events)
      BY DEF Inv
    <3>5. Ran(stored, low, now, events)[k] = events[k]
      BY <3>1, <3>4, RanSparesClosed
    <3> QED BY <3>3, <3>5
  <2>5. ASSUME NEW to, NEW from, Rerun(from, to)
        PROVE  FALSE
    <3>1. reruns' = reruns + 1 /\ reruns \in Nat
      BY <2>5 DEF Rerun, Inv, TypeOK
    <3> QED BY <3>1
  <2> QED BY <2>1, <2>2, <2>3, <2>4, <2>5 DEF Next
<1> QED BY <1>1, InvHolds, PTL DEF Spec, ClosedStaysClosed
==================================================================================
