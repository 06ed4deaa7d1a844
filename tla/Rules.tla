---------------------------------- MODULE Rules ----------------------------------
(***************************************************************************)
(* What the detection rules find in one probe's window, as functions of    *)
(* the window: the hysteresis walk all rules share (detect/hysteresis.py)  *)
(* and the two rules whose events mean that the probe went dark            *)
(* (detect/rules/outage.py, detect/rules/gateway_up_internet_down.py).     *)
(*                                                                         *)
(* A window is [to, at]: at maps each time that has samples to a reading,  *)
(* and a reading maps each target sampled then to whether it answered.     *)
(* Severities, confidences and evidence are left out.                      *)
(***************************************************************************)
EXTENDS Integers, SequencesExt

CONSTANTS
    Enter, Exit,   \* _ENTER and _EXIT: confirmations to open and close a span
    Anchors        \* the external targets of the ICMP collector

ASSUME RulesConstants == Enter \in Nat \ {0} /\ Exit \in Nat \ {0} /\ Anchors # {}

Icmp == {"gateway"} \cup Anchors
Ongoing == 0       \* ended_ts None; times start at 1

-----------------------------------------------------------------------------
(* find_spans                                                                *)

\* points is the ascending sequence of [ts, bad].  A run is a maximal stretch of
\* equal points, here the interval <<i, j>> of their indices.
RunBegins(points, i) == i = 1 \/ points[i - 1].bad # points[i].bad

RunEnds(points, j) == j = Len(points) \/ points[j + 1].bad # points[j].bad

RunTo(points, j) ==
    <<CHOOSE i \in 1 .. j :
          RunBegins(points, i) /\ \A k \in i + 1 .. j : ~RunBegins(points, k), j>>

\* Mutant: one confirmation less opens a span.
OpensEarly(bad, length) == bad /\ length + 1 >= Enter

Opens(bad, length) == bad /\ length >= Enter

\* Mutant: any good run closes the span.
ClosesAtOnce(bad, length) == ~bad

Closes(bad, length) == ~bad /\ length >= Exit

\* The walk between two runs: the spans found, and the span that is open, if any.
\* Runs too short to open or close leave the walk as it is.
NoSpan == [started |-> Ongoing, ended |-> Ongoing, count |-> 0]

Walk(points, walk, run) ==
    LET length == run[2] - run[1] + 1
        bad == points[run[1]].bad
        last == points[run[2]].ts
    IN  CASE walk.open = NoSpan /\ Opens(bad, length) ->
               [walk EXCEPT !.open = [started |-> points[run[1]].ts, ended |-> last,
                                      count |-> length]]
          [] walk.open # NoSpan /\ bad ->
               [walk EXCEPT !.open = [started |-> @.started, ended |-> last,
                                      count |-> @.count + length]]
          [] walk.open # NoSpan /\ Closes(bad, length) ->
               [open |-> NoSpan, spans |-> walk.spans \cup {walk.open}]
          [] OTHER -> walk

Walked(points) ==
    LET walk[i \in 0 .. Len(points)] ==
            IF i = 0 THEN [open |-> NoSpan, spans |-> {}]
            ELSE IF RunEnds(points, i) THEN Walk(points, walk[i - 1], RunTo(points, i))
            ELSE walk[i - 1]
    IN  walk[Len(points)]

\* Mutant: a span that is open at the edge of the window is closed there.
FindSpansClosing(points) ==
    LET end == Walked(points)
    IN  end.spans \cup ({end.open} \ {NoSpan})

FindSpans(points) ==
    LET end == Walked(points)
    IN  end.spans \cup {[span EXCEPT !.ended = Ongoing] : span \in {end.open} \ {NoSpan}}

-----------------------------------------------------------------------------
(* The rules                                                                 *)

\* One point for each instant the rule considers, in order of time.
PointsOf(to, considered, bad) ==
    LET points[t \in 0 .. to] ==
            IF t = 0 THEN << >>
            ELSE points[t - 1] \o (IF t \in considered THEN <<[ts |-> t, bad |-> t \in bad]>>
                                                       ELSE << >>)
    IN  points[to]

SomePing(reading) == DOMAIN reading \cap Icmp # {}

\* Every ICMP target that reported at that instant failed.
AllDown(reading) == \A t \in DOMAIN reading \cap Icmp : ~reading[t]

OutagePoints(window) ==
    LET considered == {t \in DOMAIN window.at : SomePing(window.at[t])}
    IN  PointsOf(window.to, considered, {t \in considered : AllDown(window.at[t])})

OutageRule(window) ==
    {[type |-> "outage", started |-> s.started, ended |-> s.ended] :
        s \in FindSpans(OutagePoints(window))}

\* Only instants at which the gateway and some anchor reported are considered.
BothSides(reading) == "gateway" \in DOMAIN reading /\ DOMAIN reading \cap Anchors # {}

InternetDown(reading) ==
    reading["gateway"] /\ \A t \in DOMAIN reading \cap Anchors : ~reading[t]

UpstreamPoints(window) ==
    LET considered == {t \in DOMAIN window.at : BothSides(window.at[t])}
    IN  PointsOf(window.to, considered, {t \in considered : InternetDown(window.at[t])})

\* Some HTTP check in the span, or up to the window's edge, brought bytes.
HttpSucceededDuring(window, span) ==
    \E ts \in DOMAIN window.at :
        /\ span.started <= ts
        /\ ts <= IF span.ended = Ongoing THEN window.to ELSE span.ended
        /\ "http" \in DOMAIN window.at[ts]
        /\ window.at[ts]["http"]

GatewayUpInternetDownRule(window) ==
    {[type |-> IF HttpSucceededDuring(window, s) THEN "icmp_filtered"
               ELSE "gateway_up_internet_down",
      started |-> s.started, ended |-> s.ended] : s \in FindSpans(UpstreamPoints(window))}

Detect(window) == OutageRule(window) \cup GatewayUpInternetDownRule(window)

-----------------------------------------------------------------------------
(* A reference for find_spans, from the words of its docstring and without   *)
(* runs or a walk.                                                           *)

\* Enter bad points in a row, and Exit good ones.
Confirmed(points, i) ==
    \A k \in i .. i + Enter - 1 : k \in DOMAIN points /\ points[k].bad

Recovered(points, i) ==
    \A k \in i .. i + Exit - 1 : k \in DOMAIN points /\ ~points[k].bad

\* A span starts at the first bad point of those that confirm it, unless one that
\* was confirmed earlier still lasts.
SpanStarts(points, a) ==
    /\ Confirmed(points, a)
    /\ a = 1 \/ ~points[a - 1].bad
    /\ \A i \in 1 .. a - Enter : Confirmed(points, i) =>
          \E j \in i .. a - 1 : Recovered(points, j)

Recoveries(points, a) == {j \in a .. Len(points) : Recovered(points, j)}

\* Its bad points: those before the points that close it.
SpanPoints(points, a) ==
    {i \in a .. Len(points) : points[i].bad /\ \A j \in Recoveries(points, a) : i < j}

SpanAt(points, a) ==
    [started |-> points[a].ts,
     ended |-> IF Recoveries(points, a) = {} THEN Ongoing
               ELSE points[Max(SpanPoints(points, a))].ts,
     count |-> Cardinality(SpanPoints(points, a))]

SpansOf(points) == {SpanAt(points, a) : a \in {i \in DOMAIN points : SpanStarts(points, i)}}
=============================================================================
