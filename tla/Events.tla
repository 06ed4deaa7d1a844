--------------------------------- MODULE Events ----------------------------------
(***************************************************************************)
(* Which events detection leaves in the database for one probe             *)
(* (netdbg_server/detect/engine.py): windows that move with the watermark  *)
(* and look back a little, rules run over each of them, and their findings *)
(* upserted under the key (type, start).                                   *)
(*                                                                         *)
(* A pass is one step here, and so are an ingest and its rewind; how they  *)
(* interleave is module Detection's subject.  Time advances second by      *)
(* second, and each second's reading is stored at once or stays on the     *)
(* probe until it is backfilled.                                           *)
(***************************************************************************)
EXTENDS Rules

CONSTANTS
    Readings,      \* what the targets may answer in one second
    Lookback,      \* _LOOKBACK_MS
    MaxTime,       \* bound: seconds of history
    MaxLate,       \* bound: seconds whose reading is not stored at once
    MaxReruns      \* bound: reruns asked for

ASSUME EventsConstants ==
    /\ Lookback \in Nat
    /\ Enter <= Lookback
    /\ MaxTime \in Nat /\ MaxLate \in Nat /\ MaxReruns \in Nat

VARIABLES
    now,           \* the server's clock
    stored,        \* samples: time -> reading
    watermark,     \* detected_through_ts, 0 while nothing was detected
    events,        \* [type, started] -> ended
    late,          \* history: seconds that were not stored at once
    reruns         \* reruns so far

vars == <<now, stored, watermark, events, late, reruns>>

Types == {"outage", "gateway_up_internet_down", "icmp_filtered"}
Times == 1 .. MaxTime
Keys == [type : Types, started : Times]

-----------------------------------------------------------------------------
Store(t, reading) ==
    stored' = [u \in DOMAIN stored \cup {t} |-> IF u = t THEN reading ELSE stored[u]]

\* A second passes and its reading reaches the server.
Measure(reading) ==
    /\ now < MaxTime
    /\ now' = now + 1
    /\ Store(now + 1, reading)
    /\ UNCHANGED <<watermark, events, late, reruns>>

\* A second passes and its reading, if any, stays in the spool.
Withhold ==
    /\ now < MaxTime
    /\ Cardinality(late) < MaxLate
    /\ now' = now + 1
    /\ late' = late \cup {now + 1}
    /\ UNCHANGED <<stored, watermark, events, reruns>>

\* Mutant: the watermark stays where it is.
BackfillNoRewind(t, reading) ==
    /\ t \in late \ DOMAIN stored
    /\ Store(t, reading)
    /\ UNCHANGED <<now, watermark, events, late, reruns>>

\* ingest stores the late batch, and rewind_for_backfill makes room for it.
Backfill(t, reading) ==
    /\ t \in late \ DOMAIN stored
    /\ Store(t, reading)
    /\ watermark' = IF t < watermark THEN t - 1 ELSE watermark
    /\ UNCHANGED <<now, events, late, reruns>>

\* load_window, for a pass or a rerun that is asked to start at from.
Window(from, to) ==
    [to |-> to, at |-> [t \in {u \in DOMAIN stored : from - Lookback <= u /\ u <= to} |->
                            stored[t]]]

Key(e) == [type |-> e.type, started |-> e.started]

\* ON CONFLICT (probe_id, event_type, started_ts) DO UPDATE.
Upsert(found) ==
    events' = [k \in DOMAIN events \cup {Key(e) : e \in found} |->
                  IF \E e \in found : Key(e) = k
                  THEN (CHOOSE e \in found : Key(e) = k).ended
                  ELSE events[k]]

RunProbe(from, to) == \E found \in {Detect(Window(from, to))} : Upsert(found)

\* Mutant: the watermark is set past the end of the window.
PassBeyond ==
    /\ watermark < now
    /\ RunProbe(watermark + 1, now)
    /\ watermark' = now + 1
    /\ UNCHANGED <<now, stored, late, reruns>>

\* run_incremental.  The interval between passes is at least a second.
Pass ==
    /\ watermark < now
    /\ RunProbe(watermark + 1, now)
    /\ watermark' = now
    /\ UNCHANGED <<now, stored, late, reruns>>

\* POST /admin/detect/rerun.  Windows that begin before the first second differ
\* in nothing.
Rerun(from, to) ==
    /\ reruns < MaxReruns
    /\ reruns' = reruns + 1
    /\ RunProbe(from, to)
    /\ UNCHANGED <<now, stored, watermark, late>>

Init ==
    /\ now = 0
    /\ stored = << >>
    /\ watermark = 0
    /\ events = << >>
    /\ late = {}
    /\ reruns = 0

Next ==
    \/ \E reading \in Readings : Measure(reading)
    \/ Withhold
    \/ \E t \in late, reading \in Readings : Backfill(t, reading)
    \/ Pass
    \/ \E to \in 1 .. now : \E from \in {1} \cup (Lookback + 2 .. to) : Rerun(from, to)

Spec == Init /\ [][Next]_vars

-----------------------------------------------------------------------------
(* The clock, the samples, the watermark and the events fit one another: no  *)
(* event starts after the time, none ends before it started.                 *)
TypeOK ==
    /\ now \in 0 .. MaxTime
    /\ DOMAIN stored \subseteq 1 .. now /\ \A t \in DOMAIN stored : stored[t] \in Readings
    /\ watermark \in 0 .. now
    /\ DOMAIN events \subseteq Keys
    /\ \A k \in DOMAIN events :
          k.started <= now /\ (events[k] = Ongoing \/ events[k] \in k.started .. now)
    /\ late \subseteq 1 .. now
    /\ reruns \in 0 .. MaxReruns

(* The walk of find_spans (hysteresis.py) finds the spans its docstring      *)
(* describes: opened by Enter bad points and closed by Exit good ones in a   *)
(* row, from the first bad point to the last, short good runs swallowed.     *)
SpansAreRight ==
    LET history == [to |-> now, at |-> stored]
    IN  /\ FindSpans(OutagePoints(history)) = SpansOf(OutagePoints(history))
        /\ FindSpans(UpstreamPoints(history)) = SpansOf(UpstreamPoints(history))

\* The condition an event of this type is about.
Holds(type, reading) ==
    IF type = "outage" THEN SomePing(reading) /\ AllDown(reading)
                       ELSE BothSides(reading) /\ InternetDown(reading)

Covers(k, t) == k.started <= t /\ (events[k] = Ongoing \/ t <= events[k])

Diagnoses(type) == IF type = "outage" THEN {"outage"} ELSE Types \ {"outage"}

(* Whatever the windows, the lookback and the order of arrival, detection    *)
(* misses nothing it promises to see (engine.py:76): once the watermark has  *)
(* passed Enter seconds in a row in which a rule's condition held, they lie  *)
(* in an event of that rule.  Windows that cut a stretch in two, a backfill  *)
(* that completes one and reruns that rewrite its event must not undo this.  *)
StretchesCovered ==
    \A type \in {"outage", "gateway_up_internet_down"}, t \in 1 .. watermark :
        LET stretch == t .. t + Enter - 1
        IN  (/\ t + Enter - 1 < watermark
             /\ \A u \in stretch : u \in DOMAIN stored /\ Holds(type, stored[u])) =>
               \E k \in DOMAIN events :
                   k.type \in Diagnoses(type) /\ \A u \in stretch : Covers(k, u)

(* "A single failed sample must not open an event" (hysteresis.py:4), and an *)
(* event "ended at the last bad point" (hysteresis.py:90): every event       *)
(* starts, and if it ended ends, at a second that was bad, with at least     *)
(* Enter bad seconds in it.                                                  *)
EventsAreEarned ==
    \A k \in DOMAIN events :
        LET bad == {t \in DOMAIN stored : Holds(k.type, stored[t])}
        IN  /\ k.started \in bad
            /\ events[k] = Ongoing \/ events[k] \in bad
            /\ Cardinality({t \in bad : Covers(k, t)}) >= Enter

(* A live pass sees less of the past than the one before it and must not     *)
(* take back what that one concluded: while nothing arrives late, it leaves  *)
(* closed events as they are.                                                *)
ClosedStaysClosed ==
    [][late = {} /\ reruns' = reruns =>
          \A k \in DOMAIN events : events[k] # Ongoing => events'[k] = events[k]]_vars

(* "An ongoing event is updated in place" (rules/base.py:33): one outage is  *)
(* one event, so no two events of a type overlap.                            *)
OneEventPerOutage ==
    \A j, k \in DOMAIN events :
        j.type = k.type /\ j.started < k.started => ~Covers(j, k.started)
=============================================================================
