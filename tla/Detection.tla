------------------------------- MODULE Detection --------------------------------
(***************************************************************************)
(* The detection watermark: how far one probe's samples have been run      *)
(* through the rules, and how a batch that arrives late sends it back      *)
(* (netdbg_server/detect/engine.py and the end of api/ingest.py).          *)
(*                                                                         *)
(* The requests and the periodic pass run in threads of one process over   *)
(* one SQLite connection.  On it a statement sees what an open transaction *)
(* has written, and BEGIN fails at once while one is open.  The pass reads *)
(* the watermark, loads its window, writes its events and advances the     *)
(* watermark in separate steps; an ingest commits its batch and rewinds    *)
(* the watermark in separate transactions.                                 *)
(*                                                                         *)
(* What the rules find is left out: a sample is analyzed once a pass whose *)
(* window held it has written its events.  Times are milliseconds of the   *)
(* server's clock, which never steps back while the process runs           *)
(* (utc_now_ms never re-anchors); a sample's ts may be on either side.     *)
(***************************************************************************)
EXTENDS Integers, FiniteSets

CONSTANTS
    Handlers,      \* the server's request threads
    Lookback,      \* _LOOKBACK_MS: how far before its start a pass loads
    MaxTime,       \* bound: the server's clock and the samples' times
    MaxBatches,    \* bound: batches that reach the ingest transaction
    MaxFaults      \* bound: failures injected and reruns asked for

\* With no lookback at all, a late sample stamped exactly at the watermark would
\* neither rewind it (oldest_ts < detected_through_ts) nor be loaded.
ASSUME DetectionConstants ==
    /\ Handlers # {}
    /\ Lookback \in Nat \ {0}
    /\ MaxTime \in Nat \ {0}
    /\ MaxBatches \in Nat
    /\ MaxFaults \in Nat

VARIABLES
    now,         \* the server's clock
    watermark,   \* detected_through_ts, NoWatermark while there is no row
    committed,   \* samples of committed batches
    handler,     \* request thread -> its stage in ingest and its batch
    pass,        \* the detection thread's stage and local variables
    analyzed,    \* samples whose events a pass has written
    nextBatch,   \* number of the next batch
    confirmed,   \* history: batches answered 202
    raced,       \* history: batches that rewound while a pass was under way
    faults       \* failures and reruns so far

vars == <<now, watermark, committed, handler, pass, analyzed,
          nextBatch, confirmed, raced, faults>>

NoWatermark == -1
Times == 1 .. MaxTime
Sample == [ts : Times, batch : 1 .. MaxBatches, arrived : Times]

Idle == [stage |-> "idle", rows |-> {}]
NoPass == [stage |-> "idle", now |-> 0, from |-> 0, seen |-> {}]

Inserting == {h \in Handlers : handler[h].stage = "inserting"}
Visible == committed \cup UNION {handler[h].rows : h \in Inserting}

\* BEGIN IMMEDIATE on the shared connection.
CanBegin == Inserting = {}

\* Between its read and its write of the watermark.
PassUnderWay == pass.stage \in {"read", "loaded", "persisted"}

Fault == faults < MaxFaults /\ faults' = faults + 1

-----------------------------------------------------------------------------
(* POST /ingest, from the transaction on                                     *)

\* A thread is given a batch of samples the agent has measured at any time.
InsertBatch(h) ==
    /\ handler[h].stage = "idle"
    /\ CanBegin
    /\ nextBatch <= MaxBatches
    /\ \E times \in (SUBSET Times) \ {{}} :
          handler' = [handler EXCEPT ![h] =
              [stage |-> "inserting",
               rows |-> {[ts |-> t, batch |-> nextBatch, arrived |-> now] : t \in times}]]
    /\ nextBatch' = nextBatch + 1
    /\ UNCHANGED <<now, watermark, committed, pass, analyzed, confirmed, raced, faults>>

CommitBatch(h) ==
    /\ handler[h].stage = "inserting"
    /\ committed' = committed \cup handler[h].rows
    /\ handler' = [handler EXCEPT ![h].stage = "committed"]
    /\ UNCHANGED <<now, watermark, pass, analyzed, nextBatch, confirmed, raced, faults>>

RollBack(h) ==
    /\ handler[h].stage = "inserting"
    /\ Fault
    /\ handler' = [handler EXCEPT ![h] = Idle]
    /\ UNCHANGED <<now, watermark, committed, pass, analyzed, nextBatch, confirmed, raced>>

\* Mutant: max for min.
IsNewest(t, rows) == \A s \in rows : s.ts <= t

IsOldest(t, rows) == \A s \in rows : t <= s.ts

\* rewind_for_backfill, then the 202.
Rewind(h) ==
    /\ handler[h].stage = "committed"
    /\ CanBegin
    /\ \E oldest \in {s.ts : s \in handler[h].rows} :
          /\ IsOldest(oldest, handler[h].rows)
          /\ watermark' = IF watermark # NoWatermark /\ oldest < watermark
                          THEN oldest - 1
                          ELSE watermark
    /\ confirmed' = confirmed \cup {s.batch : s \in handler[h].rows}
    /\ raced' = IF PassUnderWay THEN raced \cup {s.batch : s \in handler[h].rows} ELSE raced
    /\ handler' = [handler EXCEPT ![h] = Idle]
    /\ UNCHANGED <<now, committed, pass, analyzed, nextBatch, faults>>

\* The batch is stored and the answer is a 500.  Transactions that are not
\* modelled (other probes', the correlator's) may also be in the way.
RewindFails(h) ==
    /\ handler[h].stage = "committed"
    /\ IF CanBegin THEN Fault ELSE UNCHANGED faults
    /\ handler' = [handler EXCEPT ![h] = Idle]
    /\ UNCHANGED <<now, watermark, committed, pass, analyzed, nextBatch, confirmed, raced>>

Ingest ==
    \E h \in Handlers :
        InsertBatch(h) \/ CommitBatch(h) \/ RollBack(h) \/ Rewind(h) \/ RewindFails(h)

-----------------------------------------------------------------------------
(* The detection thread: one pass, for this probe                            *)

\* _pass takes the time once, for all probes.
StartPass ==
    /\ pass.stage = "idle"
    /\ pass' = [NoPass EXCEPT !.stage = "started", !.now = now]
    /\ UNCHANGED <<now, watermark, committed, handler, analyzed,
                   nextBatch, confirmed, raced, faults>>

ReadWatermark ==
    /\ pass.stage = "started"
    /\ pass' = [pass EXCEPT !.stage = "read",
                   !.from = IF watermark = NoWatermark THEN 0 ELSE watermark + 1]
    /\ UNCHANGED <<now, watermark, committed, handler, analyzed,
                   nextBatch, confirmed, raced, faults>>

\* Mutant: no lookback.
InWindowExactly(s, from, to) == from <= s.ts /\ s.ts <= to

InWindow(s, from, to) == from - Lookback <= s.ts /\ s.ts <= to

LoadWindow ==
    /\ pass.stage = "read"
    /\ pass' = [pass EXCEPT !.stage = "loaded",
                   !.seen = {s \in Visible : InWindow(s, pass.from, pass.now)}]
    /\ UNCHANGED <<now, watermark, committed, handler, analyzed,
                   nextBatch, confirmed, raced, faults>>

\* No transaction is opened when the rules found nothing.
PersistEvents ==
    /\ pass.stage = "loaded"
    /\ analyzed' = analyzed \cup pass.seen
    /\ pass' = [pass EXCEPT !.stage = "persisted"]
    /\ UNCHANGED <<now, watermark, committed, handler, nextBatch, confirmed, raced, faults>>

\* Mutant: the watermark is set past the end of the window.
AdvancePast ==
    /\ pass.stage = "persisted"
    /\ CanBegin
    /\ watermark' = pass.now + 1
    /\ pass' = NoPass
    /\ UNCHANGED <<now, committed, handler, analyzed, nextBatch, confirmed, raced, faults>>

Advance ==
    /\ pass.stage = "persisted"
    /\ CanBegin
    /\ watermark' = pass.now
    /\ pass' = NoPass
    /\ UNCHANGED <<now, committed, handler, analyzed, nextBatch, confirmed, raced, faults>>

\* Mutant: the watermark is advanced whatever became of the pass.
PassFailsAdvancing ==
    /\ pass.stage # "idle"
    /\ IF pass.stage \in {"loaded", "persisted"} /\ ~CanBegin THEN UNCHANGED faults ELSE Fault
    /\ watermark' = pass.now
    /\ pass' = NoPass
    /\ UNCHANGED <<now, committed, handler, analyzed, nextBatch, confirmed, raced>>

\* An exception ends the whole pass; the loop tries again after its interval.
PassFails ==
    /\ pass.stage # "idle"
    /\ IF pass.stage \in {"loaded", "persisted"} /\ ~CanBegin THEN UNCHANGED faults ELSE Fault
    /\ pass' = NoPass
    /\ UNCHANGED <<now, watermark, committed, handler, analyzed, nextBatch, confirmed, raced>>

Detector ==
    \/ StartPass \/ ReadWatermark \/ LoadWindow \/ PersistEvents \/ Advance
    \/ PassFails

-----------------------------------------------------------------------------
\* POST /admin/detect/rerun: a pass over a chosen window that leaves the
\* watermark alone.
Rerun ==
    /\ Fault
    /\ \E from \in Times, to \in Times :
          analyzed' = analyzed \cup {s \in Visible : InWindow(s, from, to)}
    /\ UNCHANGED <<now, watermark, committed, handler, pass, nextBatch, confirmed, raced>>

Crash ==
    /\ Fault
    /\ handler' = [h \in Handlers |-> Idle]
    /\ pass' = NoPass
    /\ UNCHANGED <<now, watermark, committed, analyzed, nextBatch, confirmed, raced>>

Tick ==
    /\ now < MaxTime
    /\ now' = now + 1
    /\ UNCHANGED <<watermark, committed, handler, pass, analyzed,
                   nextBatch, confirmed, raced, faults>>

Init ==
    /\ now = 1
    /\ watermark = NoWatermark
    /\ committed = {}
    /\ handler = [h \in Handlers |-> Idle]
    /\ pass = NoPass
    /\ analyzed = {}
    /\ nextBatch = 1
    /\ confirmed = {}
    /\ raced = {}
    /\ faults = 0

Next == Ingest \/ Detector \/ Rerun \/ Crash \/ Tick

Spec == Init /\ [][Next]_vars

\* The loop sleeps for its interval and runs again, whatever the last pass came
\* to; a request that is being served is served; time passes.  That a batch
\* arrives is nobody's promise.
Serving == \E h \in Handlers : CommitBatch(h) \/ Rewind(h) \/ RewindFails(h)

Fairness == WF_vars(Detector) /\ WF_vars(Serving) /\ WF_vars(Tick)

FairSpec == Spec /\ Fairness

-----------------------------------------------------------------------------
(* Types, with the bounds the clock and the batch numbers put on them.       *)
RowsTypeOK ==
    /\ \A s \in committed : s \in Sample /\ s.arrived <= now /\ s.batch < nextBatch
    /\ \A h \in Handlers : \A s \in handler[h].rows :
          s \in Sample /\ s.arrived <= now /\ s.batch < nextBatch
    /\ \A h \in Handlers : (handler[h].stage = "idle") <=> (handler[h].rows = {})

PassTypeOK ==
    /\ pass \in [stage : {"idle", "started", "read", "loaded", "persisted"},
                  now : 0 .. now, from : 0 .. now + 1, seen : SUBSET Sample]
    /\ pass.stage # "idle" => pass.now > 0

TypeOK ==
    /\ now \in Times
    /\ watermark \in NoWatermark .. now
    /\ committed \subseteq Sample
    /\ handler \in [Handlers -> [stage : {"idle", "inserting", "committed"},
                                 rows : SUBSET Sample]]
    /\ RowsTypeOK
    /\ PassTypeOK
    /\ analyzed \subseteq Sample
    /\ nextBatch \in 1 .. MaxBatches + 1
    /\ confirmed \subseteq 1 .. nextBatch - 1
    /\ raced \subseteq confirmed
    /\ faults \in 0 .. MaxFaults

(* What the next pass will load, or some pass has already dealt with.        *)
InReach(s) ==
    \/ s \in analyzed
    \/ watermark = NoWatermark
    \/ s.ts > watermark - Lookback

Fresh(s) == s.arrived - s.ts < Lookback

(* A sample that reaches the server within the lookback of its measurement   *)
(* is never passed over, whatever overlaps: its batch may land between a     *)
(* pass's load and its write of the watermark, the rewind may fail or be     *)
(* overwritten, the pass or the server may die.  This, and not the rewind,   *)
(* is what keeps live data safe from the race below.                         *)
FreshNeverSkipped ==
    \A s \in committed : Fresh(s) => InReach(s)

(* "The watermark is rewound so the affected window is re-detected rather    *)
(* than skipped" (engine.py:13), as far as the code achieves it: a batch     *)
(* that was answered 202 and did its rewind while no pass was under way is   *)
(* analyzed or will be, however old it is and whatever other batches and     *)
(* passes do later.                                                          *)
LateDataReopened ==
    \A s \in committed : s.batch \in confirmed \ raced => InReach(s)

(* And in time it is analyzed: failed passes, contention and crashes delay   *)
(* it and do not lose it.                                                    *)
DueIsAnalyzed ==
    []<>({s \in committed : Fresh(s) \/ s.batch \in confirmed \ raced} \subseteq analyzed)

(* "This is what turns late-arriving outage data into detected events        *)
(* instead of a silent gap" (ingest.py:173): no sample of a batch answered   *)
(* 202 is passed over.                                                       *)
NoSilentGap ==
    \A s \in committed : s.batch \in confirmed => InReach(s)
=============================================================================
