---------------------------- MODULE DetectionProofs -----------------------------
(***************************************************************************)
(* That the watermark passes over no fresh sample, and no late one whose   *)
(* rewind met no pass, for any number of threads and batches and any       *)
(* lookback.                                                               *)
(***************************************************************************)
EXTENDS Detection, TLAPS

\* The pass under way, as far as it has got, does not pass over s.
PassCovers(s) ==
    /\ pass.stage = "read" =>
          s \in analyzed \/ pass.from - Lookback <= s.ts
    /\ pass.stage = "loaded" =>
          s \in analyzed \/ s \in pass.seen \/ s.ts > pass.now - Lookback
    /\ pass.stage = "persisted" =>
          s \in analyzed \/ s.ts > pass.now - Lookback

Safe(s) == InReach(s) /\ PassCovers(s)

FreshInv == \A s \in Visible : Fresh(s) => Safe(s)

LateInv == \A s \in committed : s.batch \in confirmed \ raced => Safe(s)

\* No batch is in two places.
BatchInv ==
    /\ \A g, h \in Handlers : g # h =>
          \A r \in handler[g].rows, s \in handler[h].rows : r.batch # s.batch
    /\ \A h \in Inserting : \A r \in handler[h].rows, s \in committed : r.batch # s.batch
    /\ \A h \in Handlers : handler[h].stage = "committed" =>
          \A r \in handler[h].rows, s \in committed : r.batch = s.batch => s \in handler[h].rows
    /\ \A h \in Handlers : \A r \in handler[h].rows : r.batch \notin confirmed

IInv == TypeOK /\ BatchInv /\ FreshInv /\ LateInv

USE DetectionConstants DEF NoWatermark

-----------------------------------------------------------------------------
(* The initial state has every part of the invariant.                        *)
LEMMA InitInv == Init => IInv
BY DEF Init, IInv, TypeOK, RowsTypeOK, PassTypeOK, BatchInv, FreshInv, LateInv, Visible,
       Inserting, NoPass, Idle, Times

(* Every step keeps the types.                                               *)
LEMMA TypeStep == TypeOK /\ [Next]_vars => TypeOK'
<1> SUFFICES ASSUME TypeOK, [Next]_vars PROVE TypeOK'
    OBVIOUS
<1> USE DEF TypeOK, RowsTypeOK, PassTypeOK, Times, Idle, NoPass
<1>1. ASSUME NEW h \in Handlers, InsertBatch(h) PROVE TypeOK'
    <2>1. PICK times \in (SUBSET Times) \ {{}} :
             handler' = [handler EXCEPT ![h] =
                 [stage |-> "inserting",
                  rows |-> {[ts |-> t, batch |-> nextBatch, arrived |-> now] : t \in times}]]
        BY <1>1 DEF InsertBatch
    <2> DEFINE new == {[ts |-> t, batch |-> nextBatch, arrived |-> now] : t \in times}
    <2>2. \A s \in new : s \in Sample /\ s.arrived <= now /\ s.batch < nextBatch + 1
        BY <1>1 DEF InsertBatch, Sample
    <2>3. new # {}
      <3>1. PICK t \in times : TRUE
        BY <2>1
      <3>2. [ts |-> t, batch |-> nextBatch, arrived |-> now] \in new
        BY <3>1
      <3> QED
        BY <3>2
    <2> HIDE DEF new
    <2>4. handler' \in [Handlers -> [stage : {"idle", "inserting", "committed"},
                                    rows : SUBSET Sample]]
        BY <2>1, <2>2 DEF new
    <2>5. RowsTypeOK'
        BY <1>1, <2>1, <2>2, <2>3 DEF InsertBatch, new, Sample
    <2> QED
        BY <1>1, <2>4, <2>5 DEF InsertBatch
<1>2. ASSUME NEW h \in Handlers, CommitBatch(h) PROVE TypeOK'
    BY <1>2 DEF CommitBatch
<1>3. ASSUME NEW h \in Handlers, RollBack(h) PROVE TypeOK'
    BY <1>3 DEF RollBack, Fault
<1>4. ASSUME NEW h \in Handlers, Rewind(h) PROVE TypeOK'
    <2>1. watermark' \in NoWatermark .. now
        BY <1>4 DEF Rewind, Sample
    <2> DEFINE own == {s.batch : s \in handler[h].rows}
    <2>3. own \subseteq 1 .. nextBatch - 1
        BY DEF Sample
    <2>4. confirmed' = confirmed \cup own /\ raced' \in {raced, raced \cup own}
        BY <1>4 DEF Rewind
    <2>5. nextBatch' = nextBatch
        BY <1>4 DEF Rewind
    <2> HIDE DEF own
    <2>2. confirmed' \subseteq 1 .. nextBatch' - 1 /\ raced' \subseteq confirmed'
        BY <2>3, <2>4, <2>5
    <2> QED
        BY <1>4, <2>1, <2>2 DEF Rewind
<1>5. ASSUME NEW h \in Handlers, RewindFails(h) PROVE TypeOK'
    BY <1>5 DEF RewindFails, Fault
<1>6. CASE StartPass
    <2>2. pass' = [stage |-> "started", now |-> now, from |-> 0, seen |-> {}]
        BY <1>6 DEF StartPass
    <2>1. PassTypeOK'
        BY <1>6, <2>2 DEF StartPass
    <2> QED
        BY <1>6, <2>1 DEF StartPass
<1>7. CASE ReadWatermark
    <2> DEFINE from == IF watermark = NoWatermark THEN 0 ELSE watermark + 1
    <2>3. from \in 0 .. now + 1
        OBVIOUS
    <2>2. pass' = [stage |-> "read", now |-> pass.now, from |-> from, seen |-> pass.seen]
        BY <1>7 DEF ReadWatermark
    <2> HIDE DEF from
    <2>1. PassTypeOK'
        BY <1>7, <2>2, <2>3 DEF ReadWatermark
    <2> QED
        BY <1>7, <2>1 DEF ReadWatermark
<1>8. CASE LoadWindow
    <2> DEFINE seen == {s \in Visible : InWindow(s, pass.from, pass.now)}
    <2>3. seen \in SUBSET Sample
        BY DEF Visible, Inserting
    <2>2. pass' = [stage |-> "loaded", now |-> pass.now, from |-> pass.from, seen |-> seen]
        BY <1>8 DEF LoadWindow
    <2>4. pass.stage = "read" /\ now' = now
        BY <1>8 DEF LoadWindow
    <2> HIDE DEF seen
    <2>1. PassTypeOK'
        BY <2>2, <2>3, <2>4
    <2> QED
        BY <1>8, <2>1 DEF LoadWindow
<1>9. CASE PersistEvents
    <2>1. PassTypeOK'
        BY <1>9 DEF PersistEvents
    <2> QED
        BY <1>9, <2>1 DEF PersistEvents
<1>10. CASE Advance
    BY <1>10 DEF Advance
<1>11. CASE PassFails
    BY <1>11 DEF PassFails, Fault
<1>12. CASE Rerun
    BY <1>12 DEF Rerun, Fault, Visible, Inserting
<1>13. CASE Crash
    BY <1>13 DEF Crash, Fault
<1>14. CASE Tick
    <2>1. RowsTypeOK'
        BY <1>14 DEF Tick, Sample
    <2>2. PassTypeOK'
        BY <1>14 DEF Tick
    <2> QED
        BY <1>14, <2>1, <2>2 DEF Tick
<1>15. CASE UNCHANGED vars
    BY <1>15 DEF vars
<1>q. QED
    BY <1>1, <1>2, <1>3, <1>4, <1>5, <1>6, <1>7, <1>8, <1>9, <1>10, <1>11, <1>12, <1>13,
       <1>14, <1>15 DEF Next, Ingest, Detector

(* No step puts a batch in two places.                                       *)
LEMMA BatchStep == TypeOK /\ TypeOK' /\ BatchInv /\ [Next]_vars => BatchInv'
<1> SUFFICES ASSUME TypeOK, TypeOK', BatchInv, [Next]_vars PROVE BatchInv'
    OBVIOUS
<1> USE DEF BatchInv, Inserting
<1>1. ASSUME NEW h \in Handlers, InsertBatch(h) PROVE BatchInv'
    <2>1. \A s \in handler'[h].rows : s.batch = nextBatch
        BY <1>1 DEF InsertBatch, TypeOK
    <2>2. \A g \in Handlers : g # h => handler'[g] = handler[g]
        BY <1>1 DEF InsertBatch, TypeOK
    <2>3. handler'[h].stage = "inserting"
        BY <1>1 DEF InsertBatch, TypeOK
    <2>4. committed' = committed /\ confirmed' = confirmed
        BY <1>1 DEF InsertBatch
    <2>5. \A s \in committed : s.batch < nextBatch /\ s.batch \in Nat
        BY DEF TypeOK, RowsTypeOK, Sample
    <2>6. \A g \in Handlers : \A s \in handler[g].rows : s.batch < nextBatch /\ s.batch \in Nat
        BY DEF TypeOK, RowsTypeOK, Sample
    <2>7. nextBatch \in Nat /\ nextBatch \notin confirmed
        BY DEF TypeOK
    <2> QED
        BY <2>1, <2>2, <2>3, <2>4, <2>5, <2>6, <2>7
<1>2. ASSUME NEW h \in Handlers, CommitBatch(h) PROVE BatchInv'
    <2>1. \A g \in Handlers : handler'[g].rows = handler[g].rows
        BY <1>2 DEF CommitBatch, TypeOK
    <2>2. \A g \in Handlers : g # h => handler'[g].stage = handler[g].stage
        BY <1>2 DEF CommitBatch, TypeOK
    <2>3. handler[h].stage = "inserting" /\ handler'[h].stage = "committed"
        BY <1>2 DEF CommitBatch, TypeOK
    <2>4. committed' = committed \cup handler[h].rows /\ confirmed' = confirmed
        BY <1>2 DEF CommitBatch
    <2> QED
        BY <2>1, <2>2, <2>3, <2>4
<1>3. ASSUME NEW h \in Handlers, RollBack(h) \/ RewindFails(h) PROVE BatchInv'
    BY <1>3 DEF RollBack, RewindFails, TypeOK, Idle
<1>4. ASSUME NEW h \in Handlers, Rewind(h) PROVE BatchInv'
    <2>1. handler'[h] = Idle /\ \A g \in Handlers : g # h => handler'[g] = handler[g]
        BY <1>4 DEF Rewind, TypeOK
    <2>2. committed' = committed
        BY <1>4 DEF Rewind
    <2>3. \A b \in confirmed' : b \in confirmed \/ \E s \in handler[h].rows : b = s.batch
        BY <1>4 DEF Rewind
    <2> QED
        BY <2>1, <2>2, <2>3 DEF Idle
<1>5. CASE Crash
    BY <1>5 DEF Crash, Idle
<1>6. CASE UNCHANGED <<handler, committed, confirmed>>
    BY <1>6
<1> QED
    BY <1>1, <1>2, <1>3, <1>4, <1>5, <1>6
    DEF Next, Ingest, Detector, StartPass, ReadWatermark, LoadWindow, PersistEvents, Advance,
        PassFails, Rerun, Tick, vars

-----------------------------------------------------------------------------
(* A sample that is safe stays safe: whatever lowers, raises or overwrites   *)
(* the watermark, the lookback or the pass has it.                           *)
LEMMA SafeStep ==
    ASSUME TypeOK, [Next]_vars, NEW s \in Visible, Safe(s)
    PROVE  Safe(s)'
<1> USE DEF Safe, InReach, PassCovers
<1>1. s \in Sample
    BY DEF Visible, Inserting, TypeOK
<1>2. s.ts \in Nat /\ s.ts > 0 /\ Lookback \in Nat
    BY <1>1 DEF Sample, Times
<1>3. watermark \in Int /\ watermark >= -1 /\ pass.now \in Int /\ pass.from \in Int
    BY DEF TypeOK, PassTypeOK, Times
<1>4. CASE UNCHANGED <<watermark, pass, analyzed>>
    BY <1>4
<1>5. ASSUME NEW h \in Handlers, Rewind(h) PROVE Safe(s)'
    <2>1. PICK oldest \in {r.ts : r \in handler[h].rows} :
             watermark' = IF watermark # NoWatermark /\ oldest < watermark
                          THEN oldest - 1 ELSE watermark
        BY <1>5 DEF Rewind
    <2>2. oldest \in Nat
        BY DEF TypeOK, Sample, Times
    <2>3. watermark' <= watermark /\ (watermark = -1 => watermark' = -1) /\ watermark' \in Int
        BY <1>3, <2>1, <2>2
    <2>4. UNCHANGED <<pass, analyzed>>
        BY <1>5 DEF Rewind
    <2> QED
        BY <1>2, <1>3, <2>3, <2>4
<1>6. CASE StartPass
    BY <1>6 DEF StartPass, NoPass
<1>7. CASE ReadWatermark
    <2>1. pass'.stage = "read" /\ UNCHANGED <<watermark, analyzed>>
        BY <1>7 DEF ReadWatermark, TypeOK, PassTypeOK
    <2>2. pass'.from = IF watermark = NoWatermark THEN 0 ELSE watermark + 1
        BY <1>7 DEF ReadWatermark, TypeOK, PassTypeOK
    <2> QED
        BY <1>2, <1>3, <2>1, <2>2
<1>8. CASE LoadWindow
    <2>1. pass'.stage = "loaded" /\ pass'.now = pass.now /\ UNCHANGED <<watermark, analyzed>>
        BY <1>8 DEF LoadWindow, TypeOK, PassTypeOK
    <2>2. pass'.seen = {r \in Visible : InWindow(r, pass.from, pass.now)}
        BY <1>8 DEF LoadWindow, TypeOK, PassTypeOK
    <2>3. pass.stage = "read"
        BY <1>8 DEF LoadWindow
    <2> QED
        BY <1>2, <1>3, <2>1, <2>2, <2>3 DEF InWindow
<1>9. CASE PersistEvents
    <2>1. pass'.stage = "persisted" /\ pass'.now = pass.now /\ UNCHANGED watermark
        BY <1>9 DEF PersistEvents, TypeOK, PassTypeOK
    <2>2. pass.stage = "loaded" /\ analyzed' = analyzed \cup pass.seen
        BY <1>9 DEF PersistEvents
    <2> QED
        BY <2>1, <2>2
<1>10. CASE Advance
    BY <1>10 DEF Advance, NoPass
<1>11. CASE PassFails
    BY <1>11 DEF PassFails, NoPass
<1>12. CASE Rerun
    <2>1. UNCHANGED <<watermark, pass>> /\ \A r \in analyzed : r \in analyzed'
        BY <1>12 DEF Rerun
    <2> QED
        BY <2>1
<1>13. CASE Crash
    BY <1>13 DEF Crash, NoPass
<1> QED
    BY <1>4, <1>5, <1>6, <1>7, <1>8, <1>9, <1>10, <1>11, <1>12, <1>13
    DEF Next, Ingest, Detector, InsertBatch, CommitBatch, RollBack, RewindFails, Tick, vars

(* Only an insert brings a sample into view, stamped with the time it came.  *)
LEMMA VisibleStep ==
    ASSUME TypeOK, [Next]_vars, NEW s \in Visible', s \notin Visible
    PROVE  /\ s.arrived = now /\ s \in Sample
           /\ UNCHANGED <<watermark, pass, analyzed>>
<1> USE DEF Visible, Inserting
<1>1. ASSUME NEW h \in Handlers, InsertBatch(h)
      PROVE  s.arrived = now /\ s \in Sample
    <2>1. PICK times \in SUBSET Times :
             handler' = [handler EXCEPT ![h] =
                 [stage |-> "inserting",
                  rows |-> {[ts |-> t, batch |-> nextBatch, arrived |-> now] : t \in times}]]
        BY <1>1 DEF InsertBatch
    <2>2. s \in handler'[h].rows
        BY <1>1, <2>1 DEF InsertBatch, TypeOK
    <2>3. PICK t \in times : s = [ts |-> t, batch |-> nextBatch, arrived |-> now]
        BY <2>1, <2>2 DEF TypeOK
    <2> QED
        BY <1>1, <2>3 DEF InsertBatch, Sample, TypeOK
<1>2. ASSUME NEW h \in Handlers, CommitBatch(h) PROVE FALSE
    BY <1>2 DEF CommitBatch, TypeOK
<1>3. ASSUME NEW h \in Handlers, RollBack(h) \/ RewindFails(h) \/ Rewind(h) PROVE FALSE
    BY <1>3 DEF RollBack, RewindFails, Rewind, Idle, TypeOK
<1>4. CASE Crash
    BY <1>4 DEF Crash, Idle
<1>5. CASE UNCHANGED <<handler, committed>>
    BY <1>5
<1> QED
    BY <1>1, <1>2, <1>3, <1>4, <1>5
    DEF Next, Ingest, Detector, InsertBatch, StartPass, ReadWatermark, LoadWindow, PersistEvents,
        Advance, PassFails, Rerun, Tick, vars

LEMMA FreshStep == TypeOK /\ FreshInv /\ [Next]_vars => FreshInv'
<1> SUFFICES ASSUME TypeOK, FreshInv, [Next]_vars, NEW s \in Visible', Fresh(s)
             PROVE  Safe(s)'
    BY DEF FreshInv, Fresh
<1>1. CASE s \in Visible
    BY <1>1, SafeStep DEF FreshInv
<1>2. CASE s \notin Visible
    <2>1. s.arrived = now /\ s \in Sample /\ UNCHANGED <<watermark, pass, analyzed>>
        BY <1>2, VisibleStep
    <2>2. now - s.ts < Lookback /\ s.ts \in Nat
        BY <2>1 DEF Fresh, Sample, Times
    <2>3. /\ now \in Int /\ watermark \in Int /\ watermark <= now
          /\ pass.now \in Int /\ pass.now <= now /\ pass.from \in Int /\ pass.from <= now + 1
        BY DEF TypeOK, PassTypeOK, Times
    <2> QED
        BY <2>1, <2>2, <2>3 DEF Safe, InReach, PassCovers
<1> QED
    BY <1>1, <1>2

LEMMA LateStep == TypeOK /\ BatchInv /\ LateInv /\ [Next]_vars => LateInv'
<1> SUFFICES ASSUME TypeOK, BatchInv, LateInv, [Next]_vars, NEW s \in committed',
                    s.batch \in confirmed' \ raced'
             PROVE  Safe(s)'
    BY DEF LateInv
<1>1. CASE s \in committed /\ s.batch \in confirmed
    <2>1. raced \subseteq raced'
        BY DEF Next, Ingest, Detector, InsertBatch, CommitBatch, RollBack, Rewind, RewindFails,
               StartPass, ReadWatermark, LoadWindow, PersistEvents, Advance, PassFails, Rerun,
               Crash, Tick, vars
    <2>2. s \in Visible
        BY <1>1 DEF Visible
    <2> QED
        BY <1>1, <2>1, <2>2, SafeStep DEF LateInv
<1>2. CASE s \notin committed
    <2>1. PICK h \in Handlers : CommitBatch(h)
        BY <1>2 DEF Next, Ingest, Detector, InsertBatch, CommitBatch, RollBack, Rewind,
               RewindFails, StartPass, ReadWatermark, LoadWindow, PersistEvents, Advance,
               PassFails, Rerun, Crash, Tick, vars
    <2> QED
        BY <1>2, <2>1 DEF CommitBatch, BatchInv
<1>3. CASE s \in committed /\ s.batch \notin confirmed
    <2>1. PICK h \in Handlers : Rewind(h)
        BY <1>3 DEF Next, Ingest, Detector, InsertBatch, CommitBatch, RollBack, Rewind,
               RewindFails, StartPass, ReadWatermark, LoadWindow, PersistEvents, Advance,
               PassFails, Rerun, Crash, Tick, vars
    <2>2. \E r \in handler[h].rows : r.batch = s.batch
        BY <1>3, <2>1 DEF Rewind
    <2>3. s \in handler[h].rows
        BY <1>3, <2>1, <2>2 DEF Rewind, BatchInv
    <2>4. ~PassUnderWay /\ pass' = pass
        BY <2>1, <2>2 DEF Rewind
    <2>5. PICK oldest \in {r.ts : r \in handler[h].rows} :
             /\ IsOldest(oldest, handler[h].rows)
             /\ watermark' = IF watermark # NoWatermark /\ oldest < watermark
                             THEN oldest - 1 ELSE watermark
        BY <2>1 DEF Rewind
    <2>6. oldest <= s.ts /\ oldest \in Nat /\ s.ts \in Nat /\ watermark \in Int
        BY <2>3, <2>5 DEF IsOldest, TypeOK, Sample, Times
    <2>7. watermark' \in Int /\ (watermark' = -1 \/ watermark' <= s.ts)
        BY <2>5, <2>6
    <2>8. InReach(s)'
        BY <2>6, <2>7, Lookback \in Nat /\ Lookback > 0 DEF InReach
    <2> QED
        BY <2>4, <2>8 DEF Safe, PassCovers, PassUnderWay
<1> QED
    BY <1>1, <1>2, <1>3

-----------------------------------------------------------------------------
LEMMA InductiveInv == Spec => []IInv
<1>1. Init => IInv
    BY InitInv
<1>2. IInv /\ [Next]_vars => IInv'
    BY TypeStep, BatchStep, FreshStep, LateStep DEF IInv
<1> QED
    BY <1>1, <1>2, PTL DEF Spec

(* The clock, the watermark and the pass keep their types and their order:   *)
(* neither the watermark nor a pass is ever ahead of the clock.              *)
THEOREM TypeCorrect == Spec => []TypeOK
<1>1. IInv => TypeOK
    BY DEF IInv
<1> QED
    BY <1>1, InductiveInv, PTL

(* Live data is never passed over by detection, whatever races with what.    *)
THEOREM FreshIsSafe == Spec => []FreshNeverSkipped
<1>1. IInv => FreshNeverSkipped
    BY DEF IInv, FreshInv, FreshNeverSkipped, Safe, Visible
<1> QED
    BY <1>1, InductiveInv, PTL

(* A late batch whose rewind met no pass is never passed over either.        *)
THEOREM LateIsSafe == Spec => []LateDataReopened
<1>1. IInv => LateDataReopened
    BY DEF IInv, LateInv, LateDataReopened, Safe
<1> QED
    BY <1>1, InductiveInv, PTL
=============================================================================
