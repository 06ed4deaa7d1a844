--------------------------------- MODULE Runner ----------------------------------
(***************************************************************************)
(* The agent's collection loop (netdbg_agent/runner.py, schedule.py) on    *)
(* its clock: it sleeps, compares the clocks, stamps the tick, runs the    *)
(* collectors that are due, commits their samples, then the clock_step     *)
(* events, and now and then trims the spool.                               *)
(*                                                                         *)
(* The pings run in every cycle and have no due time.  What the samples    *)
(* say is modules Collectors and Diagnosis; what becomes of the rows,      *)
(* module Spool.                                                           *)
(***************************************************************************)
EXTENDS Clock

CONSTANTS
    CycleInterval,   \* cycle_interval_s
    CycleJitter,     \* the most run_forever adds to it
    Scheduled,       \* the scheduled collectors
    Every,           \* interval_s of each
    Jitter,          \* the most is_due adds to it
    TrimInterval,    \* spool_trim_check_interval_s
    MaxFailures,     \* bound: commits that fail
    MaxRestarts      \* bound: crashes of the agent

ASSUME RunnerConstants ==
    /\ CycleInterval \in Nat \ {0} /\ CycleJitter \in Nat
    /\ Every \in [Scheduled -> Nat \ {0}] /\ Jitter \in Nat
    /\ TrimInterval \in Nat
    /\ MaxFailures \in Nat /\ MaxRestarts \in Nat

VARIABLES
    cycle,         \* where the collection thread stands
    start,         \* now_mono of the current cycle, or of the last one
    wake,          \* when the sleep ends
    due,           \* _next_due_mono of each scheduled collector
    lastTrim,      \* last_trim
    ran,           \* history: when each collector last ran in this process
    spooled,       \* history: the clock steps this process has spooled
    held,          \* history: how long after its cycle began the last check came
    commits,       \* history: writes to the spool since last_trim
    failures,      \* failed commits so far
    restarts       \* crashes so far

loopVars == <<cycle, start, wake>>
scheduleVars == <<due, ran>>
trimVars == <<lastTrim, commits>>
vars == <<clockVars, loopVars, scheduleVars, trimVars, held, spooled, failures, restarts>>

Never == -1

-----------------------------------------------------------------------------
(* run_forever                                                               *)

WakeUp ==
    /\ cycle = "asleep"
    /\ mono >= wake
    /\ cycle' = "checking"
    /\ start' = mono
    /\ UNCHANGED <<clockVars, wake, scheduleVars, trimVars, held, spooled, failures, restarts>>

\* Mutant: the loop sleeps its interval without the time the cycle took.
SleepLess ==
    /\ cycle' = "asleep"
    /\ \E jitter \in 0 .. CycleJitter : wake' = mono + jitter
    /\ UNCHANGED start

\* time.sleep(max(0.0, cycle_interval_s - elapsed + jitter))
Sleep ==
    /\ cycle' = "asleep"
    /\ \E jitter \in 0 .. CycleJitter :
          LET until == start + CycleInterval + jitter
          IN  wake' = IF mono < until THEN until ELSE mono
    /\ UNCHANGED start

\* An exception ends the cycle, its trim check included.
CycleFails ==
    /\ failures < MaxFailures
    /\ failures' = failures + 1
    /\ Sleep

TrimCheck ==
    /\ cycle = "trimming"
    /\ IF start - lastTrim > TrimInterval
       THEN lastTrim' = start /\ commits' = 0
       ELSE UNCHANGED trimVars
    /\ Sleep
    /\ UNCHANGED <<clockVars, scheduleVars, held, spooled, failures, restarts>>

-----------------------------------------------------------------------------
(* collect_once                                                              *)

BeginCheck ==
    /\ cycle = "checking"
    /\ ReadWall
    /\ UNCHANGED <<loopVars, scheduleVars, trimVars, held, spooled, failures, restarts>>

Check ==
    /\ cycle = "checking"
    /\ CheckStep
    /\ held' = IF check'.stage = "done" THEN lastCheck' - start ELSE held
    /\ UNCHANGED <<loopVars, scheduleVars, trimVars, spooled, failures, restarts>>

\* ts = self.clock.now_ms(), which is NowMs, then the pings, which take their time.
Stamp ==
    /\ cycle = "checking"
    /\ check.stage = "done"
    /\ cycle' = "measuring"
    /\ check' = NotChecking
    /\ UNCHANGED <<sourceVars, anchorWall, anchorMono, lastCheck, steps, pending, base, reader,
                   still, start, wake, scheduleVars, trimVars, held, spooled, failures, restarts>>

IsDue(c) == start >= due[c]

\* Mutant: the due time advances from the last due time.
RunDueCatchingUp ==
    /\ \E jitter \in [Scheduled -> 0 .. Jitter] :
          due' = [c \in Scheduled |-> IF IsDue(c) THEN due[c] + Every[c] + jitter[c] ELSE due[c]]
    /\ ran' = [c \in Scheduled |-> IF IsDue(c) THEN start ELSE ran[c]]

\* Mutant: a collector that is not due has its time set all the same.
RunDuePostponing ==
    /\ \E jitter \in [Scheduled -> 0 .. Jitter] :
          due' = [c \in Scheduled |-> start + Every[c] + jitter[c]]
    /\ ran' = [c \in Scheduled |-> IF IsDue(c) THEN start ELSE ran[c]]

\* The collectors that are due run, and their next times are set whether they
\* raise or not.
RunDue ==
    /\ \E jitter \in [Scheduled -> 0 .. Jitter] :
          due' = [c \in Scheduled |-> IF IsDue(c) THEN start + Every[c] + jitter[c] ELSE due[c]]
    /\ ran' = [c \in Scheduled |-> IF IsDue(c) THEN start ELSE ran[c]]

\* Mutant: the samples of the pings and of the others in a commit each.
StoreTickInParts ==
    /\ cycle = "measuring"
    /\ RunDue
    /\ cycle' = "flushing"
    /\ commits' = commits + 2
    /\ UNCHANGED <<clockVars, start, wake, lastTrim, held, spooled, failures, restarts>>

\* add_samples: the whole tick in one commit.
StoreTick ==
    /\ cycle = "measuring"
    /\ RunDue
    /\ cycle' = "flushing"
    /\ commits' = commits + 1
    /\ UNCHANGED <<clockVars, start, wake, held, lastTrim, spooled, failures, restarts>>

StoreFails ==
    /\ cycle = "measuring"
    /\ RunDue
    /\ CycleFails
    /\ UNCHANGED <<clockVars, held, trimVars, spooled, restarts>>

\* Mutant: the list is cleared although the commit failed.
FlushFailsClearing ==
    /\ cycle = "flushing"
    /\ pending # << >>
    /\ pending' = << >>
    /\ CycleFails
    /\ UNCHANGED <<sourceVars, anchorWall, anchorMono, lastCheck, steps, check, base, reader, still,
                   scheduleVars, trimVars, held, spooled, restarts>>

\* _flush_clock_steps: add_events, then clear.
Flush ==
    /\ cycle = "flushing"
    /\ cycle' = "trimming"
    /\ spooled' = spooled \o pending
    /\ pending' = << >>
    /\ commits' = IF pending = << >> THEN commits ELSE commits + 1
    /\ UNCHANGED <<sourceVars, anchorWall, anchorMono, lastCheck, steps, check, base, reader, still,
                   start, wake, scheduleVars, lastTrim, held, failures, restarts>>

FlushFails ==
    /\ cycle = "flushing"
    /\ pending # << >>
    /\ CycleFails
    /\ UNCHANGED <<clockVars, scheduleVars, trimVars, held, spooled, restarts>>

Collector ==
    \/ WakeUp \/ BeginCheck \/ Check \/ Stamp
    \/ StoreTick \/ StoreFails
    \/ Flush \/ FlushFails
    \/ TrimCheck

-----------------------------------------------------------------------------
(* The other thread, the outside world and a new process                     *)

ShippingThread ==
    /\ ReadNow
    /\ UNCHANGED <<loopVars, scheduleVars, trimVars, held, spooled, failures, restarts>>

Environment ==
    /\ Tick \/ \E d \in Jumps : Jump(d)
    /\ UNCHANGED <<loopVars, scheduleVars, trimVars, held, spooled, failures, restarts>>

\* The process dies and a new one anchors its clock.
Restart ==
    /\ restarts < MaxRestarts
    /\ restarts' = restarts + 1
    /\ anchorWall' = wall /\ anchorMono' = mono /\ lastCheck' = mono
    /\ steps' = << >> /\ pending' = << >> /\ spooled' = << >>
    /\ check' = NotChecking /\ reader' = NotReading
    /\ base' = wall - mono
    /\ cycle' = "asleep" /\ start' = mono /\ wake' = mono
    /\ due' = [c \in Scheduled |-> 0] /\ ran' = [c \in Scheduled |-> Never]
    /\ held' = CycleInterval
    /\ lastTrim' = mono /\ commits' = 0
    /\ UNCHANGED <<sourceVars, still, failures>>

Init ==
    /\ mono = 0 /\ wall = 0 /\ jumps = 0
    /\ anchorWall = wall /\ anchorMono = mono /\ lastCheck = mono
    /\ steps = << >> /\ pending = << >> /\ spooled = << >>
    /\ check = NotChecking /\ reader = NotReading
    /\ base = wall - mono /\ still = TRUE
    /\ cycle = "asleep" /\ start = mono /\ wake = mono
    /\ due = [c \in Scheduled |-> 0] /\ ran = [c \in Scheduled |-> Never]
    /\ held = CycleInterval
    /\ lastTrim = mono /\ commits = 0
    /\ failures = 0 /\ restarts = 0

Next == Collector \/ ShippingThread \/ Environment \/ Restart

Spec == Init /\ [][Next]_vars

-----------------------------------------------------------------------------
(* Types, and the order of the times: nothing is ahead of the clock but what *)
(* is meant to come.                                                         *)
TypeOK ==
    /\ mono \in 0 .. MaxMono /\ wall \in Int /\ jumps \in 0 .. MaxJumps
    /\ anchorWall \in Int /\ anchorMono \in 0 .. mono /\ lastCheck \in 0 .. mono
    /\ base \in Int /\ still \in BOOLEAN
    /\ steps \in Seq(ClockSteps) /\ pending \in Seq(ClockSteps) /\ spooled \in Seq(ClockSteps)
    /\ check \in Checks /\ check.read <= mono /\ check.step.at <= mono
    /\ reader \in Readers /\ reader.mono <= mono
    /\ cycle \in {"asleep", "checking", "measuring", "flushing", "trimming"}
    /\ start \in 0 .. mono /\ wake \in Nat /\ lastTrim \in 0 .. start
    /\ due \in [Scheduled -> Nat] /\ ran \in [Scheduled -> {Never} \cup 0 .. start]
    /\ held \in Nat
    /\ commits \in Nat /\ failures \in 0 .. MaxFailures /\ restarts \in 0 .. MaxRestarts

(* "Timestamps immune to wall-clock jumps" (timeutil.py, MonotonicClock): a  *)
(* tick's ts is within the threshold of the wall clock, whatever jumps,      *)
(* sleeps, slews and failed cycles came before, unless the wall clock jumped *)
(* between check_step's look at it and the stamp.  It may be behind by the   *)
(* time the thread was held between its two reads.                           *)
StampsTrackWall ==
    check.stage = "done" /\ still =>
        /\ wall - NowMs > -Threshold
        /\ wall - NowMs < Threshold + (lastCheck - check.read)

OffsetAfter(i) == IF i = 0 THEN base ELSE OffsetOf(steps[i])

(* "Record a ClockStep so samples near the discontinuity can be distrusted   *)
(* rather than silently believed" (timeutil.py:20): derived time shifts by   *)
(* exactly the steps that were recorded, one after the other, and within one *)
(* process each of them is in the spool once or waits to be spooled, however *)
(* often a commit fails in between.                                          *)
ShiftsAreExplained ==
    /\ steps = spooled \o pending
    /\ Settled = OffsetAfter(Len(steps)) \/ check.stage = "half"
    /\ \A i \in 1 .. Len(steps) : steps[i].delta = OffsetAfter(i) - OffsetAfter(i - 1)

(* The shipping thread reads the two anchors while they are being written.   *)
(* Whatever it returns, it is never behind every time the clock stood for    *)
(* during the read: a torn read errs ahead only, by the age of the anchor    *)
(* whose wall part it missed.                                                *)
SentNeverBehind ==
    reader.stage = "elapsed" => ReturnedOffset >= reader.low

(* A collector runs when its interval and jitter have passed and no later    *)
(* than the cycle that comes next, whatever the cycles cost and which of     *)
(* them failed.                                                              *)
CollectorsKeepPace ==
    \A c \in Scheduled :
        /\ ran[c] = Never => cycle \in {"asleep", "checking", "measuring"}
        /\ ran[c] # Never /\ cycle \in {"flushing", "trimming"} =>
              start - ran[c] < Every[c] + Jitter

(* "Running the expensive ones every second ... would rate-limit the very    *)
(* services being probed" (schedule.py:5): no process runs a collector twice *)
(* within its interval, not to catch up either.                              *)
CollectorsAreSpaced ==
    [][\A c \in Scheduled : ran[c] # Never /\ ran'[c] \notin {Never, ran[c]} =>
            ran'[c] - ran[c] >= Every[c]]_vars

(* What the spool's cap rests on: the writes between two trim checks are     *)
(* bounded by the interval and by the cycles that failed, each of which puts *)
(* the check off (Spool's TrimEvery).                                        *)
WritesBetweenTrims ==
    commits * CycleInterval <= 2 * (TrimInterval + (failures + 2) * CycleInterval)

LikelySuspend(step) == step.delta > 0 /\ 2 * step.gap < CycleInterval

(* "A large positive delta on a laptop most often means wake-from-sleep"     *)
(* (timeutil.py:65), and likely_suspend is to tell it by a monotonic clock   *)
(* that stalled between two checks.  The loop sleeps on that clock, so a     *)
(* check comes an interval after the last cycle began: a forward step, of a  *)
(* suspend or not, is named suspend only if it is a process's first check or *)
(* the thread was held for half an interval before the check before it.      *)
SuspendsNeedAHeldThread ==
    [][check.stage = "wall" /\ check'.stage = "step" /\ LikelySuspend(check'.step) =>
            2 * held > CycleInterval]_vars
=============================================================================
