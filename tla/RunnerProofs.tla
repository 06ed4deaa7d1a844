------------------------------ MODULE RunnerProofs -------------------------------
(***************************************************************************)
(* Theorems about the collection loop and its clock, for every threshold,  *)
(* set of jumps, interval, jitter and cadence, and for any number of failed*)
(* cycles and restarts.                                                    *)
(***************************************************************************)
EXTENDS Runner, SequenceTheorems, TLAPS

USE ClockConstants, RunnerConstants DEF ClockConstants, RunnerConstants

\* Where check_step has come to, and what its local variables then hold.
CheckUnderWay ==
    /\ check.stage # "idle" => cycle = "checking"
    /\ check.stage \in {"step", "half"} =>
          /\ start <= check.step.at
          /\ anchorMono <= check.step.at
          /\ check.read <= check.step.at
    /\ check.stage = "half" => anchorWall = check.step.detected

TypeInv == TypeOK /\ CheckUnderWay

\* The reader's anchor is one the clock had, or has.
ReaderInv ==
    reader.stage = "elapsed" =>
        /\ reader.mono <= anchorMono
        /\ reader.low <= anchorWall - reader.mono

\* The difference between the clocks when check_step read the wall clock holds
\* while the wall clock does not jump.
TrackInv ==
    still =>
        /\ check.stage = "wall" => wall - mono = check.wall - check.read
        /\ check.stage \in {"step", "half"} => wall - mono = check.step.detected - check.read
        /\ StampsTrackWall

LastOffset == OffsetAfter(Len(steps))

StepInv ==
    /\ steps = spooled \o pending
    /\ check.stage # "half" => Offset = LastOffset
    /\ check.stage \in {"step", "half"} => check.step.delta = OffsetOf(check.step) - LastOffset
    /\ \A i \in 1 .. Len(steps) : steps[i].delta = OffsetAfter(i) - OffsetAfter(i - 1)

\* A due time lies between an interval after the last run and as much more as
\* the jitter may be.
PaceInv ==
    /\ \A c \in Scheduled :
          /\ ran[c] = Never => due[c] = 0
          /\ ran[c] # Never => ran[c] + Every[c] <= due[c] /\ due[c] <= ran[c] + Every[c] + Jitter
    /\ CollectorsKeepPace

\* How far the last check lies behind the cycle that comes.
HeldInv ==
    /\ cycle = "asleep" => lastCheck + CycleInterval <= wake + held
    /\ cycle = "checking" /\ check.stage # "done" => lastCheck + CycleInterval <= start + held
    /\ cycle \in {"measuring", "flushing", "trimming"} \/ check.stage = "done" =>
          lastCheck = start + held

\* The time the writes since the last trim, and the failed cycles, would take
\* at one a cycle; and what the current cycle has written.
Spent == commits * CycleInterval
Lost == failures * CycleInterval
Writing ==
    IF cycle = "flushing" THEN CycleInterval
    ELSE IF cycle = "trimming" THEN 2 * CycleInterval ELSE 0

\* Each cycle begins an interval after the one before it and writes twice at
\* most; one that does not fail either trims or began within the trim interval.
TrimInv ==
    /\ cycle = "asleep" => commits = 0 \/ start + CycleInterval <= wake
    /\ Spent <= 2 * (start - lastTrim) + (IF cycle = "asleep" THEN 2 * CycleInterval ELSE Writing)
    /\ Spent <= 2 * (TrimInterval + CycleInterval) + Lost + Writing

-----------------------------------------------------------------------------
(* Types                                                                     *)

LEMMA RunnerInitTyped == Init => TypeInv
BY DEF Init, TypeInv, TypeOK, CheckUnderWay, NotChecking, NotReading, NoStep,
       Checks, ClockSteps, Readers, Never

LEMMA CheckFields ==
    ASSUME NEW c \in Checks
    PROVE  /\ c.stage \in {"idle", "wall", "step", "half", "done"}
           /\ c.wall \in Int /\ c.read \in Nat /\ c.step \in ClockSteps
           /\ c.step.detected \in Int /\ c.step.at \in Nat
           /\ c.step.delta \in Int /\ c.step.gap \in Nat
BY DEF Checks, ClockSteps

LEMMA Blank ==
    /\ NoStep \in ClockSteps /\ NoStep.at = 0
    /\ NotChecking \in Checks /\ NotChecking.read = 0 /\ NotChecking.step.at = 0
    /\ NotChecking.stage = "idle"
    /\ NotReading \in Readers /\ NotReading.mono = 0 /\ NotReading.stage = "idle"
BY DEF NoStep, NotChecking, NotReading, ClockSteps, Checks, Readers

(* A step's gap is never negative and its detection is now.                  *)
LEMMA StepTyped ==
    ASSUME TypeOK, NEW observed \in Int
    PROVE  /\ StepAt(observed, mono - lastCheck) \in ClockSteps
           /\ StepAt(observed, mono - lastCheck).at = mono
           /\ StepAt(observed, mono - lastCheck).detected = observed
           /\ StepAt(observed, mono - lastCheck).delta = observed - NowMs
           /\ StepAt(observed, mono - lastCheck).gap = mono - lastCheck
<1>1. mono \in Nat /\ mono - lastCheck \in Nat /\ NowMs \in Int
  BY DEF TypeOK, NowMs
<1> QED  BY <1>1 DEF StepAt, ClockSteps

(* What check_step's three parts do to the variables.                        *)
LEMMA ReadMonoEffect ==
    ASSUME TypeOK, ReadMono
    PROVE  /\ check.stage = "wall"
           /\ UNCHANGED <<mono, wall, jumps, anchorWall, anchorMono, steps, pending, base, reader, still>>
           /\ check' \in Checks /\ check'.read = check.read
           /\ \/ /\ Drifted(check.wall - NowMs)
                 /\ check'.stage = "done" /\ check'.step = check.step /\ lastCheck' = mono
              \/ /\ ~Drifted(check.wall - NowMs)
                 /\ check'.stage = "step" /\ lastCheck' = lastCheck
                 /\ check'.step = StepAt(check.wall, mono - lastCheck)
<1>1. check \in Checks /\ 0 \in Int
  BY DEF TypeOK
<1>2. check.wall \in Int
  BY <1>1, CheckFields
<1>3. StepAt(check.wall, mono - lastCheck) \in ClockSteps
  BY <1>2, StepTyped
<1>4. /\ check.stage = "wall"
      /\ UNCHANGED <<mono, wall, jumps, anchorWall, anchorMono, steps, pending, base, reader, still>>
  BY DEF ReadMono, sourceVars
<1>5. CASE Drifted(check.wall - NowMs)
  <2>1. check' = [check EXCEPT !.stage = "done", !.wall = 0] /\ lastCheck' = mono
    BY <1>5 DEF ReadMono
  <2>2. /\ check' \in Checks /\ check'.read = check.read
        /\ check'.stage = "done" /\ check'.step = check.step
    BY <1>1, <2>1 DEF Checks
  <2> QED  BY <1>4, <1>5, <2>1, <2>2
<1>6. CASE ~Drifted(check.wall - NowMs)
  <2>1. /\ check' = [check EXCEPT !.stage = "step", !.wall = 0,
                                  !.step = StepAt(check.wall, mono - lastCheck)]
        /\ lastCheck' = lastCheck
    BY <1>6 DEF ReadMono
  <2>2. /\ check' \in Checks /\ check'.read = check.read
        /\ check'.stage = "step" /\ check'.step = StepAt(check.wall, mono - lastCheck)
    BY <1>1, <1>3, <2>1 DEF Checks
  <2> QED  BY <1>4, <1>6, <2>1, <2>2
<1> QED  BY <1>5, <1>6

LEMMA WriteAnchorWallEffect ==
    ASSUME TypeOK, WriteAnchorWall
    PROVE  /\ check.stage = "step"
           /\ UNCHANGED <<mono, wall, jumps, anchorMono, lastCheck, steps, pending, base, still>>
           /\ check' \in Checks /\ check'.read = check.read /\ check'.step = check.step
           /\ check'.stage = "half"
           /\ anchorWall' = check.step.detected /\ anchorWall' \in Int
           /\ reader' \in Readers /\ reader'.mono = reader.mono /\ reader'.stage = reader.stage
           /\ reader.stage = "elapsed" =>
                 reader'.low = Lower(reader.low, OffsetOf(check.step))
<1>1. check \in Checks /\ reader \in Readers
  BY DEF TypeOK
<1>2. /\ check.stage = "step" /\ anchorWall' = check.step.detected
      /\ check' = [check EXCEPT !.stage = "half"]
      /\ reader' = IF reader.stage = "idle" THEN reader
                   ELSE [reader EXCEPT !.low = Lower(reader.low, OffsetOf(check.step))]
      /\ UNCHANGED <<mono, wall, jumps, anchorMono, lastCheck, steps, pending, base, still>>
  BY DEF WriteAnchorWall, sourceVars
<1>3. check.step.detected \in Int /\ check.step.at \in Nat /\ check.step \in ClockSteps
  BY <1>1, CheckFields
<1>4. check' \in Checks /\ check'.read = check.read /\ check'.step = check.step
      /\ check'.stage = "half"
  BY <1>1, <1>2 DEF Checks
<1>5. reader' \in Readers /\ reader'.mono = reader.mono /\ reader'.stage = reader.stage
      /\ (reader.stage = "elapsed" => reader'.low = Lower(reader.low, OffsetOf(check.step)))
  <2>1. Lower(reader.low, OffsetOf(check.step)) \in Int
    BY <1>1, <1>3 DEF Lower, OffsetOf, Readers
  <2> QED  BY <1>1, <1>2, <2>1 DEF Readers
<1> QED  BY <1>2, <1>3, <1>4, <1>5

LEMMA WriteAnchorMonoEffect ==
    ASSUME TypeOK, WriteAnchorMono
    PROVE  /\ check.stage = "half"
           /\ UNCHANGED <<mono, wall, jumps, anchorWall, base, reader, still>>
           /\ check' \in Checks /\ check'.read = check.read /\ check'.step = NoStep
           /\ check'.stage = "done"
           /\ anchorMono' = check.step.at /\ lastCheck' = check.step.at
           /\ check.step \in ClockSteps
           /\ steps' = Append(steps, check.step) /\ pending' = Append(pending, check.step)
           /\ steps' \in Seq(ClockSteps) /\ pending' \in Seq(ClockSteps)
<1>1. check \in Checks /\ steps \in Seq(ClockSteps) /\ pending \in Seq(ClockSteps) /\ 0 \in Int
  BY DEF TypeOK
<1>2. /\ check.stage = "half"
      /\ check' = [check EXCEPT !.stage = "done", !.step = NoStep]
      /\ anchorMono' = check.step.at /\ lastCheck' = check.step.at
      /\ steps' = Append(steps, check.step) /\ pending' = Append(pending, check.step)
      /\ UNCHANGED <<mono, wall, jumps, anchorWall, base, reader, still>>
  BY DEF WriteAnchorMono, sourceVars
<1>3. check.step \in ClockSteps
  BY <1>1, CheckFields
<1>4. check' \in Checks /\ check'.read = check.read /\ check'.step = NoStep
      /\ check'.stage = "done"
  BY <1>1, <1>2, Blank DEF Checks
<1>5. steps' \in Seq(ClockSteps) /\ pending' \in Seq(ClockSteps)
  BY <1>1, <1>2, <1>3, AppendProperties
<1> QED  BY <1>2, <1>3, <1>4, <1>5

(* The check's own steps: what it has observed lies within the cycle.        *)
LEMMA CheckTyped ==
    ASSUME TypeInv, BeginCheck \/ Check \/ Stamp
    PROVE  TypeInv'
<1>0. TypeOK
  BY DEF TypeInv
<1>a. /\ check \in Checks /\ check.read \in Nat /\ check.step.at \in Nat
      /\ check.read <= mono /\ check.step.at <= mono
  BY <1>0, CheckFields DEF TypeOK
<1>1. ASSUME BeginCheck
      PROVE  TypeInv'
  <2>1. /\ cycle = "checking" /\ still' \in BOOLEAN
        /\ UNCHANGED <<mono, wall, jumps, anchorWall, anchorMono, lastCheck, steps, pending, base, reader>>
        /\ UNCHANGED <<cycle, start, wake, due, ran, lastTrim, commits, held, spooled, failures, restarts>>
    BY <1>1 DEF BeginCheck, ReadWall, sourceVars, loopVars, scheduleVars, trimVars
  <2>2. mono \in Nat /\ wall \in Int
    BY <1>0 DEF TypeOK
  <2>3. check' \in Checks /\ check'.read = mono /\ check'.step.at = 0 /\ check'.stage = "wall"
    <3>1. check' = [NotChecking EXCEPT !.stage = "wall", !.wall = wall, !.read = mono]
      BY <1>1 DEF BeginCheck, ReadWall
    <3> QED  BY <3>1, <2>2, Blank DEF Checks
  <2>4. TypeOK'
    BY <1>0, <2>1, <2>2, <2>3 DEF TypeOK
  <2> QED  BY <2>1, <2>3, <2>4 DEF TypeInv, CheckUnderWay
<1>2. ASSUME Check
      PROVE  TypeInv'
  <2>0. /\ cycle = "checking"
        /\ UNCHANGED <<cycle, start, wake, due, ran, lastTrim, commits, spooled, failures, restarts>>
        /\ held' = IF check'.stage = "done" THEN lastCheck' - start ELSE held
    BY <1>2 DEF Check, loopVars, scheduleVars, trimVars
  <2>1. ASSUME ReadMono
        PROVE  TypeInv'
    <3>1. StepAt(check.wall, mono - lastCheck).at = mono
      BY <1>0, <1>a, CheckFields, StepTyped
    <3>2. /\ check.stage = "wall"
          /\ UNCHANGED <<mono, wall, jumps, anchorWall, anchorMono, steps, pending, base, reader, still>>
          /\ check' \in Checks /\ check'.read = check.read
          /\ \/ check'.stage = "done" /\ check'.step = check.step /\ lastCheck' = mono
             \/ check'.stage = "step" /\ lastCheck' = lastCheck /\ check'.step.at = mono
      BY <2>1, <3>1, <1>0, ReadMonoEffect
    <3>3. held' \in Nat /\ lastCheck' \in 0 .. mono
      BY <2>0, <3>2, <1>0 DEF TypeOK
    <3>4. check'.read <= mono /\ check'.step.at <= mono
      BY <3>2, <1>a, <1>0 DEF TypeOK
    <3>5. TypeOK'
      BY <1>0, <2>0, <3>2, <3>3, <3>4 DEF TypeOK
    <3>6. CheckUnderWay'
      BY <1>0, <1>a, <2>0, <3>2 DEF TypeOK, CheckUnderWay
    <3> QED  BY <3>5, <3>6 DEF TypeInv
  <2>2. ASSUME WriteAnchorWall
        PROVE  TypeInv'
    BY <1>a, <2>0, <2>2, <1>0, WriteAnchorWallEffect DEF TypeInv, TypeOK, CheckUnderWay
  <2>3. ASSUME WriteAnchorMono
        PROVE  TypeInv'
    <3>1. /\ check.stage = "half"
          /\ UNCHANGED <<mono, wall, jumps, anchorWall, base, reader, still>>
          /\ check' \in Checks /\ check'.read = check.read /\ check'.step.at = 0
          /\ check'.stage = "done"
          /\ anchorMono' = check.step.at /\ lastCheck' = check.step.at
          /\ steps' \in Seq(ClockSteps) /\ pending' \in Seq(ClockSteps)
      BY <2>3, <1>0, WriteAnchorMonoEffect, Blank
    <3>2. held' \in Nat
      BY <1>a, <2>0, <3>1 DEF TypeInv, TypeOK, CheckUnderWay
    <3>3. TypeOK'
      BY <1>a, <1>0, <2>0, <3>1, <3>2 DEF TypeOK
    <3> QED  BY <2>0, <3>1, <3>3 DEF TypeInv, CheckUnderWay
  <2> QED  BY <1>2, <2>1, <2>2, <2>3 DEF Check, CheckStep
<1>3. ASSUME Stamp
      PROVE  TypeInv'
  BY <1>3, Blank DEF Stamp, sourceVars, scheduleVars, trimVars, TypeInv, TypeOK, CheckUnderWay
<1> QED  BY <1>1, <1>2, <1>3

(* What the parts of a cycle have in common.                                 *)
LEMMA SleepEffect ==
    ASSUME TypeOK, Sleep
    PROVE  /\ cycle' = "asleep" /\ start' = start
           /\ wake' \in Nat /\ mono <= wake'
           /\ start + CycleInterval <= wake'
<1>1. PICK jitter \in 0 .. CycleJitter :
          wake' = IF mono < start + CycleInterval + jitter
                  THEN start + CycleInterval + jitter ELSE mono
  BY DEF Sleep
<1>2. start \in Nat /\ mono \in Nat
  BY DEF TypeOK
<1> QED  BY <1>1, <1>2 DEF Sleep

LEMMA RunDueEffect ==
    ASSUME TypeOK, RunDue
    PROVE  /\ due' \in [Scheduled -> Nat]
           /\ ran' \in [Scheduled -> {Never} \cup 0 .. start]
           /\ \A c \in Scheduled :
                 \/ /\ start >= due[c] /\ ran'[c] = start
                    /\ start + Every[c] <= due'[c] /\ due'[c] <= start + Every[c] + Jitter
                 \/ start < due[c] /\ ran'[c] = ran[c] /\ due'[c] = due[c]
<1>1. /\ start \in Nat /\ due \in [Scheduled -> Nat]
      /\ ran \in [Scheduled -> {Never} \cup 0 .. start]
  BY DEF TypeOK
<1>2. PICK jitter \in [Scheduled -> 0 .. Jitter] :
          due' = [c \in Scheduled |-> IF IsDue(c) THEN start + Every[c] + jitter[c] ELSE due[c]]
  BY DEF RunDue
<1>3. ran' = [c \in Scheduled |-> IF IsDue(c) THEN start ELSE ran[c]]
  BY DEF RunDue
<1>4. ran' \in [Scheduled -> {Never} \cup 0 .. start]
  BY <1>1, <1>3 DEF IsDue
<1>5. due' \in [Scheduled -> Nat]
  BY <1>1, <1>2 DEF IsDue
<1>6. ASSUME NEW c \in Scheduled
      PROVE  \/ /\ start >= due[c] /\ ran'[c] = start
                /\ start + Every[c] <= due'[c] /\ due'[c] <= start + Every[c] + Jitter
             \/ start < due[c] /\ ran'[c] = ran[c] /\ due'[c] = due[c]
  BY <1>1, <1>2, <1>3 DEF IsDue
<1> QED  BY <1>4, <1>5, <1>6

(* Once the samples are stored the cycle only writes, counts and goes to     *)
(* sleep.                                                                    *)
LEMMA CycleTyped ==
    ASSUME TypeInv, WakeUp \/ StoreTick \/ StoreFails \/ Flush \/ FlushFails \/ TrimCheck
    PROVE  TypeInv'
<1>0. TypeOK
  BY DEF TypeInv
<1> USE DEF TypeInv, TypeOK, CheckUnderWay
<1>1. CASE WakeUp
  BY <1>1 DEF WakeUp, clockVars, anchorVars, sourceVars, scheduleVars, trimVars
<1>2. CASE StoreTick
  <2>1. /\ cycle = "measuring" /\ cycle' = "flushing" /\ commits' = commits + 1
        /\ UNCHANGED <<mono, wall, jumps, anchorWall, anchorMono, lastCheck, steps, pending, check,
                       base, reader, still, start, wake, lastTrim, held, spooled, failures, restarts>>
    BY <1>2 DEF StoreTick, clockVars, anchorVars, sourceVars
  <2>2. due' \in [Scheduled -> Nat] /\ ran' \in [Scheduled -> {Never} \cup 0 .. start]
    BY <1>0, <1>2, RunDueEffect DEF StoreTick
  <2> QED  BY <2>1, <2>2
<1>3. CASE StoreFails
  <2>1. /\ cycle = "measuring" /\ failures < MaxFailures /\ failures' = failures + 1
        /\ UNCHANGED <<mono, wall, jumps, anchorWall, anchorMono, lastCheck, steps, pending, check,
                       base, reader, still, lastTrim, commits, held, spooled, restarts>>
    BY <1>3 DEF StoreFails, CycleFails, trimVars, clockVars, anchorVars, sourceVars
  <2>2. due' \in [Scheduled -> Nat] /\ ran' \in [Scheduled -> {Never} \cup 0 .. start]
    BY <1>0, <1>3, RunDueEffect DEF StoreFails
  <2>3. cycle' = "asleep" /\ start' = start /\ wake' \in Nat
    BY <1>0, <1>3, SleepEffect DEF StoreFails, CycleFails
  <2> QED  BY <2>1, <2>2, <2>3
<1>4. CASE Flush
  <2>1. /\ cycle = "flushing" /\ cycle' = "trimming"
        /\ spooled' = spooled \o pending /\ pending' = << >>
        /\ commits' = IF pending = << >> THEN commits ELSE commits + 1
        /\ UNCHANGED <<mono, wall, jumps, anchorWall, anchorMono, lastCheck, steps, check,
                       base, reader, still, start, wake, due, ran, lastTrim, held, failures, restarts>>
    BY <1>4 DEF Flush, scheduleVars, sourceVars
  <2>2. spooled' \in Seq(ClockSteps) /\ pending' \in Seq(ClockSteps)
    BY <2>1, ConcatProperties, EmptySeq
  <2> QED  BY <2>1, <2>2
<1>5. CASE FlushFails
  <2>1. /\ cycle = "flushing" /\ failures < MaxFailures /\ failures' = failures + 1
        /\ UNCHANGED <<mono, wall, jumps, anchorWall, anchorMono, lastCheck, steps, pending, check,
                       base, reader, still, due, ran, lastTrim, commits, held, spooled, restarts>>
    BY <1>5 DEF FlushFails, CycleFails, scheduleVars, trimVars, clockVars, anchorVars, sourceVars
  <2>2. cycle' = "asleep" /\ start' = start /\ wake' \in Nat
    BY <1>0, <1>5, SleepEffect DEF FlushFails, CycleFails
  <2> QED  BY <2>1, <2>2
<1>6. CASE TrimCheck
  <2>1. /\ cycle = "trimming"
        /\ lastTrim' \in {lastTrim, start} /\ commits' \in {commits, 0}
        /\ UNCHANGED <<mono, wall, jumps, anchorWall, anchorMono, lastCheck, steps, pending, check,
                       base, reader, still, due, ran, held, spooled, failures, restarts>>
    BY <1>6 DEF TrimCheck, scheduleVars, trimVars, clockVars, anchorVars, sourceVars
  <2>2. cycle' = "asleep" /\ start' = start /\ wake' \in Nat
    BY <1>0, <1>6, SleepEffect DEF TrimCheck
  <2> QED  BY <2>1, <2>2
<1> QED  BY <1>1, <1>2, <1>3, <1>4, <1>5, <1>6

(* The other thread, time, a jump and a new process.                         *)
LEMMA OthersTyped ==
    ASSUME TypeInv, ShippingThread \/ Environment \/ Restart
    PROVE  TypeInv'
<1>1. CASE ShippingThread
  <2>1. UNCHANGED <<mono, wall, jumps, anchorWall, anchorMono, lastCheck, steps, pending, check,
                    base, still, cycle, start, wake, due, ran, lastTrim, commits, held, spooled,
                    failures, restarts>>
    BY <1>1 DEF ShippingThread, ReadNow, ReadElapsed, EndNow,
                loopVars, scheduleVars, trimVars, anchorVars, sourceVars
  <2>2. reader' \in Readers /\ reader'.mono <= mono
    <3>1. anchorWall \in Int /\ anchorMono \in Nat /\ anchorMono <= mono /\ check \in Checks
      BY DEF TypeInv, TypeOK
    <3>2. Settled \in Int
      BY <3>1, CheckFields DEF Settled, OffsetOf, Offset
    <3>3. mono \in Nat
      BY DEF TypeInv, TypeOK
    <3> QED  BY <1>1, <3>1, <3>2, <3>3, Blank DEF ShippingThread, ReadNow, ReadElapsed, EndNow, Readers
  <2> QED  BY <2>1, <2>2 DEF TypeInv, TypeOK, CheckUnderWay
<1>2. CASE Environment
  <2>1. UNCHANGED <<anchorWall, anchorMono, lastCheck, steps, pending, check, reader,
                    base, cycle, start, wake, due, ran, lastTrim, commits, held, spooled,
                    failures, restarts>>
    BY <1>2 DEF Environment, Tick, Jump, loopVars, scheduleVars, trimVars, anchorVars
  <2>2. /\ mono' \in 0 .. MaxMono /\ mono <= mono' /\ wall' \in Int
        /\ jumps' \in 0 .. MaxJumps /\ still' \in BOOLEAN
    <3>1. mono \in 0 .. MaxMono /\ wall \in Int /\ jumps \in 0 .. MaxJumps /\ still \in BOOLEAN
      BY DEF TypeInv, TypeOK
    <3>2. CASE Tick
      BY <3>1, <3>2 DEF Tick
    <3>3. ASSUME NEW d \in Jumps, Jump(d)
          PROVE  /\ mono' \in 0 .. MaxMono /\ mono <= mono' /\ wall' \in Int
                 /\ jumps' \in 0 .. MaxJumps /\ still' \in BOOLEAN
      <4>1. d \in Int
        OBVIOUS
      <4>2. mono' = mono /\ wall' = wall + d /\ jumps' = jumps + 1 /\ jumps < MaxJumps /\ still' = FALSE
        BY <3>3 DEF Jump
      <4>3. jumps' \in 0 .. MaxJumps
        BY <3>1, <4>2
      <4>4. wall' \in Int
        BY <3>1, <4>1, <4>2
      <4>5. mono' \in 0 .. MaxMono /\ mono <= mono'
        BY <3>1, <4>2
      <4> QED  BY <4>2, <4>3, <4>4, <4>5
    <3> QED  BY <1>2, <3>2, <3>3 DEF Environment
  <2> QED  BY <2>1, <2>2, CheckFields DEF TypeInv, TypeOK, CheckUnderWay, Readers
<1>3. CASE Restart
  BY <1>3, Blank DEF Restart, sourceVars, TypeInv, TypeOK, CheckUnderWay, Never
<1> QED  BY <1>1, <1>2, <1>3

LEMMA TypeInvStep == TypeInv /\ [Next]_vars => TypeInv'
<1> SUFFICES ASSUME TypeInv, [Next]_vars
             PROVE  TypeInv'
  OBVIOUS
<1>1. CASE Next
  BY <1>1, CheckTyped, CycleTyped, OthersTyped DEF Next, Collector
<1>2. CASE UNCHANGED vars
  BY <1>2 DEF vars, clockVars, anchorVars, sourceVars, loopVars, scheduleVars, trimVars,
              TypeInv, TypeOK, CheckUnderWay
<1> QED  BY <1>1, <1>2

(* Types, and that no time is ahead of the monotonic clock but what is meant *)
(* to come: the anchor, the last check and the last trim lie in the past,    *)
(* and no gap is negative.                                                   *)
THEOREM TypeCorrect == Spec => []TypeOK
<1>1. TypeInv => TypeOK
  BY DEF TypeInv
<1> QED  BY <1>1, RunnerInitTyped, TypeInvStep, PTL DEF Spec

-----------------------------------------------------------------------------
(* What the proofs below have in common                                      *)

\* The steps that leave the clock alone.
Elsewhere == WakeUp \/ StoreTick \/ StoreFails \/ Flush \/ FlushFails \/ TrimCheck

LEMMA ElsewhereEffect ==
    Elsewhere => UNCHANGED <<mono, wall, anchorWall, anchorMono, lastCheck, steps, check, base,
                             reader, still, held>>
BY DEF Elsewhere, WakeUp, StoreTick, StoreFails, Flush, FlushFails, TrimCheck, trimVars,
       clockVars, anchorVars, sourceVars

\* What a step does to the clock: one case for each.
ClockStep ==
    \/ /\ BeginCheck /\ cycle = "checking" /\ check.stage = "idle"
       /\ check'.stage = "wall" /\ check'.wall = wall /\ check'.read = mono /\ still'
       /\ UNCHANGED <<mono, wall, anchorWall, anchorMono, lastCheck, steps, base, reader, held>>
    \/ Check /\ ReadMono
    \/ Check /\ WriteAnchorWall
    \/ Check /\ WriteAnchorMono
    \/ /\ Stamp /\ check.stage = "done" /\ check'.stage = "idle"
       /\ UNCHANGED <<mono, wall, anchorWall, anchorMono, lastCheck, steps, base, reader, still, held>>
    \/ /\ ShippingThread
       /\ UNCHANGED <<mono, wall, anchorWall, anchorMono, lastCheck, steps, base, check, still, held>>
    \/ /\ Environment
       /\ \/ wall' = wall + 1 /\ mono' = mono + 1 /\ still' = still
          \/ mono' = mono /\ ~still'
       /\ UNCHANGED <<anchorWall, anchorMono, lastCheck, steps, base, check, reader, held>>
    \/ /\ Restart
       /\ anchorWall' = wall /\ anchorMono' = mono /\ lastCheck' = mono /\ base' = wall - mono
       /\ steps' = << >> /\ check'.stage = "idle" /\ reader'.stage = "idle"
       /\ UNCHANGED <<mono, wall, still>>
    \/ UNCHANGED <<mono, wall, anchorWall, anchorMono, lastCheck, steps, base, check, reader,
                   still, held>>

LEMMA EveryStep == TypeInv /\ [Next]_vars => ClockStep
<1> SUFFICES ASSUME TypeInv, [Next]_vars
             PROVE  ClockStep
  OBVIOUS
<1>1. ASSUME BeginCheck
      PROVE  ClockStep
  BY <1>1 DEF ClockStep, BeginCheck, ReadWall, NotChecking, sourceVars
<1>2. ASSUME Check
      PROVE  ClockStep
  BY <1>2 DEF ClockStep, Check, CheckStep
<1>3. ASSUME Stamp
      PROVE  ClockStep
  BY <1>3, Blank DEF ClockStep, Stamp, sourceVars
<1>4. ASSUME ShippingThread
      PROVE  ClockStep
  BY <1>4 DEF ClockStep, ShippingThread, ReadNow, ReadElapsed, EndNow, anchorVars, sourceVars
<1>5. ASSUME Environment
      PROVE  ClockStep
  <2>1. UNCHANGED <<anchorWall, anchorMono, lastCheck, steps, base, check, reader, held>>
    BY <1>5 DEF Environment, Tick, Jump, anchorVars
  <2>2. \/ wall' = wall + 1 /\ mono' = mono + 1 /\ still' = still
        \/ mono' = mono /\ ~still'
    BY <1>5 DEF Environment, Tick, Jump
  <2> QED  BY <1>5, <2>1, <2>2 DEF ClockStep
<1>6. ASSUME Restart
      PROVE  ClockStep
  BY <1>6, Blank DEF ClockStep, Restart, sourceVars
<1>7. ASSUME Elsewhere \/ UNCHANGED vars
      PROVE  ClockStep
  <2>1. UNCHANGED <<mono, wall, anchorWall, anchorMono, lastCheck, steps, base, check, reader,
                    still, held>>
    BY <1>7, ElsewhereEffect DEF vars, clockVars, anchorVars, sourceVars
  <2> QED  BY <2>1 DEF ClockStep
<1> QED  BY <1>1, <1>2, <1>3, <1>4, <1>5, <1>6, <1>7 DEF Next, Collector, Elsewhere

-----------------------------------------------------------------------------
(* The clock's readers                                                       *)

LEMMA ReaderStep ==
    ASSUME TypeInv, ReaderInv, [Next]_vars
    PROVE  ReaderInv'
<1>0. TypeOK /\ ClockStep
  BY EveryStep DEF TypeInv
<1>1. /\ anchorWall \in Int /\ anchorMono \in Nat /\ anchorMono <= mono
      /\ check \in Checks /\ mono \in Nat
      /\ reader.low \in Int /\ reader.mono \in Nat /\ reader.stage \in {"idle", "elapsed"}
  BY <1>0 DEF TypeOK, Readers
<1>2. check.step.detected \in Int /\ check.step.at \in Nat
  BY <1>1, CheckFields
<1>3. CASE Check /\ ReadMono
  BY <1>0, <1>3, ReadMonoEffect DEF ReaderInv
<1>4. CASE Check /\ WriteAnchorWall
  <2>1. /\ check.stage = "step" /\ anchorWall' = check.step.detected
        /\ reader'.mono = reader.mono /\ reader'.stage = reader.stage /\ anchorMono' = anchorMono
        /\ (reader.stage = "elapsed" => reader'.low = Lower(reader.low, OffsetOf(check.step)))
    BY <1>0, <1>4, WriteAnchorWallEffect
  <2>2. anchorMono <= check.step.at
    BY <2>1 DEF TypeInv, CheckUnderWay
  <2> QED  BY <1>1, <1>2, <2>1, <2>2 DEF ReaderInv, Lower, OffsetOf
<1>5. CASE Check /\ WriteAnchorMono
  <2>1. /\ check.stage = "half" /\ anchorMono' = check.step.at
        /\ anchorWall' = anchorWall /\ reader' = reader
    BY <1>0, <1>5, WriteAnchorMonoEffect
  <2>2. anchorMono <= check.step.at
    BY <2>1 DEF TypeInv, CheckUnderWay
  <2> QED  BY <1>1, <1>2, <2>1, <2>2 DEF ReaderInv
<1>6. CASE ShippingThread
  <2>1. CASE ReadElapsed
    <3>1. /\ reader' = [stage |-> "elapsed", mono |-> anchorMono, low |-> Settled]
          /\ anchorWall' = anchorWall /\ anchorMono' = anchorMono
      BY <2>1 DEF ReadElapsed, anchorVars
    <3>2. check.stage = "half" => anchorWall = check.step.detected /\ anchorMono <= check.step.at
      BY DEF TypeInv, CheckUnderWay
    <3>3. Settled <= anchorWall - anchorMono
      BY <1>1, <1>2, <3>2 DEF Settled, OffsetOf, Offset
    <3> QED  BY <1>1, <3>1, <3>3 DEF ReaderInv
  <2>2. CASE EndNow
    BY <2>2, Blank DEF EndNow, ReaderInv
  <2> QED  BY <1>6, <2>1, <2>2 DEF ShippingThread, ReadNow
<1>7. CASE reader' = reader /\ anchorMono' = anchorMono /\ anchorWall' = anchorWall
  BY <1>7 DEF ReaderInv
<1>8. CASE reader'.stage = "idle"
  BY <1>8 DEF ReaderInv
<1> QED  BY <1>0, <1>3, <1>4, <1>5, <1>6, <1>7, <1>8 DEF ClockStep

(* The offset a batch is sent with is never below every offset the clock     *)
(* stood for while it was read, although nothing keeps the two reads of the  *)
(* shipping thread together.                                                 *)
THEOREM ReadsErrAhead == Spec => []SentNeverBehind
<1>1. Init => ReaderInv
  BY Blank DEF Init, ReaderInv
<1>2. TypeInv /\ ReaderInv => SentNeverBehind
  BY DEF ReaderInv, SentNeverBehind, ReturnedOffset
<1> QED  BY <1>1, <1>2, RunnerInitTyped, TypeInvStep, ReaderStep, PTL DEF Spec

LEMMA TrackStep ==
    ASSUME TypeInv, TrackInv, [Next]_vars
    PROVE  TrackInv'
<1>0. TypeOK /\ ClockStep
  BY EveryStep DEF TypeInv
<1>1. /\ anchorWall \in Int /\ anchorMono \in Nat /\ anchorMono <= mono
      /\ wall \in Int /\ mono \in Nat /\ check \in Checks /\ lastCheck \in Nat
      /\ check.read <= mono /\ still \in BOOLEAN
  BY <1>0 DEF TypeOK
<1>2. /\ check.step.detected \in Int /\ check.step.at \in Nat
      /\ check.wall \in Int /\ check.read \in Nat
  BY <1>1, CheckFields
<1>3. SUFFICES ASSUME still'
               PROVE  TrackInv'
  BY DEF TrackInv
<1>4. CASE BeginCheck /\ check'.stage = "wall"
  BY <1>0, <1>1, <1>4 DEF BeginCheck, ReadWall, NotChecking, sourceVars, TrackInv, StampsTrackWall
<1>5. CASE Check /\ ReadMono
  <2>1. /\ check.stage = "wall" /\ check'.read = check.read
        /\ UNCHANGED <<mono, wall, anchorWall, anchorMono, still>>
        /\ \/ Drifted(check.wall - NowMs) /\ check'.stage = "done" /\ lastCheck' = mono
           \/ check'.stage = "step" /\ check'.step = StepAt(check.wall, mono - lastCheck)
    BY <1>0, <1>5, ReadMonoEffect
  <2>2. wall - mono = check.wall - check.read
    BY <1>3, <2>1 DEF TrackInv
  <2>3. CASE Drifted(check.wall - NowMs) /\ check'.stage = "done" /\ lastCheck' = mono
    <3>1. NowMs \in Int /\ NowMs' = NowMs
      BY <1>1, <2>1 DEF NowMs
    <3>2. wall - NowMs = (check.wall - NowMs) + (mono - check.read)
      BY <1>1, <1>2, <2>2, <3>1
    <3>3. wall' - NowMs' > -Threshold
      BY <1>1, <1>2, <2>1, <2>3, <3>1, <3>2 DEF Drifted
    <3>4. wall' - NowMs' < Threshold + (lastCheck' - check'.read)
      BY <1>1, <1>2, <2>1, <2>3, <3>1, <3>2 DEF Drifted
    <3> QED  BY <2>3, <3>3, <3>4 DEF TrackInv, StampsTrackWall
  <2>4. CASE check'.stage = "step" /\ check'.step = StepAt(check.wall, mono - lastCheck)
    <3>1. check'.step.detected = check.wall
      BY <1>0, <1>2, <2>4, StepTyped
    <3> QED  BY <2>1, <2>2, <2>4, <3>1 DEF TrackInv, StampsTrackWall
  <2> QED  BY <2>1, <2>3, <2>4
<1>6. CASE Check /\ WriteAnchorWall
  <2>1. /\ check.stage = "step" /\ check'.stage = "half" /\ check'.step = check.step
        /\ check'.read = check.read
        /\ UNCHANGED <<mono, wall, still>>
    BY <1>0, <1>6, WriteAnchorWallEffect
  <2> QED  BY <1>3, <2>1 DEF TrackInv, StampsTrackWall
<1>7. CASE Check /\ WriteAnchorMono
  <2>1. /\ check.stage = "half" /\ check'.stage = "done" /\ check'.read = check.read
        /\ anchorMono' = check.step.at /\ lastCheck' = check.step.at
        /\ UNCHANGED <<mono, wall, anchorWall, still>>
    BY <1>0, <1>7, WriteAnchorMonoEffect
  <2>2. anchorWall = check.step.detected /\ check.read <= check.step.at
        /\ wall - mono = check.step.detected - check.read
    BY <1>3, <2>1 DEF TypeInv, CheckUnderWay, TrackInv
  <2>3. NowMs' = check.step.detected + (mono - check.step.at)
    BY <2>1, <2>2 DEF NowMs
  <2>4. wall - NowMs' = check.step.at - check.read
    BY <1>1, <1>2, <2>2, <2>3
  <2> QED  BY <1>1, <1>2, <2>1, <2>2, <2>4 DEF TrackInv, StampsTrackWall
<1>8. CASE Environment /\ UNCHANGED <<anchorWall, anchorMono, lastCheck, check>>
           /\ wall' = wall + 1 /\ mono' = mono + 1 /\ still' = still
  <2>1. wall' - NowMs' = wall - NowMs /\ wall' - mono' = wall - mono
    BY <1>1, <1>8 DEF NowMs
  <2> QED  BY <1>3, <1>8, <2>1 DEF TrackInv, StampsTrackWall
<1>9. CASE check'.stage = "idle"
  BY <1>9 DEF TrackInv, StampsTrackWall
<1>10. CASE UNCHANGED <<mono, wall, anchorWall, anchorMono, lastCheck, check, still>>
  BY <1>10 DEF TrackInv, StampsTrackWall, NowMs
<1> QED  BY <1>0, <1>3, <1>4, <1>5, <1>6, <1>7, <1>8, <1>9, <1>10 DEF ClockStep

(* Whatever jumps came before, a tick's stamp is within the threshold of the *)
(* wall clock, or behind it by the time the thread was held at its check.    *)
THEOREM StampsAlwaysTrack == Spec => []StampsTrackWall
<1>1. Init => TrackInv
  BY Blank DEF Init, TrackInv, StampsTrackWall
<1>2. TrackInv => StampsTrackWall
  BY DEF TrackInv, StampsTrackWall
<1> QED  BY <1>1, <1>2, RunnerInitTyped, TypeInvStep, TrackStep, PTL DEF Spec

-----------------------------------------------------------------------------
(* The clock steps                                                           *)

\* Where the clock stands after i of these steps.
LEMMA LastOffsetOfAppend ==
    ASSUME NEW s \in Seq(ClockSteps), NEW e \in ClockSteps
    PROVE  /\ Append(s, e) \in Seq(ClockSteps)
           /\ Len(s) \in Nat /\ Len(Append(s, e)) = Len(s) + 1
           /\ \A i \in 1 .. Len(s) : Append(s, e)[i] = s[i]
           /\ Append(s, e)[Len(s) + 1] = e
BY AppendProperties, LenProperties

LEMMA AppendToWhole ==
    ASSUME NEW s \in Seq(ClockSteps), NEW t \in Seq(ClockSteps), NEW e \in ClockSteps
    PROVE  Append(s \o t, e) = s \o Append(t, e)
<1>1. s \o t \in Seq(ClockSteps) /\ <<e>> \in Seq(ClockSteps)
  BY ConcatProperties
<1>2. Append(s \o t, e) = (s \o t) \o <<e>> /\ Append(t, e) = t \o <<e>>
  BY <1>1, AppendIsConcat
<1>3. (s \o t) \o <<e>> = s \o (t \o <<e>>)
  BY <1>1, ConcatAssociative
<1> QED  BY <1>2, <1>3

LEMMA StepsStep ==
    ASSUME TypeInv, StepInv, [Next]_vars
    PROVE  StepInv'
<1>0. TypeOK /\ ClockStep
  BY EveryStep DEF TypeInv
<1>1. /\ anchorWall \in Int /\ anchorMono \in Nat /\ anchorMono <= mono
      /\ check \in Checks /\ mono \in Nat /\ base \in Int
      /\ steps \in Seq(ClockSteps) /\ pending \in Seq(ClockSteps) /\ spooled \in Seq(ClockSteps)
  BY <1>0 DEF TypeOK
<1>2. /\ check.step.detected \in Int /\ check.step.at \in Nat /\ check.step \in ClockSteps
      /\ check.wall \in Int
  BY <1>1, CheckFields
<1>3. steps = spooled \o pending => steps' = spooled' \o pending'
  <2>1. CASE UNCHANGED <<steps, spooled, pending>>
    BY <2>1
  <2>2. CASE Flush
    <3>1. spooled' = spooled \o pending /\ pending' = << >> /\ steps' = steps
      BY <2>2 DEF Flush
    <3>2. spooled \o pending \in Seq(ClockSteps)
      BY <1>1, ConcatProperties
    <3> QED  BY <3>1, <3>2, ConcatEmptySeq
  <2>3. CASE Check /\ WriteAnchorMono
    <3>1. steps' = Append(steps, check.step) /\ pending' = Append(pending, check.step)
          /\ spooled' = spooled
      BY <1>0, <2>3, WriteAnchorMonoEffect DEF Check
    <3>2. Append(spooled \o pending, check.step) = spooled \o Append(pending, check.step)
      BY <1>1, <1>2, AppendToWhole
    <3> QED  BY <3>1, <3>2, Zenon
  <2>4. CASE Restart
    <3>1. steps' = << >> /\ spooled' = << >> /\ pending' = << >>
      BY <2>4 DEF Restart
    <3> QED  BY <3>1, ConcatEmptySeq, EmptySeq
  <2>5. ASSUME Next, ~Flush, ~(Check /\ WriteAnchorMono), ~Restart
        PROVE  UNCHANGED <<steps, spooled, pending>>
    BY <2>5, <1>0, ReadMonoEffect, WriteAnchorWallEffect
       DEF Next, Collector, WakeUp, BeginCheck, ReadWall, Check, CheckStep, Stamp, StoreTick, StoreFails,
           FlushFails, TrimCheck, ShippingThread, ReadNow, ReadElapsed, EndNow, Environment, Tick, Jump,
           clockVars, anchorVars, sourceVars
  <2>6. UNCHANGED vars => UNCHANGED <<steps, spooled, pending>>
    BY DEF vars, clockVars, anchorVars
  <2> QED  BY <2>1, <2>2, <2>3, <2>4, <2>5, <2>6
<1>4. CASE Check /\ WriteAnchorMono
  <2>1. /\ check.stage = "half" /\ check'.stage = "done" /\ anchorWall' = anchorWall /\ base' = base
        /\ anchorMono' = check.step.at /\ steps' = Append(steps, check.step)
    BY <1>0, <1>4, WriteAnchorMonoEffect
  <2>2. anchorWall = check.step.detected
    BY <2>1 DEF TypeInv, CheckUnderWay
  <2>3. /\ Len(steps) \in Nat /\ Len(steps') = Len(steps) + 1
        /\ \A i \in 1 .. Len(steps) : steps'[i] = steps[i]
        /\ steps'[Len(steps) + 1] = check.step
    BY <1>1, <1>2, <2>1, LastOffsetOfAppend
  <2>4. \A i \in 0 .. Len(steps) : OffsetAfter(i)' = OffsetAfter(i)
    BY <2>1, <2>3 DEF OffsetAfter, OffsetOf
  <2>a. PICK n \in Nat : n = Len(steps)
    BY <2>3
  <2>5. OffsetAfter(n + 1)' = OffsetOf(check.step)
    BY <2>3, <2>a DEF OffsetAfter, OffsetOf
  <2>6. LastOffset' = OffsetOf(check.step)
    BY <2>3, <2>a, <2>5 DEF LastOffset
  <2>7. Offset' = OffsetOf(check.step)
    BY <2>1, <2>2 DEF Offset, OffsetOf
  <2>8. ASSUME NEW i \in 1 .. Len(steps')
        PROVE  steps'[i].delta = OffsetAfter(i)' - OffsetAfter(i - 1)'
    <3>1. CASE i \in 1 .. Len(steps)
      <4>1. i \in 0 .. Len(steps) /\ i - 1 \in 0 .. Len(steps)
        BY <2>3, <3>1
      <4> QED  BY <2>3, <2>4, <3>1, <4>1 DEF StepInv
    <3>2. CASE i = Len(steps) + 1
      <4>1. check.step.delta = OffsetOf(check.step) - LastOffset
        BY <2>1 DEF StepInv
      <4>2. i - 1 = n /\ i = n + 1 /\ n \in 0 .. Len(steps) /\ LastOffset = OffsetAfter(n)
        BY <2>3, <2>a, <3>2 DEF LastOffset
      <4>3. OffsetAfter(i - 1)' = LastOffset
        BY <2>4, <4>2
      <4> QED  BY <2>3, <2>a, <2>5, <3>2, <4>1, <4>2, <4>3
    <3> QED  BY <2>3, <3>1, <3>2
  <2> QED  BY <1>3, <2>1, <2>6, <2>7, <2>8 DEF StepInv
<1>5. CASE Check /\ ReadMono
  <2>1. /\ check.stage = "wall"
        /\ UNCHANGED <<mono, anchorWall, anchorMono, steps, base>>
        /\ \/ check'.stage = "done"
           \/ check'.stage = "step" /\ check'.step = StepAt(check.wall, mono - lastCheck)
    BY <1>0, <1>5, ReadMonoEffect
  <2>2. /\ LastOffset' = LastOffset /\ Offset' = Offset
        /\ \A i \in 0 .. Len(steps) : OffsetAfter(i)' = OffsetAfter(i)
    BY <2>1 DEF LastOffset, Offset, OffsetAfter, OffsetOf
  <2>3. CASE check'.stage = "step" /\ check'.step = StepAt(check.wall, mono - lastCheck)
    <3>1. /\ check'.step.delta = check.wall - NowMs
          /\ check'.step.detected = check.wall /\ check'.step.at = mono
      BY <1>0, <1>2, <2>3, StepTyped
    <3>2. check.wall - NowMs = (check.wall - mono) - Offset
      BY <1>1, <1>2 DEF NowMs, Offset
    <3>3. check'.step.delta = OffsetOf(check'.step) - LastOffset
      BY <2>1, <3>1, <3>2 DEF StepInv, OffsetOf
    <3> QED  BY <1>3, <2>1, <2>2, <2>3, <3>3 DEF StepInv, OffsetAfter, OffsetOf
  <2>4. CASE check'.stage = "done"
    BY <1>3, <2>1, <2>2, <2>4 DEF StepInv, OffsetAfter, OffsetOf
  <2> QED  BY <2>1, <2>3, <2>4
<1>6. CASE Check /\ WriteAnchorWall
  <2>1. /\ check.stage = "step" /\ check'.stage = "half" /\ check'.step = check.step
        /\ UNCHANGED <<steps, base>>
    BY <1>0, <1>6, WriteAnchorWallEffect
  <2> QED  BY <1>3, <2>1 DEF StepInv, LastOffset, OffsetAfter, OffsetOf
<1>7. CASE Restart /\ anchorWall' = wall /\ anchorMono' = mono /\ base' = wall - mono
           /\ steps' = << >> /\ check'.stage = "idle"
  <2>1. Len(steps') = 0
    BY <1>7
  <2> QED  BY <1>3, <1>7, <2>1 DEF StepInv, LastOffset, OffsetAfter, Offset
<1>8. CASE /\ UNCHANGED <<anchorWall, anchorMono, steps, base>>
           /\ check' = check \/ (check.stage \in {"idle", "done"} /\ check'.stage \in {"idle", "wall"})
  BY <1>3, <1>8 DEF StepInv, LastOffset, OffsetAfter, OffsetOf, Offset
<1> QED  BY <1>0, <1>4, <1>5, <1>6, <1>7, <1>8 DEF ClockStep

(* Every shift of derived time is recorded in a step that says how large it  *)
(* was, and every step is spooled exactly once or still waits for it.        *)
THEOREM ShiftsAlwaysExplained == Spec => []ShiftsAreExplained
<1>1. Init => StepInv
  BY Blank, ConcatEmptySeq, EmptySeq DEF Init, StepInv, LastOffset, OffsetAfter, Offset
<1>2. StepInv => ShiftsAreExplained
  BY DEF StepInv, ShiftsAreExplained, Settled, LastOffset
<1> QED  BY <1>1, <1>2, RunnerInitTyped, TypeInvStep, StepsStep, PTL DEF Spec

-----------------------------------------------------------------------------
(* The schedule                                                              *)

\* A step runs what is due, begins a process, or leaves the schedule alone.
LEMMA ScheduleSteps ==
    ASSUME TypeInv, [Next]_vars
    PROVE  \/ RunDue /\ cycle = "measuring" /\ cycle' \in {"flushing", "asleep"} /\ start' = start
           \/ /\ ran' = [c \in Scheduled |-> Never] /\ due' = [c \in Scheduled |-> 0]
              /\ cycle' = "asleep"
           \/ /\ ran' = ran /\ due' = due
              /\ \/ cycle' \in {"asleep", "checking", "measuring"}
                    /\ (cycle \in {"asleep", "checking", "measuring"} \/ cycle' = "asleep")
                 \/ cycle \in {"flushing", "trimming"} /\ start' = start
<1>0. cycle \in {"asleep", "checking", "measuring", "flushing", "trimming"}
  BY DEF TypeInv, TypeOK
<1>1. CASE UNCHANGED vars
  BY <1>0, <1>1 DEF vars, scheduleVars, loopVars
<1>2. CASE StoreTick \/ StoreFails
  BY <1>2 DEF StoreTick, StoreFails, CycleFails, Sleep
<1>3. CASE Restart
  BY <1>3 DEF Restart
<1>4. CASE WakeUp \/ BeginCheck \/ Check \/ Stamp
  BY <1>4 DEF WakeUp, BeginCheck, Check, Stamp, scheduleVars, loopVars
<1>5. CASE Flush \/ FlushFails \/ TrimCheck
  BY <1>5 DEF Flush, FlushFails, CycleFails, TrimCheck, Sleep, scheduleVars, loopVars
<1>6. CASE ShippingThread \/ Environment
  BY <1>0, <1>6 DEF ShippingThread, Environment, scheduleVars, loopVars
<1> QED  BY <1>1, <1>2, <1>3, <1>4, <1>5, <1>6 DEF Next, Collector

LEMMA PaceStep ==
    ASSUME TypeInv, PaceInv, [Next]_vars
    PROVE  PaceInv'
<1>0. TypeOK
  BY DEF TypeInv
<1>1. /\ start \in Nat /\ due \in [Scheduled -> Nat]
      /\ ran \in [Scheduled -> {Never} \cup 0 .. start]
      /\ cycle \in {"asleep", "checking", "measuring", "flushing", "trimming"}
  BY <1>0 DEF TypeOK
<1>2. \A c \in Scheduled : Every[c] \in Nat \ {0}
  OBVIOUS
<1>3. CASE RunDue /\ cycle = "measuring" /\ cycle' \in {"flushing", "asleep"} /\ start' = start
  <2> SUFFICES ASSUME NEW c \in Scheduled
               PROVE  /\ ran'[c] # Never
                      /\ ran'[c] + Every[c] <= due'[c] /\ due'[c] <= ran'[c] + Every[c] + Jitter
                      /\ start' - ran'[c] < Every[c] + Jitter
    BY DEF PaceInv, CollectorsKeepPace
  <2>1. \/ /\ start >= due[c] /\ ran'[c] = start
           /\ start + Every[c] <= due'[c] /\ due'[c] <= start + Every[c] + Jitter
        \/ start < due[c] /\ ran'[c] = ran[c] /\ due'[c] = due[c]
    BY <1>0, <1>3, RunDueEffect
  <2>2. CASE start >= due[c] /\ ran'[c] = start
    <3>1. start # Never
      BY <1>1 DEF Never
    <3> QED  BY <1>1, <1>2, <1>3, <2>1, <2>2, <3>1
  <2>3. CASE start < due[c] /\ ran'[c] = ran[c] /\ due'[c] = due[c]
    <3>1. ran[c] # Never
      BY <1>1, <2>3 DEF PaceInv
    <3>2. ran[c] \in Nat /\ ran[c] + Every[c] <= due[c] /\ due[c] <= ran[c] + Every[c] + Jitter
      BY <1>1, <3>1 DEF PaceInv
    <3> QED  BY <1>1, <1>2, <1>3, <2>3, <3>1, <3>2
  <2> QED  BY <1>1, <2>1, <2>2, <2>3
<1>4. CASE /\ ran' = [c \in Scheduled |-> Never] /\ due' = [c \in Scheduled |-> 0]
           /\ cycle' = "asleep"
  BY <1>4 DEF PaceInv, CollectorsKeepPace
<1>5. CASE /\ ran' = ran /\ due' = due
           /\ \/ cycle' \in {"asleep", "checking", "measuring"}
                 /\ (cycle \in {"asleep", "checking", "measuring"} \/ cycle' = "asleep")
              \/ cycle \in {"flushing", "trimming"} /\ start' = start
  BY <1>1, <1>5 DEF PaceInv, CollectorsKeepPace
<1> QED  BY <1>3, <1>4, <1>5, ScheduleSteps

LEMMA PaceInit == Init => PaceInv
BY DEF Init, PaceInv, CollectorsKeepPace

(* No collector falls behind its interval and jitter by more than the cycle  *)
(* that comes next, whatever the cycles cost and which of them failed.       *)
THEOREM PaceAlwaysKept == Spec => []CollectorsKeepPace
<1>1. PaceInv => CollectorsKeepPace
  BY DEF PaceInv
<1> QED  BY <1>1, RunnerInitTyped, PaceInit, TypeInvStep, PaceStep, PTL DEF Spec

(* No process runs a collector twice within its interval.                    *)
THEOREM CollectorsAlwaysSpaced == Spec => CollectorsAreSpaced
<1>1. ASSUME TypeInv, PaceInv, [Next]_vars, NEW c \in Scheduled,
             ran[c] # Never, ran'[c] \notin {Never, ran[c]}
      PROVE  ran'[c] - ran[c] >= Every[c]
  <2>1. TypeOK /\ start \in Nat /\ Every[c] \in Nat
        /\ due \in [Scheduled -> Nat] /\ ran \in [Scheduled -> {Never} \cup 0 .. start]
    BY <1>1 DEF TypeInv, TypeOK
  <2>2. RunDue
    BY <1>1, ScheduleSteps
  <2>3. start >= due[c] /\ ran'[c] = start
    BY <1>1, <2>1, <2>2, RunDueEffect
  <2>4. ran[c] + Every[c] <= due[c] /\ ran[c] \in Nat /\ due[c] \in Nat
    BY <1>1, <2>1 DEF PaceInv
  <2> QED  BY <2>1, <2>3, <2>4
<1>2. TypeInv /\ PaceInv /\ [Next]_vars =>
         [\A c \in Scheduled : ran[c] # Never /\ ran'[c] \notin {Never, ran[c]} =>
             ran'[c] - ran[c] >= Every[c]]_vars
  BY <1>1
<1> QED  BY <1>2, RunnerInitTyped, PaceInit, TypeInvStep, PaceStep, PTL DEF Spec, CollectorsAreSpaced

-----------------------------------------------------------------------------
(* The checks                                                                *)

LEMMA AddToBoth ==
    ASSUME NEW a \in Nat, NEW b \in Nat, NEW c \in Nat, NEW d \in Nat, a + b <= c
    PROVE  (a + d) + b <= c + d
OBVIOUS

LEMMA HeldStep ==
    ASSUME TypeInv, HeldInv, [Next]_vars
    PROVE  HeldInv'
<1>0. TypeOK
  BY DEF TypeInv
<1>1. /\ start \in Nat /\ wake \in Nat /\ held \in Nat /\ lastCheck \in Nat /\ mono \in Nat
      /\ cycle \in {"asleep", "checking", "measuring", "flushing", "trimming"}
      /\ check \in Checks
  BY <1>0 DEF TypeOK
<1>2. check.stage # "idle" => cycle = "checking"
  BY DEF TypeInv, CheckUnderWay
<1>3. CASE WakeUp
  <2>1. /\ cycle = "asleep" /\ mono >= wake /\ cycle' = "checking" /\ start' = mono
        /\ UNCHANGED <<lastCheck, held, check>>
    BY <1>3 DEF WakeUp, clockVars, anchorVars
  <2> QED  BY <1>1, <1>2, <2>1 DEF HeldInv
<1>4. CASE BeginCheck
  <2>1. /\ cycle = "checking" /\ check.stage = "idle" /\ check'.stage = "wall"
        /\ UNCHANGED <<lastCheck, held, cycle, start, wake>>
    BY <1>4 DEF BeginCheck, ReadWall, NotChecking, loopVars
  <2> QED  BY <1>1, <2>1 DEF HeldInv
<1>5. CASE Check
  <2>0. /\ cycle = "checking" /\ UNCHANGED <<cycle, start, wake>>
        /\ held' = IF check'.stage = "done" THEN lastCheck' - start ELSE held
    BY <1>5 DEF Check, loopVars
  <2>1. CASE ReadMono
    BY <1>0, <1>1, <2>0, <2>1, ReadMonoEffect DEF HeldInv
  <2>2. CASE WriteAnchorWall
    BY <1>0, <1>1, <2>0, <2>2, WriteAnchorWallEffect DEF HeldInv
  <2>3. CASE WriteAnchorMono
    <3>1. check'.stage = "done" /\ lastCheck' = check.step.at /\ check.step.at \in Nat
      BY <1>0, <1>1, <2>3, WriteAnchorMonoEffect, CheckFields
    <3> QED  BY <1>1, <2>0, <3>1 DEF HeldInv
  <2> QED  BY <1>5, <2>1, <2>2, <2>3 DEF Check, CheckStep
<1>6. CASE Stamp
  <2>1. /\ cycle = "checking" /\ check.stage = "done" /\ cycle' = "measuring"
        /\ check'.stage = "idle" /\ UNCHANGED <<lastCheck, held, start>>
    BY <1>6, Blank DEF Stamp
  <2> QED  BY <2>1 DEF HeldInv
<1>7. CASE StoreTick \/ Flush
  <2>1. /\ cycle \in {"measuring", "flushing"} /\ cycle' \in {"flushing", "trimming"}
        /\ UNCHANGED <<lastCheck, held, start>> /\ check'.stage = check.stage
    BY <1>7 DEF StoreTick, Flush, clockVars, anchorVars
  <2> QED  BY <1>2, <2>1 DEF HeldInv
<1>8. CASE StoreFails \/ FlushFails \/ TrimCheck
  <2>1. /\ cycle \in {"measuring", "flushing", "trimming"}
        /\ UNCHANGED <<lastCheck, held>> /\ check'.stage = check.stage /\ Sleep
    BY <1>8 DEF StoreFails, FlushFails, CycleFails, TrimCheck, clockVars, anchorVars
  <2>2. cycle' = "asleep" /\ start' = start /\ wake' \in Nat /\ start + CycleInterval <= wake'
    BY <1>0, <2>1, SleepEffect
  <2>3. lastCheck = start + held
    BY <2>1 DEF HeldInv
  <2>4. check'.stage = "idle"
    BY <1>2, <2>1, CheckFields, <1>1
  <2>5. lastCheck' + CycleInterval <= wake' + held'
    BY <1>1, <2>1, <2>2, <2>3, AddToBoth
  <2> QED  BY <2>2, <2>4, <2>5 DEF HeldInv
<1>9. CASE Restart
  BY <1>1, <1>9, Blank DEF Restart, HeldInv
<1>10. CASE ShippingThread \/ Environment \/ UNCHANGED vars
  <2>1. UNCHANGED <<lastCheck, held, cycle, start, wake, check>>
    BY <1>10 DEF ShippingThread, ReadNow, ReadElapsed, EndNow, Environment, Tick, Jump,
                 loopVars, anchorVars, vars, clockVars
  <2> QED  BY <2>1 DEF HeldInv
<1> QED  BY <1>3, <1>4, <1>5, <1>6, <1>7, <1>8, <1>9, <1>10 DEF Next, Collector

(* A forward step is named a likely suspend only at the first check of a     *)
(* process or after one that came half an interval late.                     *)
THEOREM SuspendsAlwaysNeedAHeldThread == Spec => SuspendsNeedAHeldThread
<1>1. Init => HeldInv
  BY Blank DEF Init, HeldInv
<1>2. ASSUME TypeInv, HeldInv, [Next]_vars,
             check.stage = "wall", check'.stage = "step", LikelySuspend(check'.step)
      PROVE  2 * held > CycleInterval
  <2>0. TypeOK /\ ClockStep
    BY <1>2, EveryStep DEF TypeInv
  <2>1. /\ start \in Nat /\ start <= mono /\ held \in Nat /\ lastCheck \in Nat /\ mono \in Nat
        /\ check \in Checks
    BY <2>0 DEF TypeOK
  <2>2. Check /\ ReadMono
    BY <1>2, <2>0, WriteAnchorWallEffect, WriteAnchorMonoEffect DEF ClockStep
  <2>3. check'.step = StepAt(check.wall, mono - lastCheck)
    BY <1>2, <2>0, <2>2, ReadMonoEffect
  <2>4. check'.step.gap = mono - lastCheck
    BY <2>0, <2>1, <2>3, CheckFields, StepTyped
  <2>5. lastCheck + CycleInterval <= start + held
    BY <1>2, <2>2 DEF HeldInv, Check
  <2> QED  BY <1>2, <2>1, <2>4, <2>5 DEF LikelySuspend
<1>3. TypeInv /\ HeldInv /\ [Next]_vars =>
         [check.stage = "wall" /\ check'.stage = "step" /\ LikelySuspend(check'.step) =>
             2 * held > CycleInterval]_vars
  BY <1>2
<1> QED  BY <1>1, <1>3, RunnerInitTyped, TypeInvStep, HeldStep, PTL DEF Spec, SuspendsNeedAHeldThread

-----------------------------------------------------------------------------
(* The trim checks                                                           *)

LEMMA Products ==
    ASSUME NEW a \in Nat, NEW b \in Nat
    PROVE  /\ a * b \in Nat /\ (a + 1) * b = a * b + b /\ 0 * b = 0
           /\ 2 * ((a + 2) * b) = 2 * (a * b) + 4 * b
OBVIOUS

LEMMA SpentAndLost ==
    ASSUME TypeOK
    PROVE  /\ Spent \in Nat /\ Lost \in Nat
           /\ commits = 0 => Spent = 0
           /\ commits' = 0 => Spent' = 0
           /\ commits' = commits => Spent' = Spent
           /\ commits' = commits + 1 => Spent' = Spent + CycleInterval
           /\ failures' = failures => Lost' = Lost
           /\ failures' = failures + 1 => Lost' = Lost + CycleInterval
<1>1. commits \in Nat /\ failures \in Nat /\ CycleInterval \in Nat
  BY DEF TypeOK
<1> QED  BY <1>1, Products DEF Spent, Lost

LEMMA TrimStep ==
    ASSUME TypeInv, TrimInv, [Next]_vars
    PROVE  TrimInv'
<1>0. TypeOK
  BY DEF TypeInv
<1>1. /\ start \in Nat /\ wake \in Nat /\ lastTrim \in Nat /\ lastTrim <= start
      /\ commits \in Nat /\ mono \in Nat /\ start <= mono
      /\ CycleInterval \in Nat /\ TrimInterval \in Nat
      /\ cycle \in {"asleep", "checking", "measuring", "flushing", "trimming"}
  BY <1>0 DEF TypeOK
<1>2. /\ Spent \in Nat /\ Lost \in Nat
      /\ commits = 0 => Spent = 0
      /\ commits' = 0 => Spent' = 0
      /\ commits' = commits => Spent' = Spent
      /\ commits' = commits + 1 => Spent' = Spent + CycleInterval
      /\ failures' = failures => Lost' = Lost
      /\ failures' = failures + 1 => Lost' = Lost + CycleInterval
  BY <1>0, SpentAndLost
<1>3. CASE WakeUp
  <2>1. /\ cycle = "asleep" /\ cycle' = "checking" /\ start' = mono /\ wake <= mono
        /\ UNCHANGED <<commits, failures, lastTrim>>
    BY <1>1, <1>3 DEF WakeUp, trimVars
  <2>2. Spent' = Spent /\ Lost' = Lost /\ Writing' = 0 /\ Writing = 0
    BY <1>2, <2>1 DEF Writing
  <2>3. Spent <= 2 * (mono - lastTrim)
    <3>1. CASE commits = 0
      BY <1>1, <1>2, <3>1
    <3>2. CASE start + CycleInterval <= wake
      BY <1>1, <1>2, <2>1, <3>2 DEF TrimInv
    <3> QED  BY <2>1, <3>1, <3>2 DEF TrimInv
  <2>4. Spent <= 2 * (mono - lastTrim) + 0
        /\ Spent <= 2 * (TrimInterval + CycleInterval) + Lost + 0
    BY <1>1, <1>2, <2>1, <2>2, <2>3 DEF TrimInv
  <2> QED  BY <2>1, <2>2, <2>4 DEF TrimInv
<1>4. CASE StoreTick
  <2>1. /\ cycle = "measuring" /\ cycle' = "flushing" /\ commits' = commits + 1
        /\ UNCHANGED <<start, failures, lastTrim>>
    BY <1>4 DEF StoreTick
  <2>2. Spent' = Spent + CycleInterval /\ Lost' = Lost /\ Writing' = CycleInterval /\ Writing = 0
    BY <1>2, <2>1 DEF Writing
  <2> QED  BY <1>1, <1>2, <2>1, <2>2 DEF TrimInv
<1>5. CASE Flush
  <2>1. /\ cycle = "flushing" /\ cycle' = "trimming" /\ commits' \in {commits, commits + 1}
        /\ UNCHANGED <<start, failures, lastTrim>>
    BY <1>5 DEF Flush
  <2>2. /\ Spent' <= Spent + CycleInterval /\ Lost' = Lost
        /\ Writing' = 2 * CycleInterval /\ Writing = CycleInterval /\ Spent' \in Nat
    BY <1>1, <1>2, <2>1 DEF Writing
  <2> QED  BY <1>1, <1>2, <2>1, <2>2 DEF TrimInv
<1>6. CASE StoreFails \/ FlushFails
  <2>1. /\ cycle \in {"measuring", "flushing"} /\ failures' = failures + 1 /\ Sleep
        /\ UNCHANGED <<commits, lastTrim>>
    BY <1>6 DEF StoreFails, FlushFails, CycleFails, trimVars
  <2>2. cycle' = "asleep" /\ start' = start /\ wake' \in Nat /\ start + CycleInterval <= wake'
    BY <1>0, <2>1, SleepEffect
  <2>3. /\ Spent' = Spent /\ Lost' = Lost + CycleInterval
        /\ Writing' = 0 /\ Writing \in {0, CycleInterval}
    BY <1>2, <2>1, <2>2 DEF Writing
  <2> QED  BY <1>1, <1>2, <2>1, <2>2, <2>3 DEF TrimInv
<1>7. CASE TrimCheck
  <2>1. /\ cycle = "trimming" /\ failures' = failures /\ Sleep
        /\ \/ lastTrim' = start /\ commits' = 0
           \/ start - lastTrim <= TrimInterval /\ UNCHANGED <<lastTrim, commits>>
    BY <1>1, <1>7 DEF TrimCheck, trimVars
  <2>2. cycle' = "asleep" /\ start' = start /\ wake' \in Nat /\ start + CycleInterval <= wake'
    BY <1>0, <2>1, SleepEffect
  <2>3. Lost' = Lost /\ Writing' = 0 /\ Writing = 2 * CycleInterval
    BY <1>2, <2>1, <2>2 DEF Writing
  <2>4. CASE lastTrim' = start /\ commits' = 0
    BY <1>1, <1>2, <2>2, <2>3, <2>4 DEF TrimInv
  <2>5. CASE start - lastTrim <= TrimInterval /\ UNCHANGED <<lastTrim, commits>>
    BY <1>1, <1>2, <2>1, <2>2, <2>3, <2>5 DEF TrimInv
  <2> QED  BY <2>1, <2>4, <2>5
<1>8. CASE BeginCheck \/ Check \/ Stamp
  <2>1. /\ cycle = "checking" /\ cycle' \in {"checking", "measuring"}
        /\ UNCHANGED <<start, commits, failures, lastTrim>>
    BY <1>8 DEF BeginCheck, Check, Stamp, loopVars, trimVars
  <2>2. Spent' = Spent /\ Lost' = Lost /\ Writing' = 0 /\ Writing = 0
    BY <1>2, <2>1 DEF Writing
  <2> QED  BY <2>1, <2>2 DEF TrimInv
<1>9. CASE Restart
  <2>1. /\ cycle' = "asleep" /\ start' = mono /\ lastTrim' = mono /\ commits' = 0
        /\ failures' = failures
    BY <1>9 DEF Restart
  <2>2. Spent' = 0 /\ Lost' = Lost /\ Writing' = 0
    BY <1>2, <2>1 DEF Writing
  <2> QED  BY <1>1, <1>2, <2>1, <2>2 DEF TrimInv
<1>10. CASE ShippingThread \/ Environment \/ UNCHANGED vars
  <2>1. UNCHANGED <<cycle, start, wake, commits, failures, lastTrim>>
    BY <1>10 DEF ShippingThread, Environment, loopVars, trimVars, vars
  <2>2. Spent' = Spent /\ Lost' = Lost /\ Writing' = Writing
    BY <1>2, <2>1 DEF Writing
  <2> QED  BY <2>1, <2>2 DEF TrimInv
<1> QED  BY <1>3, <1>4, <1>5, <1>6, <1>7, <1>8, <1>9, <1>10 DEF Next, Collector

(* Between two trim checks a process writes at most as often as the interval *)
(* has room for, and once more for each cycle that failed and so put the     *)
(* check off.                                                                *)
THEOREM WritesAlwaysBounded == Spec => []WritesBetweenTrims
<1>1. Init => TrimInv
  BY Products DEF Init, TrimInv, Spent, Lost, Writing
<1>2. TypeOK /\ TrimInv => WritesBetweenTrims
  <2> SUFFICES ASSUME TypeOK, TrimInv
               PROVE  WritesBetweenTrims
    OBVIOUS
  <2>1. /\ commits \in Nat /\ failures \in Nat
        /\ CycleInterval \in Nat /\ TrimInterval \in Nat
    BY DEF TypeOK
  <2>2. Spent \in Nat /\ Lost \in Nat
    BY SpentAndLost
  <2>3. Writing \in Nat /\ Writing <= 2 * CycleInterval
    BY <2>1 DEF Writing
  <2>4. Spent <= 2 * TrimInterval + 2 * Lost + 4 * CycleInterval
    BY <2>1, <2>2, <2>3 DEF TrimInv
  <2>5. 2 * (TrimInterval + (failures + 2) * CycleInterval)
           = 2 * TrimInterval + 2 * Lost + 4 * CycleInterval
    <3>1. (failures + 2) * CycleInterval \in Nat
          /\ 2 * ((failures + 2) * CycleInterval) = 2 * Lost + 4 * CycleInterval
      BY <2>1, Products DEF Lost
    <3> QED  BY <2>1, <2>2, <3>1
  <2> QED  BY <2>4, <2>5 DEF WritesBetweenTrims, Spent
<1>3. TypeInv => TypeOK
  BY DEF TypeInv
<1> QED  BY <1>1, <1>2, <1>3, RunnerInitTyped, TypeInvStep, TrimStep, PTL DEF Spec
=============================================================================
