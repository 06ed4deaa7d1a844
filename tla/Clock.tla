---------------------------------- MODULE Clock ----------------------------------
(***************************************************************************)
(* The agent's clock (netdbg_common/timeutil.py): a wall-clock time that   *)
(* was read once, the anchor, and carried on by the monotonic clock.  The  *)
(* collection thread compares it with the wall clock before each cycle     *)
(* (check_step) and re-anchors when they have come too far apart; the      *)
(* shipping thread only reads it (now_ms), without a lock.                 *)
(*                                                                         *)
(* A step of check_step or of the shipping thread's now_ms is one read or  *)
(* one write that the other thread may come between.                       *)
(***************************************************************************)
EXTENDS Integers, Sequences

CONSTANTS
    Threshold,     \* step_threshold_ms
    Jumps,         \* by how much the wall clock may jump at once
    MaxMono,       \* bound: the monotonic time a behaviour lasts
    MaxJumps       \* bound: jumps of the wall clock

ASSUME ClockConstants ==
    /\ Threshold \in Nat \ {0}
    /\ Jumps \subseteq Int
    /\ MaxMono \in Nat /\ MaxJumps \in Nat

VARIABLES
    mono,          \* time.monotonic()
    wall,          \* time.time()
    jumps,         \* jumps so far
    anchorWall,    \* _anchor_wall_ms
    anchorMono,    \* _anchor_mono_ms
    lastCheck,     \* _last_check_mono_ms
    steps,         \* _steps
    pending,       \* _pending_clock_steps, where on_step appends
    check,         \* check_step's local variables, and how far it has come
    reader,        \* the same of the shipping thread's now_ms
    base,          \* history: the offset the process started with
    still          \* history: the wall clock has not jumped since check_step read it

sourceVars == <<mono, wall, jumps>>
anchorVars == <<anchorWall, anchorMono, lastCheck, steps, pending, check, base>>
clockVars == <<sourceVars, anchorVars, reader, still>>

NowMs == anchorWall + (mono - anchorMono)
Offset == anchorWall - anchorMono

\* A ClockStep.  at is the monotonic time of its detection, which the code
\* leaves in _last_check_mono_ms.
StepAt(observed, gap) ==
    [detected |-> observed, at |-> mono, delta |-> observed - NowMs, gap |-> gap]
OffsetOf(step) == step.detected - step.at
NoStep == [detected |-> 0, at |-> 0, delta |-> 0, gap |-> 0]

ClockSteps == [detected : Int, at : Nat, delta : Int, gap : Nat]
Checks == [stage : {"idle", "wall", "step", "half", "done"}, wall : Int, read : Nat,
           step : ClockSteps]
Readers == [stage : {"idle", "elapsed"}, mono : Nat, low : Int]

\* Between its two writes a re-anchoring has settled on the new offset.
Settled == IF check.stage = "half" THEN OffsetOf(check.step) ELSE Offset

NotChecking == [stage |-> "idle", wall |-> 0, read |-> 0, step |-> NoStep]
NotReading == [stage |-> "idle", mono |-> 0, low |-> 0]

-----------------------------------------------------------------------------
(* The two time sources                                                      *)

Tick ==
    /\ mono < MaxMono
    /\ mono' = mono + 1
    /\ wall' = wall + 1
    /\ UNCHANGED <<jumps, anchorVars, reader, still>>

\* NTP slews or steps the wall clock, or the host sleeps: the monotonic clock
\* stands still while the wall clock moves on.
Jump(d) ==
    /\ jumps < MaxJumps
    /\ jumps' = jumps + 1
    /\ wall' = wall + d
    /\ still' = FALSE
    /\ UNCHANGED <<mono, anchorVars, reader>>

-----------------------------------------------------------------------------
(* check_step, by the collection thread                                      *)

ReadWall ==
    /\ check.stage = "idle"
    /\ check' = [NotChecking EXCEPT !.stage = "wall", !.wall = wall, !.read = mono]
    /\ still' = TRUE
    /\ UNCHANGED <<sourceVars, anchorWall, anchorMono, lastCheck, steps, pending, base, reader>>

\* Mutant: only a forward jump is a step.
DriftedBack(d) == d < Threshold

Drifted(d) == d < Threshold /\ -d < Threshold

\* Mutant: the gap is subtracted the other way round.
ReadMonoReversed ==
    /\ check.stage = "wall"
    /\ ~Drifted(check.wall - NowMs)
    /\ check' = [check EXCEPT !.stage = "step", !.wall = 0,
                             !.step = StepAt(check.wall, lastCheck - mono)]
    /\ UNCHANGED <<sourceVars, anchorWall, anchorMono, lastCheck, steps, pending, base, reader, still>>

ReadMono ==
    /\ check.stage = "wall"
    /\ IF Drifted(check.wall - NowMs)
       THEN /\ check' = [check EXCEPT !.stage = "done", !.wall = 0]
            /\ lastCheck' = mono
       ELSE /\ check' = [check EXCEPT !.stage = "step", !.wall = 0,
                                      !.step = StepAt(check.wall, mono - lastCheck)]
            /\ UNCHANGED lastCheck
    /\ UNCHANGED <<sourceVars, anchorWall, anchorMono, steps, pending, base, reader, still>>

Lower(a, b) == IF a <= b THEN a ELSE b

WriteAnchorWall ==
    /\ check.stage = "step"
    /\ anchorWall' = check.step.detected
    /\ check' = [check EXCEPT !.stage = "half"]
    /\ reader' = IF reader.stage = "idle" THEN reader
                 ELSE [reader EXCEPT !.low = Lower(reader.low, OffsetOf(check.step))]
    /\ UNCHANGED <<sourceVars, anchorMono, lastCheck, steps, pending, base, still>>

\* The rest of check_step touches what only this thread uses.
WriteAnchorMono ==
    /\ check.stage = "half"
    /\ anchorMono' = check.step.at
    /\ lastCheck' = check.step.at
    /\ steps' = Append(steps, check.step)
    /\ pending' = Append(pending, check.step)
    /\ check' = [check EXCEPT !.stage = "done", !.step = NoStep]
    /\ UNCHANGED <<sourceVars, anchorWall, base, reader, still>>

\* Mutant: the anchors are written in the other order.
MonoAnchorFirst ==
    /\ check.stage = "step"
    /\ anchorMono' = check.step.at
    /\ check' = [check EXCEPT !.stage = "half"]
    /\ reader' = IF reader.stage = "idle" THEN reader
                 ELSE [reader EXCEPT !.low = Lower(reader.low, OffsetOf(check.step))]
    /\ UNCHANGED <<sourceVars, anchorWall, lastCheck, steps, pending, base, still>>

WallAnchorLast ==
    /\ check.stage = "half"
    /\ anchorWall' = check.step.detected
    /\ lastCheck' = check.step.at
    /\ steps' = Append(steps, check.step)
    /\ pending' = Append(pending, check.step)
    /\ check' = [check EXCEPT !.stage = "done", !.step = NoStep]
    /\ UNCHANGED <<sourceVars, anchorMono, base, reader, still>>

CheckStepSwapped == ReadMono \/ MonoAnchorFirst \/ WallAnchorLast

CheckStep == ReadMono \/ WriteAnchorWall \/ WriteAnchorMono

-----------------------------------------------------------------------------
(* now_ms, by the shipping thread, for the agent_ts of a batch: it takes      *)
(* _anchor_mono_ms from a monotonic time, then adds _anchor_wall_ms to that.  *)
(* The monotonic time itself cancels out of the offset it answers with, and   *)
(* only the anchor is kept.  low is history: the lowest offset the clock      *)
(* stood for since the read began.                                            *)

ReadElapsed ==
    /\ reader.stage = "idle"
    /\ reader' = [stage |-> "elapsed", mono |-> anchorMono, low |-> Settled]
    /\ UNCHANGED <<sourceVars, anchorVars, still>>

\* The offset of what now_ms returns if it reads _anchor_wall_ms now.
ReturnedOffset == anchorWall - reader.mono

EndNow ==
    /\ reader.stage = "elapsed"
    /\ reader' = NotReading
    /\ UNCHANGED <<sourceVars, anchorVars, still>>

ReadNow == ReadElapsed \/ EndNow
=============================================================================
