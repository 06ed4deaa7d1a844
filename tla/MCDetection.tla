------------------------------ MODULE MCDetection -------------------------------
(***************************************************************************)
(* The watermark on small instances: two request threads, so that one      *)
(* batch's rewind meets another's transaction, and a clock long enough for *)
(* a sample to fall behind the lookback.                                   *)
(***************************************************************************)
EXTENDS Detection

(* The interval between passes (30 s) is below the lookback (60 s), and both *)
(* are far below the six hours a backfill may cover.                         *)
ASSUME LookbackFits == 0 < Lookback /\ Lookback < MaxTime
=============================================================================
