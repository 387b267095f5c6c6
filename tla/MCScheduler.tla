----------------------------- MODULE MCScheduler -----------------------------
(* Instances of Scheduler for TLC. *)
EXTENDS Scheduler, TLC

CONSTANTS s1, s2

OneInterval == {2}
TwoIntervals == {1, 2}
=============================================================================
