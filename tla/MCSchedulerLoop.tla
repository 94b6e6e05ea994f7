-------------------------- MODULE MCSchedulerLoop --------------------------
(* Small instances of SchedulerLoop for TLC. *)
EXTENDS SchedulerLoop, TLC

CONSTANTS j1, j2

JobSymmetry == Permutations(Jobs)
=============================================================================
