---------------------------- MODULE MCLogPipeline ----------------------------
(* Model-checking instances of LogPipeline: two tasks, a queue of one or   *)
(* two places, and a flash log of a few sectors with one frame in each.    *)
EXTENDS LogPipeline, TLC

CONSTANTS adc, temperature

(* Sound where only invariants are checked and no task defers to busy.     *)
TaskSymmetry == Permutations(Tasks)
=============================================================================
