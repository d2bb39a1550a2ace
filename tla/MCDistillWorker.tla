-------------------------- MODULE MCDistillWorker ---------------------------
(***************************************************************************)
(* Values for the constants of DistillWorker.                              *)
(***************************************************************************)
EXTENDS DistillWorker, TLC

CONSTANTS BaseBackoff, MaxBackoff

MCBackoff ==
  [n \in 1..MaxAttempts |-> ExponentialBackoff(BaseBackoff, MaxBackoff, n)]

LaneSymmetry == Permutations(Lanes)
=============================================================================
