--------------------------- MODULE MCDistillPass ---------------------------
(***************************************************************************)
(* Instances of DistillPass for TLC.                                       *)
(***************************************************************************)
EXTENDS DistillPass, TLC

PassSymmetry == Permutations(Sessions) \cup Permutations(Candidates)
=============================================================================
