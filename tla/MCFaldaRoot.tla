----------------------------- MODULE MCFaldaRoot -----------------------------
(***************************************************************************)
(* Instances of FaldaRoot for TLC.  The embedders large1, large2 and other *)
(* have one dimension and small another; all but large2 have one name, so  *)
(* the manifest cannot tell large1 from other.                             *)
(***************************************************************************)
EXTENDS FaldaRoot, TLC

CONSTANTS small, large1, large2, other
MCDim == [c \in Configs |-> IF c = small THEN 1 ELSE 2]
MCName == [c \in Configs |-> IF c = large2 THEN "named" ELSE ""]
RootSymmetry == Permutations({large1, other})
=============================================================================
