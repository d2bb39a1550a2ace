------------------------------ MODULE MCRecall ------------------------------
(***************************************************************************)
(* A small instance of Recall: three atoms and a scene, in budgets about   *)
(* a two-hundredth of the real ones.                                       *)
(***************************************************************************)
EXTENDS Recall

CONSTANTS a1, a2, a3, topic, episode

\* An atom that is cut to its cap and still does not fit the pinned share, one
\* that does, scenes that are cut and that fit.
MCLength(x) == CASE x = a1 -> 9 [] x = a2 -> 3 [] x = a3 -> 4 [] x = topic -> 6 [] x = episode -> 3
=============================================================================
