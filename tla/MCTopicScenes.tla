--------------------------- MODULE MCTopicScenes ---------------------------
(***************************************************************************)
(* An instance of TopicScenes for TLC: 1 is near 2 only, and 2, 3 and 4    *)
(* are near each other.  The clusters are {1, 2} and {3, 4} while 1 is     *)
(* active, and {2, 3, 4} once it is not.                                   *)
(***************************************************************************)
EXTENDS TopicScenes

Near12(pair) == pair \in {<<1, 2>>, <<2, 1>>}

MCSimilarity ==
  [pair \in Atoms \X Atoms |->
     IF pair[1] = pair[2] THEN 100
     ELSE IF Near12(pair) THEN 80
     ELSE IF 1 \in {pair[1], pair[2]} THEN 20
     ELSE IF 2 \in {pair[1], pair[2]} THEN 60
     ELSE 70]
=============================================================================
