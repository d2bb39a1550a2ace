\* Three atoms and a fourth to be stored, in two clusters; requests store, drop and
\* delete them and remove and edit scenes between passes and at every await.
SPECIFICATION Spec
CONSTANTS
  NumAtoms = 4
  Similarity <- MCSimilarity
  TopicPercent = 50
  MatchPercent = 50
  ReorgPercent = 50
  Initial = {{1, 2, 3}}
  Edits = {{2, 3}}
  MaxScenes = 5
  MaxWrites = 2
  MaxFaults = 1
INVARIANTS
  TypeOK
  TopicsMatchClusters
PROPERTIES
  TopicIdsAreStable
  Reconciles
CHECK_DEADLOCK FALSE
