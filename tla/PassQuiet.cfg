\* Passes with the store to themselves: requests capture turns at any time
\* but change atoms only between passes, and calls of the model may fail,
\* but not for ever.
SPECIFICATION FairSpec
CONSTANTS
  Candidates = {a, b}
  Direct = {}
  Sessions = {s1, s2}
  Writes = {"supersede", "archive"}
  MaxTurns = 2
  MaxWrites = 1
  WindowSize = 1
  MaxCandidates = 2
  Overlap = FALSE
  Faults = {"llm"}
INVARIANTS
  NothingSkipped
  LayersCurrent
PROPERTIES
  EventuallyCurrent
CHECK_DEADLOCK FALSE
