\* The newest turn is deleted after it was distilled and another is captured.
SPECIFICATION Spec
CONSTANTS
  Candidates = {a, b}
  Direct = {}
  Sessions = {s1}
  Writes = {"delete turns"}
  MaxTurns = 2
  MaxWrites = 1
  WindowSize = 1
  MaxCandidates = 1
  Overlap = FALSE
  Faults = {}
PROPERTIES
  SeqIsMonotonic
CHECK_DEADLOCK FALSE
