\* A pass fails after its L1 commit, on embedding a scene; nothing else happens.
SPECIFICATION Spec
CONSTANTS
  Candidates = {a, b}
  Direct = {}
  Sessions = {s1}
  Writes = {}
  MaxTurns = 1
  MaxWrites = 0
  WindowSize = 1
  MaxCandidates = 1
  Overlap = FALSE
  Faults = {"embed"}
INVARIANTS
  NarrationCurrent
CHECK_DEADLOCK FALSE
