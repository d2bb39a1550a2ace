\* Up to three candidates with up to two neighbours each, in all three ways
\* to batch them, and batch replies of up to two entries.
SPECIFICATION Spec
CONSTANTS
  a = a
  b = b
  c = c
  AtomIds = {a, b, c}
  Extractions <- MCExtractions
  Neighbours = {{}, {b}, {a, b}}
  Entries <- MCEntries
  MaxEntries = 2
  MaxCandidates = 3
  Settings <- MCSettings
  ScaffoldChars = 1
  CandidateChars = 1
  AtomChars = 3
INVARIANTS
  TypeOK
  DecisionsAreTheModels
  NothingDropped
PROPERTIES
  PlanCanBeCarriedOut
CHECK_DEADLOCK FALSE
