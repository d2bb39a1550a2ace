\* Requests change atoms and turns while a pass runs, and calls of the model
\* and the embedder fail and the process dies at any await.
SPECIFICATION Spec
CONSTANTS
  Candidates = {a, b}
  Direct = {d}
  Sessions = {s1, s2}
  Writes = {"remember", "supersede", "merge", "archive", "hard delete",
            "delete turns"}
  MaxTurns = 2
  MaxWrites = 1
  WindowSize = 2
  MaxCandidates = 2
  Overlap = TRUE
  Faults = {"llm", "embed", "crash"}
SYMMETRY PassSymmetry
INVARIANTS
  TypeOK
  HashIsNarrated
PROPERTIES
  CommitsAreSound
CHECK_DEADLOCK FALSE
