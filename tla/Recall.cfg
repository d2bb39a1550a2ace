\* One recall after an earlier one, over a memory that changes once at any time;
\* one report, on an item of either.
SPECIFICATION Spec
CONSTANTS
  a1 = a1
  a2 = a2
  a3 = a3
  topic = topic
  episode = episode
  Atoms = {a1, a2, a3}
  Topics = {topic}
  Episodes = {}
  Length <- MCLength
  Ends = {"archived"}
  CoreLengths = {6}
  Asked = {11}
  DefaultBudget = 22
  AutoBudget = 22
  MaxBudget = 30
  MinBudget = 5
  AtomItemCap = 7
  SceneItemCap = 5
  PinnedPercent = 20
  AtomsPercent = 40
  ScenesPercent = 25
  MinAtomLimit = 2
  MinSceneLimit = 1
  CoreFloor = 3
  RetentionDays = 1
  MaxRecalls = 2
  MaxWrites = 1
  MaxDays = 2
  MaxReports = 1
  MaxReported = 1
INVARIANTS
  TypeOK
  AssemblyWithinBudget
  TraceIsTheAnswer
  TraceIsAccountable
PROPERTY FeedbackIsFinal
CHECK_DEADLOCK FALSE
