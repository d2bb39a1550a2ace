\* A self store and a pool; the server is killed or a command breaks off at any step.
SPECIFICATION Spec
CONSTANTS
  Stores = {self, pool}
  Pools = {pool}
  small = small
  large1 = large1
  large2 = large2
  other = other
  Configs = {small, large1, large2, other}
  Name <- MCName
  Dim <- MCDim
  NoConfig = NoConfig
  Torn = Torn
  Targets = {large1, other}
  MaxRows = 1
  MaxBoots = 2
  MaxCommands = 3
  MaxDeaths = 1
SYMMETRY RootSymmetry
INVARIANTS
  TypeOK
  ServedVectorsMatch
  PackMatchesItsLock
PROPERTY ReembedUnifies
CHECK_DEADLOCK FALSE
