\* Two stores, two rows, one death or restart of the process; a single lane,
\* which OnePassAtATime shows to be all there is; no symmetry, for it is unsound
\* with liveness.
CONSTANTS
  NoLane = NoLane
  NoStore = NoStore
  Stores = {a, b}
  SelfStores = {a}
  Lanes = {l1}
  MaxAttempts = 2
  LeaseTime = 1
  BaseBackoff = 1
  MaxBackoff = 1
  Backoff <- MCBackoff
  MaxWakeDrain = 2
  MaxRows = 2
  MaxBoots = 2
SPECIFICATION FairSpec
INVARIANTS
  TypeOK
  AttemptsLimited
PROPERTIES
  ImplementsService
  WorkIsServed
CHECK_DEADLOCK FALSE
