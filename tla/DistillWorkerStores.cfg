\* Two stores, one of them swept; one process; rows attempted twice at most.
CONSTANTS
  NoLane = NoLane
  NoStore = NoStore
  Stores = {a,b}
  SelfStores = {a}
  Lanes = {l1, l2}
  MaxAttempts = 2
  LeaseTime = 0
  BaseBackoff = 1
  MaxBackoff = 1
  Backoff <- MCBackoff
  MaxWakeDrain = 2
  MaxRows = 3
  MaxBoots = 1
SPECIFICATION Spec
SYMMETRY LaneSymmetry
INVARIANTS
  OnePassAtATime
  OneFreshRowPerStore
  WakeNotLost
PROPERTIES
  SettledIsFinal
  RequestsAreOwed
CHECK_DEADLOCK FALSE
