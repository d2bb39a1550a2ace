\* Two tenants, a pool and the private store of one of them.
SPECIFICATION Spec
CONSTANTS
  alice = alice
  bob = bob
  Tenants = {alice, bob}
  Names = {pool}
  Self = self
  Shared = shared
  None = None
  TokenFiles <- MCTokenFiles
  Drafts <- MCDrafts
  MaxRequests = 3
  MaxChanges = 2
  MaxRestarts = 1
INVARIANTS
  TypeOK
  TracesAreGranted
  LagIsSeen
CHECK_DEADLOCK FALSE
