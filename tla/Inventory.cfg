SPECIFICATION Spec
CONSTANTS
  None = None
  m1 = m1
  m2 = m2
  Hosts = {1, 2}
  Uids = {m1, m2}
  Workers = {w1, w2}
  Failing = {1}
  ExpiringLocks = {m2}
  MaxFaults = 1
SYMMETRY Symmetry
CHECK_DEADLOCK FALSE
INVARIANTS
  TypeOK
  BoundToItsClaim
  NoOrphanedClaim
  NoStrandedHost
PROPERTIES
  AllocationNeverMoves
  ImplementsAllocation
  ClaimNeverStolen
