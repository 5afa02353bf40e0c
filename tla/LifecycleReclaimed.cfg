SPECIFICATION FairSpec
CONSTANTS
  m1 = m1
  m2 = m2
  old = old
  a1 = a1
  a2 = a2
  b1 = b1
  None = None
  Uids <- TwoMachines
  Attempts <- OneEach
  UidOf <- MCUidOf
  Workers = {w1}
  LegacyUids = {}
  RemovalCanBeCut = FALSE
  LockCanExpire = FALSE
  LeaseCanExpire = FALSE
  MaxFaults = 1
CHECK_DEADLOCK FALSE
PROPERTIES
  DeletionCompletes
