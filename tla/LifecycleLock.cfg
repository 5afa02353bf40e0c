SPECIFICATION Spec
CONSTANTS
  m1 = m1
  m2 = m2
  a1 = a1
  a2 = a2
  b1 = b1
  None = None
  Uids <- WithLegacy
  Attempts <- OneEach
  UidOf <- MCUidOf
  Workers = {w1, w2}
  LegacyUids = {old}
  old = old
  RemovalCanBeCut = FALSE
  LockCanExpire = FALSE
  LeaseCanExpire = TRUE
  MaxFaults = 2
SYMMETRY FullSymmetry
CHECK_DEADLOCK FALSE
INVARIANTS
  TypeOK
  OwnerHoldsClaim
  ReleasedHostIsClean
  ProvisionedByOwnReceipt
  GoneLeavesNothing
  LegacyHostUntouched
PROPERTIES
  CleanupReceiptIsFinal
  NoResetAfterReceipt
