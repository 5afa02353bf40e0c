SPECIFICATION Spec
CONSTANTS
  m1 = m1
  m2 = m2
  old = old
  a1 = a1
  a2 = a2
  b1 = b1
  None = None
  Uids <- OneMachine
  Attempts <- Retried
  UidOf <- MCUidOf
  Workers = {w1, w2}
  LegacyUids = {}
  RemovalCanBeCut = FALSE
  LockCanExpire = TRUE
  LeaseCanExpire = FALSE
  MaxFaults = 1
SYMMETRY Symmetry
CHECK_DEADLOCK FALSE
INVARIANTS
  RunningPayloadIsClaimed
