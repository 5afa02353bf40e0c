SPECIFICATION RemoteSpec
CONSTANTS
  m1 = m1
  m2 = m2
  a1 = a1
  a2 = a2
  b1 = b1
  None = None
  Uids <- MCUids
  Attempts <- MCAttempts
  UidOf <- MCUidOf
  RemovalCanBeCut = FALSE
INVARIANTS
  JobFenced
  OnePayloadPerClaim
  ReceiptOfOwner
  ResetProvesClean
PROPERTIES
  ReceiptIsFinal
