SPECIFICATION FairSpec
CONSTANTS
  Ops = {o1, o2}
  None = None
  LEASE_SECONDS = 2
  MaxTime = 3
INVARIANTS
  TypeOK
  TrustedHolderIsRecorded
PROPERTIES
  NoEarlyTakeover
  RenewalNeverBackdated
  DisplacedOperationStops
