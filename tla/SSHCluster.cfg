SPECIFICATION FairSpec
CONSTANTS
  MaxChanges = 2
  MaxFaults = 1
CHECK_DEADLOCK FALSE
INVARIANTS
  TypeOK
PROPERTIES
  PauseHolds
  StatusConverges
