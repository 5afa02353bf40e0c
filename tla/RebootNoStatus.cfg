SPECIFICATION Spec
CONSTANTS
  MaxRequests = 1
  MaxBoots = 1
  MaxFaults = 0
  MaxPatches = 1
  StatusCanBeMissing = TRUE
CHECK_DEADLOCK FALSE
INVARIANTS
  NoRebootDuringCleanup
