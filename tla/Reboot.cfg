SPECIFICATION FairSpec
CONSTANTS
  MaxRequests = 2
  MaxBoots = 3
  MaxFaults = 2
  MaxPatches = 1
  StatusCanBeMissing = FALSE
CHECK_DEADLOCK FALSE
INVARIANTS
  TypeOK
  SubmittedOnce
  NoRebootDuringCleanup
PROPERTIES
  DeletionResumes
