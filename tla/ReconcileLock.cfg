SPECIFICATION FairSpec
CONSTANTS
  p1 = p1
  p2 = p2
  t1 = t1
  t2 = t2
  t3 = t3
  m1 = m1
  None = None
  Processes = {p1, p2}
  Tasks = {t1, t2, t3}
  ProcOf <- MCProcOf
  Machines = {m1}
  MachineOf <- MCMachineOf
  Locks = {1, 2, 3}
  Slots = 1
  LockCanExpire = FALSE
  Tries = 2
INVARIANTS
  TypeOK
  OneHandlerInside
  WritesUnderLock
  HandlerHoldsAnnotation
PROPERTIES
  HandlerEnds
  ImplementsMachineLock
