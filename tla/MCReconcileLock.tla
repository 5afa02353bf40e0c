-------------------------- MODULE MCReconcileLock --------------------------
(* Two replicas; two handlers of the Machine in the first, one in the      *)
(* second.  Handlers start again and again.                                *)
EXTENDS ReconcileLock

CONSTANTS p1, p2, t1, t2, t3, m1

MCProcOf    == [t \in Tasks |-> IF t = t3 THEN p2 ELSE p1]
MCMachineOf == [t \in Tasks |-> m1]
============================================================================
