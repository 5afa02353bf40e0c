----------------------------- MODULE MachineLock -----------------------------
(***************************************************************************)
(* What the handlers of a Machine rely on: at most one of them, of any     *)
(* replica, is at work.  This is the reconcile lock as Lifecycle and       *)
(* Inventory use it while it does not expire.                              *)
(***************************************************************************)
CONSTANTS Machines, Tasks, None

VARIABLE atWork  \* the task whose handler works on a Machine

LockInit == atWork = [m \in Machines |-> None]

Take(m, t) ==
  /\ atWork[m] = None
  /\ atWork' = [atWork EXCEPT ![m] = t]

\* The handlers of a replica that dies stop together.
Give(ms) ==
  /\ \E m \in ms : atWork[m] # None
  /\ atWork' = [m \in Machines |-> IF m \in ms THEN None ELSE atWork[m]]

LockNext ==
  \/ \E m \in Machines, t \in Tasks : Take(m, t)
  \/ \E ms \in SUBSET Machines : Give(ms)

LockSpec == LockInit /\ [][LockNext]_atWork
=============================================================================
