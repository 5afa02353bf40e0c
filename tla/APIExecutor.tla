----------------------------- MODULE APIExecutor -----------------------------
(***************************************************************************)
(* APIExecutor.run (api_io.py): synchronous Kubernetes calls of asyncio    *)
(* tasks on a thread pool.  A task waits for one of its process's slots,   *)
(* submits its function, and awaits the shielded future until the thread   *)
(* is done.  Cancelling the task cannot stop the thread.                   *)
(*                                                                         *)
(* The actions below are completed by the code that calls run_api:         *)
(* ReconcileLock.                                                          *)
(***************************************************************************)
EXTENDS Naturals, FiniteSets

CONSTANTS
  Processes,  \* manager replicas, each with its own event loop and slots
  Tasks,      \* handler tasks
  ProcOf,     \* the process a task runs in
  Slots       \* API_WORKERS

ASSUME ExecutorAssumption ==
  /\ ProcOf \in [Tasks -> Processes]
  /\ Slots \in Nat \ {0}

VARIABLES
  call,    \* where in APIExecutor.run a task is
  thread,  \* what became of the function it submitted
  result,  \* what that function returned or raised
  cancel   \* task.cancel() was called: the CancelledError is not delivered yet,
           \* or run keeps it until the thread is done

executorVars == <<call, thread, result, cancel>>

ExecutorTypeOK ==
  /\ call \in [Tasks -> {"none", "slot", "future"}]
  /\ thread \in [Tasks -> {"none", "read", "write", "done"}]
  /\ result \in [Tasks -> {"ok", "failed"}]
  /\ cancel \in [Tasks -> BOOLEAN]

ExecutorInit ==
  /\ call = [t \in Tasks |-> "none"]
  /\ thread = [t \in Tasks |-> "none"]
  /\ result = [t \in Tasks |-> "ok"]
  /\ cancel = [t \in Tasks |-> FALSE]

-----------------------------------------------------------------------------
SlotsTaken(p) == {t \in Tasks : ProcOf[t] = p /\ call[t] = "future"}

\* async with slots, and run_in_executor.  A caller that was granted a slot
\* and cancelled before it ran gives the slot back.
Submit(t) ==
  /\ call[t] = "slot"
  /\ ~ cancel[t]
  /\ Cardinality(SlotsTaken(ProcOf[t])) < Slots
  /\ call' = [call EXCEPT ![t] = "future"]
  /\ thread' = [thread EXCEPT ![t] = "read"]
  /\ UNCHANGED <<result, cancel>>

\* The function returns or raises, and the loop marks the future done.
ThreadEnds(t, outcome) ==
  /\ thread' = [thread EXCEPT ![t] = "done"]
  /\ result' = [result EXCEPT ![t] = outcome]
  /\ UNCHANGED <<call, cancel>>

\* Variant: CancelledError leaves run at once, as without the shield loop.
ReturnsUndrained(t) ==
  \/ call[t] = "slot" /\ cancel[t]
  \/ call[t] = "future" /\ (thread[t] = "done" \/ cancel[t])

\* run is left: cancelled while it waits for a slot, or with the thread done.
\* A CancelledError out of the shield while the future is pending is kept, and
\* the future awaited again.
Returns(t) ==
  \/ call[t] = "slot" /\ cancel[t]
  \/ call[t] = "future" /\ thread[t] = "done"

\* A result is only returned to a caller that was not cancelled meanwhile.
Outcome(t) ==
  IF cancel[t] \/ thread[t] # "done" THEN "cancelled" ELSE result[t]

\* The slot is given up; next is the caller's next use of run_api, if any.
Returned(t, next) ==
  /\ call' = [call EXCEPT ![t] = next]
  /\ thread' = [thread EXCEPT ![t] = IF @ = "done" THEN "none" ELSE @]
  /\ cancel' = [cancel EXCEPT ![t] = FALSE]
  /\ result' = [result EXCEPT ![t] = "ok"]

=============================================================================
