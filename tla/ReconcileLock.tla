---------------------------- MODULE ReconcileLock ----------------------------
(***************************************************************************)
(* The two locks around every SSHMachine handler (sshmachine_reconcile in  *)
(* sshmachine.py): an asyncio.Lock per Machine and process, taken from a   *)
(* map that is cleaned up when a lock is idle, and inside it an annotation *)
(* on the SSHMachine that names the holding process until a time.          *)
(*                                                                         *)
(* The annotation is read and patched by threads of APIExecutor, with the  *)
(* resourceVersion of the read.  fresh holds the tasks whose read is still *)
(* current; late holds the patches with a current version whose client has *)
(* given up on the answer.  Any write of the object empties both.          *)
(*                                                                         *)
(* asyncio.Lock is external.  A waiter's future is pending until release   *)
(* sets it or its task is cancelled; the waiter stays in the queue until   *)
(* its task runs, and the lock is not locked in between.                   *)
(***************************************************************************)
EXTENDS APIExecutor, Sequences, SequencesExt

CONSTANTS
  Machines,       \* SSHMachines
  MachineOf,      \* the Machine a task's handler is called for
  Locks,          \* asyncio.Lock objects: as many as can be in use
  None,
  LockCanExpire,  \* the annotation may run out under a live handler
  Tries           \* bound of the retry loops: 5

ASSUME ReconcileLockAssumption ==
  /\ MachineOf \in [Tasks -> Machines]
  /\ None \notin Locks \union Processes \union Tasks
  /\ LockCanExpire \in BOOLEAN
  /\ Tries \in Nat \ {0}
  /\ IsFiniteSet(Tasks)
  /\ IsFiniteSet(Locks)
  /\ Cardinality(Locks) >= Cardinality(Tasks)

VARIABLES
  map,     \* _RECONCILE_LOCKS of each process
  lock,    \* state of the asyncio.Lock objects
  pc,      \* how far a handler has come
  held,    \* its local variable "lock"
  future,  \* its future in the queue of that lock
  ann,     \* the annotation: holding process, and whether it has expired
  fresh,
  late,
  tries    \* retries of a task's read and patch so far

lockVars == <<map, lock, pc, held, future>>
annVars  == <<ann, fresh, late, tries>>
vars     == <<executorVars, lockVars, annVars>>

TypeOK ==
  /\ ExecutorTypeOK
  /\ map \in [Processes -> [Machines -> Locks \union {None}]]
  /\ lock \in [Locks -> [locked : BOOLEAN, waiters : Seq(Tasks)]]
  /\ pc \in [Tasks -> {"idle", "wait", "acquire", "body", "release"}]
  /\ held \in [Tasks -> Locks \union {None}]
  /\ future \in [Tasks -> {"none", "pending", "set", "cancelled"}]
  /\ ann \in [Machines -> [holder : Processes \union {None}, live : BOOLEAN]]
  /\ fresh \in SUBSET Tasks
  /\ late \in SUBSET (Processes \X Machines \X {"acquire", "release"})
  /\ tries \in [Tasks -> 0 .. Tries - 1]

Unheld == [holder |-> None, live |-> FALSE]
NewLock == [locked |-> FALSE, waiters |-> << >>]

Init ==
  /\ ExecutorInit
  /\ map = [p \in Processes |-> [m \in Machines |-> None]]
  /\ lock = [l \in Locks |-> NewLock]
  /\ pc = [t \in Tasks |-> "idle"]
  /\ held = [t \in Tasks |-> None]
  /\ future = [t \in Tasks |-> "none"]
  /\ ann = [m \in Machines |-> Unheld]
  /\ fresh = {}
  /\ late = {}
  /\ tries = [t \in Tasks |-> 0]

-----------------------------------------------------------------------------
(* The asyncio.Lock and the map *)

Proc(t) == ProcOf[t]
Entry(t) == map[Proc(t)][MachineOf[t]]

Inside(t) == pc[t] \in {"acquire", "body", "release"}

Unused(l) ==
  /\ \A p \in Processes, m \in Machines : map[p][m] # l
  /\ \A t \in Tasks : held[t] # l

\* _wake_up_first on the queue a release or a cancelled waiter leaves behind
WakeFirst(waiters) ==
  IF waiters # << >> /\ future[Head(waiters)] = "pending" THEN {Head(waiters)} ELSE {}

\* Variant: an unlocked lock is dropped whether or not somebody waits for it.
CleanupIgnoresWaiters(t, locked, waiters) ==
  map' = [map EXCEPT ![Proc(t)][MachineOf[t]] = IF @ = held[t] /\ ~ locked THEN None ELSE @]

\* _cleanup_reconcile_lock: only this lock, unlocked and without waiters.
Cleanup(t, locked, waiters) ==
  map' = [map EXCEPT ![Proc(t)][MachineOf[t]] =
            IF @ = held[t] /\ ~ locked /\ waiters = << >> THEN None ELSE @]

\* The outer finally block, in one step with what precedes it: the lock as
\* the task leaves it, the waiter it wakes, and the end of the handler.
LeaveLock(t, locked, waiters) ==
  LET woken == IF locked THEN {} ELSE WakeFirst(waiters) IN
  /\ lock' = [lock EXCEPT ![held[t]] = [locked |-> locked, waiters |-> waiters]]
  /\ future' = [u \in Tasks |-> IF u \in woken THEN "set" ELSE IF u = t THEN "none" ELSE future[u]]
  /\ Cleanup(t, locked, waiters)
  /\ pc' = [pc EXCEPT ![t] = "idle"]
  /\ held' = [held EXCEPT ![t] = None]

\* async with lock, entered: the annotation comes next, through run_api.
EnterLock(t, l, waiters) ==
  /\ lock' = [lock EXCEPT ![l] = [locked |-> TRUE, waiters |-> waiters]]
  /\ pc' = [pc EXCEPT ![t] = "acquire"]
  /\ future' = [future EXCEPT ![t] = "none"]
  /\ call' = [call EXCEPT ![t] = "slot"]

\* _get_reconcile_lock and Lock.acquire, without suspension in between.  A
\* lock that is free is only taken past waiters that are all cancelled.
Start(t) ==
  LET l == IF Entry(t) # None THEN Entry(t) ELSE CHOOSE new \in Locks : Unused(new)
      waiters == lock[l].waiters
  IN
  /\ pc[t] = "idle"
  /\ map' = [map EXCEPT ![Proc(t)][MachineOf[t]] = l]
  /\ held' = [held EXCEPT ![t] = l]
  /\ \/ /\ ~ lock[l].locked
        /\ \A i \in 1 .. Len(waiters) : future[waiters[i]] = "cancelled"
        /\ EnterLock(t, l, waiters)
     \/ /\ lock[l].locked \/ \E i \in 1 .. Len(waiters) : future[waiters[i]] # "cancelled"
        /\ lock' = [lock EXCEPT ![l].waiters = Append(@, t)]
        /\ pc' = [pc EXCEPT ![t] = "wait"]
        /\ future' = [future EXCEPT ![t] = "pending"]
        /\ UNCHANGED call
  /\ UNCHANGED <<thread, result, cancel, annVars>>

\* A woken waiter runs and takes the lock.
WaiterEnters(t) ==
  /\ pc[t] = "wait"
  /\ future[t] = "set"
  /\ ~ cancel[t]
  /\ EnterLock(t, held[t], RemoveFirst(lock[held[t]].waiters, t))
  /\ UNCHANGED <<map, held, thread, result, cancel, annVars>>

\* A cancelled waiter, woken or not, wakes the next one if the lock is free.
WaiterLeaves(t) ==
  /\ pc[t] = "wait"
  /\ cancel[t]
  /\ LeaveLock(t, lock[held[t]].locked, RemoveFirst(lock[held[t]].waiters, t))
  /\ cancel' = [cancel EXCEPT ![t] = FALSE]
  /\ UNCHANGED <<call, thread, result, annVars>>

\* task.cancel(), by Kopf or the event loop's shutdown: a pending future of
\* the queue is cancelled at once.
Cancel(t) ==
  /\ pc[t] # "idle"
  /\ ~ cancel[t]
  /\ cancel' = [cancel EXCEPT ![t] = TRUE]
  /\ future' = [future EXCEPT ![t] = IF @ = "pending" THEN "cancelled" ELSE @]
  /\ UNCHANGED <<call, thread, result, map, lock, pc, held, annVars>>

-----------------------------------------------------------------------------
(* sshmachine_reconcile inside the lock *)

\* Variant: an early exit forgets to release the lock.
LeaveUnreleased(t) == LeaveLock(t, TRUE, lock[held[t]].waiters)

\* async with lock is left.
Leave(t) == LeaveLock(t, FALSE, lock[held[t]].waiters)

\* run_api returns or raises: with the annotation the handler goes on; the
\* body, failed, cancelled or done, releases the annotation; a failed or
\* cancelled acquire does not, although its thread may have set it.
CallReturns(t) ==
  /\ Returns(t)
  /\ \/ /\ pc[t] = "acquire" /\ Outcome(t) = "ok"
        /\ pc' = [pc EXCEPT ![t] = "body"]
        /\ Returned(t, "none")
        /\ UNCHANGED <<map, lock, held, future>>
     \/ /\ pc[t] = "body"
        /\ pc' = [pc EXCEPT ![t] = "release"]
        /\ Returned(t, "slot")
        /\ UNCHANGED <<map, lock, held, future>>
     \/ /\ pc[t] = "release" \/ (pc[t] = "acquire" /\ Outcome(t) # "ok")
        /\ Leave(t)
        /\ Returned(t, "none")
  /\ tries' = [tries EXCEPT ![t] = 0]
  /\ UNCHANGED <<ann, fresh, late>>

\* The body calls the API, one call standing for all of them, or returns,
\* raises or is cancelled elsewhere; the inner finally block follows.
BodyCalls(t) ==
  /\ pc[t] = "body"
  /\ call[t] = "none"
  /\ ~ cancel[t]
  /\ call' = [call EXCEPT ![t] = "slot"]
  /\ UNCHANGED <<thread, result, cancel, lockVars, annVars>>

BodyEnds(t) ==
  /\ pc[t] = "body"
  /\ call[t] = "none"
  /\ pc' = [pc EXCEPT ![t] = "release"]
  /\ Returned(t, "slot")
  /\ UNCHANGED <<map, lock, held, future, annVars>>

TaskSubmits(t) == Submit(t) /\ UNCHANGED <<lockVars, annVars>>

-----------------------------------------------------------------------------
(* Threads *)

\* The object of m gets a new resourceVersion.
Written(m) ==
  /\ fresh' = {t \in fresh : MachineOf[t] # m}
  /\ late' = {r \in late : r[2] # m}

\* What a committed patch makes of the annotation
Patched(p, operation) ==
  IF operation = "acquire" THEN [holder |-> p, live |-> TRUE] ELSE Unheld

\* _acquire_distributed_reconcile_lock returns False while another holder's
\* time runs; _release_distributed_reconcile_lock only removes its own.
MayPatch(t) ==
  LET a == ann[MachineOf[t]] IN
  IF pc[t] = "acquire" THEN a.holder \in {None, Proc(t)} \/ ~ a.live ELSE a.holder = Proc(t)

ThreadReads(t) ==
  /\ pc[t] \in {"acquire", "release"}
  /\ thread[t] = "read"
  /\ \/ /\ MayPatch(t)
        /\ thread' = [thread EXCEPT ![t] = "write"]
        /\ fresh' = fresh \union {t}
        /\ UNCHANGED <<call, result, cancel>>
     \/ ~ MayPatch(t) /\ ThreadEnds(t, "failed") /\ UNCHANGED fresh
  /\ UNCHANGED <<lockVars, ann, late, tries>>

\* Variant: the patch carries no resourceVersion.
ThreadWritesUnfenced(t) ==
  LET m == MachineOf[t] IN
  /\ pc[t] \in {"acquire", "release"}
  /\ thread[t] = "write"
  /\ ann' = [ann EXCEPT ![m] = Patched(Proc(t), pc[t])]
  /\ Written(m)
  /\ ThreadEnds(t, "ok")
  /\ UNCHANGED <<lockVars, tries>>

\* Variant: the loop makes one attempt too many.
ThreadWritesOnceMore(t) ==
  /\ pc[t] \in {"acquire", "release"}
  /\ thread[t] = "write"
  /\ t \notin fresh
  /\ tries[t] < Tries
  /\ tries' = [tries EXCEPT ![t] = @ + 1]
  /\ thread' = [thread EXCEPT ![t] = "read"]
  /\ UNCHANGED <<call, result, cancel, ann, fresh, late, lockVars>>

\* The patch commits, or is refused with 409 and the loop starts over.
ThreadWrites(t) ==
  LET m == MachineOf[t] IN
  /\ pc[t] \in {"acquire", "release"}
  /\ thread[t] = "write"
  /\ \/ /\ t \in fresh
        /\ ann' = [ann EXCEPT ![m] = Patched(Proc(t), pc[t])]
        /\ Written(m)
        /\ ThreadEnds(t, "ok")
        /\ UNCHANGED tries
     \/ /\ t \notin fresh
        /\ tries[t] + 1 < Tries
        /\ tries' = [tries EXCEPT ![t] = @ + 1]
        /\ thread' = [thread EXCEPT ![t] = "read"]
        /\ UNCHANGED <<call, result, cancel, ann, fresh, late>>
     \/ /\ t \notin fresh
        /\ tries[t] + 1 = Tries
        /\ ThreadEnds(t, "failed")
        /\ UNCHANGED <<tries, ann, fresh, late>>
  /\ UNCHANGED lockVars

\* A read or a patch fails or times out; the patch may still arrive.
ThreadFails(t) ==
  /\ pc[t] \in {"acquire", "release"}
  /\ thread[t] \in {"read", "write"}
  /\ fresh' = fresh \ {t}
  /\ late' \in {late} \union
       {late \union {<<Proc(t), MachineOf[t], pc[t]>>} : u \in fresh \intersect {t}}
  /\ ThreadEnds(t, "failed")
  /\ UNCHANGED <<lockVars, ann, tries>>

\* A call of the handler's body, which may write the SSHMachine.
ThreadWorks(t) ==
  /\ pc[t] = "body"
  /\ thread[t] = "read"
  /\ \E outcome \in {"ok", "failed"} : ThreadEnds(t, outcome)
  /\ Written(MachineOf[t])
  /\ UNCHANGED <<lockVars, ann, tries>>

LateCommit(r) ==
  /\ r \in late
  /\ ann' = [ann EXCEPT ![r[2]] = Patched(r[1], r[3])]
  /\ Written(r[2])
  /\ UNCHANGED <<executorVars, lockVars, tries>>

-----------------------------------------------------------------------------
(* The environment *)

\* Somebody else writes the SSHMachine.
Touch(m) ==
  /\ \E t \in fresh : MachineOf[t] = m
  /\ Written(m)
  /\ UNCHANGED <<executorVars, lockVars, ann, tries>>

\* SSHMACHINE_DISTRIBUTED_LOCK_TTL_SECONDS have passed.
Expire(m) ==
  /\ ann[m].live
  /\ LockCanExpire \/ \A t \in Tasks : Proc(t) = ann[m].holder /\ MachineOf[t] = m => ~ Inside(t)
  /\ ann' = [ann EXCEPT ![m].live = FALSE]
  /\ UNCHANGED <<executorVars, lockVars, fresh, late, tries>>

\* The process dies with its tasks and threads; a new one takes its place
\* under a new name, so that what the old one left in the annotation or on
\* its way to it belongs to nobody: it is taken for expired, or lost.
Crash(p) ==
  LET dead == {t \in Tasks : Proc(t) = p} IN
  /\ \E t \in dead : pc[t] # "idle"
  /\ call' = [t \in Tasks |-> IF t \in dead THEN "none" ELSE call[t]]
  /\ thread' = [t \in Tasks |-> IF t \in dead THEN "none" ELSE thread[t]]
  /\ result' = [t \in Tasks |-> IF t \in dead THEN "ok" ELSE result[t]]
  /\ cancel' = [t \in Tasks |-> cancel[t] /\ t \notin dead]
  /\ pc' = [t \in Tasks |-> IF t \in dead THEN "idle" ELSE pc[t]]
  /\ held' = [t \in Tasks |-> IF t \in dead THEN None ELSE held[t]]
  /\ future' = [t \in Tasks |-> IF t \in dead THEN "none" ELSE future[t]]
  /\ map' = [map EXCEPT ![p] = [m \in Machines |-> None]]
  /\ lock' = [l \in Locks |-> IF \E t \in dead : held[t] = l THEN NewLock ELSE lock[l]]
  /\ ann' = [m \in Machines |-> IF ann[m].holder = p THEN Unheld ELSE ann[m]]
  /\ fresh' = fresh \ dead
  /\ late' = {r \in late : r[1] # p}
  /\ tries' = [t \in Tasks |-> IF t \in dead THEN 0 ELSE tries[t]]

-----------------------------------------------------------------------------
Thread(t) == ThreadReads(t) \/ ThreadWrites(t) \/ ThreadFails(t) \/ ThreadWorks(t)

Task(t) ==
  \/ WaiterEnters(t) \/ WaiterLeaves(t) \/ TaskSubmits(t)
  \/ CallReturns(t) \/ BodyCalls(t) \/ BodyEnds(t)

Next ==
  \/ \E t \in Tasks : Start(t) \/ Task(t) \/ Thread(t) \/ Cancel(t)
  \/ \E r \in late : LateCommit(r)
  \/ \E m \in Machines : Touch(m) \/ Expire(m)
  \/ \E p \in Processes : Crash(p)

Spec == Init /\ [][Next]_vars

\* The event loop runs every task that can run, and the pool every submitted
\* function, whose requests time out.
Fairness == \A t \in Tasks : WF_vars(Task(t)) /\ WF_vars(Thread(t))

FairSpec == Spec /\ Fairness

-----------------------------------------------------------------------------
(* Properties *)

\* _cleanup_reconcile_lock and asyncio.Lock: two handlers of one Machine in
\* one process are never both inside, although waiters are cancelled, woken
\* before they run, and the lock's map entry is dropped and made anew.
OneHandlerInside ==
  \A t, u \in Tasks :
    t # u /\ Proc(t) = Proc(u) /\ MachineOf[t] = MachineOf[u] => ~ (Inside(t) /\ Inside(u))

\* APIExecutor: a thread is at work only for a handler that is still inside
\* its lock, and no more of them than slots.  Cancellation never lets an old
\* write race a new reconcile.
WritesUnderLock ==
  LET atWork == {t \in Tasks : thread[t] \in {"read", "write"}} IN
  /\ \A t \in atWork : Inside(t) /\ call[t] = "future"
  /\ \A p \in Processes : Cardinality({t \in atWork : Proc(t) = p}) <= Slots

\* While a handler does its work the annotation names its process: no other
\* replica's acquire, no release, late or cut short, has removed it.
HandlerHoldsAnnotation ==
  \A t \in Tasks : pc[t] = "body" => ann[MachineOf[t]] = [holder |-> Proc(t), live |-> TRUE]

\* Every handler ends, cancelled or not: no wake-up of a waiter is lost, no
\* slot stays taken.
HandlerEnds == \A t \in Tasks : pc[t] # "idle" ~> pc[t] = "idle"

\* The handlers in their body, by Machine
Promise == INSTANCE MachineLock WITH
  atWork <- [m \in Machines |->
    LET busy == {t \in Tasks : MachineOf[t] = m /\ pc[t] = "body"} IN
    IF busy = {} THEN None ELSE CHOOSE t \in busy : TRUE]

\* Both locks together are one lock per Machine over all replicas: a handler
\* begins its work only when no other is at work, in whatever process, and
\* after whatever crash or cancellation.
ImplementsMachineLock == Promise!LockSpec

=============================================================================
