# Verification of capi-provider-ssh

TLA+ models of the Cluster API infrastructure provider in
`python/capi_provider_ssh`, checked with TLC; their safety is proved with TLAPS.

The provider turns SSH hosts from a pool into Kubernetes nodes. It runs in
several replicas, its handlers can be interrupted at every `await`, the calls
they make can succeed without the answer arriving, and the commands they start
on a host outlive them. What it must never do is run two Machines' commands on
one host at a time, replay a bootstrap, hand over a host that was not cleaned,
or clean one that is not its own.

## Components of the system

| Component | State | Operations | Modelled in |
|---|---|---|---|
| Host Lease (`operations.py`: `HostLease`, `host_operation`) | Lease object: holder, renew time | acquire, renew, check, release, heartbeat | `HostLease` |
| Remote commands (`operations.py`: `owned_command`, `durable_bootstrap`; the reset in `lifecycle.py`) | owner file, started marker, receipt, scripts, sentinel, Kubernetes state | claim, upload, launch, the detached job, reset | `RemoteHost` |
| Reconcile (`controllers/sshmachine.py`) | SSHMachine spec and status, reconcile lock annotation | lock, bind, lease, own, claim, upload, launch, observe, staged patch | `Lifecycle` |
| Deletion (`lifecycle.py`: `delete_machine`) | cleanup receipt, finalizer | recover, clean, record, release | `Lifecycle` |
| Inventory (`inventory.py`) | SSHHost `consumerRef`, phase, resourceVersion | select, bind, set phase, release, recover | `Inventory` (several hosts), `Lifecycle` (one host) |
| Host prober (`controllers/sshhost.py`) | SSHHost readiness | probe | its effect on the resourceVersion, in `Lifecycle` and `Inventory`, and on selection, in `Inventory` |
| Reboot (`lifecycle.py`: `reconcile_reboot`) | remediation status, boot id, commands armed on the host | prepare, submit, observe, resolve | `Reboot` |
| Reconcile lock (`sshmachine.py`: `_get_reconcile_lock` to `_release_distributed_lock_with_logging`, `sshmachine_reconcile`) | lock map and lock queues of a process, annotation of an SSHMachine | get, wait, enter, leave, drop; acquire and release the annotation | `ReconcileLock` |
| API executor (`api_io.py`) | slots, threads, cancelled callers | run, drain | `APIExecutor` |
| SSHCluster (`controllers/sshcluster.py`) | status flags and conditions | create/update, timer, delete | `SSHCluster` |
| Conditions (`conditions.py`), pause (`contracts.py`: `is_paused`) | condition lists; owner and label | merge, report a pause; look the owner up | `Conditions`, `SSHCluster` |
| Bootstrap data text, readiness, audit, scripts | strings, none, none, none | | not modelled |

How they interact: a handler (a Kopf callback in some replica) takes the
reconcile lock of its SSHMachine, reads the object, claims an SSHHost by
compare-and-swap on its resourceVersion, takes the host's Lease, records in the
status that it is about to own the host, and only then sends commands. The
commands check the owner file on the host under a `flock`. Deletion goes the
same way back: reset, cleanup receipt in the status, host available, claim
cleared, finalizer removed. Every synchronous API call of a handler runs in a
thread of the API executor, and what a handler leaves in `patch` is applied by
Kopf after the handler has given up its locks.

Hard behaviours, each an entry under `hazards` in `PROJECT.json`: renewals that race
each other and late requests (`HostLease`); jobs and resets queued on one flock, power
loss (`RemoteHost`); crashes between any two persisted facts, lost answers, requests
that commit after their handler has given up, a lock that expires under a live handler,
staged patches applied late (`Lifecycle`); lists of hosts that are stale when a claim is
made from them, claims that land late (`Inventory`); waiters that are woken and
cancelled, threads that outlive their caller, patches of the annotation that arrive late
(`ReconcileLock`); a reboot command of which nobody knows whether it was accepted
(`Reboot`); handlers that overwrite each other's status from old snapshots
(`SSHCluster`).

## Modules

**HostLease.** One entry into `host_operation` is an operation with an identity
of its own. `main` and `beat` are its two tasks, `call`/`at` the API call each
method is making, `fresh` the calls whose read is still the current version: a
replace commits iff its call is in `fresh`. A timed-out request becomes
`abandoned` and may still commit (`LateCommit`). A heartbeat that gives up while
its parent already waits for it in the `finally` block cancels that wait, and
the release is skipped (`HeartbeatLost`). A missing Lease object and one without
holder are the same free Lease; one clock is assumed for all replicas.

**RemoteHost.** The files and commands of one host. Every command may arrive at
any time from any Machine UID: this module assumes nothing of the controller and
shows what the owner file, the flock and the receipt achieve alone. `ran` and
`proven` are history. `rm -rf` unlinks files one at a time in any order;
`RemovalCanBeCut` says whether a power loss may fall in between. The owner file
is renamed into place, so a claim is one step. Files that were written survive a
power loss (fsync is not modelled); processes and `/run` do not. Every receipt is one
step: that of a payload is renamed into place, and the 123 that `JobSkipped` writes for
an interrupted one goes directly into the file; a power loss between the creation of
that file and the write, which would leave an empty receipt, is not modelled.

**Lifecycle.** Extends `RemoteHost` with the API objects and the handlers.
A worker is one run of `sshmachine_reconcile`; `pc` names the next API or SSH
call. A read followed by a patch with its resourceVersion either fails or is
atomic, so it is one step, and `Raise` is the failure, the pause, or the lost
answer of the step before it. `Crash` ends the process. `api_io.request` gives up after
its timeout while the request may still commit: `GivesUp` keeps the patch of the SSHHost
that the failing step has sent in `lateHost`, and `LateHostPatch` commits it as long as
the object has the version it was sent with; any other write empties `lateHost`. `stray`
marks a `consumerRef` that came so. For the SSHMachine the lock annotation, written when
a handler begins and when it ends, fences late patches in the same way, and the only
read of a handler that a late patch of its own can slip behind is the one of the cleanup
receipt (`lifecycle.py:323`): `lateReceipt`, `LateReceipt`. The two reads of
`Recheck` (object, Lease) are taken at one instant: a Machine never becomes live
again and a Lease that was lost is never regained by the same operation, so
every pair of answers the code can act on is one the model can act on.
`End` releases Lease and lock; `ApplyPatch` is Kopf applying the staged status
afterwards, without a resourceVersion. `LockCanExpire` and `LeaseCanExpire`
choose which of the two timed exclusions may run out under a live worker.
`MaxFaults` bounds raises, crashes, failed resets and power losses, `Attempts`
the launches that reach the host.

**Inventory.** The pool: several SSHHosts, several Machines, concurrent handlers.
`current[w]` holds the hosts nobody has written since worker `w` read them, so a patch
of `w` commits iff its host is in it; `_select_host` lists once (`ListHosts`, with the
sort by readiness and name, one of the sequences in `Candidates`) and tries one
candidate per step (`TryClaim`). `ref` and `chosen` are the spec and the allocation as
read under the lock. `late` holds the patches of each host that timed out and may still
commit (`GivesUp`, `LateCommit`), `stray` the hosts whose `consumerRef` was set by one:
the retry of a claim that timed out may meet it as a 409. The binding is staged for Kopf
when it is persisted or verified and applied after the lock is gone (`ApplyPatch`). What
happens on a host is reduced to its outcome: bootstrap succeeds or quarantines, a
deletion cleans, quarantines, or finds that cleaning is not needed or already done.

**Allocation.** The abstract specification of a pool: a host has one consumer at
a time, a Machine takes one host and only once. `Inventory` implements it with
`consumer` as the `consumerRef`s and `served` as the Machines that hold a claim
or have an allocation on record; a claim that landed late counts from the moment the
Machine is bound to it (`Consumer`). Both the mapping and the properties about one
Machine are restricted to `Locked`, the Machines whose reconcile lock does not
expire under a live handler; the others (`ExpiringLocks`) compete with them.

**APIExecutor.** `APIExecutor.run` as a task, a thread and a slot: `call` is where
the task is (waiting for a slot, or for the future), `thread` how far the
submitted function has come, `cancel` that `task.cancel()` was called and its
`CancelledError` is either undelivered or kept by the shield loop. The actions are
completed by the module that calls `run_api`.

**ReconcileLock.** Extends `APIExecutor` with `sshmachine_reconcile` around its
body: the map `_RECONCILE_LOCKS`, the `asyncio.Lock` objects with their queues of
futures (external, but modelled step by step: release wakes a waiter, which takes
the lock only when it runs, and may be cancelled before that), the annotation with
its read-patch loops, and the cleanup of the map in the outer `finally`. What is
between two awaits is one step. A patch commits iff its task's read is in `fresh`;
one whose client has given up is in `late` and may still commit. One call of the
body stands for all of them. Holders are the process names that
`_build_reconcile_lock_holder` makes unique, so what a dead process leaves in the
annotation is taken for expired. There are at least as many identifiers in `Locks` as
tasks, so that a handler that finds no entry in the map can always create a lock.

**MachineLock.** The abstract specification: at most one handler of a Machine is
at work. `ReconcileLock` implements it with the handler in its body as the one at
work, as long as the annotation does not expire under a live handler
(`LockCanExpire`).

**Reboot.** One provisioned Machine, `reconcile_reboot` and the part of
`delete_machine` that waits for it. One handler at a time, which is what
`MachineLock` promises. `armed` are the commands that sleep on the host before
they reboot it, `submitted` says whether each was sent never, once or again. Whether 300
seconds have passed since `startedAt` is left open: `Resolve` may take either branch. A
submission is
acknowledged, refused, or its answer is lost whether or not it arrived; with
`StatusCanBeMissing` a lost answer may also look like a refusal, because
`SSHConnection.execute` makes -1 of a missing exit status. `staged` holds what
Kopf has still to patch: it applies a handler's patch at any time after the lock is
released, also over what a later handler has recorded, and `overtaken` are the requests
whose record was replaced so by that of another one. `MaxPatches` bounds the patches
outstanding when a handler begins. A new request follows the documented procedure
(`docs/operations.md`, "Reboot semantics"): while the outcome of the last one is
open, none is made before a console shows that no delayed reboot is left.

**Conditions, SSHCluster.** Conditions are a function from types to status;
`merge_conditions` is the union of two such functions in which the update wins
(`Union`). A handler of the SSHCluster takes a snapshot, looks the
CAPI Cluster up in a thread, and leaves a patch; Kopf runs the event handlers of an
object one after the other, and the timer beside them. An object without owner
reference and label names no Cluster and is only paused by itself. A changed owner
reference is no update for Kopf; the timer finds it.

Definitions whose comment begins with "Variant" are deliberately wrong versions
of the definition that follows; no specification uses them. They show that the
properties notice such an error: with the variant in place TLC finds the
property violated.

The modules whose names begin with `MC` give the model values.

## Runs

| Run | Instance | Result |
|---|---|---|
| `lease` | 2 operations, validity 2, clock to 3, fair | `TrustedHolderIsRecorded`, `NoEarlyTakeover`, `RenewalNeverBackdated`, `DisplacedOperationStops` hold |
| `remote_fence` | 2 Machines, 3 attempts, removal not cut | `JobFenced`, `OnePayloadPerClaim`, `ReceiptOfOwner`, `ResetProvesClean`, `ReceiptIsFinal` hold |
| `lifecycle_lock` | 2 Machines and a legacy one, 2 workers, 2 faults; Lease may expire, lock not | `OwnerHoldsClaim`, `ReleasedHostIsClean`, `ProvisionedByOwnReceipt`, `GoneLeavesNothing`, `LegacyHostUntouched`, `CleanupReceiptIsFinal`, `NoResetAfterReceipt` hold |
| `lifecycle_lease` | 1 Machine, 2 attempts, 2 workers, 1 fault; lock may expire, Lease not | `RunningPayloadIsClaimed` holds |
| `lifecycle_deletion` | 1 Machine, 1 attempt, 2 workers, 3 faults, fair | `DeletionCompletes` holds |
| `inventory` | 2 hosts, 2 Machines, 2 workers, 1 fault; the lock of one Machine may expire | `BoundToItsClaim`, `NoOrphanedClaim`, `NoStrandedHost`, `AllocationNeverMoves`, `ImplementsAllocation`, `ClaimNeverStolen` hold |
| `reconcile_lock` | 2 processes with 2 and 1 handlers of one Machine, 1 slot each, 2 tries, fair | `OneHandlerInside`, `WritesUnderLock`, `HandlerHoldsAnnotation`, `HandlerEnds`, `ImplementsMachineLock` hold, no deadlock |
| `reboot` | 2 requests, 3 restarts, 2 faults, 1 patch outstanding when a handler begins, fair | `SubmittedOnce`, `NoRebootDuringCleanup`, `DeletionResumes` hold |
| `sshcluster` | 2 changes, 1 failed lookup, fair | `PauseHolds`, `StatusConverges` hold |
| `lifecycle_cut_removal` | 2 Machines, 1 worker, 1 power loss | `ProvisionedByOwnReceipt` violated |
| `lifecycle_reclaimed` | 2 Machines, 1 worker, 1 crash, fair | `DeletionCompletes` violated |
| `reboot_no_status` | 1 request, no fault, missing exit status | `NoRebootDuringCleanup` violated |

Each of the passing runs, except `remote_fence`, `lifecycle_lease` and
`lifecycle_deletion`, also checks its module's type invariant; `RemoteTypeOK` is part
of the one of `lifecycle_lock`.

Bounds. Two operations are enough for every race on the Lease (holder and challenger),
with identities reused by `NextAttempt`; the clock must exceed one validity period so
that renewals in the middle of one and takeovers at its end happen. Two Machines are a
previous and a next user of the host, three attempts a retry and a successor. Two
workers are two replicas. Two faults allow a fault during the recovery from another; in
`lifecycle_deletion` three are a receipt that times out and lands late, and faults in
both retries of the cleanup. A late commit costs no fault of its own: it is what one
fault has left behind. Two hosts give a handler a second candidate after a conflict,
which is where a Machine could end up with two; their order and readiness are part of
the state, and the probe of the first one may fail (`Failing`). In `reconcile_lock` two handlers of one process start again and again, so one
leaves while the other is woken, and a third comes to a map entry that was dropped; the
handler of the other process is the competitor for the annotation; nothing bounds
cancellations, crashes, lost or late patches; the retry loop of 5 is cut to 2, which has
a first, a repeated and a last attempt. With one Machine and one slot per process the
lock already keeps the slots uncontended, so the bound on slots is shown to be respected
and not stressed. Two reboot requests are one whose patch lags and one whose record it
replaces, three restarts end both and one more; two faults cut the handling of each. In
`sshcluster` every combination of owner, label and endpoint is an initial state, and two
changes are a pause with a change under it, or a pause and its end. The Lifecycle,
Inventory, Reboot and SSHCluster runs do not check deadlock: when the object is gone the
system may stop. Workers are symmetric in the safety runs, and in
`lifecycle_lock` so are the two Machines, each with its one attempt; no symmetry is used
for liveness.

Fairness. `HostLease`: the event loop runs, so a sleeping heartbeat wakes, a
cancellation is delivered and a request is answered or times out
(`API_TIMEOUT`); nothing is assumed about when a body ends. `Lifecycle`: a
handler and a remote command run to their end (weak); Kopf retries a deletion
handler until it succeeds (strong, because two workers stand for as many tasks
as there are objects); the second patch of `release_host` is not lost to the
prober every time (strong: the prober writes every 300 seconds, the patches
follow each other at once). Faults are bounded, so they stop. `ReconcileLock`: the
event loop runs every task that can run and the pool every function submitted to it,
whose requests time out (weak, per task and thread); nothing is assumed of crashes,
cancellations or expiry. `Reboot` and `SSHCluster`: Kopf calls the handlers again,
they end, and their patches are applied (weak). A reboot is never assumed to happen:
`DeletionResumes` speaks of a host that has come up again.

## What the violations show

1. `lifecycle_cut_removal`: the state directory is removed by one `rm -rf`. If
   it is cut after `owner` and before `bootstrap-exit-code`, the retry takes the
   missing owner for a finished reset, and the next Machine obeys the old
   receipt without running its own payload.
2. `lifecycle_reclaimed`: if the manager stops after the claim was cleared and
   before the finalizer is removed, and another Machine claims the host,
   `release_host` raises on every retry of the first deletion.
3. `reboot_no_status`: a reboot command whose channel closes without an exit status
   counts as rejected. The host may have accepted it; a deletion then cleans the
   host under the armed reboot.

## Limits of what holds

The passing runs name the assumptions that carry the properties. Turned off, each
is refuted by TLC on the same modules:

- *The reconcile lock does not expire under a live handler.* It lasts 120 seconds
  and nobody renews it. With `LockCanExpire = TRUE` in `lifecycle_lock` a deletion
  that reads a status without ownership record releases the host, through the
  CleanupNotRequired path that needs no Lease, while an older handler of the same
  Machine is about to write its owner file there (`ReleasedHostIsClean`);
  `lifecycle_lease` shows the limit of the damage: no payload runs in this
  situation. In `Inventory` two handlers of one Machine can claim two hosts, and
  the later one replaces the recorded allocation (`AllocationNeverMoves`, if the
  Machine is not in `Locked`); `inventory` shows that no other Machine is affected.
- *The removal of the state directory is not cut*, *every command reports its exit
  status*: the violations above.
- *The Machine still counts as provisioned when it is deleted with a reboot pending*
  (a conjunct of `DeletionResumes`). Otherwise `reconcile_reboot` raises before it
  looks at the boot id, and the deletion waits until the flag is restored.
- *No cleanup has begun and no patch is outstanding when a deletion finds a pending
  reboot* (two more conjuncts). A patch that lags can put a pending state back after the
  host was marked Cleaning or Quarantined; `bind_machine` then raises on every attempt to
  observe the reboot, and the deletion waits for ever.

What late requests and late patches can do is part of the models, and the properties
say how far it goes. Stated without their exceptions they are violated:

- *A claim that times out* (`inventory.py:147`) *can give a Machine a second host.* It
  commits between the retry's list and the retry's patch; the 409 looks like a lost race,
  the next candidate is claimed, and deletion releases only the host it is bound to.
  `BoundToItsClaim`, `NoOrphanedClaim` and `ImplementsAllocation` say that such a host is
  `Available` in phase, was never bound or used, and that nothing else is ever left over.
  If the handler stops before it has recorded the second claim, the retry finds two
  and raises for good, as `docs/testing.md` has it for multiple claims.
- *It can also outlive the Machine.* A deletion that finds no claim
  (`lifecycle.py:233`) records that no cleanup is required and lets the finalizer go; the
  claim lands afterwards. `GoneLeavesNothing` says that the host is then clean and that the
  Machine never owned it. Nothing in the provider frees such a host.
- *A cleanup receipt that times out can be overwritten by Failed* (`lifecycle.py:307`,
  `:323`, `:334`): it lands after the read that looks for it, and `record_cleanup` reads
  the new version before it writes. `docs/testing.md:72` says that a lost status response
  never erases the receipt or repeats the reset. `CleanupReceiptIsFinal` says that this is
  the only way, and that the host is clean and still claimed: the second reset finds no
  owner file and exits 0, and `DeletionCompletes` includes the case.
- *A reboot state that Kopf patches late can replace that of a newer request.* The newer
  command may then be sent a second time, although `docs/operations.md:182` says that it
  is never resent, or a deletion finds an old Succeeded and cleans under the armed newer
  command, against line 189 there. `SubmittedOnce` and `NoRebootDuringCleanup` except the
  requests in `overtaken` and no others.

## Proofs

TLC checks the instances above; the proofs hold for every value of the constants that
satisfies the assumptions named in the modules (`LeaseAssumption`, `HostAssumption`,
`LifecycleAssumption`, `InventoryAssumption`, `ExecutorAssumption`,
`ReconcileLockAssumption`, `RebootAssumption`, `SSHClusterAssumption`): any number of
handlers, Machines, hosts, attempts, faults, late requests and late patches. Every
safety property of a passing run is a theorem, with the hypotheses listed here and no
others.

| Module | Hypothesis | Theorems |
|---|---|---|
| `HostLeaseProofs` | none | `LeaseTypeCorrect`, `TrustedHolder`, `OneTrustedHolder`, `HolderKeepsLease`, `RenewTimeMonotone` |
| `RemoteHostProofs` | none | `JobsAreFenced`, `ReceiptWrittenOnce` |
| | removal not cut | `PayloadRunsOnce`, `ReceiptIsOwn`, `ResetSeparatesOwners` |
| `LifecycleProofs` | none | `LifecycleTypeCorrect` |
| | lock lasts, removal not cut | `OwnerIsTheClaimant`, `ReleaseIsClean`, `PayloadRunsClaimed`, `ProvisionedIsProved`, `FinalizerGoesLast`, `LegacyIsLeftAlone`, `ReceiptIsDurable`, `ReceiptEndsResets` |
| `LifecycleLeaseProofs` | Lease lasts | `LeaseKeepsPayloadClaimed` |
| `InventoryProofs` | none (about one Machine: it is in `Locked`) | `InventoryTypeCorrect`, `ClaimIsTheAllocation`, `ClaimsReleased`, `PoolKeepsItsHosts`, `ClaimIsKept`, `AllocationIsFinal`, `AllocationImplemented` |
| `ReconcileLockProofs` | none | `LockTypeCorrect`, `HandlersExcluded`, `ThreadsUnderLock` |
| | annotation lasts | `AnnotationKept`, `MachineLockImplemented` |
| `RebootProofs` | none | `RebootTypeCorrect`, `RebootSubmittedOnce` |
| | a command reports its exit status | `CleanupUndisturbed` |
| `SSHClusterProofs` | none | `SSHClusterTypeCorrect`, `PauseIsObeyed` |

The hypotheses are the constants of the same meaning: "lock lasts" and "annotation
lasts" are `LockCanExpire = FALSE`, "Lease lasts" is `LeaseCanExpire = FALSE`, "removal
not cut" is `RemovalCanBeCut = FALSE`, and that of `Reboot` is
`StatusCanBeMissing = FALSE`. That they are needed is
what the violations and the section before this one show.

**HostLease.** `TrustedHolderIsRecorded` is not inductive: it says nothing of the
requests on the wire. `LeaseInv` adds what a request in `fresh` implies about the
record it read (the record is unchanged since, so a renewal's holder is the recorded
one and an acquire's record was free or expired at the time it sampled), that sampled
times are never in the future, and that a confirmed renewal of a trusted holder is at
most the recorded one.

**RemoteHost.** `Fence` is what the flock and the order of the checks give by
themselves: a running job is alone, is the owner's and has found no result. `Ownership`
is what one owner leaves to the next: a payload that ran implies the started marker
until the reset removes it, and the files of an owner exist without an owner file only
while a reset is removing them. A removal that is cut breaks the second and not the
first.

**Lifecycle under the lock.** `LifecycleInv` has three parts: `RemoteInv`; `HostInv`,
which relates what is on the host to what the API server records (a host is clean
while nobody has it, before its consumer records ownership, and once the consumer has
recorded the success of the reset; a Machine with recorded ownership keeps the claim
until then); and `HandlerInv`, which says of each handler run what it may rely on at
the step it has reached. Handlers of one Machine exclude each other by the lock, those
of two Machines by the `consumerRef`; nothing is assumed about the Lease. The requests
that timed out belong to `HostInv`: `LatePatchesHarmless` says that whatever may still
commit sets the phase for the consumer of record, claims a free host for a Machine that
has not used it, or releases a host whose cleanup is recorded, and `LateReceiptsTrue`
that a receipt still under way is about a clean host that its Machine has. So a late
claim can outlive its Machine (`stray`), but only on a host that the Machine never
touched, which is what `Released` and `GoneLeavesNothing` say. Each group of
actions has a lemma that it keeps the promises of the handler that moves, and
`SparedKeeps` says when those of the others survive. `OutcomeKept` covers what Kopf
applies after the lock is released: from the observation of the receipt until the patch
the receipt stays, unless a deletion begins meanwhile, which is why
`ProvisionedByOwnReceipt` is about live Machines.

**Lifecycle without the lock.** If only the Lease lasts, a deletion can release the
host under an older handler of the same Machine. `LeaseInv` of `LifecycleLeaseProofs`
says that this handler is too late. A Machine is `Finished` when it is being deleted
and either none of its jobs was launched and no handler is about to launch one
(`NeverLaunched`), or the owner file does not name it and no handler is about to write
it (`Disowned`). Deletion establishes one of the two before it gives the claim up (the
first if it finds no ownership record, the second if it has reset the host inside
`host_operation`), both are stable because `Recheck` lets no handler of a deleted
Machine through, and neither allows a payload of the Machine to run. The removal of the
state directory may be cut.

**Inventory.** `InventoryInv` says what a handler's reads are worth: the allocation as
read under the lock, the claims it has made or found, and, for the candidates in its
list and the host it releases, that one which nobody has written since is still as it
was read. Of the objects it says that a host which a Machine has beside its allocation
came by a late claim and was never used (`OthersCameLate`, `UsedIfAllocated`), that a
Machine that is gone has released its allocation (`GoneReleased`), and that a patch
that may still commit claims a free host or concerns an allocated one (`LateAsSent`).
Handlers of Machines whose lock may expire are not constrained beyond their
types; the theorems about a Machine in `Locked` hold in spite of them. The refinement
of `Allocation` is proved action by action from the same invariant.

**ReconcileLock.** `LockInv` is about the map, the locks and their queues: a handler
that has started has the lock that the map holds for its Machine, no entry outlives its
last user, the queue of a lock holds exactly those who wait, a lock is locked exactly
while one handler is inside, and only the first waiter of a free lock is woken. A second
part covers the executor: only a handler inside its lock is in `run_api`, and each
thread has a slot. The third, `AnnotationIsHeld`, needs that annotations last: from the
commit of its acquire to the end of its body a handler has the annotation, and no patch
of the SSHMachine, early or late, is under way that could still commit. `UnusedLock`
derives from the assumption on `Locks` that the map never lacks an object.

**Reboot.** Kopf may apply a staged status at any time, so what was recorded can be
replaced by something older; `overtaken` holds the requests to which that happened, and
the invariants are about the others. `SubmitInv`: once a request has been sent or
staged, the record is of it as long as it is the last one (`LatestOnRecord`); a request
that is new to a handler is the last one and nothing of it was sent or staged before
(`NewIsLatest`); and at the submission its intent is on record, as the handler wrote
it, nothing else of it is staged and its command was not sent (`IntentRecorded`). For
the cleanup, `CleanupInv` adds that an armed command is of the last request, is pending
in every copy of the status that names it and was sent in the present boot
(`ArmedIsAwaited`), and that nothing is submitted once a cleanup has begun.

**SSHCluster.** `PauseHolds` is not inductive: a task decides from a snapshot and looks
the Cluster up later. `PauseInv` says that the snapshot of a task that began after the
pause agrees with the object on what the pause depends on, and that what it stages
leaves the flags alone. `MergeTyped` and `UpdatesTyped` are about the operators on
conditions.

Only model-checked: the liveness properties (`DisplacedOperationStops`,
`DeletionCompletes`, `HandlerEnds`, `DeletionResumes`, `StatusConverges`), which are
beyond the prover, and the violations.

## Not modelled

Direct mode (a Machine with an address instead of a pool; the same code without
the SSHHost). The text of bootstrap data, of conditions and of diagnostics: the
functions that rewrite cloud-config and kubeadm YAML have no state, and what could
be wrong in them is about strings; that they fail is an exit in `Lifecycle`
(`WaitForBootstrapData`). Transition times and generations of conditions. The order
in which `is_paused` asks a Machine's owners. Readiness (`readiness.py`, a read-only
probe), peering (Kopf's; the locks do not rely on it), the namespace audit, the
release scripts, asyncssh. A command that
sshd executes after its client was declared dead and the Lease has expired is in
`RemoteHost` (any order) but not in `Lifecycle`. Machines have distinct names,
so a staged patch never meets a successor of the same name. Kopf's patch of spec
and status is one step.

## Plan

1. `Inventory` liveness: a live Machine is bound once enough hosts are reachable and
   stay so.
2. `Lifecycle` when only the Lease lasts: which of the other invariants proved under the
   lock survive for Machines that are not being deleted.
