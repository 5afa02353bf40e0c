------------------------------ MODULE Lifecycle ------------------------------
(***************************************************************************)
(* The SSHMachine handlers of several manager replicas against one pooled  *)
(* SSHHost: sshmachine_reconcile with bootstrap (sshmachine.py) and with   *)
(* deletion (lifecycle.py: delete_machine), the host claim (inventory.py)  *)
(* and, from RemoteHost, what happens on the host itself.                  *)
(*                                                                         *)
(* A worker is one run of sshmachine_reconcile for one Machine UID.  Its   *)
(* steps are the API and SSH calls that change or depend on shared state.  *)
(* A read followed by a patch with the resourceVersion of that read either *)
(* fails or acts as one step; it is one step here, and Raise is the        *)
(* failure.  A call that committed although its answer was lost is the     *)
(* step followed by Raise.  A pause found at one of the handlers' pause    *)
(* checks ends the handler like any other early return: Raise as well.     *)
(*                                                                         *)
(* A request that timed out may also commit later, when its handler has    *)
(* gone on or is over, as long as the object still has the version it was  *)
(* sent with.  For the SSHHost such requests are kept in lateHost.  Every  *)
(* handler begins and ends with a write of its SSHMachine, the lock        *)
(* annotation, so a late patch of the SSHMachine lands before anybody      *)
(* reads what it changes and is as good as one in time, but for one read:  *)
(* delete_machine's, after the reset, of its own cleanup receipt.  Late    *)
(* receipts are therefore kept too, in lateReceipt.                        *)
(*                                                                         *)
(* Two mutual exclusions are timed.  The reconcile lock is an annotation   *)
(* with a TTL that nobody renews; the host Lease is renewed by HostLease's *)
(* heartbeat.  LockCanExpire and LeaseCanExpire say whether they may run   *)
(* out under a live worker; under a dead one they always do.               *)
(***************************************************************************)
EXTENDS RemoteHost, Naturals

CONSTANTS
  Workers,         \* concurrent handler runs, in any replica
  LegacyUids,      \* Machines provisioned before ownership was recorded
  LockCanExpire,   \* a live worker may outlast SSHMACHINE_DISTRIBUTED_LOCK_TTL_SECONDS
  LeaseCanExpire,  \* a live worker may miss its renewals for LEASE_SECONDS
  MaxFaults        \* bound on crashes, failed calls, failed resets and power losses

ASSUME LifecycleAssumption ==
  /\ LockCanExpire \in BOOLEAN
  /\ LeaseCanExpire \in BOOLEAN
  /\ MaxFaults \in Nat
  /\ None \notin Workers
  /\ LegacyUids \subseteq Uids

VARIABLES
  machine,      \* SSHMachine objects: metadata, spec.hostRef and status
  claim,        \* SSHHost spec.consumerRef
  phase,        \* SSHHost status.phase
  current,      \* workers about to patch with the SSHHost's current resourceVersion
  lateHost,     \* what timed-out patches with that version would make of the SSHHost
  stray,        \* consumerRef was set by a patch that its handler had given up
  lateReceipt,  \* cleanup receipts that timed out: sent, or landed unseen
  lock,         \* holder in the reconcile lock annotation of each SSHMachine
  lease,        \* holder of the host Lease
  worker,       \* progress of each worker
  faults        \* crashes, failed calls, failed resets and power losses so far

hostVars == <<claim, phase, current, lateHost, stray>>
apiVars  == <<machine, lateReceipt, hostVars, lock, lease>>
vars     == <<remoteVars, apiVars, worker, faults>>

Phases      == {"Available", "Claimed", "Cleaning", "Quarantined"}
HostResults == [claim : Uids \union {None}, phase : Phases]

BindSteps      == {"bind", "select", "reselect", "spec", "status", "claimed"}
BootstrapSteps == {"recheck1", "own", "claim", "mismatch", "check2", "upload", "recheck2",
                   "launch", "observe", "readiness", "quarantine"}
\* Inside the try block of delete_machine, with the Lease.
CleanupSteps   == {"cleanCheck", "reset", "resetting", "succeeded", "recorded"}
DeleteSteps    == {"recover", "recoverSelected", "recoverStatus", "legacy", "notRequired",
                   "nothing", "confirm", "cleaning", "running", "cleanLease", "failed",
                   "quarantine2", "recordFailed", "available", "unclaim"} \union CleanupSteps
Steps          == {"idle", "backfill", "lease", "end", "patch"}
                     \union BindSteps \union BootstrapSteps \union DeleteSteps

\* What Kopf applies once the handler is over: the staged status, or the
\* removal of the finalizer.
Outcomes       == {"none", "provisioned", "backfilled", "unprovisioned", "deleted"}

Idle == [pc |-> "idle", uid |-> None, skip |-> FALSE, attempt |-> None, outcome |-> "none"]

TypeOK ==
  /\ RemoteTypeOK
  /\ machine \in [Uids -> [life : {"absent", "live", "deleting", "gone"},
                           selected : BOOLEAN, allocated : BOOLEAN, owned : BOOLEAN,
                           provisioned : BOOLEAN, providerID : BOOLEAN,
                           cleanup : {"none", "Running", "Succeeded", "Failed"}]]
  /\ claim \in Uids \union {None}
  /\ phase \in Phases
  /\ current \in SUBSET Workers
  /\ lateHost \in SUBSET HostResults
  /\ stray \in BOOLEAN
  /\ lateReceipt \in [Uids -> {"none", "sent", "landed"}]
  /\ lock \in [Uids -> Workers \union {None}]
  /\ lease \in Workers \union {None}
  /\ worker \in [Workers -> [pc : Steps, uid : Uids \union {None}, skip : BOOLEAN,
                             attempt : Attempts \union {None},
                             outcome : Outcomes]]
  /\ faults \in 0 .. MaxFaults

Init ==
  /\ RemoteInit
  /\ machine = [m \in Uids |-> [life |-> "absent", selected |-> FALSE, allocated |-> FALSE,
                                owned |-> FALSE, provisioned |-> FALSE, providerID |-> FALSE,
                                cleanup |-> "none"]]
  /\ claim = None
  /\ phase = "Available"
  /\ current = {}
  /\ lateHost = {}
  /\ stray = FALSE
  /\ lateReceipt = [m \in Uids |-> "none"]
  /\ lock = [m \in Uids |-> None]
  /\ lease = None
  /\ worker = [w \in Workers |-> Idle]
  /\ faults = 0

-----------------------------------------------------------------------------
At(w, pc)   == worker[w].pc = pc
Uid(w)      == worker[w].uid

\* The handler returns or raises, with the patch it has staged.
Done(w, outcome) ==
  worker' = [worker EXCEPT ![w] = [Idle EXCEPT !.pc = "end", !.uid = Uid(w), !.outcome = outcome]]

Goto(w, pc) ==
  IF pc = "end" THEN Done(w, worker[w].outcome) ELSE worker' = [worker EXCEPT ![w].pc = pc]

Present(m) == machine[m].life \in {"live", "deleting"}

\* The SSHMachine gets a new resourceVersion: a receipt under way is refused.
Written(m) == lateReceipt' = [lateReceipt EXCEPT ![m] = IF @ = "sent" THEN "none" ELSE @]

\* persist_machine_status: the object still exists with this UID.
Persist(w, field, value) ==
  /\ Present(Uid(w))
  /\ machine' = [machine EXCEPT ![Uid(w)][field] = value]
  /\ Written(Uid(w))
  /\ UNCHANGED <<remoteVars, hostVars, lock, lease, faults>>

\* The step only reads, or its call is refused.
NoWrite == UNCHANGED <<remoteVars, apiVars, faults>>

\* _host_patch: the SSHHost gets a new resourceVersion, which only the
\* writer may know; a patch that changes nothing leaves the version.
PatchHost(newClaim, newPhase, known) ==
  /\ claim' = newClaim
  /\ phase' = newPhase
  /\ stray' = (stray /\ newClaim = claim)
  /\ \/ current' = known /\ lateHost' = {}
     \/ /\ newClaim = claim /\ newPhase = phase
        /\ current' = current \union known /\ lateHost' = lateHost
  /\ UNCHANGED <<remoteVars, machine, lateReceipt, lock, lease, faults>>

\* set_host_phase: only for the consumer of record, otherwise TemporaryError.
SetHostPhase(w, newPhase, next) ==
  \/ claim = Uid(w) /\ PatchHost(claim, newPhase, {}) /\ Goto(w, next)
  \/ claim # Uid(w) /\ NoWrite /\ Goto(w, "end")

\* A remote command of RemoteHost: it touches nothing in the API server.
Remote == UNCHANGED <<apiVars, faults>>

-----------------------------------------------------------------------------
(* The user, and the SSHHost controller *)

CreateMachine(m) ==
  /\ machine[m].life = "absent"
  /\ m \notin LegacyUids
  /\ machine' = [machine EXCEPT ![m].life = "live"]
  /\ UNCHANGED <<remoteVars, lateReceipt, hostVars, lock, lease, worker, faults>>

\* A Machine and its host as an earlier version of the provider left them.
AdoptLegacy(m) ==
  /\ machine[m].life = "absent"
  /\ m \in LegacyUids
  /\ \A n \in Uids : machine[n].life = "absent"
  /\ machine' = [machine EXCEPT ![m].life = "live", ![m].selected = TRUE, ![m].provisioned = TRUE,
                                ![m].providerID = TRUE]
  /\ claim' = m
  /\ phase' = "Claimed"
  /\ k8s' = TRUE
  /\ UNCHANGED <<owner, started, receipt, scripts, dir, sentinel, job, reset, ran, proven>>
  /\ UNCHANGED <<current, lateHost, stray, lateReceipt, lock, lease, worker, faults>>

DeleteMachine(m) ==
  /\ machine[m].life = "live"
  /\ machine' = [machine EXCEPT ![m].life = "deleting"]
  /\ Written(m)
  /\ UNCHANGED <<remoteVars, hostVars, lock, lease, worker, faults>>

\* sshhost_probe writes status.ready, inUse and conditions: no field that is
\* modelled here, but a new resourceVersion.
ProbeHost ==
  /\ current # {} \/ lateHost # {}
  /\ current' = {}
  /\ lateHost' = {}
  /\ UNCHANGED <<remoteVars, machine, lateReceipt, claim, phase, stray, lock, lease,
                 worker, faults>>

-----------------------------------------------------------------------------
(* sshmachine_reconcile: the reconcile lock, then a fresh read that decides *)
(* what the handler does.                                                   *)

LockFree(m) == lock[m] # None => LockCanExpire

\* status.initialization.provisioned or spec.providerID
Provisioned(m) == machine[m].provisioned \/ machine[m].providerID

\* bind_machine: an existing allocation is verified, otherwise a host is
\* selected; a Machine that had a host may only find its own claim again.
ReconcileEntry(m) ==
  IF machine[m].allocated THEN "bind"
  ELSE IF machine[m].selected \/ Provisioned(m) THEN "reselect" ELSE "select"

\* Variant: a cleanup that was Running is taken for a finished one.
DeleteEntryTrustsRunning(m) ==
  CASE machine[m].owned /\ ~ machine[m].allocated -> "end"
    [] machine[m].owned /\ machine[m].allocated ->
         IF machine[m].cleanup \in {"Running", "Succeeded"} THEN "confirm" ELSE "cleaning"
    [] ~ machine[m].owned /\ Provisioned(m) ->
         IF machine[m].allocated THEN "legacy" ELSE "end"
    [] ~ machine[m].owned /\ ~ Provisioned(m) ->
         IF machine[m].allocated THEN "notRequired"
         ELSE IF machine[m].selected THEN "recoverSelected" ELSE "recover"

\* Variant: provisioned and providerID are not looked at.
DeleteEntryOfAnyone(m) ==
  IF machine[m].owned THEN IF machine[m].cleanup = "Succeeded" THEN "confirm" ELSE "cleaning"
  ELSE IF machine[m].allocated THEN "notRequired" ELSE "recover"

\* delete_machine: what the status of the object under deletion asks for.
DeleteEntry(m) ==
  CASE machine[m].owned /\ ~ machine[m].allocated -> "end"
    [] machine[m].owned /\ machine[m].allocated ->
         IF machine[m].cleanup = "Succeeded" THEN "confirm" ELSE "cleaning"
    [] ~ machine[m].owned /\ Provisioned(m) ->
         IF machine[m].allocated THEN "legacy" ELSE "end"
    [] ~ machine[m].owned /\ ~ Provisioned(m) ->
         IF machine[m].allocated THEN "notRequired"
         ELSE IF machine[m].selected THEN "recoverSelected" ELSE "recover"

Begin(w, m) ==
  /\ At(w, "idle")
  /\ LockFree(m)
  /\ Present(m)
  /\ lock' = [lock EXCEPT ![m] = w]
  /\ worker' = [worker EXCEPT ![w] =
       [Idle EXCEPT !.uid = m,
                    !.skip = machine[m].provisioned,
                    !.pc = IF machine[m].life = "live" THEN ReconcileEntry(m) ELSE DeleteEntry(m)]]
  /\ lateReceipt' = [lateReceipt EXCEPT ![m] = "none"]
  /\ UNCHANGED <<remoteVars, machine, hostVars, lease, faults>>

\* The handler returns or raises: the Lease is released if it is still ours,
\* and so is the lock; the staged patch is applied afterwards.
End(w) ==
  /\ At(w, "end")
  /\ lease' = IF lease = w THEN None ELSE lease
  /\ lock' = [lock EXCEPT ![Uid(w)] = IF @ = w THEN None ELSE @]
  /\ worker' = [worker EXCEPT ![w] = IF @.outcome = "none" THEN Idle ELSE [@ EXCEPT !.pc = "patch"]]
  /\ Written(Uid(w))
  /\ UNCHANGED <<remoteVars, machine, hostVars, faults>>

\* Kopf applies the staged status without a resourceVersion, or, when the
\* deletion handler has succeeded, removes the finalizer.
ApplyPatch(w) ==
  /\ At(w, "patch")
  /\ machine' = [machine EXCEPT ![Uid(w)] =
       IF ~ Present(Uid(w)) THEN @
       ELSE CASE worker[w].outcome = "deleted" -> [@ EXCEPT !.life = "gone"]
              [] worker[w].outcome = "unprovisioned" -> [@ EXCEPT !.provisioned = FALSE]
              [] worker[w].outcome = "backfilled" -> [@ EXCEPT !.providerID = TRUE]
              [] worker[w].outcome = "provisioned" ->
                   [@ EXCEPT !.provisioned = TRUE, !.providerID = TRUE]]
  /\ Written(Uid(w))
  /\ worker' = [worker EXCEPT ![w] = Idle]
  /\ UNCHANGED <<remoteVars, hostVars, lock, lease, faults>>

-----------------------------------------------------------------------------
(* bind_machine *)

AwaitsCleanup == phase \in {"Quarantined", "Cleaning"}

Bind(w) ==
  /\ At(w, "bind")
  /\ Goto(w, IF claim = Uid(w) /\ ~ AwaitsCleanup THEN "claimed" ELSE "end")
  /\ NoWrite

\* _select_host: the own claim is found again, or a free host is claimed.
Select(w) ==
  /\ worker[w].pc \in {"select", "reselect"}
  /\ \/ claim = Uid(w) /\ Goto(w, IF AwaitsCleanup THEN "end" ELSE "spec") /\ NoWrite
     \/ /\ At(w, "select") /\ claim = None /\ phase = "Available"
        /\ PatchHost(Uid(w), phase, {})
        /\ Goto(w, "spec")
     \/ /\ claim # Uid(w)
        /\ At(w, "reselect") \/ claim # None \/ phase # "Available"
        /\ Goto(w, "end")
        /\ NoWrite

PersistSpec(w) ==
  /\ At(w, "spec")
  /\ Persist(w, "selected", TRUE)
  /\ Goto(w, "status")

PersistAllocation(w) ==
  /\ worker[w].pc \in {"status", "recoverStatus"}
  /\ Persist(w, "allocated", TRUE)
  /\ Goto(w, IF At(w, "status") THEN "claimed" ELSE "notRequired")

MarkClaimed(w) ==
  /\ At(w, "claimed")
  /\ SetHostPhase(w, "Claimed", IF worker[w].skip THEN "backfill" ELSE "lease")

\* _backfill_provisioned_fields: a Machine that is already provisioned is done.
Backfill(w) ==
  /\ At(w, "backfill")
  /\ Done(w, "backfilled")
  /\ NoWrite

\* An early exit: the status says why, and that the Machine is not provisioned.
NotReady(w) ==
  /\ Done(w, "unprovisioned")
  /\ NoWrite

\* No CAPI Machine owns the object yet, or bootstrapCheckStrategy is invalid:
\* found before a host is looked for, also on a Machine that is provisioned.
WaitForOwner(w) ==
  /\ worker[w].pc \in {"bind", "select", "reselect"}
  /\ NotReady(w)

\* The bootstrap data is not there yet or cannot be wired and prepared.
WaitForBootstrapData(w) ==
  /\ At(w, "lease")
  /\ NotReady(w)

\* The SSH key or the known hosts cannot be read.
WaitForCredentials(w) ==
  /\ At(w, "lease")
  /\ NotReady(w)

\* spec.dryRun: the preflight is all that is done, with the host claimed.
DryRun(w) ==
  /\ At(w, "lease")
  /\ NotReady(w)

-----------------------------------------------------------------------------
(* the bootstrap section of _sshmachine_reconcile_impl *)

LeaseFree == lease # None => LeaseCanExpire

\* host_operation; a refused acquire raises TemporaryError.
TakeLease(w) ==
  /\ worker[w].pc \in {"lease", "cleanLease"}
  /\ \/ /\ LeaseFree
        /\ lease' = w
        /\ Goto(w, IF At(w, "lease") THEN "recheck1" ELSE "cleanCheck")
        /\ UNCHANGED <<remoteVars, machine, lateReceipt, hostVars, lock, faults>>
     \/ /\ ~ LeaseFree
        /\ Goto(w, IF At(w, "lease") THEN "end" ELSE "failed")
        /\ NoWrite

\* Variant: only the Lease is checked again, not the object.
RecheckLeaseOnly(w) ==
  /\ worker[w].pc \in {"recheck1", "recheck2"}
  /\ Goto(w, IF lease = w THEN IF At(w, "recheck1") THEN "own" ELSE "launch" ELSE "end")
  /\ NoWrite

\* The object is read again and the Lease renewed, before ownership is
\* recorded and once more before the job is launched.
Recheck(w) ==
  /\ worker[w].pc \in {"recheck1", "recheck2"}
  /\ Goto(w, IF machine[Uid(w)].life = "live" /\ lease = w
             THEN IF At(w, "recheck1") THEN "own" ELSE "launch"
             ELSE "end")
  /\ NoWrite

\* _ensure_bootstrap_ownership records the intent before the remote claim.
RecordOwnership(w) ==
  /\ At(w, "own")
  /\ Persist(w, "owned", TRUE)
  /\ Goto(w, "claim")

RemoteClaim(w) ==
  /\ At(w, "claim")
  /\ \/ ClaimGranted(Uid(w)) /\ Goto(w, "check2")
     \/ ClaimRefused(Uid(w)) /\ Goto(w, "mismatch")
     \/ ~ FlockFree /\ Goto(w, "end") /\ UNCHANGED remoteVars
  /\ Remote

CheckBeforeUpload(w) ==
  /\ At(w, "check2")
  /\ Goto(w, IF lease = w THEN "upload" ELSE "end")
  /\ NoWrite

\* Script paths carry a uuid: no two attempts share one.  The set Attempts
\* bounds how many attempts reach the host.
Fresh(m) ==
  {a \in Attempts : UidOf[a] = m /\ job[a] = "none" /\ \A w \in Workers : worker[w].attempt # a}

UploadScript(w) ==
  /\ At(w, "upload")
  /\ \/ \E a \in Fresh(Uid(w)) :
          /\ Upload(a)
          /\ worker' = [worker EXCEPT ![w].pc = "recheck2", ![w].attempt = a]
     \/ ~ dir /\ Done(w, "unprovisioned") /\ UNCHANGED remoteVars
     \/ Fresh(Uid(w)) = {} /\ Goto(w, "end") /\ UNCHANGED remoteVars
  /\ Remote

LaunchJob(w) ==
  /\ At(w, "launch")
  /\ Launch(worker[w].attempt)
  /\ Goto(w, "observe")
  /\ Remote

\* Variant: a bootstrap still running at the deadline counts as done.
ObserveDeadline(w) ==
  /\ At(w, "observe")
  /\ Done(w, "provisioned")
  /\ NoWrite

\* The receipt, or the deadline, decides.
Observe(w) ==
  /\ At(w, "observe")
  /\ \/ owner = Uid(w) /\ receipt.code = "ok" /\ Goto(w, "readiness")
     \/ owner = Uid(w) /\ receipt.code \in {"failed", "interrupted"} /\ Goto(w, "quarantine")
     \/ Done(w, "none")
  /\ NoWrite

\* The kubelet is asked whether the node runs, unless bootstrapCheckStrategy
\* is none; only then is the Machine provisioned.
CheckReadiness(w) ==
  /\ At(w, "readiness")
  /\ \E outcome \in {"provisioned", "unprovisioned"} : Done(w, outcome)
  /\ NoWrite

\* A failed bootstrap is reported once the host is quarantined.
QuarantineHost(w) ==
  /\ worker[w].pc \in {"mismatch", "quarantine", "quarantine2", "legacy"}
  /\ IF At(w, "quarantine") /\ claim = Uid(w)
     THEN PatchHost(claim, "Quarantined", {}) /\ Done(w, "unprovisioned")
     ELSE SetHostPhase(w, "Quarantined", IF At(w, "quarantine2") THEN "recordFailed" ELSE "end")

-----------------------------------------------------------------------------
(* delete_machine *)

\* Variant: a claim made before a crash is not looked for.
RecoverNothing(w) ==
  /\ worker[w].pc \in {"recover", "recoverSelected"}
  /\ Goto(w, IF At(w, "recover") THEN "nothing" ELSE "end")
  /\ NoWrite

\* recover_unstarted_claim
Recover(w) ==
  /\ worker[w].pc \in {"recover", "recoverSelected"}
  /\ Goto(w, IF claim = Uid(w) THEN "recoverStatus"
             ELSE IF At(w, "recover") THEN "nothing" ELSE "end")
  /\ NoWrite

\* record_cleanup("Succeeded"): nothing was ever started on the host, or an
\* earlier run has already recorded success, or the reset has exited 0.
RecordSucceeded(w) ==
  /\ worker[w].pc \in {"notRequired", "nothing", "confirm", "succeeded"}
  /\ Persist(w, "cleanup", "Succeeded")
  /\ CASE At(w, "nothing")   -> Done(w, "deleted")
       [] At(w, "succeeded") -> Goto(w, "recorded")
       [] OTHER              -> Goto(w, "available")

\* The try block is left and host_operation releases the Lease.
LeaveCleanup(w) ==
  /\ At(w, "recorded")
  /\ Goto(w, "available")
  /\ lease' = IF lease = w THEN None ELSE lease
  /\ UNCHANGED <<remoteVars, machine, lateReceipt, hostVars, lock, faults>>

\* Variant: a phase the SSHHost CRD does not have.
MarkDeleting(w) ==
  /\ At(w, "cleaning")
  /\ SetHostPhase(w, "Deleting", "running")

MarkCleaning(w) ==
  /\ At(w, "cleaning")
  /\ SetHostPhase(w, "Cleaning", "running")

RecordRunning(w) ==
  /\ At(w, "running")
  /\ Persist(w, "cleanup", "Running")
  /\ Goto(w, "cleanLease")

\* Variant: success is recorded before the reset.
CleanCheckRecordsFirst(w) ==
  /\ At(w, "cleanCheck")
  /\ Persist(w, "cleanup", "Succeeded")
  /\ Goto(w, "reset")

\* check_current and operation.check
CleanCheck(w) ==
  /\ At(w, "cleanCheck")
  /\ Goto(w, IF Present(Uid(w)) /\ lease = w THEN "reset" ELSE "failed")
  /\ NoWrite

Reset(w) ==
  /\ At(w, "reset")
  /\ \/ ResetBegins(Uid(w)) /\ Goto(w, "resetting")
     \/ ResetAlreadyClean /\ Goto(w, "succeeded")
     \/ ResetRefused(Uid(w)) /\ Goto(w, "failed")
     \/ ~ FlockFree /\ Goto(w, "failed") /\ UNCHANGED remoteVars
  /\ Remote

\* Variant: the exception handler records a failure without reading first.
AfterFailureUnread(w) ==
  /\ At(w, "failed")
  /\ Goto(w, "quarantine2")
  /\ lease' = IF lease = w THEN None ELSE lease
  /\ UNCHANGED <<remoteVars, machine, lateReceipt, hostVars, lock, faults>>

\* The exception handler reads the object again: the receipt may have been
\* committed although its answer was lost.
AfterFailure(w) ==
  /\ At(w, "failed")
  /\ Goto(w, IF Present(Uid(w)) /\ machine[Uid(w)].cleanup # "Succeeded"
             THEN "quarantine2" ELSE "end")
  /\ lease' = IF lease = w THEN None ELSE lease
  /\ UNCHANGED <<remoteVars, machine, lateReceipt, hostVars, lock, faults>>

RecordFailed(w) ==
  /\ At(w, "recordFailed")
  /\ Persist(w, "cleanup", "Failed")
  /\ Goto(w, "end")

\* release_host: the status first, the claim last and with the version that
\* the status patch returned.
MakeAvailable(w) ==
  /\ At(w, "available")
  /\ \/ claim = Uid(w) /\ PatchHost(claim, "Available", {w}) /\ Goto(w, "unclaim")
     \/ claim = None /\ Done(w, "deleted") /\ NoWrite
     \/ claim \notin {Uid(w), None} /\ Goto(w, "end") /\ NoWrite

\* Variant: a conflict on the claim patch is ignored.
ClearClaimUnfenced(w) ==
  /\ At(w, "unclaim")
  /\ Done(w, "deleted")
  /\ IF w \in current THEN PatchHost(None, phase, {}) ELSE NoWrite

ClearClaim(w) ==
  /\ At(w, "unclaim")
  /\ \/ w \in current /\ PatchHost(None, phase, {}) /\ Done(w, "deleted")
     \/ w \notin current /\ Goto(w, "end") /\ NoWrite

-----------------------------------------------------------------------------
(* Faults *)

\* The phase that a step writes with set_host_phase or release_host
PhaseSet == [claimed |-> "Claimed", mismatch |-> "Quarantined", quarantine |-> "Quarantined",
             legacy |-> "Quarantined", quarantine2 |-> "Quarantined", cleaning |-> "Cleaning",
             available |-> "Available"]

\* What the SSHHost becomes by the patch that the step of w sends, if any.
HostPatch(w) ==
  {r \in HostResults :
     \/ /\ At(w, "select") /\ claim = None /\ phase = "Available"
        /\ r = [claim |-> Uid(w), phase |-> phase]
     \/ /\ worker[w].pc \in DOMAIN PhaseSet /\ claim = Uid(w)
        /\ r = [claim |-> claim, phase |-> PhaseSet[worker[w].pc]]
     \/ /\ At(w, "unclaim") /\ w \in current
        /\ r = [claim |-> None, phase |-> phase]}

\* request gives up after API_TIMEOUT: the patch it has sent may still arrive.
GivesUp(w) == lateHost' \in {lateHost, lateHost \union HostPatch(w)}

\* A call fails, or the handler is told to stop: delete_machine's exception
\* handler while it cleans, the end of the handler otherwise.
Raise(w) ==
  /\ faults < MaxFaults
  /\ ~ At(w, "idle") /\ ~ At(w, "end") /\ ~ At(w, "patch")
  /\ \/ worker[w].pc \in CleanupSteps \union {"cleanLease"} /\ Goto(w, "failed")
     \/ worker[w].pc \in BootstrapSteps /\ Done(w, "unprovisioned")
     \/ worker[w].pc \notin CleanupSteps \union {"cleanLease"} /\ Done(w, "none")
  /\ GivesUp(w)
  /\ \/ UNCHANGED lateReceipt
     \/ At(w, "succeeded") /\ lateReceipt' = [lateReceipt EXCEPT ![Uid(w)] = "sent"]
  /\ faults' = faults + 1
  /\ UNCHANGED <<remoteVars, machine, claim, phase, current, stray, lock, lease>>

\* The process dies, and the annotation and the Lease that name it expire.
Crash(w) ==
  /\ faults < MaxFaults
  /\ ~ At(w, "idle")
  /\ lease' = IF lease = w THEN None ELSE lease
  /\ lock' = [lock EXCEPT ![Uid(w)] = IF @ = w THEN None ELSE @]
  /\ current' = current \ {w}
  /\ GivesUp(w)
  /\ worker' = [worker EXCEPT ![w] = Idle]
  /\ faults' = faults + 1
  /\ UNCHANGED <<remoteVars, machine, lateReceipt, claim, phase, stray>>

\* A patch of the SSHHost commits that nobody waits for any more.
LateHostPatch ==
  /\ \E r \in lateHost :
       /\ claim' = r.claim
       /\ phase' = r.phase
       /\ stray' = IF r.claim = claim THEN stray ELSE r.claim # None
  /\ current' = {}
  /\ lateHost' = {}
  /\ UNCHANGED <<remoteVars, machine, lateReceipt, lock, lease, worker, faults>>

\* A cleanup receipt commits although its handler has given it up; the
\* handler will not know if it has looked for the receipt before.
LateReceipt(m) ==
  /\ lateReceipt[m] = "sent"
  /\ Present(m)
  /\ machine' = [machine EXCEPT ![m].cleanup = "Succeeded"]
  /\ lateReceipt' = [lateReceipt EXCEPT ![m] =
       IF \E w \in Workers : Uid(w) = m /\ worker[w].pc \in {"quarantine2", "recordFailed"}
       THEN "landed" ELSE "none"]
  /\ UNCHANGED <<remoteVars, hostVars, lock, lease, worker, faults>>

\* A status write that finds the object gone.
NotFound(w) ==
  /\ worker[w].pc \in {"spec", "status", "recoverStatus", "own", "notRequired", "nothing",
                       "confirm", "succeeded", "running", "recordFailed"}
  /\ ~ Present(Uid(w))
  /\ Goto(w, IF At(w, "succeeded") THEN "failed" ELSE "end")
  /\ NoWrite

\* The reset command exits 0, and the worker that waits for it learns it.
ResetReturns ==
  /\ ResetEnds
  /\ worker' = [w \in Workers |-> IF At(w, "resetting")
                                  THEN [worker[w] EXCEPT !.pc = "succeeded"] ELSE worker[w]]
  /\ Remote

\* The reset command fails, or the host restarts and takes it along.
HostFault ==
  /\ faults < MaxFaults
  /\ ResetFails \/ PowerLoss
  /\ worker' = [w \in Workers |-> IF At(w, "resetting")
                                  THEN [worker[w] EXCEPT !.pc = "failed"] ELSE worker[w]]
  /\ faults' = faults + 1
  /\ UNCHANGED apiVars

HostWorks ==
  /\ \/ \E a \in Attempts :
          \/ JobRefused(a) \/ JobSkipped(a) \/ JobStarts(a) \/ PayloadWrites(a)
          \/ \E code \in Codes : JobEnds(a, code)
     \/ KubeadmReset \/ RemoveFile
  /\ Remote
  /\ UNCHANGED worker

-----------------------------------------------------------------------------
Handler(w) ==
  \/ End(w) \/ ApplyPatch(w)
  \/ Bind(w) \/ Select(w) \/ PersistSpec(w) \/ PersistAllocation(w) \/ MarkClaimed(w)
  \/ Backfill(w) \/ WaitForOwner(w) \/ WaitForBootstrapData(w) \/ WaitForCredentials(w) \/ DryRun(w)
  \/ TakeLease(w) \/ Recheck(w) \/ RecordOwnership(w) \/ RemoteClaim(w)
  \/ CheckBeforeUpload(w) \/ UploadScript(w) \/ LaunchJob(w) \/ Observe(w)
  \/ CheckReadiness(w) \/ QuarantineHost(w)
  \/ Recover(w) \/ RecordSucceeded(w) \/ MarkCleaning(w) \/ RecordRunning(w) \/ CleanCheck(w)
  \/ Reset(w) \/ LeaveCleanup(w) \/ AfterFailure(w) \/ RecordFailed(w) \/ MakeAvailable(w)
  \/ ClearClaim(w) \/ NotFound(w)

Next ==
  \/ \E m \in Uids : CreateMachine(m) \/ AdoptLegacy(m) \/ DeleteMachine(m)
  \/ \E w \in Workers, m \in Uids : Begin(w, m)
  \/ \E w \in Workers : Handler(w) \/ Raise(w) \/ Crash(w)
  \/ LateHostPatch \/ \E m \in Uids : LateReceipt(m)
  \/ ProbeHost \/ HostWorks \/ ResetReturns \/ HostFault

Spec == Init /\ [][Next]_vars

\* Handlers and remote commands run to their end, and Kopf calls the deletion
\* handler until it succeeds, whatever else occupies the workers: strongly
\* fair, for the Machines share fewer workers here than Kopf has tasks.  The
\* host's version is not stolen for ever by
\* the prober, which writes once per interval, between the two patches of
\* release_host, which follow each other at once.
Fairness ==
  /\ \A w \in Workers : WF_vars(Handler(w)) /\ SF_vars(ClearClaim(w) /\ w \in current)
  /\ \A m \in Uids : SF_vars(machine[m].life = "deleting" /\ \E w \in Workers : Begin(w, m))
  /\ WF_vars(HostWorks)
  /\ WF_vars(ResetReturns)

FairSpec == Spec /\ Fairness

-----------------------------------------------------------------------------
(* Properties *)

\* While a payload executes on the host, the SSHHost's consumerRef still names
\* the Machine it belongs to: neither deletion nor reallocation overtakes it.
RunningPayloadIsClaimed ==
  \A a \in Attempts : job[a] = "running" /\ a \in ran => claim = UidOf[a]

\* release_host: a host is unclaimed only after proven cleanup or when nothing
\* was started: no owner file, no result, no Kubernetes state on it.
ReleasedHostIsClean ==
  claim = None => NothingOwned /\ ~ KubernetesState

\* The owner file on the host and the consumerRef never name two Machines.
OwnerHoldsClaim ==
  owner # None => claim = owner

\* A live Machine that reports provisioned has the host, and the successful
\* receipt there was written by a job of its own.
ProvisionedByOwnReceipt ==
  \A m \in Uids \ LegacyUids :
    machine[m].life = "live" /\ machine[m].provisioned =>
      claim = m /\ owner = m /\ receipt = [by |-> m, code |-> "ok"]

\* record_cleanup: "Succeeded" is a durable receipt.  No later write of any
\* handler takes it back, except that of a handler whose own receipt timed
\* out and landed after delete_machine had looked for it: that handler records
\* Failed over it, with the host still claimed and clean.
CleanupReceiptIsFinal ==
  [][\A m \in Uids : machine[m].cleanup = "Succeeded" /\ machine'[m].cleanup # "Succeeded" =>
       lateReceipt[m] = "landed" /\ claim = m /\ NothingOwned /\ ~ KubernetesState]_vars

\* delete_machine retries the finalization without another reset: once the
\* receipt is recorded no reset of the host begins for that Machine.
NoResetAfterReceipt ==
  [][reset = "none" /\ reset' # "none" => machine[owner].cleanup # "Succeeded"]_vars

\* The finalizer of a Machine is removed only when it has neither the host's
\* consumerRef nor its owner file.  A claim that timed out may land afterwards:
\* then the host is one that the Machine has never used.
GoneLeavesNothing ==
  \A m \in Uids : machine[m].life = "gone" =>
    /\ owner # m
    /\ claim = m => stray /\ ~ machine[m].owned /\ NothingOwned /\ ~ KubernetesState

\* Deletion completes: whatever was interrupted, however far bootstrap had
\* come, the finalizer is removed once faults stop.
DeletionCompletes ==
  \A m \in Uids : machine[m].life = "deleting" ~> machine[m].life = "gone"

\* A Machine without ownership record keeps its host, untouched, and its
\* finalizer, whatever is asked of it.
LegacyHostUntouched ==
  \A m \in LegacyUids : machine[m].life # "absent" =>
    claim = m /\ k8s /\ reset = "none" /\ machine[m].life # "gone"

=============================================================================
