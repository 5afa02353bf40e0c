--------------------------- MODULE LifecycleProofs ---------------------------
(***************************************************************************)
(* Proofs about Lifecycle for any number of handler runs, Machines,        *)
(* attempts and faults, while the reconcile lock does not expire under a   *)
(* live handler and no power loss cuts the removal of the state directory  *)
(* short.  Nothing is assumed about the host Lease: it may expire at any   *)
(* time.                                                                   *)
(*                                                                         *)
(* The argument has three parts.  RemoteInv of RemoteHostProofs describes  *)
(* the host.  HostInv relates what is on the host to what the API server   *)
(* records.  HandlerInv says of each handler run what it may rely on at    *)
(* the step it has reached; the handlers of one Machine exclude each other *)
(* by the lock, those of two Machines by the consumerRef.                  *)
(***************************************************************************)
EXTENDS Lifecycle, RemoteHostProofs

USE DEF hostVars

-----------------------------------------------------------------------------
(* Which step promises what *)

\* A handler of a live Machine, up to its last remote command.
ReconcileSteps == BindSteps \union BootstrapSteps \union {"backfill", "lease"}

\* The handler has found consumerRef to name its Machine.
HolderSteps == {"spec", "status", "claimed", "backfill", "lease"} \union BootstrapSteps

\* Nothing was ever started on a host for this Machine.
UnstartedSteps == {"recover", "recoverSelected", "recoverStatus", "notRequired", "nothing"}

\* The host of this Machine is to be reset.
OwnedSteps == {"cleaning", "running", "cleanLease", "failed", "quarantine2", "recordFailed"}
                \union CleanupSteps

\* The reset is not recorded as successful yet, or it is, or a receipt that
\* was given up may still make it so.
FailureSteps    == {"quarantine2", "recordFailed"}
UnrecordedSteps == OwnedSteps \ ({"failed", "recorded"} \union FailureSteps)
RecordedSteps   == {"confirm", "recorded", "available", "unclaim"}
SettledSteps    == Steps \ ({"idle", "patch", "end", "failed"} \union FailureSteps)

-----------------------------------------------------------------------------
(* What is on the host, and what the API server says *)

\* No trace of a Machine on the host, and nobody is removing one.
CleanHost == NothingOwned /\ ~ KubernetesState /\ reset = "none"

\* The host is in the hands of m with its own successful receipt.
BootstrappedBy(m) == claim = m /\ owner = m /\ receipt = [by |-> m, code |-> "ok"]

\* The Machine is done with the host; what may still name it is a claim that
\* came too late, on a host that it has not used.
Released(m) ==
  machine[m].cleanup = "Succeeded" /\ (claim = m => stray /\ ~ machine[m].owned)

\* A host is clean while nobody has it, before its consumer records ownership
\* and once the consumer has recorded the success of the reset.
FreeHostIsClean ==
  \/ claim = None
  \/ /\ claim \notin LegacyUids
     /\ ~ machine[claim].owned \/ machine[claim].cleanup = "Succeeded"
  => CleanHost

\* A Machine that has recorded ownership keeps the claim until its receipt.
OwnershipKeepsClaim ==
  \A m \in Uids : machine[m].owned /\ machine[m].cleanup # "Succeeded" => claim = m

\* Only the host of a Machine under deletion is reset.
ResetIsDeletion ==
  reset # "none" => machine[claim].life # "live"

\* The stages of a Machine's life.
Stages ==
  \A m \in Uids :
    /\ machine[m].life = "absent" => ~ machine[m].owned /\ ~ machine[m].provisioned
    /\ machine[m].life \in {"absent", "live"} => machine[m].cleanup = "none"
    /\ machine[m].life = "gone" => Released(m)

\* Before the first Machine exists nothing has happened to the host.
HostUsedByMachine ==
  /\ claim # None => machine[claim].life # "absent"
  /\ proven => \E m \in Uids : machine[m].life # "absent"

\* LegacyHostUntouched, and why no step of deletion applies to such a Machine.
LegacyKept ==
  \A m \in LegacyUids : machine[m].life # "absent" =>
    /\ claim = m /\ owner = None /\ k8s /\ ~ proven /\ reset = "none"
    /\ machine[m].providerID
    /\ machine[m].cleanup # "Succeeded"

\* A patch that timed out changes the phase for the consumer of record, claims
\* a host that nobody has for a Machine that has not started on it, or
\* releases one whose consumer has recorded its cleanup.
HarmlessPatch(r) ==
  \/ r.claim = claim /\ claim \in Uids
  \/ /\ claim = None /\ r.claim \in Uids \ LegacyUids
     /\ machine[r.claim].life # "absent" /\ ~ machine[r.claim].owned
  \/ /\ r.claim = None /\ claim \in Uids
     /\ machine[claim].cleanup = "Succeeded" /\ lateReceipt[claim] = "none"

LatePatchesHarmless == \A r \in lateHost : HarmlessPatch(r)

\* A receipt that timed out is about a host that its Machine still has and
\* that is clean.
LateReceiptsTrue ==
  \A m \in Uids : lateReceipt[m] # "none" =>
    claim = m /\ CleanHost /\ machine[m].owned /\ machine[m].life \notin {"absent", "live"}

HostInv ==
  /\ LatePatchesHarmless
  /\ LateReceiptsTrue
  /\ OwnerHoldsClaim
  /\ FreeHostIsClean
  /\ OwnershipKeepsClaim
  /\ ResetIsDeletion
  /\ Stages
  /\ HostUsedByMachine
  /\ ProvisionedByOwnReceipt
  /\ LegacyKept

-----------------------------------------------------------------------------
(* What a handler run may rely on *)

\* The shape of a worker's record.
WorkerShape(w) ==
  /\ ~ At(w, "idle") => Uid(w) \in Uids
  /\ At(w, "idle") => worker[w].outcome = "none"
  /\ At(w, "patch") => worker[w].outcome # "none"
  /\ worker[w].pc \in {"recheck2", "launch"} => worker[w].attempt \in Attempts

\* From its start to its end the handler has the reconcile lock.
LockHeld(w) ==
  worker[w].pc \notin {"idle", "patch"} => lock[Uid(w)] = w

\* What the step promises, about the Machine and about the host.
StepKept(w) ==
  /\ ~ At(w, "idle") => machine[Uid(w)].life # "absent"
  /\ worker[w].pc \in ReconcileSteps => machine[Uid(w)].cleanup = "none"
  /\ worker[w].pc \in HolderSteps => claim = Uid(w)
  /\ At(w, "claim") => machine[Uid(w)].owned
  /\ worker[w].pc \in DeleteSteps => machine[Uid(w)].life # "live"
  /\ worker[w].pc \in UnstartedSteps => ~ machine[Uid(w)].owned /\ Uid(w) \notin LegacyUids
  /\ worker[w].pc \in OwnedSteps => machine[Uid(w)].owned
  /\ worker[w].pc \in UnrecordedSteps => machine[Uid(w)].cleanup # "Succeeded"
  /\ worker[w].pc \in RecordedSteps => machine[Uid(w)].cleanup = "Succeeded"
  /\ worker[w].pc \in FailureSteps /\ machine[Uid(w)].cleanup = "Succeeded" =>
       lateReceipt[Uid(w)] = "landed"
  /\ worker[w].pc \in SettledSteps => lateReceipt[Uid(w)] = "none"
  /\ At(w, "nothing") => (claim = Uid(w) => stray)
  /\ At(w, "succeeded") => CleanHost
  /\ At(w, "unclaim") /\ w \in current => claim = Uid(w)

\* What the staged patch promises until it is applied, after the lock is gone.
OutcomeKept(w) ==
  /\ worker[w].outcome = "deleted" => Released(Uid(w))
  /\ At(w, "readiness") \/ worker[w].outcome = "provisioned" =>
       (Uid(w) \notin LegacyUids /\ machine[Uid(w)].life = "live" => BootstrappedBy(Uid(w)))

HandlerInv(w) == LockHeld(w) /\ StepKept(w) /\ OutcomeKept(w)

TypeInv == TypeOK /\ Fence /\ \A w \in Workers : WorkerShape(w)

LifecycleInv ==
  /\ TypeInv
  /\ RemoteInv
  /\ HostInv
  /\ \A w \in Workers : HandlerInv(w)

-----------------------------------------------------------------------------
(* Effects of the building blocks of the actions *)

Machines == [life : {"absent", "live", "deleting", "gone"},
             selected : BOOLEAN, allocated : BOOLEAN, owned : BOOLEAN,
             provisioned : BOOLEAN, providerID : BOOLEAN,
             cleanup : {"none", "Running", "Succeeded", "Failed"}]

WorkerRecords == [pc : Steps, uid : Uids \union {None}, skip : BOOLEAN,
                  attempt : Attempts \union {None}, outcome : Outcomes]

\* Worker w goes to a step with a staged patch, and nobody else moves.
Moves(w, pc, outcome) ==
  /\ worker' \in [Workers -> WorkerRecords]
  /\ \A u \in Workers \ {w} : worker'[u] = worker[u]
  /\ worker'[w].pc = pc /\ worker'[w].uid = worker[w].uid /\ worker'[w].outcome = outcome
  /\ pc # "end" => worker'[w].attempt = worker[w].attempt

\* Done ends the handler with the patch it has staged.
LEMMA DoneMoves ==
  ASSUME TypeInv, NEW w \in Workers, NEW outcome \in Outcomes, Done(w, outcome)
  PROVE  Moves(w, "end", outcome)
<1>1. worker \in [Workers -> WorkerRecords]
  BY DEF TypeInv, TypeOK, WorkerRecords
<1>2. "end" \in Steps
  BY DEF Steps
<1> QED
  BY <1>1, <1>2 DEF Done, Moves, WorkerRecords, Idle, Uid, Outcomes

\* Goto continues the handler, or ends it with what it had staged.
LEMMA GotoMoves ==
  ASSUME TypeInv, NEW w \in Workers, NEW pc \in Steps, Goto(w, pc)
  PROVE  Moves(w, pc, worker[w].outcome)
<1>1. worker \in [Workers -> WorkerRecords]
  BY DEF TypeInv, TypeOK, WorkerRecords
<1>2. CASE pc = "end"
  <2>1. worker[w].outcome \in Outcomes
    BY <1>1 DEF WorkerRecords
  <2> QED BY <1>2, <2>1, DoneMoves DEF Goto
<1>3. CASE pc # "end"
  BY <1>1, <1>3 DEF Goto, Moves, WorkerRecords
<1> QED BY <1>2, <1>3

-----------------------------------------------------------------------------
(* Types *)

\* What TypeOK says of the API objects.
ApiTyped ==
  /\ machine \in [Uids -> Machines]
  /\ claim \in Uids \union {None}
  /\ phase \in Phases
  /\ current \in SUBSET Workers
  /\ lateHost \in SUBSET HostResults
  /\ stray \in BOOLEAN
  /\ lateReceipt \in [Uids -> {"none", "sent", "landed"}]
  /\ lock \in [Uids -> Workers \union {None}]
  /\ lease \in Workers \union {None}
  /\ faults \in 0 .. MaxFaults

WorkersTyped ==
  /\ worker \in [Workers -> WorkerRecords]
  /\ \A w \in Workers : WorkerShape(w)

\* TypeInv is about the host, the API objects and the workers.
LEMMA TypeParts == TypeInv <=> Fence /\ ApiTyped /\ WorkersTyped
<1>1. TypeOK <=> RemoteTypeOK /\ ApiTyped /\ worker \in [Workers -> WorkerRecords]
  BY DEF TypeOK, ApiTyped, Machines, WorkerRecords
<1> QED BY <1>1 DEF TypeInv, WorkersTyped, Fence

\* A worker that goes on with its attempt keeps the shape of its record.
LEMMA MovesShape ==
  ASSUME TypeInv, NEW w \in Workers, ~ At(w, "idle"),
         NEW pc \in Steps \ {"idle", "patch"}, NEW outcome \in Outcomes, Moves(w, pc, outcome),
         pc \in {"recheck2", "launch"} => worker'[w].attempt \in Attempts
  PROVE  WorkersTyped'
<1>1. WorkersTyped /\ Uid(w) \in Uids
  BY TypeParts DEF WorkersTyped, WorkerShape
<1>2. WorkerShape(w)'
  BY <1>1 DEF Moves, WorkerShape, At, Uid
<1>3. ASSUME NEW u \in Workers \ {w} PROVE WorkerShape(u)'
  BY <1>1, <1>3 DEF Moves, WorkersTyped, WorkerShape, At, Uid
<1> QED BY <1>2, <1>3 DEF Moves, WorkersTyped

\* The shape of the record after the handler has gone on.
LEMMA GotoShape ==
  ASSUME TypeInv, NEW w \in Workers, ~ At(w, "idle"),
         NEW pc \in Steps \ {"idle", "patch"}, Goto(w, pc),
         pc \in {"recheck2", "launch"} => worker[w].attempt \in Attempts
  PROVE  WorkersTyped'
<1>1. Moves(w, pc, worker[w].outcome)
  BY GotoMoves
<1>2. worker[w].outcome \in Outcomes
  BY DEF TypeInv, TypeOK
<1>3. pc \in {"recheck2", "launch"} => worker'[w].attempt \in Attempts
  BY <1>1 DEF Moves
<1> QED BY <1>1, <1>2, <1>3, MovesShape

\* The shape of the record after the handler has ended.
LEMMA DoneShape ==
  ASSUME TypeInv, NEW w \in Workers, ~ At(w, "idle"), NEW outcome \in Outcomes, Done(w, outcome)
  PROVE  WorkersTyped'
<1>1. Moves(w, "end", outcome)
  BY DoneMoves
<1> QED BY <1>1, MovesShape DEF Steps

\* A status write keeps the types of the API objects.
LEMMA PersistTypes ==
  ASSUME TypeInv, NEW w \in Workers, ~ At(w, "idle"), NEW field, NEW value, Persist(w, field, value),
         \/ field \in {"selected", "allocated", "owned"} /\ value = TRUE
         \/ field = "cleanup" /\ value \in {"Running", "Succeeded", "Failed"}
  PROVE  ApiTyped'
<1>0. ApiTyped /\ Uid(w) \in Uids
  BY TypeParts DEF WorkersTyped, WorkerShape
<1>1. ASSUME NEW r \in Machines PROVE [r EXCEPT ![field] = value] \in Machines
  BY DEF Machines
<1>2. machine' \in [Uids -> Machines]
  <2>1. machine' = [machine EXCEPT ![Uid(w)] = [machine[Uid(w)] EXCEPT ![field] = value]]
    BY DEF Persist
  <2> QED BY <1>0, <1>1, <2>1 DEF ApiTyped
<1>3. lateReceipt' \in [Uids -> {"none", "sent", "landed"}]
  BY <1>0 DEF Persist, Written, ApiTyped
<1> QED BY <1>0, <1>2, <1>3 DEF Persist, ApiTyped

\* A patch of the SSHHost keeps the types of the API objects.
LEMMA PatchHostTypes ==
  ASSUME ApiTyped, NEW newClaim \in Uids \union {None}, NEW newPhase \in Phases,
         NEW known \in SUBSET Workers, PatchHost(newClaim, newPhase, known)
  PROVE  ApiTyped'
<1>1. stray' \in BOOLEAN
  BY DEF PatchHost, ApiTyped
<1> QED BY <1>1 DEF PatchHost, ApiTyped

\* So does set_host_phase.
LEMMA SetHostPhaseTypes ==
  ASSUME TypeInv, NEW w \in Workers, NEW newPhase \in Phases, NEW next,
         SetHostPhase(w, newPhase, next)
  PROVE  ApiTyped'
<1>0. ApiTyped /\ claim \in Uids \union {None}
  BY TypeParts DEF ApiTyped
<1>1. CASE PatchHost(claim, newPhase, {})
  BY <1>0, <1>1, PatchHostTypes
<1>2. CASE NoWrite
  BY <1>0, <1>2 DEF ApiTyped, NoWrite, apiVars
<1> QED BY <1>1, <1>2 DEF SetHostPhase

\* A handler that goes on, and the call it makes, keep the types.
LEMMA HandlerTypes ==
  ASSUME TypeInv, NEW w \in Workers, Handler(w), ~ End(w), ~ ApplyPatch(w)
  PROVE  ApiTyped' /\ WorkersTyped'
<1>0. /\ ApiTyped /\ WorkersTyped
      /\ ~ At(w, "idle") => Uid(w) \in Uids
  BY TypeParts DEF WorkersTyped, WorkerShape
<1>1. CASE Bind(w)
  <2>1. ~ At(w, "idle")
    BY <1>1 DEF Bind, At
  <2>2. ApiTyped'
    BY <1>0, <1>1, <2>1 DEF Bind, ApiTyped, NoWrite, apiVars
  <2>3. Goto(w, "claimed") \/ Goto(w, "end")
    BY <1>1 DEF Bind, Goto, Done
  <2> QED BY <2>1, <2>2, <2>3, GotoShape DEF Steps, BindSteps, BootstrapSteps, DeleteSteps,
     CleanupSteps
<1>2. CASE Select(w)
  <2>1. ~ At(w, "idle")
    BY <1>2 DEF Select, At
  <2>2. ApiTyped'
    <3>1. CASE NoWrite
      BY <1>0, <3>1 DEF ApiTyped, NoWrite, apiVars
    <3>2. CASE PatchHost(Uid(w), phase, {})
      <4>1. phase \in Phases
        BY <1>0 DEF ApiTyped
      <4> QED BY <1>0, <2>1, <3>2, <4>1, PatchHostTypes
    <3> QED BY <1>2, <3>1, <3>2 DEF Select
  <2>3. Goto(w, "spec") \/ Goto(w, "end")
    BY <1>2 DEF Select, Goto, Done
  <2> QED BY <2>1, <2>2, <2>3, GotoShape DEF Steps, BindSteps, BootstrapSteps, DeleteSteps,
     CleanupSteps
<1>3. CASE PersistSpec(w)
  <2>1. ~ At(w, "idle")
    BY <1>3 DEF PersistSpec, At
  <2>2. ApiTyped'
    BY <1>3, <2>1, PersistTypes DEF PersistSpec
  <2>3. Goto(w, "status")
    BY <1>3 DEF PersistSpec, Goto, Done
  <2> QED BY <2>1, <2>2, <2>3, GotoShape DEF Steps, BindSteps, BootstrapSteps, DeleteSteps,
     CleanupSteps
<1>4. CASE PersistAllocation(w)
  <2>1. ~ At(w, "idle")
    BY <1>4 DEF PersistAllocation, At
  <2>2. ApiTyped'
    BY <1>4, <2>1, PersistTypes DEF PersistAllocation
  <2>3. Goto(w, "claimed") \/ Goto(w, "notRequired")
    BY <1>4 DEF PersistAllocation, Goto, Done
  <2> QED BY <2>1, <2>2, <2>3, GotoShape DEF Steps, BindSteps, BootstrapSteps, DeleteSteps,
     CleanupSteps
<1>5. CASE MarkClaimed(w)
  <2>1. ~ At(w, "idle")
    BY <1>5 DEF MarkClaimed, At
  <2>2. ApiTyped'
    BY <1>5, SetHostPhaseTypes DEF MarkClaimed, Phases
  <2>3. Goto(w, "backfill") \/ Goto(w, "lease") \/ Goto(w, "end")
    BY <1>5 DEF MarkClaimed, Goto, Done, SetHostPhase
  <2> QED BY <2>1, <2>2, <2>3, GotoShape DEF Steps, BindSteps, BootstrapSteps, DeleteSteps,
     CleanupSteps
<1>6. CASE Backfill(w)
  <2>1. ~ At(w, "idle")
    BY <1>6 DEF Backfill, At
  <2>2. ApiTyped'
    BY <1>0, <1>6, <2>1 DEF Backfill, ApiTyped, NoWrite, apiVars
  <2>3. Done(w, "backfilled")
    BY <1>6 DEF Backfill, Goto, Done
  <2> QED BY <2>1, <2>2, <2>3, DoneShape DEF Outcomes
<1>7. CASE WaitForOwner(w)
  <2>1. ~ At(w, "idle")
    BY <1>7 DEF WaitForOwner, At
  <2>2. ApiTyped'
    BY <1>0, <1>7, <2>1 DEF WaitForOwner, ApiTyped, NotReady, NoWrite, apiVars
  <2>3. Done(w, "unprovisioned")
    BY <1>7 DEF WaitForOwner, Goto, Done, NotReady
  <2> QED BY <2>1, <2>2, <2>3, DoneShape DEF Outcomes
<1>8. CASE WaitForBootstrapData(w)
  <2>1. ~ At(w, "idle")
    BY <1>8 DEF WaitForBootstrapData, At
  <2>2. ApiTyped'
    BY <1>0, <1>8, <2>1 DEF WaitForBootstrapData, ApiTyped, NotReady, NoWrite, apiVars
  <2>3. Done(w, "unprovisioned")
    BY <1>8 DEF WaitForBootstrapData, Goto, Done, NotReady
  <2> QED BY <2>1, <2>2, <2>3, DoneShape DEF Outcomes
<1>9. CASE WaitForCredentials(w)
  <2>1. ~ At(w, "idle")
    BY <1>9 DEF WaitForCredentials, At
  <2>2. ApiTyped'
    BY <1>0, <1>9, <2>1 DEF WaitForCredentials, ApiTyped, NotReady, NoWrite, apiVars
  <2>3. Done(w, "unprovisioned")
    BY <1>9 DEF WaitForCredentials, Goto, Done, NotReady
  <2> QED BY <2>1, <2>2, <2>3, DoneShape DEF Outcomes
<1>10. CASE DryRun(w)
  <2>1. ~ At(w, "idle")
    BY <1>10 DEF DryRun, At
  <2>2. ApiTyped'
    BY <1>0, <1>10, <2>1 DEF DryRun, ApiTyped, NotReady, NoWrite, apiVars
  <2>3. Done(w, "unprovisioned")
    BY <1>10 DEF DryRun, Goto, Done, NotReady
  <2> QED BY <2>1, <2>2, <2>3, DoneShape DEF Outcomes
<1>11. CASE TakeLease(w)
  <2>1. ~ At(w, "idle")
    BY <1>11 DEF TakeLease, At
  <2>2. ApiTyped'
    BY <1>0, <1>11, <2>1 DEF TakeLease, ApiTyped, NoWrite, apiVars
  <2>3. Goto(w, "recheck1") \/ Goto(w, "cleanCheck") \/ Goto(w, "end") \/ Goto(w, "failed")
    BY <1>11 DEF TakeLease, Goto, Done
  <2> QED BY <2>1, <2>2, <2>3, GotoShape DEF Steps, BindSteps, BootstrapSteps, DeleteSteps,
     CleanupSteps
<1>12. CASE Recheck(w)
  <2>1. ~ At(w, "idle")
    BY <1>12 DEF Recheck, At
  <2>2. ApiTyped'
    BY <1>0, <1>12, <2>1 DEF Recheck, ApiTyped, NoWrite, apiVars
  <2>3. \/ Goto(w, "own") \/ Goto(w, "end")
        \/ Goto(w, "launch") /\ At(w, "recheck2")
    BY <1>12 DEF Recheck, Goto, Done, At
  <2>4. At(w, "recheck2") => worker[w].attempt \in Attempts
    BY <1>0 DEF WorkersTyped, WorkerShape, At
  <2> QED BY <2>1, <2>2, <2>3, <2>4, GotoShape DEF Steps, BindSteps, BootstrapSteps,
     DeleteSteps, CleanupSteps
<1>13. CASE RecordOwnership(w)
  <2>1. ~ At(w, "idle")
    BY <1>13 DEF RecordOwnership, At
  <2>2. ApiTyped'
    BY <1>13, <2>1, PersistTypes DEF RecordOwnership
  <2>3. Goto(w, "claim")
    BY <1>13 DEF RecordOwnership, Goto, Done
  <2> QED BY <2>1, <2>2, <2>3, GotoShape DEF Steps, BindSteps, BootstrapSteps, DeleteSteps,
     CleanupSteps
<1>14. CASE RemoteClaim(w)
  <2>1. ~ At(w, "idle")
    BY <1>14 DEF RemoteClaim, At
  <2>2. ApiTyped'
    BY <1>0, <1>14, <2>1 DEF RemoteClaim, ApiTyped, Remote, apiVars
  <2>3. Goto(w, "check2") \/ Goto(w, "mismatch") \/ Goto(w, "end")
    BY <1>14 DEF RemoteClaim, Goto, Done
  <2> QED BY <2>1, <2>2, <2>3, GotoShape DEF Steps, BindSteps, BootstrapSteps, DeleteSteps,
     CleanupSteps
<1>15. CASE CheckBeforeUpload(w)
  <2>1. ~ At(w, "idle")
    BY <1>15 DEF CheckBeforeUpload, At
  <2>2. ApiTyped'
    BY <1>0, <1>15, <2>1 DEF CheckBeforeUpload, ApiTyped, NoWrite, apiVars
  <2>3. Goto(w, "upload") \/ Goto(w, "end")
    BY <1>15 DEF CheckBeforeUpload, Goto, Done
  <2> QED BY <2>1, <2>2, <2>3, GotoShape DEF Steps, BindSteps, BootstrapSteps, DeleteSteps,
     CleanupSteps
<1>16. CASE LaunchJob(w)
  <2>1. ~ At(w, "idle")
    BY <1>16 DEF LaunchJob, At
  <2>2. ApiTyped'
    BY <1>0, <1>16, <2>1 DEF LaunchJob, ApiTyped, Remote, apiVars
  <2>3. Goto(w, "observe")
    BY <1>16 DEF LaunchJob, Goto, Done
  <2> QED BY <2>1, <2>2, <2>3, GotoShape DEF Steps, BindSteps, BootstrapSteps, DeleteSteps,
     CleanupSteps
<1>17. CASE CheckReadiness(w)
  <2>1. ~ At(w, "idle")
    BY <1>17 DEF CheckReadiness, At
  <2>2. ApiTyped'
    BY <1>0, <1>17, <2>1 DEF CheckReadiness, ApiTyped, NoWrite, apiVars
  <2>3. Done(w, "provisioned") \/ Done(w, "unprovisioned")
    BY <1>17 DEF CheckReadiness, Goto, Done
  <2> QED BY <2>1, <2>2, <2>3, DoneShape DEF Outcomes
<1>18. CASE QuarantineHost(w)
  <2>1. ~ At(w, "idle")
    BY <1>18 DEF QuarantineHost, At
  <2>2. ApiTyped'
    <3>1. CASE PatchHost(claim, "Quarantined", {})
      <4>1. claim \in Uids \union {None}
        BY <1>0 DEF ApiTyped
      <4> QED BY <1>0, <3>1, <4>1, PatchHostTypes DEF Phases
    <3>2. CASE \E next : SetHostPhase(w, "Quarantined", next)
      BY <3>2, SetHostPhaseTypes DEF Phases
    <3> QED BY <1>18, <3>1, <3>2 DEF QuarantineHost
  <2>3. Goto(w, "recordFailed") \/ Goto(w, "end") \/ Done(w, "unprovisioned")
    BY <1>18 DEF QuarantineHost, Goto, SetHostPhase
  <2> QED BY <2>1, <2>2, <2>3, GotoShape, DoneShape DEF Steps, BindSteps, BootstrapSteps,
     DeleteSteps, CleanupSteps, Outcomes
<1>19. CASE Recover(w)
  <2>1. ~ At(w, "idle")
    BY <1>19 DEF Recover, At
  <2>2. ApiTyped'
    BY <1>0, <1>19, <2>1 DEF Recover, ApiTyped, NoWrite, apiVars
  <2>3. Goto(w, "recoverStatus") \/ Goto(w, "nothing") \/ Goto(w, "end")
    BY <1>19 DEF Recover, Goto, Done
  <2> QED BY <2>1, <2>2, <2>3, GotoShape DEF Steps, BindSteps, BootstrapSteps, DeleteSteps,
     CleanupSteps
<1>20. CASE RecordSucceeded(w)
  <2>1. ~ At(w, "idle")
    BY <1>20 DEF RecordSucceeded, At
  <2>2. ApiTyped'
    BY <1>20, <2>1, PersistTypes DEF RecordSucceeded
  <2>3. Goto(w, "recorded") \/ Goto(w, "available") \/ Done(w, "deleted")
    BY <1>20 DEF RecordSucceeded, Goto, Done, At
  <2> QED BY <2>1, <2>2, <2>3, GotoShape, DoneShape DEF Steps, BindSteps, BootstrapSteps,
     DeleteSteps, CleanupSteps, Outcomes
<1>21. CASE LeaveCleanup(w)
  <2>1. ~ At(w, "idle")
    BY <1>21 DEF LeaveCleanup, At
  <2>2. ApiTyped'
    BY <1>0, <1>21, <2>1 DEF LeaveCleanup, ApiTyped
  <2>3. Goto(w, "available")
    BY <1>21 DEF LeaveCleanup, Goto, Done
  <2> QED BY <2>1, <2>2, <2>3, GotoShape DEF Steps, BindSteps, BootstrapSteps, DeleteSteps,
     CleanupSteps
<1>22. CASE MarkCleaning(w)
  <2>1. ~ At(w, "idle")
    BY <1>22 DEF MarkCleaning, At
  <2>2. ApiTyped'
    BY <1>22, SetHostPhaseTypes DEF MarkCleaning, Phases
  <2>3. Goto(w, "running") \/ Goto(w, "end")
    BY <1>22 DEF MarkCleaning, Goto, Done, SetHostPhase
  <2> QED BY <2>1, <2>2, <2>3, GotoShape DEF Steps, BindSteps, BootstrapSteps, DeleteSteps,
     CleanupSteps
<1>23. CASE RecordRunning(w)
  <2>1. ~ At(w, "idle")
    BY <1>23 DEF RecordRunning, At
  <2>2. ApiTyped'
    BY <1>23, <2>1, PersistTypes DEF RecordRunning
  <2>3. Goto(w, "cleanLease")
    BY <1>23 DEF RecordRunning, Goto, Done
  <2> QED BY <2>1, <2>2, <2>3, GotoShape DEF Steps, BindSteps, BootstrapSteps, DeleteSteps,
     CleanupSteps
<1>24. CASE CleanCheck(w)
  <2>1. ~ At(w, "idle")
    BY <1>24 DEF CleanCheck, At
  <2>2. ApiTyped'
    BY <1>0, <1>24, <2>1 DEF CleanCheck, ApiTyped, NoWrite, apiVars
  <2>3. Goto(w, "reset") \/ Goto(w, "failed")
    BY <1>24 DEF CleanCheck, Goto, Done
  <2> QED BY <2>1, <2>2, <2>3, GotoShape DEF Steps, BindSteps, BootstrapSteps, DeleteSteps,
     CleanupSteps
<1>25. CASE Reset(w)
  <2>1. ~ At(w, "idle")
    BY <1>25 DEF Reset, At
  <2>2. ApiTyped'
    BY <1>0, <1>25, <2>1 DEF Reset, ApiTyped, Remote, apiVars
  <2>3. Goto(w, "resetting") \/ Goto(w, "succeeded") \/ Goto(w, "failed")
    BY <1>25 DEF Reset, Goto, Done
  <2> QED BY <2>1, <2>2, <2>3, GotoShape DEF Steps, BindSteps, BootstrapSteps, DeleteSteps,
     CleanupSteps
<1>26. CASE AfterFailure(w)
  <2>1. ~ At(w, "idle")
    BY <1>26 DEF AfterFailure, At
  <2>2. ApiTyped'
    BY <1>0, <1>26, <2>1 DEF AfterFailure, ApiTyped
  <2>3. Goto(w, "quarantine2") \/ Goto(w, "end")
    BY <1>26 DEF AfterFailure, Goto, Done
  <2> QED BY <2>1, <2>2, <2>3, GotoShape DEF Steps, BindSteps, BootstrapSteps, DeleteSteps,
     CleanupSteps
<1>27. CASE RecordFailed(w)
  <2>1. ~ At(w, "idle")
    BY <1>27 DEF RecordFailed, At
  <2>2. ApiTyped'
    BY <1>27, <2>1, PersistTypes DEF RecordFailed
  <2>3. Goto(w, "end")
    BY <1>27 DEF RecordFailed, Goto, Done
  <2> QED BY <2>1, <2>2, <2>3, GotoShape DEF Steps, BindSteps, BootstrapSteps, DeleteSteps,
     CleanupSteps
<1>28. CASE MakeAvailable(w)
  <2>1. ~ At(w, "idle")
    BY <1>28 DEF MakeAvailable, At
  <2>2. ApiTyped'
    <3>1. CASE NoWrite
      BY <1>0, <3>1 DEF ApiTyped, NoWrite, apiVars
    <3>2. CASE PatchHost(claim, "Available", {w})
      <4>1. claim \in Uids \union {None}
        BY <1>0 DEF ApiTyped
      <4> QED BY <1>0, <3>2, <4>1, PatchHostTypes DEF Phases
    <3> QED BY <1>28, <3>1, <3>2 DEF MakeAvailable
  <2>3. Goto(w, "unclaim") \/ Goto(w, "end") \/ Done(w, "deleted")
    BY <1>28 DEF MakeAvailable, Goto, Done
  <2> QED BY <2>1, <2>2, <2>3, GotoShape, DoneShape DEF Steps, BindSteps, BootstrapSteps,
     DeleteSteps, CleanupSteps, Outcomes
<1>29. CASE ClearClaim(w)
  <2>1. ~ At(w, "idle")
    BY <1>29 DEF ClearClaim, At
  <2>2. ApiTyped'
    <3>1. CASE NoWrite
      BY <1>0, <3>1 DEF ApiTyped, NoWrite, apiVars
    <3>2. CASE PatchHost(None, phase, {})
      <4>1. phase \in Phases
        BY <1>0 DEF ApiTyped
      <4> QED BY <1>0, <3>2, <4>1, PatchHostTypes
    <3> QED BY <1>29, <3>1, <3>2 DEF ClearClaim
  <2>3. Goto(w, "end") \/ Done(w, "deleted")
    BY <1>29 DEF ClearClaim, Goto, Done
  <2> QED BY <2>1, <2>2, <2>3, GotoShape, DoneShape DEF Steps, BindSteps, BootstrapSteps,
     DeleteSteps, CleanupSteps, Outcomes
<1>30. CASE NotFound(w)
  <2>1. ~ At(w, "idle")
    BY <1>30 DEF NotFound, At
  <2>2. ApiTyped'
    BY <1>0, <1>30, <2>1 DEF NotFound, ApiTyped, NoWrite, apiVars
  <2>3. Goto(w, "failed") \/ Goto(w, "end")
    BY <1>30 DEF NotFound, Goto, Done
  <2> QED BY <2>1, <2>2, <2>3, GotoShape DEF Steps, BindSteps, BootstrapSteps, DeleteSteps,
     CleanupSteps
<1>31. CASE UploadScript(w)
  <2>1. ApiTyped'
    BY <1>0, <1>31 DEF UploadScript, ApiTyped, Remote, apiVars
  <2>2. ~ At(w, "idle")
    BY <1>31 DEF UploadScript, At
  <2>3. CASE Goto(w, "end") \/ Done(w, "unprovisioned")
    BY <2>1, <2>2, <2>3, GotoShape, DoneShape DEF Steps, Outcomes
  <2>4. ASSUME NEW a \in Attempts,
               worker' = [worker EXCEPT ![w].pc = "recheck2", ![w].attempt = a]
        PROVE  WorkersTyped'
    <3>1. worker' \in [Workers -> WorkerRecords]
      BY <1>0, <2>4, ZenonT(60) DEF WorkersTyped, WorkerRecords, Steps, BootstrapSteps
    <3>2. WorkerShape(w)'
      BY <1>0, <2>2, <2>4 DEF WorkersTyped, WorkerRecords, WorkerShape, At, Uid
    <3>3. ASSUME NEW u \in Workers \ {w} PROVE WorkerShape(u)'
      BY <1>0, <2>4, <3>3 DEF WorkersTyped, WorkerShape, At, Uid
    <3> QED BY <3>1, <3>2, <3>3 DEF WorkersTyped
  <2> QED BY <1>31, <2>1, <2>3, <2>4 DEF UploadScript, Fresh

<1>32. CASE Observe(w)
  <2>1. ApiTyped'
    BY <1>0, <1>32 DEF Observe, ApiTyped, NoWrite, apiVars
  <2>2. ~ At(w, "idle")
    BY <1>32 DEF Observe, At
  <2>3. Goto(w, "readiness") \/ Goto(w, "quarantine") \/ Done(w, "none")
    BY <1>32 DEF Observe
  <2> QED BY <2>1, <2>2, <2>3, GotoShape, DoneShape DEF Steps, BootstrapSteps, Outcomes
<1> QED
  BY <1>1, <1>2, <1>3, <1>4, <1>5, <1>6, <1>7, <1>8, <1>9, <1>10, <1>11, <1>12, <1>13, <1>14,
     <1>15, <1>16, <1>17, <1>18, <1>19, <1>20, <1>21, <1>22, <1>23, <1>24, <1>25, <1>26, <1>27,
     <1>28, <1>29, <1>30, <1>31, <1>32 DEF Handler

\* Outside AdoptLegacy a step does on the host what RemoteHost lets it do.
LEMMA RemoteSteps ==
  ASSUME TypeInv, [Next]_vars, \A m \in Uids : ~ AdoptLegacy(m)
  PROVE  [RemoteNext]_remoteVars
<1>0. WorkersTyped
  BY TypeParts
<1>1. ASSUME NEW w \in Workers, Handler(w) PROVE [RemoteNext]_remoteVars
  <2>1. CASE RemoteClaim(w)
    <3>1. Uid(w) \in Uids
      BY <1>0, <2>1 DEF RemoteClaim, WorkersTyped, WorkerShape, At
    <3> QED BY <2>1, <3>1 DEF RemoteClaim, RemoteNext, Submission
  <2>2. CASE UploadScript(w)
    BY <2>2 DEF UploadScript, Fresh, RemoteNext, Submission
  <2>3. CASE LaunchJob(w)
    <3>1. worker[w].attempt \in Attempts
      BY <1>0, <2>3 DEF LaunchJob, WorkersTyped, WorkerShape, At
    <3> QED BY <2>3, <3>1 DEF LaunchJob, RemoteNext, Submission, Launch
  <2>4. CASE Reset(w)
    <3>1. Uid(w) \in Uids
      BY <1>0, <2>4 DEF Reset, WorkersTyped, WorkerShape, At
    <3> QED BY <2>4, <3>1 DEF Reset, RemoteNext, Submission
  <2>5. CASE UNCHANGED remoteVars
    BY <2>5
  <2> QED
    BY <1>1, <2>1, <2>2, <2>3, <2>4, <2>5
       DEF Handler, End, ApplyPatch, Bind, Select, PersistSpec, PersistAllocation, MarkClaimed,
           Backfill, WaitForOwner, WaitForBootstrapData, WaitForCredentials, DryRun, TakeLease,
           Recheck, RecordOwnership, CheckBeforeUpload, Observe, CheckReadiness, QuarantineHost,
           Recover, RecordSucceeded, MarkCleaning, RecordRunning, CleanCheck, LeaveCleanup,
           AfterFailure, RecordFailed, MakeAvailable, ClearClaim, NotFound, NoWrite, Persist,
           PatchHost, SetHostPhase, NotReady
<1>2. CASE HostWorks \/ ResetReturns \/ HostFault
  BY <1>2 DEF HostWorks, ResetReturns, HostFault, RemoteNext, HostStep
<1>3. CASE UNCHANGED vars
  BY <1>3 DEF vars
<1> QED
  BY <1>1, <1>2, <1>3
     DEF Next, CreateMachine, DeleteMachine, Begin, Raise, Crash, LateHostPatch, LateReceipt,
         ProbeHost

\* Every step keeps the types and the fence on the host, whatever expires or
\* is cut short.
LEMMA TypeStep == TypeInv /\ [Next]_vars => TypeInv'
<1> SUFFICES ASSUME TypeInv, [Next]_vars PROVE TypeInv'
  OBVIOUS
<1>0. Fence /\ ApiTyped /\ WorkersTyped
  BY TypeParts
<1>a. Fence'
  <2>1. ASSUME NEW m \in Uids, AdoptLegacy(m) PROVE Fence'
    BY <1>0, <2>1 DEF AdoptLegacy, Fence, RemoteTypeOK, JobFenced, RunningUnreported
  <2> QED BY <1>0, <2>1, RemoteSteps, FenceStep
<1> SUFFICES ApiTyped' /\ WorkersTyped'
  BY <1>a, TypeParts, PTL
<1>1. ASSUME NEW m \in Uids, CreateMachine(m) \/ AdoptLegacy(m) \/ DeleteMachine(m)
      PROVE  ApiTyped' /\ WorkersTyped'
  <2>1. ApiTyped'
    BY <1>0, <1>1 DEF CreateMachine, AdoptLegacy, DeleteMachine, Written, ApiTyped, Machines, Phases
  <2>2. worker' = worker
    BY <1>1 DEF CreateMachine, AdoptLegacy, DeleteMachine
  <2> QED BY <1>0, <2>1, <2>2 DEF WorkersTyped, WorkerShape, At, Uid
<1>2. ASSUME NEW w \in Workers, NEW m \in Uids, Begin(w, m)
      PROVE  ApiTyped' /\ WorkersTyped'
  <2>1. ApiTyped'
    BY <1>0, <1>2 DEF Begin, ApiTyped
  <2>2. PICK pc \in Steps \ {"idle", "patch", "recheck2", "launch"} :
          worker' = [worker EXCEPT ![w] =
                       [Idle EXCEPT !.uid = m, !.skip = machine[m].provisioned, !.pc = pc]]
    <3>1. ReconcileEntry(m) \in Steps \ {"idle", "patch", "recheck2", "launch"}
      BY DEF ReconcileEntry, Steps, BindSteps
    <3>2. DeleteEntry(m) \in Steps \ {"idle", "patch", "recheck2", "launch"}
      BY <1>0 DEF DeleteEntry, Steps, DeleteSteps, Provisioned, ApiTyped, Machines
    <3> QED BY <1>2, <3>1, <3>2 DEF Begin
  <2>3. machine[m].provisioned \in BOOLEAN
    BY <1>0 DEF ApiTyped, Machines
  <2>4. worker' \in [Workers -> WorkerRecords]
    BY <1>0, <2>2, <2>3 DEF WorkersTyped, WorkerRecords, Idle, Outcomes
  <2>5. ASSUME NEW u \in Workers PROVE WorkerShape(u)'
    BY <1>0, <2>2 DEF WorkersTyped, WorkerRecords, WorkerShape, At, Uid, Idle
  <2> QED BY <2>1, <2>4, <2>5 DEF WorkersTyped
<1>3. ASSUME NEW w \in Workers, End(w) \/ ApplyPatch(w) \/ Crash(w)
      PROVE  ApiTyped' /\ WorkersTyped'
  <2>1. ~ At(w, "idle") /\ Uid(w) \in Uids
    BY <1>0, <1>3 DEF End, ApplyPatch, Crash, At, WorkersTyped, WorkerShape
  <2>2. ApiTyped'
    <3>1. CASE End(w)
      BY <1>0, <2>1, <3>1 DEF End, Written, ApiTyped
    <3>2. CASE Crash(w)
      BY <1>0, <2>1, <3>2, LifecycleAssumption DEF Crash, GivesUp, HostPatch, ApiTyped
    <3>3. CASE ApplyPatch(w)
      <4>1. worker[w].outcome \in Outcomes \ {"none"}
        BY <1>0, <3>3 DEF ApplyPatch, WorkersTyped, WorkerShape, WorkerRecords, At
      <4>2. ASSUME NEW r \in Machines
            PROVE  /\ [r EXCEPT !.life = "gone"] \in Machines
                   /\ [r EXCEPT !.provisioned = FALSE] \in Machines
                   /\ [r EXCEPT !.providerID = TRUE] \in Machines
                   /\ [r EXCEPT !.provisioned = TRUE, !.providerID = TRUE] \in Machines
        BY DEF Machines
      <4>3. machine[Uid(w)] \in Machines
        BY <1>0, <2>1 DEF ApiTyped
      <4>4. machine' \in [Uids -> Machines]
        <5> DEFINE new == machine'[Uid(w)]
        <5>1. /\ machine' = [machine EXCEPT ![Uid(w)] = new]
              /\ \/ new = machine[Uid(w)]
                 \/ new = [machine[Uid(w)] EXCEPT !.life = "gone"]
                 \/ new = [machine[Uid(w)] EXCEPT !.provisioned = FALSE]
                 \/ new = [machine[Uid(w)] EXCEPT !.providerID = TRUE]
                 \/ new = [machine[Uid(w)] EXCEPT !.provisioned = TRUE, !.providerID = TRUE]
          BY <1>0, <2>1, <3>3, <4>1 DEF ApplyPatch, ApiTyped, Outcomes
        <5>2. new \in Machines
          BY <4>2, <4>3, <5>1
        <5> HIDE DEF new
        <5> QED BY <1>0, <5>1, <5>2 DEF ApiTyped
      <4> QED BY <1>0, <3>3, <4>4 DEF ApplyPatch, Written, ApiTyped
    <3> QED BY <1>3, <3>1, <3>2, <3>3
  <2>3. \/ worker' = [worker EXCEPT ![w] = Idle]
        \/ /\ worker' = [worker EXCEPT ![w].pc = "patch"]
           /\ worker[w].outcome # "none"
    <3>1. CASE End(w)
      BY <1>0, <3>1 DEF End, WorkersTyped
    <3>2. CASE ApplyPatch(w) \/ Crash(w)
      BY <3>2 DEF ApplyPatch, Crash
    <3> QED BY <1>3, <3>1, <3>2
  <2>4. worker' \in [Workers -> WorkerRecords]
    <3>1. Idle \in WorkerRecords
      BY DEF WorkerRecords, Idle, Steps, Outcomes
    <3>2. [worker[w] EXCEPT !.pc = "patch"] \in WorkerRecords
      BY <1>0 DEF WorkersTyped, WorkerRecords, Steps
    <3> QED BY <1>0, <2>3, <3>1, <3>2 DEF WorkersTyped
  <2>5. ASSUME NEW u \in Workers PROVE WorkerShape(u)'
    BY <1>0, <2>1, <2>3 DEF WorkersTyped, WorkerRecords, WorkerShape, At, Uid, Idle
  <2> QED BY <2>2, <2>4, <2>5 DEF WorkersTyped
<1>4. ASSUME NEW w \in Workers, Raise(w)
      PROVE  ApiTyped' /\ WorkersTyped'
  <2>1. ~ At(w, "idle")
    BY <1>4 DEF Raise
  <2>2. ApiTyped'
    BY <1>0, <1>4, LifecycleAssumption DEF Raise, GivesUp, HostPatch, ApiTyped, apiVars
  <2>3. Goto(w, "failed") \/ Done(w, "unprovisioned") \/ Done(w, "none")
    BY <1>4 DEF Raise
  <2> QED BY <2>1, <2>2, <2>3, GotoShape, DoneShape DEF Steps, DeleteSteps, Outcomes
<1>5. CASE ProbeHost \/ HostWorks \/ UNCHANGED vars
  <2>1. ApiTyped'
    BY <1>0, <1>5 DEF ProbeHost, HostWorks, Remote, vars, apiVars, ApiTyped
  <2>2. worker' = worker
    BY <1>5 DEF ProbeHost, HostWorks, vars
  <2> QED BY <1>0, <2>1, <2>2 DEF WorkersTyped, WorkerShape, At, Uid
<1>6. CASE ResetReturns \/ HostFault
  <2>1. ApiTyped'
    BY <1>0, <1>6, LifecycleAssumption DEF ResetReturns, HostFault, Remote, apiVars, ApiTyped
  <2>2. PICK pc \in {"succeeded", "failed"} :
          worker' = [w \in Workers |-> IF At(w, "resetting")
                                       THEN [worker[w] EXCEPT !.pc = pc] ELSE worker[w]]
    BY <1>6 DEF ResetReturns, HostFault
  <2>3. worker' \in [Workers -> WorkerRecords]
    BY <1>0, <2>2 DEF WorkersTyped, WorkerRecords, Steps, DeleteSteps, CleanupSteps
  <2>4. ASSUME NEW u \in Workers PROVE WorkerShape(u)'
    BY <1>0, <2>2 DEF WorkersTyped, WorkerRecords, WorkerShape, At, Uid
  <2> QED BY <2>1, <2>3, <2>4 DEF WorkersTyped
<1>7. ASSUME LateHostPatch \/ \E m \in Uids : LateReceipt(m)
      PROVE  ApiTyped' /\ WorkersTyped'
  <2>1. ApiTyped'
    <3>1. CASE LateHostPatch
      BY <1>0, <3>1 DEF LateHostPatch, ApiTyped, HostResults
    <3>2. CASE \E m \in Uids : LateReceipt(m)
      BY <1>0, <3>2 DEF LateReceipt, ApiTyped, Machines
    <3> QED BY <1>7, <3>1, <3>2
  <2>2. worker' = worker
    BY <1>7 DEF LateHostPatch, LateReceipt
  <2> QED BY <1>0, <2>1, <2>2 DEF WorkersTyped, WorkerShape, At, Uid
<1> QED
  BY <1>1, <1>2, <1>3, <1>4, <1>5, <1>6, <1>7, HandlerTypes DEF Next

-----------------------------------------------------------------------------
(* What a step leaves alone *)

\* A host stays clean if a handler has just seen its reset succeed, and the
\* bootstrapped host of a live Machine stays as it is.
HostSpared ==
  /\ CleanHost /\ (\E u \in Workers : At(u, "succeeded")) => CleanHost'
  /\ \A m \in Uids : machine[m].life = "live" /\ BootstrappedBy(m) => BootstrappedBy(m)'

\* Nothing that u relies on at its step changes.
StepSpared(u) ==
  LET m == Uid(u) IN
  worker[u].pc \notin {"idle", "patch"} =>
    /\ lock'[m] = lock[m]
    /\ machine'[m].owned = machine[m].owned
    /\ machine'[m].cleanup = machine[m].cleanup
    /\ lateReceipt'[m] = lateReceipt[m] \/ (lateReceipt[m] = "sent" /\ lateReceipt'[m] = "none")
    /\ worker[u].pc \in HolderSteps /\ claim = m => claim' = m
    /\ At(u, "nothing") /\ claim' = m => stray' \/ (claim = m /\ ~ stray)
    /\ At(u, "unclaim") /\ u \in current' => u \in current /\ (claim = m => claim' = m)

\* Nothing that u's staged patch promises changes.
OutcomeSpared(u) ==
  LET m == Uid(u) IN
  ~ At(u, "idle") =>
    /\ machine'[m].life # "absent"
    /\ machine'[m].life = "live" => machine[m].life = "live"
    /\ worker[u].outcome = "deleted" /\ Released(m) => Released(m)'

\* A handler run that did not move keeps what it may rely on.
LEMMA SparedKeeps ==
  ASSUME TypeInv, NEW u \in Workers, HandlerInv(u), worker'[u] = worker[u],
         StepSpared(u), OutcomeSpared(u), HostSpared
  PROVE  HandlerInv(u)'
<1>0. WorkerShape(u)
  BY DEF TypeInv
<1>1. CASE At(u, "idle")
  BY <1>0, <1>1
     DEF WorkerShape, HandlerInv, LockHeld, StepKept, OutcomeKept, At, ReconcileSteps,
         HolderSteps, UnstartedSteps, OwnedSteps, FailureSteps, UnrecordedSteps,
         RecordedSteps, SettledSteps, BindSteps,
         BootstrapSteps, DeleteSteps, CleanupSteps
<1>2. CASE ~ At(u, "idle")
  <2>1. LockHeld(u)'
    BY <1>2 DEF HandlerInv, LockHeld, StepSpared, At, Uid
  <2>2. OutcomeKept(u)'
    <3>1. worker[u].outcome = "deleted" => Released(Uid(u))'
      BY <1>2 DEF HandlerInv, OutcomeKept, OutcomeSpared
    <3>2. Uid(u)' = Uid(u)
      BY DEF Uid
    <3> HIDE DEF Released
    <3> QED
      BY <1>0, <1>2, <3>1, <3>2
         DEF WorkerShape, HandlerInv, OutcomeKept, OutcomeSpared, HostSpared, At, Uid
  <2>3. CASE At(u, "patch")
    <3>1. StepKept(u)'
      BY <1>2, <2>3
         DEF StepKept, OutcomeSpared, At, Uid, ReconcileSteps, HolderSteps, UnstartedSteps,
             OwnedSteps, FailureSteps, UnrecordedSteps,
             RecordedSteps, SettledSteps, BindSteps, BootstrapSteps, DeleteSteps,
             CleanupSteps
    <3> QED BY <2>1, <2>2, <3>1 DEF HandlerInv
  <2>4. CASE ~ At(u, "patch")
    <3>1. /\ machine'[Uid(u)].owned = machine[Uid(u)].owned
          /\ machine'[Uid(u)].cleanup = machine[Uid(u)].cleanup
          /\ \/ lateReceipt'[Uid(u)] = lateReceipt[Uid(u)]
             \/ lateReceipt[Uid(u)] = "sent" /\ lateReceipt'[Uid(u)] = "none"
          /\ worker[u].pc \in HolderSteps /\ claim = Uid(u) => claim' = Uid(u)
          /\ At(u, "nothing") /\ claim' = Uid(u) => stray' \/ (claim = Uid(u) /\ ~ stray)
          /\ At(u, "unclaim") /\ u \in current' =>
               u \in current /\ (claim = Uid(u) => claim' = Uid(u))
      BY <1>2, <2>4 DEF StepSpared, At
    <3>2. /\ machine'[Uid(u)].life # "absent"
          /\ machine'[Uid(u)].life = "live" => machine[Uid(u)].life = "live"
      BY <1>2 DEF OutcomeSpared
    <3>3. StepKept(u)'
      BY <1>2, <3>1, <3>2 DEF HandlerInv, StepKept, HostSpared, At, Uid
    <3> QED BY <2>1, <2>2, <3>3 DEF HandlerInv
  <2> QED BY <2>3, <2>4
<1> QED BY <1>1, <1>2

-----------------------------------------------------------------------------
(* What happens on the host *)

\* Steps of the host, and commands that neither claim nor reset it.
InnerStep ==
  \/ \E a \in Attempts :
       \/ JobRefused(a) \/ JobSkipped(a) \/ JobStarts(a) \/ PayloadWrites(a)
       \/ \E code \in Codes : JobEnds(a, code)
       \/ Upload(a) \/ Launch(a)
  \/ ResetFails \/ KubeadmReset \/ RemoveFile \/ ResetEnds \/ PowerLoss
  \/ ResetAlreadyClean
  \/ UNCHANGED remoteVars

\* On a host without owner and reset no job starts or is running.
LEMMA CleanHostStays ==
  ASSUME RemoteInv, InnerStep, CleanHost
  PROVE  CleanHost'
<1> USE DEF CleanHost, NothingOwned, KubernetesState
<1>1. ASSUME NEW a \in Attempts PROVE UidOf[a] # None /\ job[a] # "running"
  BY <1>1, HostAssumption DEF RemoteInv, Fence, JobFenced
<1> QED
  BY <1>1
     DEF InnerStep, JobRefused, JobSkipped, JobStarts, PayloadWrites, JobEnds, Upload, Launch,
         ResetFails, KubeadmReset, RemoveFile, ResetEnds, PowerLoss, ResetAlreadyClean,
         remoteVars

\* Outside a reset the owner file and a result stay.
LEMMA ReceiptStays ==
  ASSUME RemoteInv, InnerStep, reset = "none", receipt # NoReceipt
  PROVE  owner' = owner /\ receipt' = receipt
<1>1. ASSUME NEW a \in Attempts PROVE job[a] # "running"
  BY <1>1 DEF RemoteInv, Fence, RunningUnreported
<1> QED
  BY <1>1
     DEF InnerStep, JobRefused, JobSkipped, JobStarts, PayloadWrites, JobEnds, Upload, Launch,
         ResetFails, KubeadmReset, RemoveFile, ResetEnds, PowerLoss, ResetAlreadyClean,
         remoteVars

\* The owner file is only ever removed; no reset begins; a reset is proven by
\* its end or by a host that was clean already.
LEMMA InnerEffects ==
  ASSUME RemoteInv, InnerStep
  PROVE  /\ owner' \in {owner, None}
         /\ reset = "none" => reset' = "none"
         /\ reset = "none" /\ k8s => k8s'
         /\ proven' => proven \/ reset # "none" \/ ResetAlreadyClean
<1>0. k8s \in BOOLEAN /\ proven \in BOOLEAN
  BY DEF RemoteInv, Fence, RemoteTypeOK
<1>1. ASSUME NEW a \in Attempts,
             \/ JobRefused(a) \/ JobSkipped(a) \/ JobStarts(a) \/ PayloadWrites(a)
             \/ Upload(a) \/ Launch(a)
      PROVE  owner' = owner /\ reset' = reset /\ (k8s => k8s') /\ proven' = proven
  BY <1>0, <1>1 DEF JobRefused, JobSkipped, JobStarts, PayloadWrites, Upload, Launch
<1>2. ASSUME NEW a \in Attempts, NEW code \in Codes, JobEnds(a, code)
      PROVE  owner' = owner /\ reset' = reset /\ (k8s => k8s') /\ proven' = proven
  BY <1>0, <1>2 DEF JobEnds
<1>3. CASE ResetFails \/ KubeadmReset \/ RemoveFile \/ ResetEnds
  BY <1>0, <1>3 DEF ResetFails, KubeadmReset, RemoveFile, ResetEnds
<1>4. CASE PowerLoss \/ UNCHANGED remoteVars
  BY <1>0, <1>4 DEF PowerLoss, remoteVars
<1>5. CASE ResetAlreadyClean
  <2>1. owner' = owner /\ reset' = reset /\ k8s' = k8s
    BY <1>5 DEF ResetAlreadyClean
  <2> QED BY <1>5, <2>1
<1> QED BY <1>1, <1>2, <1>3, <1>4, <1>5 DEF InnerStep

\* What is under way to the API server: nothing new but true receipts and
\* harmless patches.
LateSpared ==
  /\ stray' = stray
  /\ \A n \in Uids :
       \/ lateReceipt'[n] \in {lateReceipt[n], "none"}
       \/ /\ claim = n /\ CleanHost /\ machine[n].owned
          /\ machine[n].life \notin {"absent", "live"} /\ machine[n].cleanup # "Succeeded"
  /\ \A r \in lateHost' : r \in lateHost \/ HarmlessPatch(r)

\* Such steps keep HostInv: they never touch a clean host, nor the host of a
\* live Machine whose receipt is there.
LEMMA InnerStepKeeps ==
  ASSUME TypeInv, RemoteInv, HostInv, InnerStep, UNCHANGED <<machine, claim>>, LateSpared,
         ResetAlreadyClean => \E m \in Uids : machine[m].life # "absent"
  PROVE  HostInv' /\ HostSpared
<1> USE DEF HostInv
<1>1. CleanHost => CleanHost'
  BY CleanHostStays
<1>2. ASSUME NEW m \in Uids, machine[m].life = "live", BootstrappedBy(m)
      PROVE  BootstrappedBy(m)'
  <2>1. reset = "none"
    BY <1>2 DEF ResetIsDeletion, BootstrappedBy
  <2>2. receipt # NoReceipt
    BY <1>2, HostAssumption DEF BootstrappedBy, NoReceipt
  <2> QED BY <1>2, <2>1, <2>2, ReceiptStays DEF BootstrappedBy
<1>3. /\ owner' \in {owner, None}
      /\ reset = "none" => reset' = "none"
      /\ reset = "none" /\ k8s => k8s'
      /\ proven' => proven \/ reset # "none" \/ ResetAlreadyClean
  BY InnerEffects
<1>4. OwnerHoldsClaim'
  BY <1>3 DEF OwnerHoldsClaim
<1>5. FreeHostIsClean'
  BY <1>1 DEF FreeHostIsClean
<1>6. OwnershipKeepsClaim' /\ Stages'
  BY DEF OwnershipKeepsClaim, Stages, Released, LateSpared
<1>a. LatePatchesHarmless'
  <2> SUFFICES ASSUME NEW r \in lateHost' PROVE HarmlessPatch(r)'
    BY DEF LatePatchesHarmless
  <2>1. HarmlessPatch(r)
    BY DEF LateSpared, LatePatchesHarmless
  <2> QED BY <2>1 DEF HarmlessPatch, LateSpared
<1>b. LateReceiptsTrue'
  BY <1>1 DEF LateReceiptsTrue, LateSpared
<1>7. ResetIsDeletion'
  BY <1>3 DEF ResetIsDeletion
<1>8. HostUsedByMachine'
  <2>1. reset # "none" => claim # None
    BY DEF FreeHostIsClean, CleanHost
  <2>2. claim # None => claim \in Uids /\ machine[claim].life # "absent"
    BY DEF HostUsedByMachine, TypeInv, TypeOK
  <2> QED BY <1>3, <2>1, <2>2 DEF HostUsedByMachine
<1>9. ProvisionedByOwnReceipt'
  BY <1>2 DEF ProvisionedByOwnReceipt, BootstrappedBy
<1>10. LegacyKept'
  BY <1>3 DEF LegacyKept, ResetAlreadyClean, KubernetesState
<1> QED
  BY <1>1, <1>2, <1>4, <1>5, <1>6, <1>7, <1>8, <1>9, <1>10, <1>a, <1>b DEF HostSpared

-----------------------------------------------------------------------------
(* Handler steps that only read, or that write what no promise is about *)

\* All that is to be shown of a step, beside the types and the host.
Kept == HostInv' /\ \A u \in Workers : HandlerInv(u)'

\* Handlers of one Machine exclude each other.
LEMMA AloneUnderLock ==
  ASSUME NEW w \in Workers, NEW u \in Workers \ {w}, HandlerInv(w), HandlerInv(u),
         worker[w].pc \notin {"idle", "patch"}, Uid(u) = Uid(w)
  PROVE  worker[u].pc \in {"idle", "patch"}
BY DEF HandlerInv, LockHeld

\* HostInv is about the host, the Machines and the claim.
LEMMA HostInvUntouched ==
  ASSUME TypeInv, RemoteInv, HostInv, UNCHANGED <<remoteVars, machine, claim>>, LateSpared
  PROVE  HostInv' /\ HostSpared
<1>1. InnerStep
  BY DEF InnerStep
<1>2. ResetAlreadyClean => \E m \in Uids : machine[m].life # "absent"
  <2> SUFFICES ASSUME ResetAlreadyClean PROVE \E m \in Uids : machine[m].life # "absent"
    OBVIOUS
  <2>1. proven
    BY DEF ResetAlreadyClean, remoteVars
  <2> QED BY <2>1 DEF HostInv, HostUsedByMachine
<1> QED BY <1>1, <1>2, InnerStepKeeps

\* A step that moves one handler and changes neither the host nor a Machine,
\* the claim or a lock keeps everything if it keeps what that handler needs.
LEMMA QuietStep ==
  ASSUME LifecycleInv, NEW w \in Workers,
         UNCHANGED <<remoteVars, machine, claim, lock>>, LateSpared,
         \A n \in Uids \ {Uid(w)} : lateReceipt'[n] = lateReceipt[n],
         worker[w].pc \notin {"idle", "patch"},
         \A u \in Workers \ {w} : worker'[u] = worker[u] /\ (u \in current' => u \in current),
         worker'[w].uid = worker[w].uid,
         StepKept(w)', OutcomeKept(w)'
  PROVE  Kept
<1> USE DEF LifecycleInv
<1>1. HostInv' /\ HostSpared
  BY HostInvUntouched
<1>2. HandlerInv(w)'
  BY DEF HandlerInv, LockHeld, Uid
<1>3. ASSUME NEW u \in Workers \ {w} PROVE HandlerInv(u)'
  <2>1. StepSpared(u)
    <3>1. CASE worker[u].pc \in {"idle", "patch"}
      BY <3>1 DEF StepSpared
    <3>2. CASE worker[u].pc \notin {"idle", "patch"}
      <4>1. Uid(u) \in Uids \ {Uid(w)} /\ stray \in BOOLEAN
        BY <3>2, AloneUnderLock DEF TypeInv, TypeOK, WorkerShape, At
      <4> QED BY <4>1 DEF StepSpared, LateSpared
    <3> QED BY <3>1, <3>2
  <2>2. OutcomeSpared(u)
    <3>1. ~ At(u, "idle") => machine[Uid(u)].life # "absent"
      BY DEF HandlerInv, StepKept
    <3> QED BY <3>1 DEF OutcomeSpared, Released, LateSpared, Uid
  <2> QED BY <1>1, <2>1, <2>2, SparedKeeps
<1> QED BY <1>1, <1>2, <1>3 DEF Kept

\* A handler that ends without promise keeps everything.
LEMMA QuietEnd ==
  ASSUME LifecycleInv, NEW w \in Workers,
         UNCHANGED <<remoteVars, machine, claim, stray, lateReceipt, lock>>,
         \A r \in lateHost' : r \in lateHost \/ HarmlessPatch(r),
         worker[w].pc \notin {"idle", "patch"},
         NEW outcome \in {worker[w].outcome, "none", "unprovisioned", "backfilled"},
         Moves(w, "end", outcome),
         \A u \in Workers \ {w} : u \in current' => u \in current
  PROVE  Kept
<1>0. HandlerInv(w)
  BY DEF LifecycleInv
<1>1. StepKept(w)'
  BY <1>0
     DEF HandlerInv, StepKept, Moves, At, Uid, ReconcileSteps, HolderSteps, UnstartedSteps,
         OwnedSteps, FailureSteps, UnrecordedSteps,
         RecordedSteps, SettledSteps, BindSteps, BootstrapSteps, DeleteSteps,
         CleanupSteps
<1>2. OutcomeKept(w)'
  BY <1>0 DEF HandlerInv, OutcomeKept, Released, Moves, At, Uid, BootstrappedBy, remoteVars
<1> QED BY <1>1, <1>2, QuietStep DEF Moves, LateSpared

\* A handler that goes on, for a step whose promise holds already.
LEMMA QuietGoto ==
  ASSUME LifecycleInv, NEW w \in Workers,
         UNCHANGED <<remoteVars, machine, claim, stray, lateReceipt, lock>>,
         \A r \in lateHost' : r \in lateHost \/ HarmlessPatch(r),
         worker[w].pc \notin {"idle", "patch"},
         NEW pc \in Steps, Moves(w, pc, worker[w].outcome), pc # "readiness",
         \A u \in Workers \ {w} : u \in current' => u \in current,
         StepKept(w)'
  PROVE  Kept
<1>0. HandlerInv(w)
  BY DEF LifecycleInv
<1>1. OutcomeKept(w)'
  BY <1>0 DEF HandlerInv, OutcomeKept, Released, Moves, At, Uid, BootstrappedBy, remoteVars
<1> QED BY <1>1, QuietStep DEF Moves, LateSpared

-----------------------------------------------------------------------------
(* The handler actions that neither record nor do anything on the host *)

\* set_host_phase changes nothing that is relied upon.
LEMMA PhaseStep ==
  ASSUME TypeInv, NEW w \in Workers, NEW newPhase, NEW next,
         SetHostPhase(w, newPhase, next) \/ (claim = Uid(w) /\ PatchHost(claim, newPhase, {}))
  PROVE  /\ UNCHANGED <<remoteVars, machine, claim, stray, lateReceipt, lock>>
         /\ current' \subseteq current /\ lateHost' \subseteq lateHost
<1>1. stray \in BOOLEAN
  BY DEF TypeInv, TypeOK
<1> QED BY <1>1 DEF SetHostPhase, PatchHost, NoWrite, apiVars

\* The readings of bind_machine and the early exits of a reconcile.
LEMMA BindReadsKeep ==
  ASSUME LifecycleInv, NEW w \in Workers, Bind(w) \/ MarkClaimed(w) \/ Backfill(w) \/
     WaitForOwner(w) \/ WaitForBootstrapData(w) \/ WaitForCredentials(w) \/ DryRun(w)
  PROVE  Kept
<1> USE DEF Steps, BindSteps, BootstrapSteps, DeleteSteps, CleanupSteps, ReconcileSteps,
            HolderSteps, UnstartedSteps, OwnedSteps, FailureSteps, UnrecordedSteps,
            RecordedSteps, SettledSteps
<1>0. TypeInv /\ HandlerInv(w)
  BY DEF LifecycleInv
<1>1. CASE Bind(w)
  <2>1. worker[w].pc = "bind"
    BY <1>1 DEF Bind, At
  <2>2. /\ UNCHANGED <<remoteVars, machine, claim, stray, lateReceipt, lock>>
        /\ current' \subseteq current /\ lateHost' \subseteq lateHost
    BY <1>1 DEF Bind, NoWrite, apiVars
  <2>3. \/ claim = Uid(w) /\ Goto(w, "claimed")
        \/ Goto(w, "end")
    BY <1>1 DEF Bind, Goto, Done
  <2>4. CASE claim = Uid(w) /\ Goto(w, "claimed")
    <3>1. Moves(w, "claimed", worker[w].outcome)
      BY <1>0, <2>4, GotoMoves
    <3>2. StepKept(w)'
      BY <1>0, <2>1, <2>2, <2>4, <3>1 DEF HandlerInv, StepKept, Moves, At, Uid
    <3> QED BY <2>1, <2>2, <3>1, <3>2, QuietGoto
  <2>5. CASE Goto(w, "end")
    <3>1. Moves(w, "end", worker[w].outcome)
      BY <1>0, <2>5, GotoMoves
    <3> QED BY <2>1, <2>2, <3>1, QuietEnd
  <2> QED BY <2>3, <2>4, <2>5
<1>2. CASE MarkClaimed(w)
  <2>1. worker[w].pc = "claimed"
    BY <1>2 DEF MarkClaimed, At
  <2>2. /\ UNCHANGED <<remoteVars, machine, claim, stray, lateReceipt, lock>>
        /\ current' \subseteq current /\ lateHost' \subseteq lateHost
    BY <1>0, <1>2, PhaseStep DEF MarkClaimed
  <2>3. \/ Goto(w, "backfill")
        \/ Goto(w, "lease")
        \/ Goto(w, "end")
    BY <1>2 DEF MarkClaimed, Goto, Done, SetHostPhase
  <2>4. CASE Goto(w, "backfill")
    <3>1. Moves(w, "backfill", worker[w].outcome)
      BY <1>0, <2>4, GotoMoves
    <3>2. StepKept(w)'
      BY <1>0, <2>1, <2>2, <3>1 DEF HandlerInv, StepKept, Moves, At, Uid
    <3> QED BY <2>1, <2>2, <3>1, <3>2, QuietGoto
  <2>5. CASE Goto(w, "lease")
    <3>1. Moves(w, "lease", worker[w].outcome)
      BY <1>0, <2>5, GotoMoves
    <3>2. StepKept(w)'
      BY <1>0, <2>1, <2>2, <3>1 DEF HandlerInv, StepKept, Moves, At, Uid
    <3> QED BY <2>1, <2>2, <3>1, <3>2, QuietGoto
  <2>6. CASE Goto(w, "end")
    <3>1. Moves(w, "end", worker[w].outcome)
      BY <1>0, <2>6, GotoMoves
    <3> QED BY <2>1, <2>2, <3>1, QuietEnd
  <2> QED BY <2>3, <2>4, <2>5, <2>6
<1>3. CASE Backfill(w)
  <2>1. worker[w].pc = "backfill"
    BY <1>3 DEF Backfill, At
  <2>2. /\ UNCHANGED <<remoteVars, machine, claim, stray, lateReceipt, lock>>
        /\ current' \subseteq current /\ lateHost' \subseteq lateHost
    BY <1>3 DEF Backfill, NoWrite, apiVars
  <2>3. Done(w, "backfilled")
    BY <1>3 DEF Backfill
  <2>4. Kept
    <3>1. Moves(w, "end", "backfilled")
      BY <1>0, <2>3, DoneMoves DEF Outcomes
    <3> QED BY <2>1, <2>2, <3>1, QuietEnd
  <2> QED BY <2>4
<1>4. CASE WaitForOwner(w)
  <2>1. worker[w].pc \in {"bind", "select", "reselect"}
    BY <1>4 DEF WaitForOwner, At
  <2>2. /\ UNCHANGED <<remoteVars, machine, claim, stray, lateReceipt, lock>>
        /\ current' \subseteq current /\ lateHost' \subseteq lateHost
    BY <1>4 DEF WaitForOwner, NotReady, NoWrite, apiVars
  <2>3. Done(w, "unprovisioned")
    BY <1>4 DEF WaitForOwner, NotReady
  <2>4. Kept
    <3>1. Moves(w, "end", "unprovisioned")
      BY <1>0, <2>3, DoneMoves DEF Outcomes
    <3> QED BY <2>1, <2>2, <3>1, QuietEnd
  <2> QED BY <2>4
<1>5. CASE WaitForBootstrapData(w)
  <2>1. worker[w].pc = "lease"
    BY <1>5 DEF WaitForBootstrapData, At
  <2>2. /\ UNCHANGED <<remoteVars, machine, claim, stray, lateReceipt, lock>>
        /\ current' \subseteq current /\ lateHost' \subseteq lateHost
    BY <1>5 DEF WaitForBootstrapData, NotReady, NoWrite, apiVars
  <2>3. Done(w, "unprovisioned")
    BY <1>5 DEF WaitForBootstrapData, NotReady
  <2>4. Kept
    <3>1. Moves(w, "end", "unprovisioned")
      BY <1>0, <2>3, DoneMoves DEF Outcomes
    <3> QED BY <2>1, <2>2, <3>1, QuietEnd
  <2> QED BY <2>4
<1>6. CASE WaitForCredentials(w)
  <2>1. worker[w].pc = "lease"
    BY <1>6 DEF WaitForCredentials, At
  <2>2. /\ UNCHANGED <<remoteVars, machine, claim, stray, lateReceipt, lock>>
        /\ current' \subseteq current /\ lateHost' \subseteq lateHost
    BY <1>6 DEF WaitForCredentials, NotReady, NoWrite, apiVars
  <2>3. Done(w, "unprovisioned")
    BY <1>6 DEF WaitForCredentials, NotReady
  <2>4. Kept
    <3>1. Moves(w, "end", "unprovisioned")
      BY <1>0, <2>3, DoneMoves DEF Outcomes
    <3> QED BY <2>1, <2>2, <3>1, QuietEnd
  <2> QED BY <2>4
<1>7. CASE DryRun(w)
  <2>1. worker[w].pc = "lease"
    BY <1>7 DEF DryRun, At
  <2>2. /\ UNCHANGED <<remoteVars, machine, claim, stray, lateReceipt, lock>>
        /\ current' \subseteq current /\ lateHost' \subseteq lateHost
    BY <1>7 DEF DryRun, NotReady, NoWrite, apiVars
  <2>3. Done(w, "unprovisioned")
    BY <1>7 DEF DryRun, NotReady
  <2>4. Kept
    <3>1. Moves(w, "end", "unprovisioned")
      BY <1>0, <2>3, DoneMoves DEF Outcomes
    <3> QED BY <2>1, <2>2, <3>1, QuietEnd
  <2> QED BY <2>4
<1> QED BY <1>1, <1>2, <1>3, <1>4, <1>5, <1>6, <1>7

\* The Lease, the checks around it, and the quarantine of the host.
LEMMA BootstrapReadsKeep ==
  ASSUME LifecycleInv, NEW w \in Workers, TakeLease(w) \/ Recheck(w) \/ CheckBeforeUpload(w) \/
     QuarantineHost(w)
  PROVE  Kept
<1> USE DEF Steps, BindSteps, BootstrapSteps, DeleteSteps, CleanupSteps, ReconcileSteps,
            HolderSteps, UnstartedSteps, OwnedSteps, FailureSteps, UnrecordedSteps,
            RecordedSteps, SettledSteps
<1>0. TypeInv /\ HandlerInv(w)
  BY DEF LifecycleInv
<1>1. CASE TakeLease(w)
  <2>1. worker[w].pc \in {"lease", "cleanLease"}
    BY <1>1 DEF TakeLease, At
  <2>2. /\ UNCHANGED <<remoteVars, machine, claim, stray, lateReceipt, lock>>
        /\ current' \subseteq current /\ lateHost' \subseteq lateHost
    BY <1>1 DEF TakeLease, NoWrite, apiVars
  <2>3. \/ At(w, "lease") /\ Goto(w, "recheck1")
        \/ At(w, "cleanLease") /\ Goto(w, "cleanCheck")
        \/ Goto(w, "end")
        \/ At(w, "cleanLease") /\ Goto(w, "failed")
    BY <1>1 DEF TakeLease, Goto, Done, At
  <2>4. CASE At(w, "lease") /\ Goto(w, "recheck1")
    <3>1. Moves(w, "recheck1", worker[w].outcome)
      BY <1>0, <2>4, GotoMoves
    <3>2. StepKept(w)'
      BY <1>0, <2>1, <2>2, <2>4, <3>1 DEF HandlerInv, StepKept, Moves, At, Uid
    <3> QED BY <2>1, <2>2, <3>1, <3>2, QuietGoto
  <2>5. CASE At(w, "cleanLease") /\ Goto(w, "cleanCheck")
    <3>1. Moves(w, "cleanCheck", worker[w].outcome)
      BY <1>0, <2>5, GotoMoves
    <3>2. StepKept(w)'
      BY <1>0, <2>1, <2>2, <2>5, <3>1 DEF HandlerInv, StepKept, Moves, At, Uid
    <3> QED BY <2>1, <2>2, <3>1, <3>2, QuietGoto
  <2>6. CASE At(w, "cleanLease") /\ Goto(w, "failed")
    <3>1. Moves(w, "failed", worker[w].outcome)
      BY <1>0, <2>6, GotoMoves
    <3>2. StepKept(w)'
      BY <1>0, <2>1, <2>2, <2>6, <3>1 DEF HandlerInv, StepKept, Moves, At, Uid
    <3> QED BY <2>1, <2>2, <3>1, <3>2, QuietGoto
  <2>7. CASE Goto(w, "end")
    <3>1. Moves(w, "end", worker[w].outcome)
      BY <1>0, <2>7, GotoMoves
    <3> QED BY <2>1, <2>2, <3>1, QuietEnd
  <2> QED BY <2>3, <2>4, <2>5, <2>6, <2>7
<1>2. CASE Recheck(w)
  <2>1. worker[w].pc \in {"recheck1", "recheck2"}
    BY <1>2 DEF Recheck, At
  <2>2. /\ UNCHANGED <<remoteVars, machine, claim, stray, lateReceipt, lock>>
        /\ current' \subseteq current /\ lateHost' \subseteq lateHost
    BY <1>2 DEF Recheck, NoWrite, apiVars
  <2>3. \/ Goto(w, "own")
        \/ Goto(w, "launch")
        \/ Goto(w, "end")
    BY <1>2 DEF Recheck, Goto, Done
  <2>4. CASE Goto(w, "own")
    <3>1. Moves(w, "own", worker[w].outcome)
      BY <1>0, <2>4, GotoMoves
    <3>2. StepKept(w)'
      BY <1>0, <2>1, <2>2, <3>1 DEF HandlerInv, StepKept, Moves, At, Uid
    <3> QED BY <2>1, <2>2, <3>1, <3>2, QuietGoto
  <2>5. CASE Goto(w, "launch")
    <3>1. Moves(w, "launch", worker[w].outcome)
      BY <1>0, <2>5, GotoMoves
    <3>2. StepKept(w)'
      BY <1>0, <2>1, <2>2, <3>1 DEF HandlerInv, StepKept, Moves, At, Uid
    <3> QED BY <2>1, <2>2, <3>1, <3>2, QuietGoto
  <2>6. CASE Goto(w, "end")
    <3>1. Moves(w, "end", worker[w].outcome)
      BY <1>0, <2>6, GotoMoves
    <3> QED BY <2>1, <2>2, <3>1, QuietEnd
  <2> QED BY <2>3, <2>4, <2>5, <2>6
<1>3. CASE CheckBeforeUpload(w)
  <2>1. worker[w].pc = "check2"
    BY <1>3 DEF CheckBeforeUpload, At
  <2>2. /\ UNCHANGED <<remoteVars, machine, claim, stray, lateReceipt, lock>>
        /\ current' \subseteq current /\ lateHost' \subseteq lateHost
    BY <1>3 DEF CheckBeforeUpload, NoWrite, apiVars
  <2>3. \/ Goto(w, "upload")
        \/ Goto(w, "end")
    BY <1>3 DEF CheckBeforeUpload, Goto, Done
  <2>4. CASE Goto(w, "upload")
    <3>1. Moves(w, "upload", worker[w].outcome)
      BY <1>0, <2>4, GotoMoves
    <3>2. StepKept(w)'
      BY <1>0, <2>1, <2>2, <3>1 DEF HandlerInv, StepKept, Moves, At, Uid
    <3> QED BY <2>1, <2>2, <3>1, <3>2, QuietGoto
  <2>5. CASE Goto(w, "end")
    <3>1. Moves(w, "end", worker[w].outcome)
      BY <1>0, <2>5, GotoMoves
    <3> QED BY <2>1, <2>2, <3>1, QuietEnd
  <2> QED BY <2>3, <2>4, <2>5
<1>4. CASE QuarantineHost(w)
  <2>1. worker[w].pc \in {"mismatch", "quarantine", "quarantine2", "legacy"}
    BY <1>4 DEF QuarantineHost, At
  <2>2. /\ UNCHANGED <<remoteVars, machine, claim, stray, lateReceipt, lock>>
        /\ current' \subseteq current /\ lateHost' \subseteq lateHost
    BY <1>0, <1>4, PhaseStep DEF QuarantineHost, SetHostPhase
  <2>3. \/ At(w, "quarantine2") /\ Goto(w, "recordFailed")
        \/ Goto(w, "end")
        \/ Done(w, "unprovisioned")
    BY <1>4 DEF QuarantineHost, Goto, SetHostPhase, At
  <2>4. CASE At(w, "quarantine2") /\ Goto(w, "recordFailed")
    <3>1. Moves(w, "recordFailed", worker[w].outcome)
      BY <1>0, <2>4, GotoMoves
    <3>2. StepKept(w)'
      BY <1>0, <2>1, <2>2, <2>4, <3>1 DEF HandlerInv, StepKept, Moves, At, Uid
    <3> QED BY <2>1, <2>2, <3>1, <3>2, QuietGoto
  <2>5. CASE Goto(w, "end")
    <3>1. Moves(w, "end", worker[w].outcome)
      BY <1>0, <2>5, GotoMoves
    <3> QED BY <2>1, <2>2, <3>1, QuietEnd
  <2>6. CASE Done(w, "unprovisioned")
    <3>1. Moves(w, "end", "unprovisioned")
      BY <1>0, <2>6, DoneMoves DEF Outcomes
    <3> QED BY <2>1, <2>2, <3>1, QuietEnd
  <2> QED BY <2>3, <2>4, <2>5, <2>6
<1> QED BY <1>1, <1>2, <1>3, <1>4

\* The readings of delete_machine.
LEMMA DeleteReadsKeep ==
  ASSUME LifecycleInv, NEW w \in Workers, Recover(w) \/ LeaveCleanup(w) \/ MarkCleaning(w) \/
     CleanCheck(w) \/ AfterFailure(w) \/ NotFound(w)
  PROVE  Kept
<1> USE DEF Steps, BindSteps, BootstrapSteps, DeleteSteps, CleanupSteps, ReconcileSteps,
            HolderSteps, UnstartedSteps, OwnedSteps, FailureSteps, UnrecordedSteps,
            RecordedSteps, SettledSteps
<1>0. TypeInv /\ HandlerInv(w)
  BY DEF LifecycleInv
<1>1. CASE Recover(w)
  <2>1. worker[w].pc \in {"recover", "recoverSelected"}
    BY <1>1 DEF Recover, At
  <2>2. /\ UNCHANGED <<remoteVars, machine, claim, stray, lateReceipt, lock>>
        /\ current' \subseteq current /\ lateHost' \subseteq lateHost
    BY <1>1 DEF Recover, NoWrite, apiVars
  <2>3. \/ claim = Uid(w) /\ Goto(w, "recoverStatus")
        \/ claim # Uid(w) /\ Goto(w, "nothing")
        \/ Goto(w, "end")
    BY <1>1 DEF Recover, Goto, Done
  <2>4. CASE claim = Uid(w) /\ Goto(w, "recoverStatus")
    <3>1. Moves(w, "recoverStatus", worker[w].outcome)
      BY <1>0, <2>4, GotoMoves
    <3>2. StepKept(w)'
      BY <1>0, <2>1, <2>2, <2>4, <3>1 DEF HandlerInv, StepKept, Moves, At, Uid
    <3> QED BY <2>1, <2>2, <3>1, <3>2, QuietGoto
  <2>5. CASE claim # Uid(w) /\ Goto(w, "nothing")
    <3>1. Moves(w, "nothing", worker[w].outcome)
      BY <1>0, <2>5, GotoMoves
    <3>2. StepKept(w)'
      BY <1>0, <2>1, <2>2, <2>5, <3>1 DEF HandlerInv, StepKept, Moves, At, Uid
    <3> QED BY <2>1, <2>2, <3>1, <3>2, QuietGoto
  <2>6. CASE Goto(w, "end")
    <3>1. Moves(w, "end", worker[w].outcome)
      BY <1>0, <2>6, GotoMoves
    <3> QED BY <2>1, <2>2, <3>1, QuietEnd
  <2> QED BY <2>3, <2>4, <2>5, <2>6
<1>2. CASE LeaveCleanup(w)
  <2>1. worker[w].pc = "recorded"
    BY <1>2 DEF LeaveCleanup, At
  <2>2. /\ UNCHANGED <<remoteVars, machine, claim, stray, lateReceipt, lock>>
        /\ current' \subseteq current /\ lateHost' \subseteq lateHost
    BY <1>2 DEF LeaveCleanup
  <2>3. Goto(w, "available")
    BY <1>2 DEF LeaveCleanup
  <2>4. Kept
    <3>1. Moves(w, "available", worker[w].outcome)
      BY <1>0, <2>3, GotoMoves
    <3>2. StepKept(w)'
      BY <1>0, <2>1, <2>2, <3>1 DEF HandlerInv, StepKept, Moves, At, Uid
    <3> QED BY <2>1, <2>2, <3>1, <3>2, QuietGoto
  <2> QED BY <2>4
<1>3. CASE MarkCleaning(w)
  <2>1. worker[w].pc = "cleaning"
    BY <1>3 DEF MarkCleaning, At
  <2>2. /\ UNCHANGED <<remoteVars, machine, claim, stray, lateReceipt, lock>>
        /\ current' \subseteq current /\ lateHost' \subseteq lateHost
    BY <1>0, <1>3, PhaseStep DEF MarkCleaning
  <2>3. \/ Goto(w, "running")
        \/ Goto(w, "end")
    BY <1>3 DEF MarkCleaning, Goto, Done, SetHostPhase
  <2>4. CASE Goto(w, "running")
    <3>1. Moves(w, "running", worker[w].outcome)
      BY <1>0, <2>4, GotoMoves
    <3>2. StepKept(w)'
      BY <1>0, <2>1, <2>2, <3>1 DEF HandlerInv, StepKept, Moves, At, Uid
    <3> QED BY <2>1, <2>2, <3>1, <3>2, QuietGoto
  <2>5. CASE Goto(w, "end")
    <3>1. Moves(w, "end", worker[w].outcome)
      BY <1>0, <2>5, GotoMoves
    <3> QED BY <2>1, <2>2, <3>1, QuietEnd
  <2> QED BY <2>3, <2>4, <2>5
<1>4. CASE CleanCheck(w)
  <2>1. worker[w].pc = "cleanCheck"
    BY <1>4 DEF CleanCheck, At
  <2>2. /\ UNCHANGED <<remoteVars, machine, claim, stray, lateReceipt, lock>>
        /\ current' \subseteq current /\ lateHost' \subseteq lateHost
    BY <1>4 DEF CleanCheck, NoWrite, apiVars
  <2>3. \/ Goto(w, "reset")
        \/ Goto(w, "failed")
    BY <1>4 DEF CleanCheck, Goto, Done
  <2>4. CASE Goto(w, "reset")
    <3>1. Moves(w, "reset", worker[w].outcome)
      BY <1>0, <2>4, GotoMoves
    <3>2. StepKept(w)'
      BY <1>0, <2>1, <2>2, <3>1 DEF HandlerInv, StepKept, Moves, At, Uid
    <3> QED BY <2>1, <2>2, <3>1, <3>2, QuietGoto
  <2>5. CASE Goto(w, "failed")
    <3>1. Moves(w, "failed", worker[w].outcome)
      BY <1>0, <2>5, GotoMoves
    <3>2. StepKept(w)'
      BY <1>0, <2>1, <2>2, <3>1 DEF HandlerInv, StepKept, Moves, At, Uid
    <3> QED BY <2>1, <2>2, <3>1, <3>2, QuietGoto
  <2> QED BY <2>3, <2>4, <2>5
<1>5. CASE AfterFailure(w)
  <2>1. worker[w].pc = "failed"
    BY <1>5 DEF AfterFailure, At
  <2>2. /\ UNCHANGED <<remoteVars, machine, claim, stray, lateReceipt, lock>>
        /\ current' \subseteq current /\ lateHost' \subseteq lateHost
    BY <1>5 DEF AfterFailure
  <2>3. \/ machine[Uid(w)].cleanup # "Succeeded" /\ Goto(w, "quarantine2")
        \/ Goto(w, "end")
    BY <1>5 DEF AfterFailure, Goto, Done
  <2>4. CASE machine[Uid(w)].cleanup # "Succeeded" /\ Goto(w, "quarantine2")
    <3>1. Moves(w, "quarantine2", worker[w].outcome)
      BY <1>0, <2>4, GotoMoves
    <3>2. StepKept(w)'
      BY <1>0, <2>1, <2>2, <2>4, <3>1 DEF HandlerInv, StepKept, Moves, At, Uid
    <3> QED BY <2>1, <2>2, <3>1, <3>2, QuietGoto
  <2>5. CASE Goto(w, "end")
    <3>1. Moves(w, "end", worker[w].outcome)
      BY <1>0, <2>5, GotoMoves
    <3> QED BY <2>1, <2>2, <3>1, QuietEnd
  <2> QED BY <2>3, <2>4, <2>5
<1>6. CASE NotFound(w)
  <2>1. worker[w].pc \in {"spec", "status", "recoverStatus", "own", "notRequired", "nothing",
     "confirm", "succeeded", "running", "recordFailed"}
    BY <1>6 DEF NotFound, At
  <2>2. /\ UNCHANGED <<remoteVars, machine, claim, stray, lateReceipt, lock>>
        /\ current' \subseteq current /\ lateHost' \subseteq lateHost
    BY <1>6 DEF NotFound, NoWrite, apiVars
  <2>3. \/ At(w, "succeeded") /\ Goto(w, "failed")
        \/ Goto(w, "end")
    BY <1>6 DEF NotFound, Goto, Done, At
  <2>4. CASE At(w, "succeeded") /\ Goto(w, "failed")
    <3>1. Moves(w, "failed", worker[w].outcome)
      BY <1>0, <2>4, GotoMoves
    <3>2. StepKept(w)'
      BY <1>0, <2>1, <2>2, <2>4, <3>1 DEF HandlerInv, StepKept, Moves, At, Uid
    <3> QED BY <2>1, <2>2, <3>1, <3>2, QuietGoto
  <2>5. CASE Goto(w, "end")
    <3>1. Moves(w, "end", worker[w].outcome)
      BY <1>0, <2>5, GotoMoves
    <3> QED BY <2>1, <2>2, <3>1, QuietEnd
  <2> QED BY <2>3, <2>4, <2>5
<1> QED BY <1>1, <1>2, <1>3, <1>4, <1>5, <1>6

-----------------------------------------------------------------------------
(* The handler's records in the status of its Machine *)

\* A write of m's SSHMachine fences a receipt that is under way to it.
ReceiptFenced(m) ==
  \A n \in Uids : \/ lateReceipt'[n] = lateReceipt[n]
                  \/ n = m /\ lateReceipt[n] = "sent" /\ lateReceipt'[n] = "none"

\* A handler writes ownership or cleanup of its own Machine.  The host, the
\* other Machines and their handlers are not concerned; no other handler of
\* this Machine is under way.
LEMMA RecordStep ==
  ASSUME LifecycleInv, NEW w \in Workers, worker[w].pc \notin {"idle", "patch"},
         UNCHANGED <<remoteVars, claim, current, lateHost, stray, lock>>,
         ReceiptFenced(Uid(w)),
         \A u \in Workers \ {w} : worker'[u] = worker[u],
         worker'[w].uid = worker[w].uid,
         \A n \in Uids \ {Uid(w)} : machine'[n] = machine[n],
         Present(Uid(w)),
         machine'[Uid(w)].life = machine[Uid(w)].life,
         machine'[Uid(w)].provisioned = machine[Uid(w)].provisioned,
         machine'[Uid(w)].providerID = machine[Uid(w)].providerID,
         machine[Uid(w)].cleanup = "Succeeded" =>
           machine'[Uid(w)].cleanup = "Succeeded" \/ lateReceipt[Uid(w)] = "landed",
         machine[Uid(w)].owned => machine'[Uid(w)].owned,
         machine'[Uid(w)].owned =>
           machine[Uid(w)].owned \/ (claim = Uid(w) /\ machine[Uid(w)].cleanup = "none"),
         machine[Uid(w)].life = "live" => machine'[Uid(w)].cleanup = "none",
         Uid(w) \in LegacyUids => machine'[Uid(w)].cleanup # "Succeeded",
         machine'[Uid(w)].owned /\ machine'[Uid(w)].cleanup # "Succeeded" => claim = Uid(w),
         ~ machine'[Uid(w)].owned \/ machine'[Uid(w)].cleanup = "Succeeded" =>
           (claim = Uid(w) /\ Uid(w) \notin LegacyUids => CleanHost),
         StepKept(w)', OutcomeKept(w)'
  PROVE  Kept
<1> DEFINE m == Uid(w)
<1>0. /\ TypeInv /\ HostInv
      /\ m \in Uids /\ claim \in Uids \union {None} /\ None \notin Uids /\ LegacyUids \subseteq Uids
      /\ \A u \in Workers : HandlerInv(u) /\ (~ At(u, "idle") => Uid(u) \in Uids)
  BY LifecycleAssumption, HostAssumption DEF LifecycleInv, TypeInv, TypeOK, WorkerShape, At
<1>a. lateReceipt[m] # "none" => claim = m /\ machine[m].owned /\ CleanHost
  BY <1>0 DEF HostInv, LateReceiptsTrue
<1>1. \A n \in Uids : /\ machine'[n].life = machine[n].life
                      /\ machine'[n].provisioned = machine[n].provisioned
                      /\ machine'[n].providerID = machine[n].providerID
  OBVIOUS
<1>2. /\ CleanHost' <=> CleanHost
      /\ \A n \in Uids : BootstrappedBy(n)' <=> BootstrappedBy(n)
  BY DEF CleanHost, NothingOwned, KubernetesState, BootstrappedBy, remoteVars
<1>3. HostSpared
  BY <1>2 DEF HostSpared
<1>4. HostInv'
  <2>1. OwnerHoldsClaim'
    BY <1>0 DEF HostInv, OwnerHoldsClaim, remoteVars
  <2>2. FreeHostIsClean'
    <3>1. CASE claim = m
      BY <1>0, <1>2, <3>1 DEF FreeHostIsClean
    <3>2. CASE claim # m
      BY <1>0, <1>2, <3>2 DEF HostInv, FreeHostIsClean
    <3> QED BY <3>1, <3>2
  <2>3. OwnershipKeepsClaim'
    BY <1>0 DEF HostInv, OwnershipKeepsClaim
  <2>4. ResetIsDeletion'
    <3>1. reset # "none" => claim \in Uids
      BY <1>0 DEF HostInv, FreeHostIsClean, CleanHost
    <3> QED BY <1>0, <1>1, <3>1 DEF HostInv, ResetIsDeletion, remoteVars
  <2>5. Stages'
    BY <1>0, <1>1 DEF HostInv, Stages, Released, Present
  <2>6. HostUsedByMachine'
    BY <1>0, <1>1 DEF HostInv, HostUsedByMachine, remoteVars
  <2>7. ProvisionedByOwnReceipt'
    BY <1>0, <1>1 DEF HostInv, ProvisionedByOwnReceipt, remoteVars
  <2>8. LegacyKept'
    BY <1>0, <1>1 DEF HostInv, LegacyKept, remoteVars
  <2>9. LateReceiptsTrue'
    BY <1>0, <1>1, <1>2 DEF HostInv, LateReceiptsTrue, ReceiptFenced
  <2>10. LatePatchesHarmless'
    <3> SUFFICES ASSUME NEW r \in lateHost PROVE HarmlessPatch(r)'
      BY DEF LatePatchesHarmless
    <3>1. HarmlessPatch(r)
      BY <1>0 DEF HostInv, LatePatchesHarmless
    <3>2. CASE r.claim = claim /\ claim \in Uids
      BY <3>2 DEF HarmlessPatch
    <3>3. CASE claim = None /\ r.claim \in Uids
      BY <1>0, <1>1, <3>1, <3>3 DEF HarmlessPatch
    <3>4. CASE r.claim = None /\ claim \in Uids
      BY <1>0, <3>1, <3>4 DEF HarmlessPatch, ReceiptFenced
    <3> QED BY <3>1, <3>2, <3>3, <3>4 DEF HarmlessPatch
  <2> QED BY <2>1, <2>2, <2>3, <2>4, <2>5, <2>6, <2>7, <2>8, <2>9, <2>10 DEF HostInv
<1>5. HandlerInv(w)'
  BY <1>0 DEF HandlerInv, LockHeld, Uid
<1>6. ASSUME NEW u \in Workers \ {w} PROVE HandlerInv(u)'
  <2>1. CASE Uid(u) = m
    <3>1. worker[u].pc \in {"idle", "patch"}
      BY <1>0, <2>1, AloneUnderLock
    <3>2. StepSpared(u)
      BY <3>1 DEF StepSpared
    <3>3. OutcomeSpared(u)
      <4>1. Released(m) => Released(m)'
        BY <1>a DEF Released, Uid
      <4>2. ~ At(u, "idle") => machine[Uid(u)].life # "absent"
        BY <1>0 DEF HandlerInv, StepKept
      <4> QED BY <1>1, <1>0, <2>1, <4>1, <4>2 DEF OutcomeSpared, Released, Uid
    <3> QED BY <1>0, <1>3, <3>2, <3>3, SparedKeeps
  <2>2. CASE Uid(u) # m /\ ~ At(u, "idle")
    <3>1. machine'[Uid(u)] = machine[Uid(u)] /\ lateReceipt'[Uid(u)] = lateReceipt[Uid(u)]
      BY <1>0, <2>2 DEF ReceiptFenced
    <3>2. StepSpared(u)
      BY <1>0, <3>1 DEF StepSpared, TypeInv, TypeOK
    <3>3. OutcomeSpared(u)
      <4>1. machine[Uid(u)].life # "absent"
        BY <1>0, <2>2 DEF HandlerInv, StepKept
      <4> QED BY <3>1, <4>1 DEF OutcomeSpared, Released, Uid
    <3> QED BY <1>0, <1>3, <3>2, <3>3, SparedKeeps
  <2>3. CASE At(u, "idle")
    <3>1. StepSpared(u) /\ OutcomeSpared(u)
      BY <2>3 DEF StepSpared, OutcomeSpared, At
    <3> QED BY <1>0, <1>3, <3>1, SparedKeeps
  <2> QED BY <2>1, <2>2, <2>3
<1> QED BY <1>4, <1>5, <1>6 DEF Kept

\* What Persist does to the Machine of the handler.
PersistEffect(w, field, value) ==
  /\ Present(Uid(w))
  /\ UNCHANGED <<remoteVars, claim, current, lateHost, stray, lock>>
  /\ ReceiptFenced(Uid(w))
  /\ \A n \in Uids \ {Uid(w)} : machine'[n] = machine[n]
  /\ machine'[Uid(w)].life = machine[Uid(w)].life
  /\ machine'[Uid(w)].provisioned = machine[Uid(w)].provisioned
  /\ machine'[Uid(w)].providerID = machine[Uid(w)].providerID
  /\ machine'[Uid(w)].owned = IF field = "owned" THEN value ELSE machine[Uid(w)].owned
  /\ machine'[Uid(w)].cleanup = IF field = "cleanup" THEN value ELSE machine[Uid(w)].cleanup

\* persist_machine_status writes one field of the handler's own Machine.
LEMMA PersistWrites ==
  ASSUME TypeInv, NEW w \in Workers, ~ At(w, "idle"), NEW value,
         NEW field \in {"selected", "allocated", "owned", "cleanup"}, Persist(w, field, value)
  PROVE  PersistEffect(w, field, value)
<1>1. /\ Uid(w) \in Uids /\ machine \in [Uids -> Machines]
      /\ lateReceipt \in [Uids -> {"none", "sent", "landed"}]
  BY TypeParts DEF TypeInv, WorkerShape, ApiTyped
<1>2. machine[Uid(w)] \in Machines
  BY <1>1
<1>3. ReceiptFenced(Uid(w))
  BY <1>1 DEF Persist, Written, ReceiptFenced
<1> QED BY <1>1, <1>2, <1>3 DEF Persist, PersistEffect, Machines

\* The records of bind_machine, and ownership, which the remote claim follows.
LEMMA BindRecordsKeep ==
  ASSUME LifecycleInv, NEW w \in Workers,
         PersistSpec(w) \/ PersistAllocation(w) \/ RecordOwnership(w)
  PROVE  Kept
<1> USE DEF Steps, BindSteps, BootstrapSteps, DeleteSteps, CleanupSteps, ReconcileSteps,
            HolderSteps, UnstartedSteps, OwnedSteps, FailureSteps, UnrecordedSteps,
            RecordedSteps, SettledSteps
<1>0. TypeInv /\ HostInv /\ HandlerInv(w) /\ (~ At(w, "idle") => Uid(w) \in Uids)
  BY DEF LifecycleInv, TypeInv, WorkerShape
<1>1. CASE PersistSpec(w) \/ PersistAllocation(w)
  <2>1. worker[w].pc \in {"spec", "status", "recoverStatus"}
    BY <1>1 DEF PersistSpec, PersistAllocation, At
  <2>2. PersistEffect(w, "selected", TRUE) \/ PersistEffect(w, "allocated", TRUE)
    BY <1>0, <1>1, <2>1, PersistWrites DEF PersistSpec, PersistAllocation, At
  <2>3. PICK pc \in {"status", "claimed", "notRequired"} :
          /\ Goto(w, pc)
          /\ pc = "notRequired" <=> At(w, "recoverStatus")
    BY <1>1 DEF PersistSpec, PersistAllocation, Goto, At
  <2>4. Moves(w, pc, worker[w].outcome)
    BY <1>0, <2>3, GotoMoves
  <2>5. StepKept(w)'
    BY <1>0, <2>1, <2>2, <2>3, <2>4
       DEF HandlerInv, StepKept, PersistEffect, ReceiptFenced, Moves, At, Uid
  <2>6. OutcomeKept(w)'
    BY <1>0, <2>2, <2>3, <2>4
       DEF HandlerInv, OutcomeKept, Released, PersistEffect, Moves, At, Uid, BootstrappedBy, remoteVars
  <2>7. /\ machine[Uid(w)].life = "live" => machine[Uid(w)].cleanup = "none"
        /\ Uid(w) \in LegacyUids => machine[Uid(w)].cleanup # "Succeeded"
        /\ machine[Uid(w)].owned /\ machine[Uid(w)].cleanup # "Succeeded" => claim = Uid(w)
        /\ ~ machine[Uid(w)].owned \/ machine[Uid(w)].cleanup = "Succeeded" =>
             (claim = Uid(w) /\ Uid(w) \notin LegacyUids => CleanHost)
    BY <1>0, <2>1
       DEF HostInv, HandlerInv, StepKept, Stages, LegacyKept, OwnershipKeepsClaim,
           FreeHostIsClean, At
  <2> QED
    BY <2>1, <2>2, <2>4, <2>5, <2>6, <2>7, RecordStep DEF PersistEffect, Moves
<1>2. CASE RecordOwnership(w)
  <2>1. worker[w].pc = "own"
    BY <1>2 DEF RecordOwnership, At
  <2>2. PersistEffect(w, "owned", TRUE)
    BY <1>0, <1>2, <2>1, PersistWrites DEF RecordOwnership, At
  <2>3. Moves(w, "claim", worker[w].outcome)
    BY <1>0, <1>2, GotoMoves DEF RecordOwnership
  <2>6. machine[Uid(w)].cleanup = "none" /\ claim = Uid(w)
    BY <1>0, <2>1 DEF HandlerInv, StepKept
  <2>4. StepKept(w)'
    <3>1. /\ Uid(w) \in Uids /\ Uid(w)' = Uid(w) /\ worker'[w].pc = "claim" /\ claim' = claim
          /\ machine[Uid(w)].life # "absent"
      BY <1>0, <2>1, <2>2, <2>3 DEF HandlerInv, StepKept, PersistEffect, Moves, At, Uid
    <3>2. /\ machine'[Uid(w)].life = machine[Uid(w)].life
          /\ machine'[Uid(w)].cleanup = "none" /\ machine'[Uid(w)].owned
      BY <2>2, <2>6 DEF PersistEffect
    <3>3. lateReceipt'[Uid(w)] = "none"
      BY <1>0, <2>1, <2>2, <3>1 DEF HandlerInv, StepKept, PersistEffect, ReceiptFenced
    <3> QED BY <2>6, <3>1, <3>2, <3>3 DEF StepKept, At
  <2>5. OutcomeKept(w)'
    BY <1>0, <2>2, <2>3, <2>6
       DEF HandlerInv, OutcomeKept, Released, PersistEffect, Moves, At, Uid, BootstrappedBy,
           remoteVars
  <2> QED
    BY <2>1, <2>2, <2>3, <2>4, <2>5, <2>6, RecordStep DEF PersistEffect, Moves
<1> QED BY <1>1, <1>2

\* record_cleanup: success is recorded only of a host that is clean, and no
\* later record replaces it.
LEMMA CleanupRecordsKeep ==
  ASSUME LifecycleInv, NEW w \in Workers,
         RecordSucceeded(w) \/ RecordRunning(w) \/ RecordFailed(w)
  PROVE  Kept
<1> USE DEF Steps, BindSteps, BootstrapSteps, DeleteSteps, CleanupSteps, ReconcileSteps,
            HolderSteps, UnstartedSteps, OwnedSteps, FailureSteps, UnrecordedSteps,
            RecordedSteps, SettledSteps
<1>0. TypeInv /\ HostInv /\ HandlerInv(w) /\ (~ At(w, "idle") => Uid(w) \in Uids)
  BY DEF LifecycleInv, TypeInv, WorkerShape
<1>1. CASE RecordSucceeded(w)
  <2>1. worker[w].pc \in {"notRequired", "nothing", "confirm", "succeeded"}
    BY <1>1 DEF RecordSucceeded
  <2>2. PersistEffect(w, "cleanup", "Succeeded")
    BY <1>0, <1>1, <2>1, PersistWrites DEF RecordSucceeded, At
  <2>3. machine[Uid(w)].life # "live"
    BY <1>0, <2>1 DEF HandlerInv, StepKept
  <2>4. Uid(w) \notin LegacyUids
    BY <1>0, <2>1
       DEF HostInv, LegacyKept, HandlerInv, StepKept, CleanHost, KubernetesState, At
  <2>5. claim = Uid(w) => CleanHost
    BY <1>0, <2>1, <2>4 DEF HostInv, FreeHostIsClean, HandlerInv, StepKept, At
  <2>6. CASE At(w, "nothing")
    <3>0. Done(w, "deleted")
      BY <1>1, <2>6 DEF RecordSucceeded, At
    <3>1. Moves(w, "end", "deleted")
      BY <1>0, <3>0, DoneMoves DEF Outcomes
    <3>2. StepKept(w)' /\ OutcomeKept(w)'
      BY <1>0, <2>2, <2>3, <2>6, <3>1
         DEF HandlerInv, StepKept, OutcomeKept, Released, PersistEffect, ReceiptFenced, Moves, At, Uid
    <3> QED
      BY <2>1, <2>2, <2>3, <2>4, <2>5, <3>1, <3>2, RecordStep DEF PersistEffect, Moves
  <2>7. CASE ~ At(w, "nothing")
    <3>1. PICK pc \in {"available", "recorded"} :
            Goto(w, pc) /\ (pc = "recorded" <=> At(w, "succeeded"))
      BY <1>1, <2>7 DEF RecordSucceeded, At
    <3>2. Moves(w, pc, worker[w].outcome)
      BY <1>0, <3>1, GotoMoves
    <3>3. StepKept(w)'
      BY <1>0, <2>1, <2>2, <2>3, <3>1, <3>2
         DEF HandlerInv, StepKept, PersistEffect, ReceiptFenced, Moves, At, Uid
    <3>4. OutcomeKept(w)'
      BY <1>0, <2>2, <2>3, <3>1, <3>2
         DEF HandlerInv, OutcomeKept, Released, PersistEffect, Moves, At, Uid
    <3> QED
      BY <2>1, <2>2, <2>3, <2>4, <2>5, <3>2, <3>3, <3>4, RecordStep DEF PersistEffect, Moves
  <2> QED BY <2>6, <2>7
<1>2. CASE RecordRunning(w) \/ RecordFailed(w)
  <2>1. worker[w].pc \in {"running", "recordFailed"}
    BY <1>2 DEF RecordRunning, RecordFailed, At
  <2>2. PersistEffect(w, "cleanup", "Running") \/ PersistEffect(w, "cleanup", "Failed")
    BY <1>0, <1>2, <2>1, PersistWrites DEF RecordRunning, RecordFailed, At
  <2>3. /\ machine[Uid(w)].life # "live" /\ machine[Uid(w)].owned
        /\ machine[Uid(w)].cleanup # "Succeeded" \/ lateReceipt[Uid(w)] = "landed"
    BY <1>0, <2>1 DEF HandlerInv, StepKept
  <2>4. claim = Uid(w)
    BY <1>0, <2>1, <2>3 DEF HostInv, OwnershipKeepsClaim, LateReceiptsTrue, At
  <2>5. PICK pc \in {"cleanLease", "end"} : Goto(w, pc) /\ (pc = "cleanLease" => At(w, "running"))
    BY <1>2 DEF RecordRunning, RecordFailed
  <2>6. Moves(w, pc, worker[w].outcome)
    BY <1>0, <2>5, GotoMoves
  <2>7. StepKept(w)'
    <3>1. worker'[w].pc \in {"cleanLease", "end"} /\ worker'[w].uid = Uid(w)
      BY <2>6 DEF Moves, Uid
    <3>2. /\ machine'[Uid(w)].owned = machine[Uid(w)].owned
          /\ machine'[Uid(w)].life = machine[Uid(w)].life
          /\ machine'[Uid(w)].cleanup # "Succeeded"
      BY <2>2 DEF PersistEffect
    <3>3. worker'[w].pc = "cleanLease" => lateReceipt'[Uid(w)] = "none"
      <4>1. At(w, "running") => lateReceipt[Uid(w)] = "none"
        BY <1>0 DEF HandlerInv, StepKept, At
      <4> QED BY <1>0, <2>1, <2>2, <2>5, <2>6, <4>1 DEF PersistEffect, ReceiptFenced, Moves, At
    <3>4. machine[Uid(w)].life # "absent"
      BY <1>0, <2>1 DEF HandlerInv, StepKept, At
    <3> QED BY <2>3, <3>1, <3>2, <3>3, <3>4 DEF StepKept, At, Uid
  <2>8. OutcomeKept(w)'
    BY <1>0, <2>2, <2>3, <2>4, <2>5, <2>6
       DEF HandlerInv, OutcomeKept, Released, PersistEffect, Moves, At, Uid
  <2> QED
    BY <2>1, <2>2, <2>3, <2>4, <2>6, <2>7, <2>8, RecordStep DEF PersistEffect, Moves
<1> QED BY <1>1, <1>2

-----------------------------------------------------------------------------
(* The claim *)

\* A clean host is claimed or released by a handler.  No Machine has it
\* before and after, except the handler's own, and no other handler of that
\* Machine is under way.
LEMMA ClaimStep ==
  ASSUME LifecycleInv, NEW w \in Workers, worker[w].pc \notin {"idle", "patch"},
         UNCHANGED <<remoteVars, machine, lateReceipt, lock>>, lateHost' = {},
         \A u \in Workers \ {w} : worker'[u] = worker[u] /\ (u \in current' => u \in current),
         worker'[w].uid = worker[w].uid,
         CleanHost, lateReceipt[Uid(w)] = "none",
         \/ claim = None /\ claim' = Uid(w) /\ machine[Uid(w)].cleanup = "none"
         \/ claim = Uid(w) /\ claim' = None /\ machine[Uid(w)].cleanup = "Succeeded",
         StepKept(w)', OutcomeKept(w)'
  PROVE  Kept
<1> DEFINE m == Uid(w)
<1>0. /\ TypeInv /\ HostInv
      /\ m \in Uids /\ None \notin Uids /\ LegacyUids \subseteq Uids
      /\ \A u \in Workers : HandlerInv(u) /\ (~ At(u, "idle") => Uid(u) \in Uids)
  BY LifecycleAssumption, HostAssumption DEF LifecycleInv, TypeInv, WorkerShape, At
<1>1. owner = None /\ ~ k8s /\ reset = "none" /\ CleanHost'
  BY DEF CleanHost, NothingOwned, KubernetesState, remoteVars
<1>2. HostSpared
  BY <1>0, <1>1 DEF HostSpared, BootstrappedBy
<1>3. HostInv'
  <2>1. OwnerHoldsClaim' /\ FreeHostIsClean' /\ ResetIsDeletion'
    BY <1>1 DEF OwnerHoldsClaim, FreeHostIsClean, ResetIsDeletion, remoteVars
  <2>2. OwnershipKeepsClaim'
    BY <1>0 DEF HostInv, OwnershipKeepsClaim
  <2>3. Stages'
    BY <1>0 DEF HostInv, Stages, Released
  <2>4. HostUsedByMachine'
    BY <1>0 DEF HostInv, HostUsedByMachine, HandlerInv, StepKept, At, remoteVars
  <2>5. ProvisionedByOwnReceipt' /\ LegacyKept'
    BY <1>0, <1>1 DEF HostInv, ProvisionedByOwnReceipt, LegacyKept
  <2>6. LatePatchesHarmless' /\ LateReceiptsTrue'
    BY <1>0 DEF HostInv, LatePatchesHarmless, LateReceiptsTrue
  <2> QED BY <2>1, <2>2, <2>3, <2>4, <2>5, <2>6 DEF HostInv
<1>4. HandlerInv(w)'
  BY <1>0 DEF HandlerInv, LockHeld, Uid
<1>5. ASSUME NEW u \in Workers \ {w} PROVE HandlerInv(u)'
  <2>1. StepSpared(u)
    <3>1. CASE Uid(u) = m
      BY <1>0, <3>1, AloneUnderLock DEF StepSpared
    <3>2. CASE Uid(u) # m
      BY <1>0, <3>2 DEF StepSpared, At
    <3> QED BY <3>1, <3>2
  <2>2. OutcomeSpared(u)
    <3>1. ~ At(u, "idle") => Uid(u) \in Uids /\ machine[Uid(u)].life # "absent"
      BY <1>0 DEF HandlerInv, StepKept
    <3> QED BY <1>0, <3>1 DEF OutcomeSpared, Released, Uid
  <2> QED BY <1>0, <1>2, <2>1, <2>2, SparedKeeps
<1> QED BY <1>3, <1>4, <1>5 DEF Kept

\* _select_host finds the own claim again, or claims a host nobody has.
LEMMA SelectKeeps ==
  ASSUME LifecycleInv, NEW w \in Workers, Select(w)
  PROVE  Kept
<1> USE DEF Steps, BindSteps, BootstrapSteps, DeleteSteps, CleanupSteps, ReconcileSteps,
            HolderSteps, UnstartedSteps, OwnedSteps, FailureSteps, UnrecordedSteps,
            RecordedSteps, SettledSteps
<1>0. TypeInv /\ HostInv /\ HandlerInv(w)
  BY DEF LifecycleInv
<1>1. worker[w].pc \in {"select", "reselect"}
  BY DEF Select
<1>2. CASE Goto(w, "end") /\ NoWrite
  <2>1. Moves(w, "end", worker[w].outcome)
    BY <1>0, <1>2, GotoMoves
  <2> QED BY <1>1, <1>2, <2>1, QuietEnd DEF NoWrite, apiVars
<1>3. CASE claim = Uid(w) /\ Goto(w, "spec") /\ NoWrite
  <2>1. Moves(w, "spec", worker[w].outcome)
    BY <1>0, <1>3, GotoMoves
  <2>2. StepKept(w)'
    BY <1>0, <1>1, <1>3, <2>1 DEF HandlerInv, StepKept, Moves, At, Uid, NoWrite, apiVars
  <2> QED BY <1>1, <1>3, <2>1, <2>2, QuietGoto DEF NoWrite, apiVars
<1>4. CASE claim = None /\ PatchHost(Uid(w), phase, {}) /\ Goto(w, "spec")
  <2>1. Moves(w, "spec", worker[w].outcome)
    BY <1>0, <1>4, GotoMoves
  <2>0. Uid(w) # None
    BY <1>0, <1>1, HostAssumption DEF TypeInv, WorkerShape, At
  <2>2. /\ UNCHANGED <<remoteVars, machine, lateReceipt, lock>>
        /\ claim' = Uid(w) /\ current' = {} /\ lateHost' = {}
    BY <1>4, <2>0 DEF PatchHost
  <2>3. machine[Uid(w)].cleanup = "none" /\ CleanHost /\ lateReceipt[Uid(w)] = "none"
    BY <1>0, <1>1, <1>4 DEF HostInv, FreeHostIsClean, HandlerInv, StepKept
  <2>4. StepKept(w)'
    BY <1>0, <1>1, <2>1, <2>2 DEF HandlerInv, StepKept, Moves, At, Uid
  <2>5. OutcomeKept(w)'
    BY <1>0, <1>1, <2>1, <2>2, <2>3
       DEF HandlerInv, OutcomeKept, Released, Moves, At, Uid, BootstrappedBy, remoteVars
  <2> QED BY <1>1, <1>4, <2>1, <2>2, <2>3, <2>4, <2>5, ClaimStep DEF Moves
<1> QED BY <1>2, <1>3, <1>4 DEF Select

\* release_host: the phase first, then the claim with the version of that
\* patch, so that the claim it clears is still the own one.
LEMMA ReleaseKeeps ==
  ASSUME LifecycleInv, NEW w \in Workers, MakeAvailable(w) \/ ClearClaim(w)
  PROVE  Kept
<1> USE DEF Steps, BindSteps, BootstrapSteps, DeleteSteps, CleanupSteps, ReconcileSteps,
            HolderSteps, UnstartedSteps, OwnedSteps, FailureSteps, UnrecordedSteps,
            RecordedSteps, SettledSteps
<1>0. /\ TypeInv /\ HostInv /\ HandlerInv(w)
      /\ ~ At(w, "idle") => Uid(w) \in Uids /\ Uid(w) # None
  BY HostAssumption DEF LifecycleInv, TypeInv, WorkerShape
<1>1. worker[w].pc \in {"available", "unclaim"}
  BY DEF MakeAvailable, ClearClaim, At
<1>2. machine[Uid(w)].cleanup = "Succeeded" /\ Uid(w) \in Uids /\ Uid(w) # None
  BY <1>0, <1>1 DEF HandlerInv, StepKept, At
<1>3. CASE Goto(w, "end") /\ NoWrite
  <2>1. Moves(w, "end", worker[w].outcome)
    BY <1>0, <1>3, GotoMoves
  <2> QED BY <1>1, <1>3, <2>1, QuietEnd DEF NoWrite, apiVars
<1>4. CASE claim = Uid(w) /\ PatchHost(claim, "Available", {w}) /\ Goto(w, "unclaim")
  <2>1. Moves(w, "unclaim", worker[w].outcome)
    BY <1>0, <1>4, GotoMoves
  <2>2. /\ UNCHANGED <<remoteVars, machine, claim, stray, lateReceipt, lock>>
        /\ current' \subseteq current \union {w} /\ lateHost' \subseteq lateHost
    BY <1>0, <1>4 DEF PatchHost, TypeInv, TypeOK
  <2>3. StepKept(w)'
    BY <1>0, <1>1, <1>4, <2>1, <2>2 DEF HandlerInv, StepKept, Moves, At, Uid
  <2> QED BY <1>1, <2>1, <2>2, <2>3, QuietGoto
<1>5. CASE claim = None /\ Done(w, "deleted") /\ NoWrite
  <2>1. Moves(w, "end", "deleted")
    BY <1>0, <1>5, DoneMoves DEF Outcomes
  <2>2. UNCHANGED <<remoteVars, machine, claim, stray, lateReceipt, lock, current, lateHost>>
    BY <1>5 DEF NoWrite, apiVars
  <2>3. StepKept(w)'
    BY <1>0, <1>1, <2>1, <2>2 DEF HandlerInv, StepKept, Moves, At, Uid
  <2>4. OutcomeKept(w)'
    BY <1>2, <1>5, <2>1, <2>2 DEF OutcomeKept, Released, Moves, At, Uid
  <2> QED BY <1>1, <2>1, <2>2, <2>3, <2>4, QuietStep DEF Moves, LateSpared
<1>6. CASE At(w, "unclaim") /\ w \in current /\ PatchHost(None, phase, {}) /\ Done(w, "deleted")
  <2>1. Moves(w, "end", "deleted")
    BY <1>0, <1>6, DoneMoves DEF Outcomes
  <2>3. claim = Uid(w) /\ lateReceipt[Uid(w)] = "none"
    BY <1>0, <1>6 DEF HandlerInv, StepKept, At
  <2>2. /\ UNCHANGED <<remoteVars, machine, lateReceipt, lock>>
        /\ claim' = None /\ current' = {} /\ lateHost' = {}
    BY <1>2, <1>6, <2>3 DEF PatchHost
  <2>4. CleanHost
    BY <1>0, <1>2, <2>3 DEF HostInv, FreeHostIsClean, Stages, LegacyKept, HandlerInv, StepKept, At
  <2>5. StepKept(w)'
    BY <1>0, <1>1, <2>1, <2>2 DEF HandlerInv, StepKept, Moves, At, Uid
  <2>6. OutcomeKept(w)'
    BY <1>2, <2>1, <2>2 DEF OutcomeKept, Released, Moves, At, Uid
  <2> QED BY <1>1, <1>2, <2>1, <2>2, <2>3, <2>4, <2>5, <2>6, ClaimStep DEF Moves
<1> QED BY <1>3, <1>4, <1>5, <1>6 DEF MakeAvailable, ClearClaim

-----------------------------------------------------------------------------
(* Commands and their results *)

\* A step that moves one handler and keeps HostInv and what others rely on.
LEMMA HandlerStep ==
  ASSUME LifecycleInv, NEW w \in Workers, worker[w].pc \notin {"idle", "patch"},
         UNCHANGED <<machine, claim, current, stray, lateReceipt, lock>>, HostInv', HostSpared,
         \A u \in Workers \ {w} : worker'[u] = worker[u],
         worker'[w].uid = worker[w].uid,
         StepKept(w)', OutcomeKept(w)'
  PROVE  Kept
<1>0. TypeInv /\ \A u \in Workers : HandlerInv(u)
  BY DEF LifecycleInv
<1>1. HandlerInv(w)'
  BY <1>0 DEF HandlerInv, LockHeld, Uid
<1>2. ASSUME NEW u \in Workers \ {w} PROVE HandlerInv(u)'
  <2>1. StepSpared(u)
    BY <1>0 DEF StepSpared, TypeInv, TypeOK
  <2>2. OutcomeSpared(u)
    <3>1. ~ At(u, "idle") => machine[Uid(u)].life # "absent"
      BY <1>0 DEF HandlerInv, StepKept
    <3> QED BY <3>1 DEF OutcomeSpared, Released, Uid
  <2> QED BY <1>0, <2>1, <2>2, SparedKeeps
<1> QED BY <1>1, <1>2 DEF Kept

\* The result of the bootstrap: a receipt that the Machine can observe is its
\* own, and it stays while the Machine lives.
LEMMA ObserveKeeps ==
  ASSUME LifecycleInv, NEW w \in Workers, Observe(w) \/ CheckReadiness(w)
  PROVE  Kept
<1> USE DEF Steps, BindSteps, BootstrapSteps, DeleteSteps, CleanupSteps, ReconcileSteps,
            HolderSteps, UnstartedSteps, OwnedSteps, FailureSteps, UnrecordedSteps,
            RecordedSteps, SettledSteps
<1>0. /\ TypeInv /\ RemoteInv /\ HostInv /\ HandlerInv(w)
      /\ ~ At(w, "idle") => Uid(w) \in Uids /\ Uid(w) # None
  BY HostAssumption DEF LifecycleInv, TypeInv, WorkerShape
<1>1. worker[w].pc \in {"observe", "readiness"}
  BY DEF Observe, CheckReadiness, At
<1>2. UNCHANGED <<remoteVars, machine, claim, stray, lateReceipt, lock, current, lateHost>>
  BY DEF Observe, CheckReadiness, NoWrite, apiVars
<1>3. CASE Done(w, "none") \/ Done(w, "unprovisioned")
  <2>1. PICK outcome \in {"none", "unprovisioned"} : Done(w, outcome)
    BY <1>3
  <2>2. Moves(w, "end", outcome)
    BY <1>0, <2>1, DoneMoves DEF Outcomes
  <2> QED BY <1>1, <1>2, <2>2, QuietEnd
<1>4. CASE At(w, "readiness") /\ Done(w, "provisioned")
  <2>1. Moves(w, "end", "provisioned")
    BY <1>0, <1>4, DoneMoves DEF Outcomes
  <2>2. StepKept(w)'
    BY <1>0, <1>1, <1>2, <2>1 DEF HandlerInv, StepKept, Moves, At, Uid
  <2>3. OutcomeKept(w)'
    BY <1>0, <1>2, <1>4, <2>1
       DEF HandlerInv, OutcomeKept, Released, Moves, At, Uid, BootstrappedBy, remoteVars
  <2> QED BY <1>1, <1>2, <2>1, <2>2, <2>3, QuietStep DEF Moves, LateSpared
<1>5. CASE owner = Uid(w) /\ receipt.code = "ok" /\ Goto(w, "readiness")
  <2>1. Moves(w, "readiness", worker[w].outcome)
    BY <1>0, <1>5, GotoMoves
  <2>2. BootstrappedBy(Uid(w))
    <3>1. receipt \in [by : Uids, code : Codes] /\ receipt # NoReceipt
      BY <1>0, <1>5 DEF RemoteInv, Fence, RemoteTypeOK, NoReceipt
    <3>2. receipt.by = owner /\ claim = owner
      BY <1>0, <1>1, <1>5, <3>1
         DEF RemoteInv, Ownership, ReceiptOfOwner, HostInv, OwnerHoldsClaim, At
    <3> QED BY <1>5, <3>1, <3>2 DEF BootstrappedBy
  <2>3. StepKept(w)'
    BY <1>0, <1>1, <1>2, <2>1 DEF HandlerInv, StepKept, Moves, At, Uid
  <2>4. OutcomeKept(w)'
    BY <1>0, <1>2, <2>1, <2>2
       DEF HandlerInv, OutcomeKept, Released, Moves, At, Uid, BootstrappedBy, remoteVars
  <2> QED BY <1>1, <1>2, <2>1, <2>3, <2>4, QuietStep DEF Moves, LateSpared
<1>6. CASE At(w, "observe") /\ Goto(w, "quarantine")
  <2>1. Moves(w, "quarantine", worker[w].outcome)
    BY <1>0, <1>6, GotoMoves
  <2>2. StepKept(w)'
    BY <1>0, <1>2, <1>6, <2>1 DEF HandlerInv, StepKept, Moves, At, Uid
  <2> QED BY <1>1, <1>2, <2>1, <2>2, QuietGoto
<1> QED BY <1>3, <1>4, <1>5, <1>6 DEF Observe, CheckReadiness

\* A patch of the SSHHost that a handler gives up is harmless.
LEMMA GivenUpIsHarmless ==
  ASSUME LifecycleInv, NEW w \in Workers, ~ At(w, "idle"), GivesUp(w)
  PROVE  \A r \in lateHost' : r \in lateHost \/ HarmlessPatch(r)
<1> SUFFICES ASSUME NEW r \in HostPatch(w) PROVE HarmlessPatch(r)
  BY DEF GivesUp
<1>0. /\ HostInv /\ HandlerInv(w) /\ None \notin Uids /\ LegacyUids \subseteq Uids
      /\ Uid(w) \in Uids /\ machine[Uid(w)].life # "absent"
  BY LifecycleAssumption, HostAssumption
     DEF LifecycleInv, TypeInv, WorkerShape, HandlerInv, StepKept
<1>1. CASE At(w, "select") /\ claim = None /\ r = [claim |-> Uid(w), phase |-> phase]
  <2>1. machine[Uid(w)].cleanup = "none"
    BY <1>0, <1>1 DEF HandlerInv, StepKept, ReconcileSteps, BindSteps, At
  <2>2. ~ machine[Uid(w)].owned /\ Uid(w) \notin LegacyUids
    BY <1>0, <1>1, <2>1 DEF HostInv, OwnershipKeepsClaim, LegacyKept
  <2> QED BY <1>0, <1>1, <2>2 DEF HarmlessPatch
<1>2. CASE r.claim = claim /\ claim = Uid(w)
  BY <1>0, <1>2 DEF HarmlessPatch
<1>3. CASE At(w, "unclaim") /\ w \in current /\ r = [claim |-> None, phase |-> phase]
  <2>1. /\ claim = Uid(w) /\ machine[Uid(w)].cleanup = "Succeeded"
        /\ lateReceipt[Uid(w)] = "none"
    BY <1>0, <1>3
       DEF HandlerInv, StepKept, RecordedSteps, SettledSteps, FailureSteps, Steps, DeleteSteps, At
  <2> QED BY <1>0, <1>3, <2>1 DEF HarmlessPatch
<1> QED BY <1>1, <1>2, <1>3 DEF HostPatch

\* A call that fails ends the handler, or enters delete_machine's exception
\* handler; a receipt that is given up is a true one.
LEMMA RaiseKeeps ==
  ASSUME LifecycleInv, NEW w \in Workers, Raise(w)
  PROVE  Kept
<1> USE DEF Steps, BindSteps, BootstrapSteps, DeleteSteps, CleanupSteps, ReconcileSteps,
            HolderSteps, UnstartedSteps, OwnedSteps, FailureSteps, UnrecordedSteps,
            RecordedSteps, SettledSteps
<1>0. TypeInv /\ HandlerInv(w)
  BY DEF LifecycleInv
<1>1. worker[w].pc \notin {"idle", "patch"}
  BY DEF Raise, At
<1>2. /\ UNCHANGED <<remoteVars, machine, claim, stray, lock, current>>
      /\ \A r \in lateHost' : r \in lateHost \/ HarmlessPatch(r)
  BY GivenUpIsHarmless DEF Raise
<1>3. CASE lateReceipt' = lateReceipt /\ (Done(w, "none") \/ Done(w, "unprovisioned"))
  <2>1. PICK outcome \in {"none", "unprovisioned"} : Done(w, outcome)
    BY <1>3
  <2>2. Moves(w, "end", outcome)
    BY <1>0, <2>1, DoneMoves DEF Outcomes
  <2> QED BY <1>1, <1>2, <1>3, <2>2, QuietEnd
<1>4. CASE worker[w].pc \in CleanupSteps \union {"cleanLease"} /\ Goto(w, "failed")
  <2>1. Moves(w, "failed", worker[w].outcome)
    BY <1>0, <1>4, GotoMoves
  <2>2. StepKept(w)'
    BY <1>0, <1>2, <1>4, <2>1 DEF HandlerInv, StepKept, Moves, At, Uid
  <2>3. OutcomeKept(w)'
    BY <1>0, <1>2, <2>1
       DEF HandlerInv, OutcomeKept, Released, Moves, At, Uid, BootstrappedBy, remoteVars
  <2>4. CASE lateReceipt' = lateReceipt
    BY <1>1, <1>2, <2>1, <2>2, <2>4, QuietGoto
  <2>5. CASE At(w, "succeeded") /\ lateReceipt' = [lateReceipt EXCEPT ![Uid(w)] = "sent"]
    <3>1. /\ HostInv /\ Uid(w) \in Uids
          /\ lateReceipt \in [Uids -> {"none", "sent", "landed"}]
      BY <1>1 DEF LifecycleInv, TypeInv, TypeOK, WorkerShape, At
    <3>2. /\ CleanHost /\ machine[Uid(w)].owned /\ machine[Uid(w)].cleanup # "Succeeded"
          /\ machine[Uid(w)].life \notin {"absent", "live"}
      BY <1>0, <2>5 DEF HandlerInv, StepKept, At
    <3>3. claim = Uid(w)
      BY <3>1, <3>2 DEF HostInv, OwnershipKeepsClaim
    <3>4. LateSpared /\ \A n \in Uids \ {Uid(w)} : lateReceipt'[n] = lateReceipt[n]
      BY <1>2, <2>5, <3>1, <3>2, <3>3 DEF LateSpared
    <3> QED BY <1>1, <1>2, <2>1, <2>2, <2>3, <3>4, QuietStep DEF Moves
  <2> QED BY <2>4, <2>5 DEF Raise
<1> QED BY <1>3, <1>4 DEF Raise, At

\* A handler's claim of the host: consumerRef names its Machine, ownership is
\* recorded and the cleanup has not begun.
LEMMA ClaimGrantedKeeps ==
  ASSUME LifecycleInv, NEW w \in Workers, At(w, "claim"), ClaimGranted(Uid(w)),
         UNCHANGED <<machine, claim, stray, lateReceipt, lateHost>>
  PROVE  HostInv' /\ HostSpared
<1> DEFINE m == Uid(w)
<1>0. /\ TypeInv /\ RemoteInv /\ HostInv /\ m \in Uids /\ m # None /\ LegacyUids \subseteq Uids
      /\ claim = m /\ machine[m].owned /\ machine[m].cleanup = "none" /\ lateReceipt[m] = "none"
      /\ \A u \in Workers : HandlerInv(u) /\ (~ At(u, "idle") => Uid(u) \in Uids)
  BY LifecycleAssumption, HostAssumption
     DEF LifecycleInv, TypeInv, WorkerShape, HandlerInv, StepKept, At, ReconcileSteps,
         HolderSteps, SettledSteps, FailureSteps, Steps, BootstrapSteps
<1>1. CASE owner = m
  <2>1. UNCHANGED <<remoteVars, machine, claim>>
    BY <1>0, <1>1 DEF ClaimGranted, remoteVars
  <2> QED BY <1>0, <2>1, HostInvUntouched DEF LateSpared
<1>2. CASE owner # m
  <2>1. /\ owner = None /\ ~ KubernetesState /\ reset = "none"
        /\ owner' = m /\ proven' = FALSE /\ reset' = "none"
    BY <1>2 DEF ClaimGranted, FlockFree
  <2>2. OwnerHoldsClaim' /\ ResetIsDeletion'
    BY <1>0, <2>1 DEF OwnerHoldsClaim, ResetIsDeletion
  <2>3. FreeHostIsClean'
    BY <1>0 DEF FreeHostIsClean
  <2>4. OwnershipKeepsClaim' /\ Stages' /\ LatePatchesHarmless'
    BY <1>0
       DEF HostInv, OwnershipKeepsClaim, Stages, Released, LatePatchesHarmless, HarmlessPatch
  <2>a. LateReceiptsTrue'
    BY <1>0 DEF HostInv, LateReceiptsTrue
  <2>5. HostUsedByMachine'
    BY <1>0, <2>1 DEF HostInv, HostUsedByMachine
  <2>6. ProvisionedByOwnReceipt' /\ LegacyKept'
    BY <1>0, <2>1, HostAssumption
       DEF HostInv, ProvisionedByOwnReceipt, LegacyKept, KubernetesState
  <2>7. ASSUME NEW u \in Workers, At(u, "succeeded") PROVE FALSE
    <3>1. Uid(u) \in Uids /\ machine[Uid(u)].owned /\ machine[Uid(u)].cleanup # "Succeeded"
      BY <1>0, <2>7
         DEF HandlerInv, StepKept, OwnedSteps, FailureSteps, UnrecordedSteps, CleanupSteps, At
    <3>2. Uid(u) = m
      BY <1>0, <3>1 DEF HostInv, OwnershipKeepsClaim
    <3> QED BY <1>0, <2>7, <3>2, AloneUnderLock DEF At
  <2>8. HostSpared
    BY <1>0, <2>1, <2>7, HostAssumption DEF HostSpared, BootstrappedBy
  <2> QED BY <2>2, <2>3, <2>4, <2>5, <2>6, <2>8, <2>a DEF HostInv
<1> QED BY <1>1, <1>2

\* A handler's reset of the host: the Machine is under deletion and has no
\* cleanup receipt.
LEMMA ResetBeginsKeeps ==
  ASSUME LifecycleInv, NEW w \in Workers, At(w, "reset"), ResetBegins(Uid(w)),
         UNCHANGED <<machine, claim, stray, lateReceipt, lateHost>>
  PROVE  HostInv' /\ HostSpared
<1> DEFINE m == Uid(w)
<1>0. /\ TypeInv /\ HostInv /\ m \in Uids /\ m # None /\ LegacyUids \subseteq Uids
      /\ machine[m].owned /\ machine[m].cleanup # "Succeeded" /\ machine[m].life # "live"
  BY LifecycleAssumption, HostAssumption
     DEF LifecycleInv, TypeInv, WorkerShape, HandlerInv, StepKept, At, OwnedSteps,
         FailureSteps, UnrecordedSteps, DeleteSteps, CleanupSteps
<1>1. owner = m /\ claim = m /\ reset = "none"
  BY <1>0 DEF ResetBegins, FlockFree, HostInv, OwnershipKeepsClaim
<1>2. /\ owner' = owner /\ receipt' = receipt /\ k8s' = k8s /\ proven' = proven
  BY DEF ResetBegins
<1>3. OwnerHoldsClaim' /\ ResetIsDeletion'
  BY <1>0, <1>1, <1>2 DEF OwnerHoldsClaim, ResetIsDeletion
<1>4. FreeHostIsClean'
  BY <1>0, <1>1 DEF FreeHostIsClean
<1>5. OwnershipKeepsClaim' /\ Stages' /\ HostUsedByMachine' /\ LatePatchesHarmless'
  BY <1>0, <1>2
     DEF HostInv, OwnershipKeepsClaim, Stages, Released, HostUsedByMachine, LatePatchesHarmless,
         HarmlessPatch
<1>a. LateReceiptsTrue'
  BY <1>0, <1>1 DEF HostInv, LateReceiptsTrue, CleanHost, NothingOwned
<1>6. ProvisionedByOwnReceipt' /\ LegacyKept'
  BY <1>0, <1>1, <1>2 DEF HostInv, ProvisionedByOwnReceipt, LegacyKept
<1>7. HostSpared
  BY <1>0, <1>1, <1>2 DEF HostSpared, CleanHost, NothingOwned, BootstrappedBy
<1> QED BY <1>3, <1>4, <1>5, <1>6, <1>7, <1>a DEF HostInv

\* The commands of a bootstrap: claim, upload and launch.
LEMMA BootstrapCommandsKeep ==
  ASSUME LifecycleInv, NEW w \in Workers, RemoteClaim(w) \/ UploadScript(w) \/ LaunchJob(w)
  PROVE  Kept
<1> USE DEF Steps, BindSteps, BootstrapSteps, DeleteSteps, CleanupSteps, ReconcileSteps,
            HolderSteps, UnstartedSteps, OwnedSteps, FailureSteps, UnrecordedSteps,
            RecordedSteps, SettledSteps
<1>0. /\ TypeInv /\ RemoteInv /\ HostInv /\ HandlerInv(w)
      /\ worker \in [Workers -> WorkerRecords]
      /\ ~ At(w, "idle") => Uid(w) \in Uids /\ machine[Uid(w)].life # "absent"
  BY TypeParts DEF LifecycleInv, TypeInv, WorkerShape, WorkersTyped, HandlerInv, StepKept
<1>1. worker[w].pc \in {"claim", "upload", "launch"}
  BY DEF RemoteClaim, UploadScript, LaunchJob, At
<1>2. UNCHANGED <<machine, claim, lock, current, stray, lateReceipt, lateHost>>
  BY DEF RemoteClaim, UploadScript, LaunchJob, Remote, apiVars
<1>3. HostInv' /\ HostSpared
  <2>1. CASE InnerStep
    <3>1. ResetAlreadyClean => \E m \in Uids : machine[m].life # "absent"
      BY <1>0, <1>1 DEF At
    <3> QED BY <1>0, <1>2, <2>1, <3>1, InnerStepKeeps DEF LateSpared
  <2>2. CASE At(w, "claim") /\ ClaimGranted(Uid(w))
    BY <1>2, <2>2, ClaimGrantedKeeps
  <2>3. CASE RemoteClaim(w)
    BY <2>1, <2>2, <2>3 DEF RemoteClaim, InnerStep, ClaimRefused
  <2>4. CASE UploadScript(w)
    BY <2>1, <2>4 DEF UploadScript, InnerStep, Fresh
  <2>5. CASE LaunchJob(w)
    <3>1. worker[w].attempt \in Attempts
      BY <1>0, <2>5 DEF LaunchJob, TypeInv, WorkerShape, At
    <3>2. InnerStep
      BY <2>5, <3>1 DEF LaunchJob, InnerStep, Launch
    <3> QED BY <2>1, <3>2
  <2> QED BY <2>3, <2>4, <2>5
<1>4. PICK pc \in {"check2", "mismatch", "recheck2", "observe", "end"} :
        /\ worker'[w].pc = pc /\ worker'[w].uid = worker[w].uid
        /\ worker'[w].outcome \in {worker[w].outcome, "unprovisioned"}
        /\ \A u \in Workers \ {w} : worker'[u] = worker[u]
  <2>1. ASSUME NEW a, worker' = [worker EXCEPT ![w].pc = "recheck2", ![w].attempt = a]
        PROVE  /\ worker'[w].pc = "recheck2" /\ worker'[w].uid = worker[w].uid
               /\ worker'[w].outcome = worker[w].outcome
               /\ \A u \in Workers \ {w} : worker'[u] = worker[u]
    BY <1>0, <2>1 DEF WorkerRecords
  <2>2. CASE \E a \in Fresh(Uid(w)) :
               worker' = [worker EXCEPT ![w].pc = "recheck2", ![w].attempt = a]
    BY <2>1, <2>2
  <2>3. ASSUME NEW pc \in {"check2", "mismatch", "observe", "end"}, Goto(w, pc)
        PROVE  /\ worker'[w].pc = pc /\ worker'[w].uid = worker[w].uid
               /\ worker'[w].outcome = worker[w].outcome
               /\ \A u \in Workers \ {w} : worker'[u] = worker[u]
    BY <1>0, <2>3, GotoMoves DEF Moves
  <2>4. CASE Done(w, "unprovisioned")
    BY <1>0, <2>4, DoneMoves DEF Moves, Outcomes
  <2> QED BY <2>2, <2>3, <2>4 DEF RemoteClaim, UploadScript, LaunchJob
<1>5. StepKept(w)'
  BY <1>0, <1>1, <1>2, <1>4 DEF HandlerInv, StepKept, At, Uid
<1>6. OutcomeKept(w)'
  BY <1>0, <1>1, <1>2, <1>3, <1>4 DEF HandlerInv, OutcomeKept, Released, HostSpared, At, Uid
<1> QED BY <1>1, <1>2, <1>3, <1>4, <1>5, <1>6, HandlerStep

\* The reset command: begun by the owner, refused, or without work to do.
LEMMA ResetKeeps ==
  ASSUME LifecycleInv, NEW w \in Workers, Reset(w)
  PROVE  Kept
<1> USE DEF Steps, BindSteps, BootstrapSteps, DeleteSteps, CleanupSteps, ReconcileSteps,
            HolderSteps, UnstartedSteps, OwnedSteps, FailureSteps, UnrecordedSteps,
            RecordedSteps, SettledSteps
<1>0. /\ TypeInv /\ RemoteInv /\ HostInv /\ HandlerInv(w)
      /\ ~ At(w, "idle") => Uid(w) \in Uids /\ machine[Uid(w)].life # "absent"
  BY DEF LifecycleInv, TypeInv, WorkerShape, HandlerInv, StepKept
<1>1. worker[w].pc = "reset"
  BY DEF Reset, At
<1>2. UNCHANGED <<machine, claim, lock, current, stray, lateReceipt, lateHost>>
  BY DEF Reset, Remote, apiVars
<1>3. HostInv' /\ HostSpared
  <2>1. CASE InnerStep
    <3>1. ResetAlreadyClean => \E m \in Uids : machine[m].life # "absent"
      BY <1>0, <1>1 DEF At
    <3> QED BY <1>0, <1>2, <2>1, <3>1, InnerStepKeeps DEF LateSpared
  <2>2. CASE ResetBegins(Uid(w))
    BY <1>1, <1>2, <2>2, ResetBeginsKeeps DEF At
  <2> QED BY <2>1, <2>2 DEF Reset, InnerStep, ResetRefused
<1>4. PICK pc \in {"resetting", "succeeded", "failed"} :
        Goto(w, pc) /\ (pc = "succeeded" => ResetAlreadyClean)
  BY DEF Reset
<1>5. Moves(w, pc, worker[w].outcome)
  BY <1>0, <1>4, GotoMoves
<1>6. pc = "succeeded" => CleanHost'
  BY <1>0, <1>4
     DEF ResetAlreadyClean, FlockFree, CleanHost, NothingOwned, KubernetesState, RemoteInv,
         Ownership, OwnerlessIsEmpty
<1>7. StepKept(w)'
  BY <1>0, <1>1, <1>2, <1>5, <1>6 DEF HandlerInv, StepKept, Moves, At, Uid
<1>8. OutcomeKept(w)'
  BY <1>0, <1>1, <1>2, <1>3, <1>4, <1>5
     DEF HandlerInv, OutcomeKept, Released, HostSpared, Moves, At, Uid
<1> QED BY <1>1, <1>2, <1>3, <1>5, <1>7, <1>8, HandlerStep DEF Moves

-----------------------------------------------------------------------------
(* The beginning and the end of a handler run *)

\* A handler begins with the lock that nobody has, at the step that the status
\* of its Machine asks for.
LEMMA BeginKeeps ==
  ASSUME LifecycleInv, LockCanExpire = FALSE, NEW w \in Workers, NEW m \in Uids, Begin(w, m)
  PROVE  Kept
<1> USE DEF Steps, BindSteps, BootstrapSteps, DeleteSteps, CleanupSteps, ReconcileSteps,
            HolderSteps, UnstartedSteps, OwnedSteps, FailureSteps, UnrecordedSteps,
            RecordedSteps, SettledSteps
<1>0. /\ TypeInv /\ RemoteInv /\ HostInv /\ \A u \in Workers : HandlerInv(u)
      /\ lock \in [Uids -> Workers \union {None}]
      /\ lateReceipt \in [Uids -> {"none", "sent", "landed"}] /\ stray \in BOOLEAN
      /\ machine[m] \in Machines
      /\ worker \in [Workers -> WorkerRecords]
      /\ \A u \in Workers : ~ At(u, "idle") => Uid(u) \in Uids
  BY TypeParts DEF LifecycleInv, TypeInv, ApiTyped, WorkersTyped, WorkerShape
<1>1. /\ UNCHANGED <<remoteVars, machine, claim, current, stray, lateHost>>
      /\ machine[m].life \in {"live", "deleting"}
      /\ lateReceipt' = [lateReceipt EXCEPT ![m] = "none"]
  BY DEF Begin, Present
<1>2. lock[m] = None /\ lock' = [lock EXCEPT ![m] = w]
  BY DEF Begin, LockFree
<1>3. HostInv' /\ HostSpared
  <2>1. LateSpared
    BY <1>0, <1>1 DEF LateSpared
  <2> QED BY <1>0, <1>1, <2>1, HostInvUntouched
<1>4. /\ \A u \in Workers \ {w} : worker'[u] = worker[u]
      /\ worker'[w].uid = m /\ worker'[w].outcome = "none"
      /\ worker'[w].pc = IF machine[m].life = "live" THEN ReconcileEntry(m) ELSE DeleteEntry(m)
  <2> HIDE DEF Steps
  <2> QED BY <1>0 DEF Begin, Idle
<1>5. ASSUME NEW u \in Workers \ {w} PROVE HandlerInv(u)'
  <2>1. StepSpared(u)
    BY <1>0, <1>1, <1>2, LifecycleAssumption DEF HandlerInv, LockHeld, StepSpared, At
  <2>2. OutcomeSpared(u)
    <3>1. ~ At(u, "idle") => machine[Uid(u)].life # "absent"
      BY <1>0 DEF HandlerInv, StepKept
    <3> QED BY <1>1, <1>4, <3>1 DEF OutcomeSpared, Released, Uid
  <2> QED BY <1>0, <1>3, <1>4, <2>1, <2>2, SparedKeeps
<1>6. HandlerInv(w)'
  <2>1. CASE machine[m].life = "live"
    <3>1. machine[m].cleanup = "none"
      BY <1>0, <2>1 DEF HostInv, Stages
    <3>2. worker'[w].pc \in {"bind", "select", "reselect"}
      BY <1>4, <2>1 DEF ReconcileEntry
    <3>3. LockHeld(w)' /\ StepKept(w)' /\ OutcomeKept(w)'
      BY <1>0, <1>1, <1>2, <1>4, <2>1, <3>1, <3>2 DEF LockHeld, StepKept, OutcomeKept, At, Uid
    <3> QED BY <3>3 DEF HandlerInv
  <2>2. CASE machine[m].life = "deleting"
    <3> DEFINE pc == worker'[w].pc
    <3>1. /\ machine[m].owned \in BOOLEAN /\ machine[m].allocated \in BOOLEAN
          /\ machine[m].providerID \in BOOLEAN /\ machine[m].provisioned \in BOOLEAN
      BY <1>0 DEF Machines
    <3>2. m \in LegacyUids => Provisioned(m)
      BY <1>0, <2>2 DEF HostInv, LegacyKept, Provisioned
    <3>3. \/ pc = "end" \/ pc = "legacy"
          \/ pc = "confirm" /\ machine[m].cleanup = "Succeeded"
          \/ pc = "cleaning" /\ machine[m].owned /\ machine[m].cleanup # "Succeeded"
          \/ /\ pc \in {"notRequired", "recoverSelected", "recover"}
             /\ ~ machine[m].owned /\ m \notin LegacyUids
      BY <1>4, <2>2, <3>1, <3>2 DEF DeleteEntry
    <3>4. LockHeld(w)' /\ OutcomeKept(w)'
      BY <1>0, <1>2, <1>4, <3>3 DEF LockHeld, OutcomeKept, At, Uid
    <3>5. StepKept(w)'
      BY <1>0, <1>1, <1>4, <2>2, <3>3 DEF StepKept, At, Uid
    <3> QED BY <3>4, <3>5 DEF HandlerInv
  <2> QED BY <1>1, <2>1, <2>2
<1> QED BY <1>3, <1>5, <1>6 DEF Kept

\* A handler that ends or dies gives up its own lock only; what it has staged
\* is applied later.
LEMMA LeaveKeeps ==
  ASSUME LifecycleInv, NEW w \in Workers, End(w) \/ Crash(w)
  PROVE  Kept
<1> USE DEF Steps, BindSteps, BootstrapSteps, DeleteSteps, CleanupSteps, ReconcileSteps,
            HolderSteps, UnstartedSteps, OwnedSteps, FailureSteps, UnrecordedSteps,
            RecordedSteps, SettledSteps
<1>0. /\ TypeInv /\ RemoteInv /\ HostInv /\ \A u \in Workers : HandlerInv(u)
      /\ lock \in [Uids -> Workers \union {None}]
      /\ lateReceipt \in [Uids -> {"none", "sent", "landed"}] /\ stray \in BOOLEAN
      /\ worker \in [Workers -> WorkerRecords]
      /\ \A u \in Workers : ~ At(u, "idle") => Uid(u) \in Uids
  BY TypeParts DEF LifecycleInv, TypeInv, ApiTyped, WorkersTyped, WorkerShape
<1>1. /\ UNCHANGED <<remoteVars, machine, claim, stray>> /\ ~ At(w, "idle")
      /\ \A u \in Workers \ {w} : u \in current' => u \in current
      /\ lock' = [lock EXCEPT ![Uid(w)] = IF @ = w THEN None ELSE @]
  BY DEF End, Crash, At
<1>a. ReceiptFenced(Uid(w))
  BY <1>0 DEF End, Crash, Written, ReceiptFenced
<1>2. HostInv' /\ HostSpared
  <2>1. \A r \in lateHost' : r \in lateHost \/ HarmlessPatch(r)
    BY <1>1, GivenUpIsHarmless DEF End, Crash
  <2>2. LateSpared
    BY <1>1, <1>a, <2>1 DEF LateSpared, ReceiptFenced
  <2> QED BY <1>0, <1>1, <2>2, HostInvUntouched
<1>3. /\ \A u \in Workers \ {w} : worker'[u] = worker[u]
      /\ \/ worker'[w].pc = "idle" /\ worker'[w].outcome = "none"
         \/ /\ worker'[w].pc = "patch" /\ worker'[w].uid = worker[w].uid
            /\ worker'[w].outcome = worker[w].outcome
  <2> HIDE DEF Steps
  <2> QED BY <1>0 DEF End, Crash, Idle, WorkerRecords
<1>4. ASSUME NEW u \in Workers \ {w} PROVE HandlerInv(u)'
  <2>1. StepSpared(u)
    BY <1>0, <1>1, <1>a DEF HandlerInv, LockHeld, StepSpared, ReceiptFenced, At
  <2>2. OutcomeSpared(u)
    <3>1. ~ At(u, "idle") => machine[Uid(u)].life # "absent"
      BY <1>0 DEF HandlerInv, StepKept
    <3> QED BY <1>1, <1>3, <3>1 DEF OutcomeSpared, Released, Uid
  <2> QED BY <1>0, <1>2, <1>3, <2>1, <2>2, SparedKeeps
<1>5. HandlerInv(w)'
  <2>1. LockHeld(w)'
    BY <1>3 DEF LockHeld
  <2>2. StepKept(w)'
    BY <1>0, <1>1, <1>3 DEF HandlerInv, StepKept, At, Uid
  <2>3. OutcomeKept(w)'
    BY <1>0, <1>1, <1>3 DEF HandlerInv, OutcomeKept, Released, BootstrappedBy, At, Uid, remoteVars
  <2> QED BY <2>1, <2>2, <2>3 DEF HandlerInv
<1> QED BY <1>2, <1>4, <1>5 DEF Kept

\* What Kopf's late patch can do to a Machine.
LEMMA PatchWrites ==
  ASSUME TypeInv, NEW w \in Workers, ApplyPatch(w)
  PROVE  LET m == Uid(w)
             outcome == worker[w].outcome
         IN  /\ m \in Uids
             /\ \A n \in Uids \ {m} : machine'[n] = machine[n]
             /\ machine'[m].owned = machine[m].owned
             /\ machine'[m].cleanup = machine[m].cleanup
             /\ machine[m].providerID => machine'[m].providerID
             /\ \/ machine'[m].life = machine[m].life
                \/ Present(m) /\ outcome = "deleted" /\ machine'[m].life = "gone"
             /\ machine'[m].provisioned => machine[m].provisioned \/ outcome = "provisioned"
             /\ ~ Present(m) => machine'[m] = machine[m]
<1> DEFINE m == Uid(w)
<1>1. /\ m \in Uids /\ machine \in [Uids -> Machines]
      /\ worker[w].outcome \in Outcomes \ {"none"}
  BY TypeParts
     DEF ApplyPatch, TypeInv, ApiTyped, WorkersTyped, WorkerShape, WorkerRecords, At
<1>2. machine[m] \in Machines
  BY <1>1
<1>3. /\ \A n \in Uids \ {m} : machine'[n] = machine[n]
      /\ \/ machine'[m] = machine[m]
         \/ /\ Present(m)
            /\ \/ /\ worker[w].outcome = "deleted"
                  /\ machine'[m] = [machine[m] EXCEPT !.life = "gone"]
               \/ machine'[m] = [machine[m] EXCEPT !.provisioned = FALSE]
               \/ machine'[m] = [machine[m] EXCEPT !.providerID = TRUE]
               \/ /\ worker[w].outcome = "provisioned"
                  /\ machine'[m] = [machine[m] EXCEPT !.provisioned = TRUE, !.providerID = TRUE]
      /\ ~ Present(m) => machine'[m] = machine[m]
  BY <1>1 DEF ApplyPatch, Outcomes
<1>4. /\ machine'[m].owned = machine[m].owned
      /\ machine'[m].cleanup = machine[m].cleanup
      /\ machine[m].providerID => machine'[m].providerID
      /\ machine'[m].provisioned => machine[m].provisioned \/ worker[w].outcome = "provisioned"
  BY <1>2, <1>3 DEF Machines
<1>5. \/ machine'[m].life = machine[m].life
      \/ Present(m) /\ worker[w].outcome = "deleted" /\ machine'[m].life = "gone"
  BY <1>2, <1>3 DEF Machines
<1> QED BY <1>1, <1>3, <1>4, <1>5

\* The late patch is applied without the lock: what it promises has stayed true.
LEMMA ApplyPatchKeeps ==
  ASSUME LifecycleInv, NEW w \in Workers, ApplyPatch(w)
  PROVE  Kept
<1> DEFINE m == Uid(w)
<1>0. /\ TypeInv /\ HostInv /\ \A u \in Workers : HandlerInv(u)
      /\ claim \in Uids \union {None} /\ None \notin Uids /\ LegacyUids \subseteq Uids
      /\ \A u \in Workers : ~ At(u, "idle") => Uid(u) \in Uids
      /\ worker \in [Workers -> WorkerRecords]
      /\ lateReceipt \in [Uids -> {"none", "sent", "landed"}] /\ stray \in BOOLEAN
  BY TypeParts, LifecycleAssumption, HostAssumption
     DEF LifecycleInv, TypeInv, ApiTyped, WorkersTyped, WorkerShape
<1>a. ReceiptFenced(m)
  BY <1>0 DEF ApplyPatch, Written, ReceiptFenced
<1>1. /\ UNCHANGED <<remoteVars, claim, current, lateHost, stray, lock>> /\ At(w, "patch")
      /\ \A u \in Workers \ {w} : worker'[u] = worker[u]
      /\ worker'[w].pc = "idle" /\ worker'[w].outcome = "none"
  BY <1>0 DEF ApplyPatch, Idle
<1>2. /\ m \in Uids
      /\ \A n \in Uids : /\ machine'[n].owned = machine[n].owned
                         /\ machine'[n].cleanup = machine[n].cleanup
                         /\ machine[n].providerID => machine'[n].providerID
                         /\ n # m => machine'[n] = machine[n]
      /\ ~ Present(m) => machine'[m] = machine[m]
  BY <1>0, PatchWrites
<1>3. \A n \in Uids : \/ machine'[n].life = machine[n].life
                      \/ /\ n = m /\ Present(m) /\ worker[w].outcome = "deleted"
                         /\ machine'[n].life = "gone"
  BY <1>0, PatchWrites
<1>4. machine'[m].provisioned => machine[m].provisioned \/ worker[w].outcome = "provisioned"
  BY <1>0, PatchWrites
<1>5. OutcomeKept(w)
  BY <1>0 DEF HandlerInv
<1>6. HostSpared
  BY <1>1 DEF HostSpared, CleanHost, NothingOwned, KubernetesState, BootstrappedBy, remoteVars
<1>7. HostInv'
  <2>1. OwnerHoldsClaim'
    BY <1>0, <1>1 DEF HostInv, OwnerHoldsClaim, remoteVars
  <2>2. FreeHostIsClean'
    <3>1. CleanHost' <=> CleanHost
      BY <1>1 DEF CleanHost, NothingOwned, KubernetesState, remoteVars
    <3> QED BY <1>0, <1>1, <1>2, <3>1 DEF HostInv, FreeHostIsClean
  <2>3. OwnershipKeepsClaim'
    BY <1>0, <1>1, <1>2 DEF HostInv, OwnershipKeepsClaim
  <2>4. ResetIsDeletion'
    <3>1. reset # "none" => claim \in Uids
      BY <1>0 DEF HostInv, FreeHostIsClean, CleanHost
    <3> QED BY <1>0, <1>1, <1>3, <3>1 DEF HostInv, ResetIsDeletion, remoteVars
  <2>5. Stages'
    BY <1>0, <1>1, <1>2, <1>3, <1>5 DEF HostInv, Stages, Released, OutcomeKept, Present
  <2>6. HostUsedByMachine'
    BY <1>0, <1>1, <1>3 DEF HostInv, HostUsedByMachine, remoteVars
  <2>7. ProvisionedByOwnReceipt'
    BY <1>0, <1>1, <1>2, <1>3, <1>4, <1>5
       DEF HostInv, ProvisionedByOwnReceipt, OutcomeKept, BootstrappedBy, remoteVars
  <2>8. LegacyKept'
    BY <1>0, <1>1, <1>2, <1>3 DEF HostInv, LegacyKept, Present, remoteVars
  <2>9. LatePatchesHarmless'
    BY <1>0, <1>1, <1>2, <1>3, <1>a
       DEF HostInv, LatePatchesHarmless, HarmlessPatch, ReceiptFenced
  <2>10. LateReceiptsTrue'
    <3>1. CleanHost' <=> CleanHost
      BY <1>1 DEF CleanHost, NothingOwned, KubernetesState, remoteVars
    <3> QED BY <1>0, <1>1, <1>2, <1>3, <1>a, <3>1 DEF HostInv, LateReceiptsTrue, ReceiptFenced
  <2> QED BY <2>1, <2>2, <2>3, <2>4, <2>5, <2>6, <2>7, <2>8, <2>9, <2>10 DEF HostInv
<1>8. ASSUME NEW u \in Workers \ {w} PROVE HandlerInv(u)'
  <2>1. StepSpared(u)
    BY <1>0, <1>1, <1>2, <1>a DEF StepSpared, ReceiptFenced, At
  <2>2. OutcomeSpared(u)
    <3>1. ~ At(u, "idle") => Uid(u) \in Uids /\ machine[Uid(u)].life # "absent"
      BY <1>0 DEF HandlerInv, StepKept
    <3> QED BY <1>1, <1>2, <1>3, <3>1 DEF OutcomeSpared, Released, Uid
  <2> QED BY <1>0, <1>1, <1>6, <2>1, <2>2, SparedKeeps
<1>9. HandlerInv(w)'
  BY <1>1
     DEF HandlerInv, LockHeld, StepKept, OutcomeKept, At, ReconcileSteps, HolderSteps,
         UnstartedSteps, OwnedSteps, FailureSteps, UnrecordedSteps,
         RecordedSteps, SettledSteps, BindSteps, BootstrapSteps,
         DeleteSteps, CleanupSteps
<1> QED BY <1>7, <1>8, <1>9 DEF Kept

-----------------------------------------------------------------------------
(* The user, the prober and the host *)

\* A new Machine has no handler and no host; a deletion takes back no promise.
LEMMA UserKeeps ==
  ASSUME LifecycleInv, NEW m \in Uids, CreateMachine(m) \/ DeleteMachine(m)
  PROVE  Kept
<1>0. /\ TypeInv /\ HostInv /\ \A u \in Workers : HandlerInv(u)
      /\ claim \in Uids \union {None} /\ None \notin Uids /\ LegacyUids \subseteq Uids
      /\ \A u \in Workers : ~ At(u, "idle") => Uid(u) \in Uids
      /\ machine \in [Uids -> Machines]
      /\ lateReceipt \in [Uids -> {"none", "sent", "landed"}] /\ stray \in BOOLEAN
  BY TypeParts, LifecycleAssumption, HostAssumption
     DEF LifecycleInv, TypeInv, ApiTyped, WorkersTyped, WorkerShape
<1>1. UNCHANGED <<remoteVars, claim, current, lateHost, stray, lock, worker>>
  BY DEF CreateMachine, DeleteMachine
<1>a. ReceiptFenced(m)
  BY <1>0 DEF CreateMachine, DeleteMachine, Written, ReceiptFenced
<1>2. \A n \in Uids : /\ machine'[n].owned = machine[n].owned
                      /\ machine'[n].cleanup = machine[n].cleanup
                      /\ machine'[n].provisioned = machine[n].provisioned
                      /\ machine'[n].providerID = machine[n].providerID
                      /\ n # m => machine'[n] = machine[n]
  BY <1>0 DEF CreateMachine, DeleteMachine, Machines
<1>3. \/ /\ machine[m].life = "absent" /\ machine'[m].life = "live" /\ m \notin LegacyUids
         /\ claim # m /\ ~ machine[m].owned /\ ~ machine[m].provisioned
         /\ machine[m].cleanup = "none"
         /\ \A u \in Workers : ~ At(u, "idle") => Uid(u) # m
      \/ machine[m].life = "live" /\ machine'[m].life = "deleting"
  <2>1. CASE CreateMachine(m)
    <3>1. machine[m].life = "absent" /\ machine'[m].life = "live" /\ m \notin LegacyUids
      BY <1>0, <2>1 DEF CreateMachine, Machines
    <3>2. claim # m /\ ~ machine[m].owned /\ ~ machine[m].provisioned
            /\ machine[m].cleanup = "none"
      BY <1>0, <3>1 DEF HostInv, HostUsedByMachine, Stages
    <3>3. \A u \in Workers : ~ At(u, "idle") => Uid(u) # m
      BY <1>0, <3>1 DEF HandlerInv, StepKept
    <3> QED BY <3>1, <3>2, <3>3
  <2>2. CASE DeleteMachine(m)
    BY <1>0, <2>2 DEF DeleteMachine, Machines
  <2> QED BY <2>1, <2>2
<1>4. /\ CleanHost' <=> CleanHost
      /\ \A n \in Uids : BootstrappedBy(n)' <=> BootstrappedBy(n)
  BY <1>1 DEF CleanHost, NothingOwned, KubernetesState, BootstrappedBy, remoteVars
<1>5. HostSpared
  BY <1>4 DEF HostSpared
<1>6. HostInv'
  <2>1. OwnerHoldsClaim'
    BY <1>0, <1>1 DEF HostInv, OwnerHoldsClaim, remoteVars
  <2>2. FreeHostIsClean'
    BY <1>0, <1>1, <1>2, <1>4 DEF HostInv, FreeHostIsClean
  <2>3. OwnershipKeepsClaim'
    BY <1>0, <1>1, <1>2 DEF HostInv, OwnershipKeepsClaim
  <2>4. ResetIsDeletion'
    <3>1. reset # "none" => claim \in Uids
      BY <1>0 DEF HostInv, FreeHostIsClean, CleanHost
    <3> QED BY <1>0, <1>1, <1>2, <1>3, <3>1 DEF HostInv, ResetIsDeletion, remoteVars
  <2>5. Stages'
    BY <1>0, <1>1, <1>2, <1>3 DEF HostInv, Stages, Released
  <2>6. HostUsedByMachine'
    BY <1>0, <1>1, <1>2, <1>3 DEF HostInv, HostUsedByMachine, remoteVars
  <2>7. ProvisionedByOwnReceipt'
    BY <1>0, <1>1, <1>2, <1>3 DEF HostInv, ProvisionedByOwnReceipt, remoteVars
  <2>8. LegacyKept'
    BY <1>0, <1>1, <1>2, <1>3 DEF HostInv, LegacyKept, remoteVars
  <2>9. LatePatchesHarmless'
    BY <1>0, <1>1, <1>2, <1>3, <1>a
       DEF HostInv, LatePatchesHarmless, HarmlessPatch, ReceiptFenced
  <2>10. LateReceiptsTrue'
    BY <1>0, <1>1, <1>2, <1>3, <1>4, <1>a DEF HostInv, LateReceiptsTrue, ReceiptFenced
  <2> QED BY <2>1, <2>2, <2>3, <2>4, <2>5, <2>6, <2>7, <2>8, <2>9, <2>10 DEF HostInv
<1>7. ASSUME NEW u \in Workers PROVE HandlerInv(u)'
  <2>1. StepSpared(u)
    BY <1>0, <1>1, <1>2, <1>a DEF StepSpared, ReceiptFenced, At
  <2>2. OutcomeSpared(u)
    <3>1. ~ At(u, "idle") => Uid(u) \in Uids /\ machine[Uid(u)].life # "absent"
      BY <1>0 DEF HandlerInv, StepKept
    <3> QED BY <1>0, <1>1, <1>2, <1>3, <3>1 DEF OutcomeSpared, Released, Uid
  <2> QED BY <1>0, <1>1, <1>5, <2>1, <2>2, SparedKeeps
<1> QED BY <1>6, <1>7 DEF Kept

\* A legacy Machine comes first, with a host that nobody has touched.
LEMMA AdoptLegacyKeeps ==
  ASSUME LifecycleInv, NEW m \in Uids, AdoptLegacy(m)
  PROVE  Kept /\ RemoteInv'
<1>0. /\ TypeInv /\ RemoteInv /\ HostInv /\ \A u \in Workers : HandlerInv(u)
      /\ claim \in Uids \union {None} /\ None \notin Uids /\ LegacyUids \subseteq Uids
      /\ \A u \in Workers : ~ At(u, "idle") => Uid(u) \in Uids
      /\ machine \in [Uids -> Machines]
  BY TypeParts, LifecycleAssumption, HostAssumption
     DEF LifecycleInv, TypeInv, ApiTyped, WorkersTyped, WorkerShape
<1>1. /\ \A n \in Uids : machine[n].life = "absent"
      /\ m \in LegacyUids /\ claim' = m /\ k8s' = TRUE
      /\ UNCHANGED <<owner, started, receipt, scripts, dir, sentinel, job, reset, ran, proven>>
      /\ UNCHANGED <<current, lateHost, stray, lateReceipt, lock, worker>>
  BY DEF AdoptLegacy
<1>2. /\ \A n \in Uids \ {m} : machine'[n] = machine[n]
      /\ machine'[m].life = "live" /\ machine'[m].providerID
      /\ machine'[m].owned = machine[m].owned /\ machine'[m].cleanup = machine[m].cleanup
  BY <1>0 DEF AdoptLegacy, Machines
<1>3. claim = None /\ proven = FALSE
  BY <1>0, <1>1 DEF HostInv, HostUsedByMachine, RemoteInv, Fence, RemoteTypeOK
<1>4. owner = None /\ reset = "none"
  BY <1>0, <1>3 DEF HostInv, FreeHostIsClean, CleanHost, NothingOwned
<1>5. \A n \in Uids : ~ machine[n].owned /\ ~ machine[n].provisioned /\ machine[n].cleanup = "none"
  BY <1>0, <1>1 DEF HostInv, Stages
<1>6. \A u \in Workers : At(u, "idle")
  BY <1>0, <1>1 DEF HandlerInv, StepKept
<1>7. HostInv'
  <2>1. OwnerHoldsClaim' /\ FreeHostIsClean' /\ ResetIsDeletion'
    BY <1>0, <1>1, <1>4 DEF OwnerHoldsClaim, FreeHostIsClean, ResetIsDeletion
  <2>2. OwnershipKeepsClaim' /\ Stages'
    BY <1>1, <1>2, <1>5 DEF OwnershipKeepsClaim, Stages
  <2>6. LatePatchesHarmless' /\ LateReceiptsTrue'
    <3>1. lateHost = {} /\ \A n \in Uids : lateReceipt[n] = "none"
      BY <1>0, <1>1, <1>3
         DEF HostInv, LatePatchesHarmless, HarmlessPatch, LateReceiptsTrue
    <3> QED BY <1>1, <3>1 DEF LatePatchesHarmless, LateReceiptsTrue
  <2>3. HostUsedByMachine'
    BY <1>1, <1>2, <1>3 DEF HostUsedByMachine
  <2>4. ProvisionedByOwnReceipt'
    BY <1>1, <1>2 DEF ProvisionedByOwnReceipt
  <2>5. LegacyKept'
    BY <1>0, <1>1, <1>2, <1>3, <1>4, <1>5 DEF LegacyKept
  <2> QED BY <2>1, <2>2, <2>3, <2>4, <2>5, <2>6 DEF HostInv
<1>8. RemoteInv'
  <2>1. Fence'
    BY <1>0, <1>1 DEF RemoteInv, Fence, RemoteTypeOK, JobFenced, RunningUnreported
  <2>2. Ownership'
    BY <1>0, <1>1, <1>3, <1>4
       DEF RemoteInv, Ownership, OnePayloadPerClaim, ReceiptOfOwner, ResetProvesClean,
           OwnerlessIsEmpty, RanIsStarted, RemovalIsClean
  <2> QED BY <2>1, <2>2 DEF RemoteInv
<1>9. HostSpared
  BY <1>1, <1>6 DEF HostSpared, At
<1>10. ASSUME NEW u \in Workers PROVE HandlerInv(u)'
  <2>1. StepSpared(u) /\ OutcomeSpared(u)
    BY <1>6 DEF StepSpared, OutcomeSpared, At
  <2> QED BY <1>0, <1>1, <1>9, <2>1, SparedKeeps
<1> QED BY <1>7, <1>8, <1>10 DEF Kept

\* The prober changes nothing that anybody relies on; it only makes a version
\* of the SSHHost stale.
LEMMA ProbeKeeps ==
  ASSUME LifecycleInv, ProbeHost \/ UNCHANGED vars
  PROVE  Kept
<1>0. TypeInv /\ RemoteInv /\ HostInv /\ \A u \in Workers : HandlerInv(u)
  BY DEF LifecycleInv
<1>1. /\ UNCHANGED <<remoteVars, machine, claim, stray, lateReceipt, lock, worker>>
      /\ lateHost' \subseteq lateHost /\ \A u \in Workers : u \in current' => u \in current
  BY DEF ProbeHost, vars, apiVars
<1>2. HostInv' /\ HostSpared
  BY <1>0, <1>1, HostInvUntouched DEF LateSpared
<1>3. ASSUME NEW u \in Workers PROVE HandlerInv(u)'
  <2>1. StepSpared(u)
    BY <1>0, <1>1 DEF StepSpared, TypeInv, TypeOK
  <2>2. OutcomeSpared(u)
    <3>1. ~ At(u, "idle") => machine[Uid(u)].life # "absent"
      BY <1>0 DEF HandlerInv, StepKept
    <3> QED BY <1>1, <3>1 DEF OutcomeSpared, Released, Uid
  <2> QED BY <1>0, <1>1, <1>2, <2>1, <2>2, SparedKeeps
<1> QED BY <1>2, <1>3 DEF Kept

\* The host works on, and a reset that ends or fails is reported to the handler
\* that waits for it.
LEMMA HostKeeps ==
  ASSUME LifecycleInv, HostWorks \/ ResetReturns \/ HostFault
  PROVE  Kept
<1> USE DEF Steps, BindSteps, BootstrapSteps, DeleteSteps, CleanupSteps, ReconcileSteps,
            HolderSteps, UnstartedSteps, OwnedSteps, FailureSteps, UnrecordedSteps,
            RecordedSteps, SettledSteps
<1>0. /\ TypeInv /\ RemoteInv /\ HostInv /\ \A u \in Workers : HandlerInv(u)
      /\ worker \in [Workers -> WorkerRecords]
  BY TypeParts DEF LifecycleInv, WorkersTyped
<1>1. UNCHANGED <<machine, claim, current, lateHost, stray, lateReceipt, lock>>
  BY DEF HostWorks, ResetReturns, HostFault, Remote, apiVars
<1>2. InnerStep
  BY DEF HostWorks, ResetReturns, HostFault, InnerStep
<1>3. ResetAlreadyClean => \E m \in Uids : machine[m].life # "absent"
  <2> SUFFICES ASSUME ResetAlreadyClean PROVE proven
    BY <1>0 DEF HostInv, HostUsedByMachine
  <2>1. reset = "none" /\ proven'
    BY DEF ResetAlreadyClean, FlockFree
  <2> QED
    BY <2>1
       DEF HostWorks, ResetReturns, HostFault, JobRefused, JobSkipped, JobStarts, PayloadWrites,
           JobEnds, KubeadmReset, RemoveFile, ResetEnds, ResetFails, PowerLoss
<1>4. HostInv' /\ HostSpared
  BY <1>0, <1>1, <1>2, <1>3, InnerStepKeeps DEF LateSpared
<1>5. ASSUME NEW u \in Workers, worker'[u] = worker[u] PROVE HandlerInv(u)'
  <2>1. StepSpared(u)
    BY <1>0, <1>1 DEF StepSpared, TypeInv, TypeOK
  <2>2. OutcomeSpared(u)
    <3>1. ~ At(u, "idle") => machine[Uid(u)].life # "absent"
      BY <1>0 DEF HandlerInv, StepKept
    <3> QED BY <1>1, <1>5, <3>1 DEF OutcomeSpared, Released, Uid
  <2> QED BY <1>0, <1>4, <1>5, <2>1, <2>2, SparedKeeps
<1>6. ASSUME NEW u \in Workers, worker'[u] # worker[u] PROVE HandlerInv(u)'
  <2>1. /\ At(u, "resetting")
        /\ worker'[u].uid = worker[u].uid /\ worker'[u].outcome = worker[u].outcome
        /\ worker'[u].pc = "failed" \/ (worker'[u].pc = "succeeded" /\ ResetEnds)
    <3> HIDE DEF Steps
    <3> QED BY <1>0, <1>6 DEF HostWorks, ResetReturns, HostFault, WorkerRecords, At
  <2>2. worker'[u].pc = "succeeded" => CleanHost'
    BY <1>0, <2>1
       DEF ResetEnds, CleanHost, NothingOwned, KubernetesState, RemoteInv, Ownership,
           RemovalIsClean
  <2>3. HandlerInv(u) /\ WorkerShape(u)
    BY <1>0 DEF TypeInv
  <2>4. LockHeld(u)'
    BY <1>1, <2>1, <2>3 DEF HandlerInv, LockHeld, At, Uid
  <2>5. StepKept(u)'
    BY <1>1, <2>1, <2>2, <2>3 DEF HandlerInv, StepKept, At, Uid
  <2>6. OutcomeKept(u)'
    BY <1>1, <1>4, <2>1, <2>3
       DEF HandlerInv, OutcomeKept, Released, WorkerShape, HostSpared, At, Uid
  <2> QED BY <2>4, <2>5, <2>6 DEF HandlerInv
<1> QED BY <1>4, <1>5, <1>6 DEF Kept

-----------------------------------------------------------------------------
(* Commits that nobody waits for any more *)

\* A late patch of the SSHHost changes a phase, or the claim of a clean host.
LEMMA LateHostPatchKeeps ==
  ASSUME LifecycleInv, LateHostPatch
  PROVE  Kept
<1>0. /\ TypeInv /\ RemoteInv /\ HostInv
      /\ None \notin Uids /\ LegacyUids \subseteq Uids /\ claim \in Uids \union {None}
      /\ stray \in BOOLEAN
      /\ \A u \in Workers : HandlerInv(u) /\ (~ At(u, "idle") => Uid(u) \in Uids)
  BY LifecycleAssumption, HostAssumption DEF LifecycleInv, TypeInv, TypeOK, WorkerShape, At
<1>1. PICK r \in lateHost :
        /\ claim' = r.claim
        /\ stray' = IF r.claim = claim THEN stray ELSE r.claim # None
  BY DEF LateHostPatch
<1>2. /\ UNCHANGED <<remoteVars, machine, lateReceipt, lock, worker>>
      /\ current' = {} /\ lateHost' = {}
  BY DEF LateHostPatch
<1>3. HarmlessPatch(r)
  BY <1>0 DEF HostInv, LatePatchesHarmless
<1>4. ASSUME HostSpared, NEW u \in Workers, StepSpared(u),
             ~ At(u, "idle") /\ worker[u].outcome = "deleted" /\ Released(Uid(u)) =>
               Released(Uid(u))'
      PROVE  HandlerInv(u)'
  <2>1. ~ At(u, "idle") => machine[Uid(u)].life # "absent"
    BY <1>0 DEF HandlerInv, StepKept
  <2>2. OutcomeSpared(u)
    BY <1>2, <1>4, <2>1 DEF OutcomeSpared, Released, Uid
  <2> QED BY <1>0, <1>2, <1>4, <2>2, SparedKeeps
<1>5. CASE r.claim = claim
  <2>1. UNCHANGED <<claim, stray>>
    BY <1>1, <1>5
  <2>2. HostInv' /\ HostSpared
    BY <1>0, <1>2, <2>1, HostInvUntouched DEF LateSpared
  <2>3. ASSUME NEW u \in Workers PROVE HandlerInv(u)'
    <3>1. StepSpared(u)
      BY <1>0, <1>2, <2>1 DEF StepSpared
    <3>2. Released(Uid(u)) => Released(Uid(u))'
      BY <1>2, <2>1 DEF Released, Uid
    <3> QED BY <1>4, <2>2, <3>1, <3>2
  <2> QED BY <2>2, <2>3 DEF Kept
<1>6. CASE r.claim # claim
  <2>1. \/ /\ claim = None /\ claim' \in Uids \ LegacyUids /\ stray'
           /\ machine[claim'].life # "absent" /\ ~ machine[claim'].owned
        \/ /\ claim \in Uids /\ claim' = None
           /\ machine[claim].cleanup = "Succeeded" /\ lateReceipt[claim] = "none"
    BY <1>0, <1>1, <1>3, <1>6 DEF HarmlessPatch
  <2>2. CleanHost /\ CleanHost' /\ owner = None /\ ~ k8s
    <3>1. claim \in LegacyUids => machine[claim].cleanup # "Succeeded"
      BY <1>0 DEF HostInv, LegacyKept, HostUsedByMachine
    <3>2. CleanHost
      BY <1>0, <2>1, <3>1 DEF HostInv, FreeHostIsClean
    <3> QED BY <1>2, <3>2 DEF CleanHost, NothingOwned, KubernetesState, remoteVars
  <2>3. HostSpared
    BY <1>0, <2>2 DEF HostSpared, BootstrappedBy
  <2>4. HostInv'
    <3>1. OwnerHoldsClaim' /\ FreeHostIsClean' /\ ResetIsDeletion'
      BY <1>2, <2>2 DEF OwnerHoldsClaim, FreeHostIsClean, ResetIsDeletion, CleanHost, remoteVars
    <3>2. OwnershipKeepsClaim'
      BY <1>0, <1>2, <2>1 DEF HostInv, OwnershipKeepsClaim
    <3>3. Stages'
      BY <1>0, <1>2, <2>1 DEF HostInv, Stages, Released
    <3>4. HostUsedByMachine'
      BY <1>0, <1>2, <2>1 DEF HostInv, HostUsedByMachine, remoteVars
    <3>5. ProvisionedByOwnReceipt' /\ LegacyKept'
      BY <1>0, <1>2, <2>2 DEF HostInv, ProvisionedByOwnReceipt, LegacyKept
    <3>6. LatePatchesHarmless' /\ LateReceiptsTrue'
      BY <1>0, <1>2, <2>1 DEF HostInv, LatePatchesHarmless, LateReceiptsTrue
    <3> QED BY <3>1, <3>2, <3>3, <3>4, <3>5, <3>6 DEF HostInv
  <2>5. ASSUME NEW u \in Workers PROVE HandlerInv(u)'
    <3>1. worker[u].pc \in HolderSteps => claim = Uid(u) /\ machine[Uid(u)].cleanup = "none"
      BY <1>0
         DEF HandlerInv, StepKept, HolderSteps, ReconcileSteps, BindSteps
    <3>2. StepSpared(u)
      BY <1>0, <1>2, <2>1, <3>1 DEF StepSpared, At
    <3>3. ~ At(u, "idle") /\ Released(Uid(u)) => Released(Uid(u))'
      BY <1>0, <1>2, <2>1 DEF Released, Uid
    <3> QED BY <1>4, <2>3, <3>2, <3>3
  <2> QED BY <2>4, <2>5 DEF Kept
<1> QED BY <1>5, <1>6

\* A late receipt says what is true, and no handler that looks for a receipt
\* goes on without it.
LEMMA LateReceiptKeeps ==
  ASSUME LifecycleInv, NEW m \in Uids, LateReceipt(m)
  PROVE  Kept
<1>0. /\ TypeInv /\ HostInv /\ machine \in [Uids -> Machines] /\ machine[m] \in Machines
      /\ lateReceipt \in [Uids -> {"none", "sent", "landed"}]
      /\ None \notin Uids /\ LegacyUids \subseteq Uids /\ stray \in BOOLEAN
      /\ \A u \in Workers : HandlerInv(u) /\ (~ At(u, "idle") => Uid(u) \in Uids)
  BY LifecycleAssumption, HostAssumption, TypeParts
     DEF LifecycleInv, TypeInv, TypeOK, ApiTyped, WorkerShape, At
<1>1. /\ UNCHANGED <<remoteVars, claim, current, lateHost, stray, lock, worker>>
      /\ lateReceipt[m] = "sent" /\ Present(m)
  BY DEF LateReceipt
<1>2. /\ \A n \in Uids \ {m} : machine'[n] = machine[n] /\ lateReceipt'[n] = lateReceipt[n]
      /\ machine'[m] = [machine[m] EXCEPT !.cleanup = "Succeeded"]
      /\ lateReceipt'[m] = IF \E w \in Workers : Uid(w) = m /\ worker[w].pc \in FailureSteps
                           THEN "landed" ELSE "none"
  BY <1>0 DEF LateReceipt, FailureSteps
<1>3. claim = m /\ CleanHost /\ machine[m].owned /\ machine[m].life \notin {"absent", "live"}
  BY <1>0, <1>1 DEF HostInv, LateReceiptsTrue
<1>4. /\ machine'[m].cleanup = "Succeeded"
      /\ \A n \in Uids : /\ machine'[n].life = machine[n].life
                         /\ machine'[n].owned = machine[n].owned
                         /\ machine'[n].provisioned = machine[n].provisioned
                         /\ machine'[n].providerID = machine[n].providerID
                         /\ n # m => machine'[n].cleanup = machine[n].cleanup
  BY <1>0, <1>2 DEF Machines
<1>5. /\ CleanHost' /\ m \notin LegacyUids
      /\ \A n \in Uids : BootstrappedBy(n)' <=> BootstrappedBy(n)
  <2>1. m \notin LegacyUids
    BY <1>0, <1>3 DEF HostInv, LegacyKept, CleanHost, KubernetesState
  <2> QED
    BY <1>1, <1>3, <2>1 DEF CleanHost, NothingOwned, KubernetesState, BootstrappedBy, remoteVars
<1>6. HostSpared
  BY <1>5 DEF HostSpared
<1>7. HostInv'
  <2>1. OwnerHoldsClaim' /\ FreeHostIsClean' /\ ResetIsDeletion'
    BY <1>0, <1>1, <1>3, <1>5
       DEF HostInv, OwnerHoldsClaim, FreeHostIsClean, ResetIsDeletion, CleanHost, remoteVars
  <2>2. OwnershipKeepsClaim'
    BY <1>0, <1>1, <1>4 DEF HostInv, OwnershipKeepsClaim
  <2>3. Stages'
    BY <1>0, <1>1, <1>3, <1>4 DEF HostInv, Stages, Released, Present
  <2>4. HostUsedByMachine'
    BY <1>0, <1>1, <1>3, <1>4 DEF HostInv, HostUsedByMachine, remoteVars
  <2>5. ProvisionedByOwnReceipt'
    BY <1>0, <1>1, <1>4 DEF HostInv, ProvisionedByOwnReceipt, remoteVars
  <2>6. LegacyKept'
    BY <1>0, <1>1, <1>4, <1>5 DEF HostInv, LegacyKept, remoteVars
  <2>7. LateReceiptsTrue'
    BY <1>0, <1>1, <1>2, <1>3, <1>4, <1>5 DEF HostInv, LateReceiptsTrue
  <2>8. LatePatchesHarmless'
    <3> SUFFICES ASSUME NEW r \in lateHost PROVE HarmlessPatch(r)'
      BY <1>1 DEF LatePatchesHarmless
    <3>1. HarmlessPatch(r)
      BY <1>0 DEF HostInv, LatePatchesHarmless
    <3> QED BY <1>0, <1>1, <1>3, <3>1 DEF HarmlessPatch
  <2> QED BY <2>1, <2>2, <2>3, <2>4, <2>5, <2>6, <2>7, <2>8 DEF HostInv
<1>8. ASSUME NEW u \in Workers PROVE HandlerInv(u)'
  <2>1. CASE At(u, "idle")
    <3>1. StepSpared(u) /\ OutcomeSpared(u)
      BY <2>1 DEF StepSpared, OutcomeSpared, At
    <3> QED BY <1>0, <1>1, <1>6, <3>1, SparedKeeps
  <2>2. CASE ~ At(u, "idle") /\ Uid(u) # m
    <3>1. machine'[Uid(u)] = machine[Uid(u)] /\ lateReceipt'[Uid(u)] = lateReceipt[Uid(u)]
      BY <1>0, <1>2, <2>2
    <3>2. StepSpared(u)
      BY <1>0, <1>1, <3>1 DEF StepSpared
    <3>3. OutcomeSpared(u)
      <4>1. machine[Uid(u)].life # "absent"
        BY <1>0, <2>2 DEF HandlerInv, StepKept
      <4> QED BY <1>1, <3>1, <4>1 DEF OutcomeSpared, Released, Uid
    <3> QED BY <1>0, <1>1, <1>6, <3>2, <3>3, SparedKeeps
  <2>3. CASE ~ At(u, "idle") /\ Uid(u) = m
    <3>1. worker[u].pc \in {"patch", "end", "failed"} \union FailureSteps
      <4>1. worker[u].pc \in Steps
        BY <1>0 DEF TypeInv, TypeOK
      <4>2. worker[u].pc \notin SettledSteps
        BY <1>0, <1>1, <2>3 DEF HandlerInv, StepKept
      <4> QED BY <2>3, <4>1, <4>2 DEF SettledSteps, At
    <3>2. worker[u].outcome # "deleted"
      BY <1>0, <1>3, <2>3 DEF HandlerInv, OutcomeKept, Released
    <3>3. LockHeld(u)'
      BY <1>0, <1>1 DEF HandlerInv, LockHeld, Uid
    <3>4. OutcomeKept(u)'
      BY <1>0, <1>1, <1>3, <1>4, <2>3, <3>1, <3>2 DEF OutcomeKept, FailureSteps, At, Uid
    <3>5. StepKept(u)'
      <4>1. worker[u].pc \in FailureSteps => lateReceipt'[m] = "landed"
        BY <1>2, <2>3
      <4> QED
        BY <1>0, <1>1, <1>4, <2>3, <3>1, <4>1
           DEF HandlerInv, StepKept, At, Uid, FailureSteps, ReconcileSteps, HolderSteps,
               UnstartedSteps, OwnedSteps, UnrecordedSteps, RecordedSteps, SettledSteps, Steps,
               BindSteps, BootstrapSteps, DeleteSteps, CleanupSteps
    <3> QED BY <3>3, <3>4, <3>5 DEF HandlerInv
  <2> QED BY <2>1, <2>2, <2>3
<1> QED BY <1>7, <1>8 DEF Kept

-----------------------------------------------------------------------------
(* The invariant *)

\* Every action of a handler run.
LEMMA HandlerKeeps ==
  ASSUME LifecycleInv, NEW w \in Workers, Handler(w)
  PROVE  Kept
BY LeaveKeeps, ApplyPatchKeeps, BindReadsKeep, BootstrapReadsKeep, DeleteReadsKeep,
   BindRecordsKeep, CleanupRecordsKeep, SelectKeeps, ReleaseKeeps, ObserveKeeps,
   BootstrapCommandsKeep, ResetKeeps
   DEF Handler

\* No Machine and no handler yet, an unused host.
LEMMA LifecycleInit == Init => LifecycleInv
<1> SUFFICES ASSUME Init PROVE LifecycleInv
  OBVIOUS
<1> USE HostAssumption, LifecycleAssumption
<1>0. RemoteInv
  BY RemoteInvInit DEF Init
<1>1. TypeInv
  <2>1. ApiTyped
    <3>1. machine \in [Uids -> Machines]
      BY DEF Init, Machines
    <3>2. lateHost \in SUBSET HostResults /\ current \in SUBSET Workers /\ stray \in BOOLEAN
      BY DEF Init
    <3> QED BY <3>1, <3>2 DEF Init, ApiTyped, Phases
  <2>2. Idle \in WorkerRecords
    BY DEF WorkerRecords, Idle, Steps, Outcomes
  <2>3. worker \in [Workers -> WorkerRecords] /\ \A w \in Workers : worker[w] = Idle
    BY <2>2 DEF Init
  <2>4. WorkersTyped
    BY <2>3 DEF WorkersTyped, WorkerShape, At, Idle
  <2> QED BY <1>0, <2>1, <2>4, TypeParts DEF RemoteInv
<1>2. HostInv
  <2>1. \A m \in Uids : /\ machine[m].life = "absent" /\ machine[m].cleanup = "none"
                        /\ ~ machine[m].owned /\ ~ machine[m].provisioned
    BY DEF Init
  <2>2. CleanHost /\ proven = FALSE
    BY DEF Init, RemoteInit, CleanHost, NothingOwned, KubernetesState
  <2>3. OwnerHoldsClaim /\ FreeHostIsClean /\ ResetIsDeletion /\ HostUsedByMachine
    BY <2>2
       DEF Init, OwnerHoldsClaim, FreeHostIsClean, ResetIsDeletion, HostUsedByMachine, CleanHost,
           NothingOwned
  <2>4. OwnershipKeepsClaim /\ Stages /\ ProvisionedByOwnReceipt /\ LegacyKept
    BY <2>1 DEF OwnershipKeepsClaim, Stages, ProvisionedByOwnReceipt, LegacyKept
  <2>5. LatePatchesHarmless /\ LateReceiptsTrue
    BY DEF Init, LatePatchesHarmless, LateReceiptsTrue
  <2> QED BY <2>3, <2>4, <2>5 DEF HostInv
<1>3. ASSUME NEW w \in Workers PROVE HandlerInv(w)
  <2>1. worker[w] = Idle
    BY DEF Init
  <2> QED
    BY <2>1
       DEF HandlerInv, LockHeld, StepKept, OutcomeKept, At, Idle, ReconcileSteps, HolderSteps,
           UnstartedSteps, OwnedSteps, FailureSteps, UnrecordedSteps,
           RecordedSteps, SettledSteps, BindSteps,
           BootstrapSteps, DeleteSteps, CleanupSteps
<1> QED BY <1>0, <1>1, <1>2, <1>3 DEF LifecycleInv

\* Every step keeps the invariant.
LEMMA LifecycleStep ==
  ASSUME LockCanExpire = FALSE, RemovalCanBeCut = FALSE
  PROVE  LifecycleInv /\ [Next]_vars => LifecycleInv'
<1> SUFFICES ASSUME LifecycleInv, [Next]_vars PROVE LifecycleInv'
  OBVIOUS
<1>1. TypeInv'
  BY TypeStep DEF LifecycleInv
<1>2. RemoteInv'
  <2>1. TypeInv /\ RemoteInv
    BY DEF LifecycleInv
  <2> QED BY <2>1, AdoptLegacyKeeps, RemoteSteps, RemoteInvStep
<1>3. Kept
  <2>1. CASE Next
    BY <2>1, UserKeeps, AdoptLegacyKeeps, BeginKeeps, HandlerKeeps, RaiseKeeps, LeaveKeeps,
       ProbeKeeps, HostKeeps, LateHostPatchKeeps, LateReceiptKeeps
       DEF Next
  <2>2. CASE UNCHANGED vars
    BY <2>2, ProbeKeeps
  <2> QED BY <2>1, <2>2
<1> QED BY <1>1, <1>2, <1>3 DEF LifecycleInv, Kept

\* The lifecycle invariant holds in every reachable state while the reconcile
\* lock outlasts the handlers and no removal is cut.  The host Lease may expire
\* at any time, handlers may crash and calls may fail at any step.
THEOREM LifecycleInvariant ==
  ASSUME LockCanExpire = FALSE, RemovalCanBeCut = FALSE
  PROVE  Spec => []LifecycleInv
<1>1. LifecycleInv /\ [Next]_vars => LifecycleInv'
  BY LifecycleStep
<1> QED BY <1>1, LifecycleInit, PTL DEF Spec

-----------------------------------------------------------------------------
(* The properties *)

\* Types, and the fence of owned_command, whatever expires or is cut short.
THEOREM LifecycleTypeCorrect == Spec => [](TypeOK /\ JobFenced)
<1>1. Init => TypeInv
  BY LifecycleInit DEF LifecycleInv
<1>2. TypeInv /\ [Next]_vars => TypeInv'
  BY TypeStep
<1>3. TypeInv => TypeOK /\ JobFenced
  BY DEF TypeInv, Fence
<1> QED BY <1>1, <1>2, <1>3, PTL DEF Spec

\* The owner file on the host and the SSHHost's consumerRef never name two
\* Machines.
THEOREM OwnerIsTheClaimant ==
  ASSUME LockCanExpire = FALSE, RemovalCanBeCut = FALSE
  PROVE  Spec => []OwnerHoldsClaim
<1>1. LifecycleInv => OwnerHoldsClaim
  BY DEF LifecycleInv, HostInv
<1> QED BY <1>1, LifecycleInvariant, PTL

\* release_host, also after a crash in any earlier step and when the release is
\* repeated: an unclaimed host carries nothing of its last Machine.
THEOREM ReleaseIsClean ==
  ASSUME LockCanExpire = FALSE, RemovalCanBeCut = FALSE
  PROVE  Spec => []ReleasedHostIsClean
<1>1. LifecycleInv => ReleasedHostIsClean
  BY DEF LifecycleInv, HostInv, FreeHostIsClean, CleanHost, ReleasedHostIsClean
<1> QED BY <1>1, LifecycleInvariant, PTL

\* While a payload executes, its Machine has the host: a running job has its
\* owner, and the owner has the claim.
THEOREM PayloadRunsClaimed ==
  ASSUME LockCanExpire = FALSE, RemovalCanBeCut = FALSE
  PROVE  Spec => []RunningPayloadIsClaimed
<1>1. LifecycleInv => RunningPayloadIsClaimed
  BY HostAssumption
     DEF LifecycleInv, RemoteInv, Fence, JobFenced, HostInv, OwnerHoldsClaim,
         RunningPayloadIsClaimed
<1> QED BY <1>1, LifecycleInvariant, PTL

\* The status that sshmachine_reconcile reports is backed by a receipt of the
\* Machine's own job, although the patch is applied after the lock is released.
THEOREM ProvisionedIsProved ==
  ASSUME LockCanExpire = FALSE, RemovalCanBeCut = FALSE
  PROVE  Spec => []ProvisionedByOwnReceipt
<1>1. LifecycleInv => ProvisionedByOwnReceipt
  BY DEF LifecycleInv, HostInv
<1> QED BY <1>1, LifecycleInvariant, PTL

\* The finalizer goes last: a Machine that is gone has no owner file, and the
\* claim only if that timed out and landed on a host it has never used.
THEOREM FinalizerGoesLast ==
  ASSUME LockCanExpire = FALSE, RemovalCanBeCut = FALSE
  PROVE  Spec => []GoneLeavesNothing
<1>1. LifecycleInv => GoneLeavesNothing
  <2> SUFFICES ASSUME LifecycleInv, NEW m \in Uids, machine[m].life = "gone"
               PROVE  /\ owner # m
                      /\ claim = m => stray /\ ~ machine[m].owned /\ NothingOwned /\ ~ KubernetesState
    BY DEF GoneLeavesNothing
  <2>1. Released(m) /\ HostInv /\ m # None
    BY HostAssumption DEF LifecycleInv, HostInv, Stages
  <2>2. m \notin LegacyUids
    BY <2>1 DEF HostInv, LegacyKept, Released
  <2>3. claim = m => CleanHost
    BY <2>1, <2>2 DEF HostInv, FreeHostIsClean, Released
  <2> QED BY <2>1, <2>3 DEF HostInv, OwnerHoldsClaim, Released, CleanHost, NothingOwned
<1> QED BY <1>1, LifecycleInvariant, PTL

\* delete_machine never resets, releases or forgets a host that was provisioned
\* before ownership was recorded.
THEOREM LegacyIsLeftAlone ==
  ASSUME LockCanExpire = FALSE, RemovalCanBeCut = FALSE
  PROVE  Spec => []LegacyHostUntouched
<1>1. LifecycleInv => LegacyHostUntouched
  BY LifecycleAssumption
     DEF LifecycleInv, HostInv, Stages, Released, LegacyKept, LegacyHostUntouched
<1> QED BY <1>1, LifecycleInvariant, PTL

\* record_cleanup("Succeeded") is durable: a handler that would write Running or
\* Failed has found no success, and nobody else writes meanwhile, except a
\* receipt of that handler itself that it had given up.
THEOREM ReceiptIsDurable ==
  ASSUME LockCanExpire = FALSE, RemovalCanBeCut = FALSE
  PROVE  Spec => CleanupReceiptIsFinal
<1>1. ASSUME LifecycleInv, [Next]_vars, NEW m \in Uids, machine[m].cleanup = "Succeeded",
             machine'[m].cleanup # "Succeeded"
      PROVE  lateReceipt[m] = "landed" /\ claim = m /\ NothingOwned /\ ~ KubernetesState
  <2>0. /\ TypeInv /\ machine \in [Uids -> Machines] /\ machine[m] \in Machines
        /\ \A w \in Workers : HandlerInv(w) /\ (~ At(w, "idle") => Uid(w) \in Uids)
    BY <1>1, TypeParts DEF LifecycleInv, TypeInv, ApiTyped, WorkerShape
  <2>1. CASE machine' = machine
    BY <1>1, <2>1
  <2>2. ASSUME NEW n \in Uids, CreateMachine(n) \/ AdoptLegacy(n) \/ DeleteMachine(n)
        PROVE  machine'[m].cleanup = machine[m].cleanup
    BY <2>0, <2>2 DEF CreateMachine, AdoptLegacy, DeleteMachine, Machines
  <2>3. ASSUME NEW w \in Workers, ApplyPatch(w)
        PROVE  machine'[m].cleanup = machine[m].cleanup
    BY <2>0, <2>3, PatchWrites
  <2>4. ASSUME NEW w \in Workers, PersistSpec(w) \/ PersistAllocation(w) \/ RecordOwnership(w)
        PROVE  machine'[m].cleanup = machine[m].cleanup
    <3>1. PICK field \in {"selected", "allocated", "owned"} : Persist(w, field, TRUE)
      BY <2>4 DEF PersistSpec, PersistAllocation, RecordOwnership
    <3>2. ~ At(w, "idle")
      BY <2>4 DEF PersistSpec, PersistAllocation, RecordOwnership, At
    <3>3. PersistEffect(w, field, TRUE)
      BY <2>0, <3>1, <3>2, PersistWrites
    <3> QED BY <3>1, <3>3 DEF PersistEffect
  <2>5. ASSUME NEW w \in Workers, RecordSucceeded(w)
        PROVE  machine'[m].cleanup = "Succeeded"
    <3>1. ~ At(w, "idle") /\ Persist(w, "cleanup", "Succeeded")
      BY <2>5 DEF RecordSucceeded, At
    <3>2. PersistEffect(w, "cleanup", "Succeeded")
      BY <2>0, <3>1, PersistWrites
    <3> QED BY <1>1, <3>2 DEF PersistEffect
  <2>6. ASSUME NEW w \in Workers, RecordRunning(w) \/ RecordFailed(w)
        PROVE  lateReceipt[m] = "landed" /\ claim = m /\ NothingOwned /\ ~ KubernetesState
    <3>1. PICK value \in {"Running", "Failed"} : Persist(w, "cleanup", value)
      BY <2>6 DEF RecordRunning, RecordFailed
    <3>2. worker[w].pc \in {"running", "recordFailed"}
      BY <2>6 DEF RecordRunning, RecordFailed, At
    <3>3. machine[Uid(w)].cleanup = "Succeeded" => lateReceipt[Uid(w)] = "landed"
      BY <2>0, <3>2 DEF HandlerInv, StepKept, FailureSteps, UnrecordedSteps, OwnedSteps
    <3>4. PersistEffect(w, "cleanup", value)
      BY <2>0, <3>1, <3>2, PersistWrites DEF At
    <3>5. Uid(w) = m
      BY <1>1, <3>4 DEF PersistEffect
    <3> QED BY <1>1, <3>3, <3>5 DEF LifecycleInv, HostInv, LateReceiptsTrue, CleanHost
  <2>7. ASSUME NEW n \in Uids, LateReceipt(n)
        PROVE  machine'[m].cleanup = "Succeeded"
    BY <1>1, <2>0, <2>7 DEF LateReceipt, Machines
  <2> QED
    BY <1>1, <2>1, <2>2, <2>3, <2>4, <2>5, <2>6, <2>7, ZenonT(60)
       DEF Next, vars, apiVars, Begin, Handler, Raise, Crash, LateHostPatch, ProbeHost, HostWorks,
           ResetReturns, HostFault, End, Bind, Select, MarkClaimed, Backfill, WaitForOwner,
           WaitForBootstrapData, WaitForCredentials, DryRun, NotReady, TakeLease, Recheck,
           RemoteClaim, CheckBeforeUpload, UploadScript, LaunchJob, Observe, CheckReadiness,
           QuarantineHost, Recover, MarkCleaning, CleanCheck, Reset, LeaveCleanup,
           AfterFailure, MakeAvailable, ClearClaim, NotFound, NoWrite, PatchHost, SetHostPhase,
           Remote
<1>2. LifecycleInv /\ [Next]_vars =>
        [\A m \in Uids : machine[m].cleanup = "Succeeded" /\ machine'[m].cleanup # "Succeeded" =>
           lateReceipt[m] = "landed" /\ claim = m /\ NothingOwned /\ ~ KubernetesState]_vars
  BY <1>1
<1> QED BY <1>2, LifecycleInvariant, PTL DEF Spec, CleanupReceiptIsFinal

\* The retry of a finalization does not reset again: a reset begins for its
\* owner only, at a step that the recorded success keeps from being reached.
THEOREM ReceiptEndsResets ==
  ASSUME LockCanExpire = FALSE, RemovalCanBeCut = FALSE
  PROVE  Spec => NoResetAfterReceipt
<1>1. ASSUME LifecycleInv, [Next]_vars, reset = "none", reset' # "none"
      PROVE  machine[owner].cleanup # "Succeeded"
  <2>0. TypeInv /\ RemoteInv /\ \A w \in Workers : HandlerInv(w)
    BY <1>1 DEF LifecycleInv
  <2>1. ASSUME NEW w \in Workers, Reset(w), ResetBegins(Uid(w))
        PROVE  machine[owner].cleanup # "Succeeded"
    <3>1. owner = Uid(w) /\ At(w, "reset")
      BY <2>1 DEF Reset, ResetBegins
    <3> QED
      BY <2>0, <3>1
         DEF HandlerInv, StepKept, FailureSteps, UnrecordedSteps, OwnedSteps, CleanupSteps, At
  <2>2. ASSUME NEW w \in Workers, Reset(w), ~ ResetBegins(Uid(w))
        PROVE  FALSE
    BY <1>1, <2>2
       DEF Reset, ResetAlreadyClean, ResetRefused, remoteVars
  <2>3. ASSUME NEW w \in Workers, RemoteClaim(w) \/ UploadScript(w) \/ LaunchJob(w)
        PROVE  FALSE
    BY <1>1, <2>3
       DEF RemoteClaim, UploadScript, LaunchJob, ClaimGranted, ClaimRefused, Upload, Launch,
           remoteVars
  <2>4. CASE HostWorks \/ ResetReturns \/ HostFault
    <3>1. InnerStep
      BY <2>4 DEF HostWorks, ResetReturns, HostFault, InnerStep
    <3> QED BY <1>1, <2>0, <3>1, InnerEffects
  <2>5. CASE UNCHANGED remoteVars
    BY <1>1, <2>5 DEF remoteVars
  <2>6. ASSUME NEW w \in Workers, Handler(w)
        PROVE  machine[owner].cleanup # "Succeeded"
    BY <2>1, <2>2, <2>3, <2>5, <2>6
       DEF Handler, End, ApplyPatch, Bind, Select, PersistSpec, PersistAllocation, MarkClaimed,
           Backfill, WaitForOwner, WaitForBootstrapData, WaitForCredentials, DryRun, TakeLease,
           Recheck, RecordOwnership, CheckBeforeUpload, Observe, CheckReadiness, QuarantineHost,
           Recover, RecordSucceeded, MarkCleaning, RecordRunning, CleanCheck, LeaveCleanup,
           AfterFailure, RecordFailed, MakeAvailable, ClearClaim, NotFound, NoWrite, Persist,
           PatchHost, SetHostPhase, NotReady
  <2>7. ASSUME NEW m \in Uids, AdoptLegacy(m)
        PROVE  FALSE
    BY <1>1, <2>7 DEF AdoptLegacy
  <2> QED
    BY <1>1, <2>4, <2>5, <2>6, <2>7
       DEF Next, vars, CreateMachine, DeleteMachine, Begin, Raise, Crash, ProbeHost, LateHostPatch,
           LateReceipt
<1>2. LifecycleInv /\ [Next]_vars =>
        [reset = "none" /\ reset' # "none" => machine[owner].cleanup # "Succeeded"]_vars
  BY <1>1
<1> QED BY <1>2, LifecycleInvariant, PTL DEF Spec, NoResetAfterReceipt

=============================================================================
