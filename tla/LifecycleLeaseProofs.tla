------------------------ MODULE LifecycleLeaseProofs ------------------------
(***************************************************************************)
(* Proof that the host Lease alone keeps payloads on claimed hosts: for    *)
(* any number of handler runs, Machines, attempts and faults, and although *)
(* the reconcile lock may expire under a live handler and a power loss may *)
(* cut the removal of the state directory short.                           *)
(*                                                                         *)
(* Without the lock a deletion can release the host under an older handler *)
(* of the same Machine.  The argument is that such a handler is too late:  *)
(* either it can launch no job any more, or no job of its Machine can find *)
(* the owner file it needs.  Finished says this; a Machine that lost its   *)
(* claim is finished, and stays so.                                        *)
(***************************************************************************)
EXTENDS LifecycleProofs

USE DEF hostVars

-----------------------------------------------------------------------------
(* Which step promises what *)

\* Inside host_operation.
LeaseSteps == BootstrapSteps \union CleanupSteps

\* Ownership is recorded, and bootstrap goes on.
OwningSteps == {"claim", "mismatch", "check2", "upload", "recheck2", "launch"}

\* The deletion knows that nothing was started, or that the host was reset.
FinishedSteps ==
  {"recover", "recoverSelected", "recoverStatus", "notRequired", "nothing", "confirm",
   "succeeded", "recorded", "available", "unclaim"}

\* No job of m was ever launched, and no handler is about to launch one.
NeverLaunched(m) ==
  /\ \A a \in Attempts : UidOf[a] = m => job[a] = "none"
  /\ \A w \in Workers : At(w, "launch") => Uid(w) # m

\* The owner file does not name m, and no handler is about to write it.
Disowned(m) ==
  /\ owner # m
  /\ \A w \in Workers : worker[w].pc \in {"own", "claim"} => Uid(w) # m

\* No payload of m will run any more.
Finished(m) ==
  /\ machine[m].life \in {"deleting", "gone"}
  /\ NeverLaunched(m) \/ Disowned(m)

\* m has the host, or does not need it any more.
Covered(m) == claim = m \/ Finished(m)

-----------------------------------------------------------------------------
(* The inductive invariant *)

\* What a handler run may rely on.
LeaseKept(w) ==
  /\ ~ At(w, "idle") => machine[Uid(w)].life # "absent"
  /\ worker[w].pc \in LeaseSteps => lease = w
  /\ worker[w].pc \in DeleteSteps => machine[Uid(w)].life # "live"
  /\ worker[w].pc \in HolderSteps => Covered(Uid(w))
  /\ worker[w].pc \in OwningSteps => machine[Uid(w)].owned
  /\ worker[w].pc \in FinishedSteps => Finished(Uid(w))
  /\ worker[w].pc \in {"recheck2", "launch"} => UidOf[worker[w].attempt] = Uid(w)
  /\ At(w, "unclaim") /\ w \in current => claim = Uid(w)

\* Claim and ownership are recorded for an object that exists, and the success
\* of cleanup only for a Machine whose payloads are over.
RecordsKept ==
  \A m \in Uids :
    /\ machine[m].owned \/ claim = m => machine[m].life # "absent"
    /\ machine[m].cleanup = "Succeeded" => Finished(m)

\* A job is of a Machine that has recorded ownership; while it may still
\* start its payload or runs, the Machine has the host or is finished.
JobsKept ==
  \A a \in Attempts :
    /\ job[a] # "none" => machine[UidOf[a]].owned
    /\ job[a] \in {"queued", "running"} => Covered(UidOf[a])

\* A patch of the SSHHost that timed out takes the claim from nobody but a
\* Machine that is finished.
LatePatchKept(r) ==
  /\ r.claim # claim /\ claim # None => Finished(claim)
  /\ \/ r.claim = None /\ claim # None
     \/ r.claim \in Uids /\ machine[r.claim].life # "absent"

\* What timed out and may still commit.
LateKept ==
  /\ \A r \in lateHost : LatePatchKept(r)
  /\ \A m \in Uids : lateReceipt[m] = "sent" => Finished(m)

LeaseInv ==
  /\ TypeInv
  /\ RecordsKept
  /\ LateKept
  /\ JobsKept
  /\ \A w \in Workers : LeaseKept(w)

-----------------------------------------------------------------------------
(* What no step may do *)

\* A handler comes to a remote claim or a launch only through Recheck, which
\* has seen the Machine live.
Enters(u) ==
  worker'[u].pc \in {"own", "claim", "launch"} =>
    /\ worker'[u].uid = worker[u].uid
    /\ \/ worker'[u].pc = worker[u].pc
       \/ At(u, "own") /\ worker'[u].pc = "claim"
       \/ machine[Uid(u)].life = "live"

\* Machines only go on in their lives and in what is recorded of them.
Forward ==
  \A m \in Uids :
    /\ machine[m].life # "absent" => machine'[m].life # "absent"
    /\ machine[m].life \in {"deleting", "gone"} => machine'[m].life \in {"deleting", "gone"}
    /\ machine[m].owned => machine'[m].owned
    /\ machine'[m].owned => machine[m].owned \/ machine[m].life # "absent"
    /\ machine'[m].cleanup = "Succeeded" => machine[m].cleanup = "Succeeded" \/ Finished(m)

\* A claim is taken from nobody, or from a Machine that is finished.
ClaimMoves ==
  /\ claim' # claim /\ claim # None => Finished(claim)
  /\ claim' # claim /\ claim' # None => machine'[claim'].life # "absent"

\* The owner file is written by a handler at its remote claim.
OwnerMoves ==
  owner' \in {owner, None} \/ \E u \in Workers : At(u, "claim") /\ owner' = Uid(u)

\* A job is launched by a handler at its launch.
JobMoves(a) ==
  job'[a] # "none" =>
    \/ job[a] # "none" /\ (job'[a] \in {"queued", "running"} => job[a] \in {"queued", "running"})
    \/ \E u \in Workers : At(u, "launch") /\ UidOf[a] = Uid(u)

\* Only such patches and receipts are given up, and a new claim fences the
\* patches that were sent before.
LateMoves ==
  /\ \/ lateHost' = {}
     \/ claim' = claim /\ \A r \in lateHost' : r \in lateHost \/ LatePatchKept(r)
  /\ \A m \in Uids : lateReceipt'[m] = "sent" => lateReceipt[m] = "sent" \/ Finished(m)

Harmless ==
  /\ Forward
  /\ LateMoves
  /\ ClaimMoves
  /\ OwnerMoves
  /\ \A a \in Attempts : JobMoves(a)
  /\ \A u \in Workers : Enters(u)

\* A finished Machine stays finished.
LEMMA FinishedStays ==
  ASSUME LeaseInv, Harmless, NEW m \in Uids, Finished(m)
  PROVE  Finished(m)'
<1>1. machine'[m].life \in {"deleting", "gone"} /\ machine[m].life # "live"
  BY DEF Harmless, Forward, Finished
<1>2. CASE NeverLaunched(m)
  <2>1. ASSUME NEW a \in Attempts, UidOf[a] = m PROVE job'[a] = "none"
    BY <1>2, <2>1 DEF NeverLaunched, Harmless, JobMoves
  <2>2. ASSUME NEW u \in Workers, worker'[u].pc = "launch" PROVE worker'[u].uid # m
    BY <1>1, <1>2, <2>2 DEF NeverLaunched, Harmless, Enters, At, Uid
  <2> QED BY <1>1, <2>1, <2>2 DEF Finished, NeverLaunched, At, Uid
<1>3. CASE Disowned(m)
  <2>1. owner' # m
    BY <1>3, HostAssumption DEF Disowned, Harmless, OwnerMoves, At
  <2>2. ASSUME NEW u \in Workers, worker'[u].pc \in {"own", "claim"} PROVE worker'[u].uid # m
    BY <1>1, <1>3, <2>2 DEF Disowned, Harmless, Enters, At, Uid
  <2> QED BY <1>1, <2>1, <2>2 DEF Finished, Disowned, Uid
<1> QED BY <1>2, <1>3 DEF Finished

\* A Machine loses its claim only when it is finished.
LEMMA CoveredStays ==
  ASSUME LeaseInv, Harmless, NEW m \in Uids, Covered(m)
  PROVE  Covered(m)'
<1>1. Finished(m) => Finished(m)'
  BY FinishedStays
<1>2. claim = m /\ claim' # m => Finished(m)
  BY HostAssumption DEF Harmless, ClaimMoves
<1> QED BY <1>1, <1>2 DEF Covered

\* The records of Machines and jobs are kept, and what is under way to the API
\* server stays harmless.
LEMMA BooksKeep ==
  ASSUME LeaseInv, Harmless
  PROVE  RecordsKept' /\ LateKept' /\ JobsKept'
<1>1. ASSUME NEW m \in Uids
      PROVE  /\ machine'[m].owned \/ claim' = m => machine'[m].life # "absent"
             /\ machine'[m].cleanup = "Succeeded" => Finished(m)'
  <2>1. machine'[m].owned => machine'[m].life # "absent"
    BY DEF LeaseInv, RecordsKept, Harmless, Forward
  <2>2. claim' = m => machine'[m].life # "absent"
    BY HostAssumption DEF LeaseInv, RecordsKept, Harmless, Forward, ClaimMoves
  <2>3. machine'[m].cleanup = "Succeeded" => Finished(m)
    BY DEF LeaseInv, RecordsKept, Harmless, Forward
  <2> QED BY <2>1, <2>2, <2>3, FinishedStays
<1>2. ASSUME NEW a \in Attempts
      PROVE  /\ job'[a] # "none" => machine'[UidOf[a]].owned
             /\ job'[a] \in {"queued", "running"} => Covered(UidOf[a])'
  <2>1. UidOf[a] \in Uids
    BY HostAssumption
  <2>2. JobMoves(a)
    BY DEF Harmless
  <2>3. ASSUME NEW u \in Workers, At(u, "launch"), UidOf[a] = Uid(u)
        PROVE  machine[UidOf[a]].owned /\ Covered(UidOf[a])
    BY <2>3 DEF LeaseInv, LeaseKept, OwningSteps, HolderSteps, BootstrapSteps, At
  <2>4. job'[a] # "none" => machine[UidOf[a]].owned
    BY <2>2, <2>3 DEF JobMoves, LeaseInv, JobsKept
  <2>5. job'[a] \in {"queued", "running"} => Covered(UidOf[a])
    BY <2>2, <2>3 DEF JobMoves, LeaseInv, JobsKept
  <2>6. machine[UidOf[a]].owned => machine'[UidOf[a]].owned
    BY <2>1 DEF Harmless, Forward
  <2>7. Covered(UidOf[a]) => Covered(UidOf[a])'
    BY <2>1, CoveredStays
  <2> QED BY <2>4, <2>5, <2>6, <2>7
<1>3. LateKept'
  <2>1. ASSUME NEW m \in Uids, lateReceipt'[m] = "sent" PROVE Finished(m)'
    BY <2>1, FinishedStays DEF LeaseInv, LateKept, Harmless, LateMoves
  <2>2. ASSUME NEW r \in lateHost' PROVE LatePatchKept(r)'
    <3>1. claim' = claim /\ LatePatchKept(r)
      BY <2>2 DEF LeaseInv, LateKept, Harmless, LateMoves
    <3>2. claim \in Uids \union {None}
      BY DEF LeaseInv, TypeInv, TypeOK
    <3>3. claim # None /\ Finished(claim) => Finished(claim)'
      <4> DEFINE c == claim
      <4>1. c' = c /\ (c # None => c \in Uids)
        BY <3>1, <3>2
      <4> HIDE DEF c
      <4>2. c # None /\ Finished(c) => Finished(c)'
        BY <4>1, FinishedStays
      <4> QED BY <4>1, <4>2 DEF c
    <3> QED BY <3>1, <3>2, <3>3 DEF LatePatchKept, Harmless, Forward
  <2> QED BY <2>1, <2>2 DEF LateKept
<1> QED BY <1>1, <1>2, <1>3 DEF RecordsKept, JobsKept

\* The step does not touch the Lease or the read version of u.
Undisturbed(u) ==
  /\ worker'[u] = worker[u]
  /\ lease = u => lease' = u
  /\ At(u, "unclaim") /\ u \in current' => u \in current /\ claim' = claim

\* A handler run that did not move keeps what it may rely on.
LEMMA UndisturbedKeeps ==
  ASSUME LeaseInv, Harmless, NEW u \in Workers, Undisturbed(u)
  PROVE  LeaseKept(u)'
<1>0. LeaseKept(u)
  BY DEF LeaseInv
<1>1. CASE At(u, "idle")
  BY <1>1
     DEF LeaseKept, Undisturbed, At, LeaseSteps, OwningSteps, FinishedSteps, HolderSteps,
         BootstrapSteps, DeleteSteps, CleanupSteps
<1>2. CASE ~ At(u, "idle")
  <2>1. Uid(u) \in Uids /\ Uid(u)' = Uid(u)
    BY <1>2 DEF LeaseInv, TypeInv, WorkerShape, Undisturbed, Uid
  <2>2. machine[Uid(u)].life \in {"absent", "live", "deleting", "gone"}
    BY <2>1 DEF LeaseInv, TypeInv, TypeOK
  <2>3. /\ Finished(Uid(u)) => Finished(Uid(u))'
        /\ Covered(Uid(u)) => Covered(Uid(u))'
    <3> DEFINE m == Uid(u)
    <3>1. m \in Uids /\ m' = m
      BY <2>1
    <3> HIDE DEF m
    <3>2. (Finished(m) => Finished(m)') /\ (Covered(m) => Covered(m)')
      BY <3>1, FinishedStays, CoveredStays
    <3> QED BY <3>1, <3>2 DEF m
  <2> QED
    BY <1>0, <1>2, <2>1, <2>2, <2>3 DEF LeaseKept, Undisturbed, Harmless, Forward, At
<1> QED BY <1>1, <1>2

-----------------------------------------------------------------------------
(* Steps of one handler run *)

\* What handler w must have seen to go to a step.
Promise(w, pc) ==
  /\ pc \in {"own", "launch"} => machine[Uid(w)].life = "live"
  /\ pc = "claim" => At(w, "own")
  /\ pc \in LeaseSteps => lease' = w
  /\ pc \in DeleteSteps => machine[Uid(w)].life # "live"
  /\ pc \in HolderSteps => Covered(Uid(w)) \/ claim' = Uid(w)
  /\ pc \in OwningSteps => machine'[Uid(w)].owned
  /\ pc \in FinishedSteps => Finished(Uid(w))
  /\ pc \in {"recheck2", "launch"} => UidOf[worker'[w].attempt] = Uid(w)
  /\ pc = "unclaim" /\ w \in current' => claim' = Uid(w)

\* The other handlers keep the Lease, and learn of a new version of the host;
\* what is under way stays harmless.
OthersSpared(w) ==
  /\ \A u \in Workers \ {w} :
       (lease = u => lease' = u) /\ (u \in current' => u \in current /\ claim' = claim)
  /\ LateMoves

\* All that is to be shown of a step, beside the types.
LeaseInvKept == RecordsKept' /\ LateKept' /\ JobsKept' /\ \A u \in Workers : LeaseKept(u)'

\* A handler that goes on as promised keeps everything.
LEMMA HandlerGoes ==
  ASSUME LeaseInv, NEW w \in Workers, ~ At(w, "idle"), NEW pc \in Steps, NEW outcome,
         Moves(w, pc, outcome), Promise(w, pc), OthersSpared(w),
         Forward, ClaimMoves, OwnerMoves, \A a \in Attempts : JobMoves(a)
  PROVE  LeaseInvKept
<1>0. LeaseKept(w) /\ Uid(w) \in Uids
  BY DEF LeaseInv, TypeInv, WorkerShape
<1>1. ASSUME NEW u \in Workers PROVE Enters(u)
  BY <1>1 DEF Enters, Moves, Promise, At, Uid
<1>2. Harmless
  BY <1>1 DEF Harmless, OthersSpared
<1>3. ASSUME NEW u \in Workers \ {w} PROVE LeaseKept(u)'
  <2>1. Undisturbed(u)
    BY DEF Undisturbed, OthersSpared, Moves
  <2> QED BY <1>2, <2>1, UndisturbedKeeps
<1>4. LeaseKept(w)'
  <2>1. Uid(w)' = Uid(w) /\ worker'[w].pc = pc
    BY DEF Moves, Uid
  <2>2. machine[Uid(w)].life \in {"absent", "live", "deleting", "gone"}
    BY <1>0 DEF LeaseInv, TypeInv, TypeOK
  <2>3. /\ Finished(Uid(w)) => Finished(Uid(w))'
        /\ Covered(Uid(w)) => Covered(Uid(w))'
    <3> DEFINE m == Uid(w)
    <3>1. m \in Uids /\ m' = m
      BY <1>0, <2>1
    <3> HIDE DEF m
    <3>2. (Finished(m) => Finished(m)') /\ (Covered(m) => Covered(m)')
      BY <1>2, <3>1, FinishedStays, CoveredStays
    <3> QED BY <3>1, <3>2 DEF m
  <2>4. claim' = Uid(w) => Covered(Uid(w))'
    BY <2>1 DEF Covered
  <2>5. /\ machine'[Uid(w)].life # "absent"
        /\ machine[Uid(w)].life # "live" => machine'[Uid(w)].life # "live"
    BY <1>0, <2>2 DEF LeaseKept, Forward
  <2> QED BY <2>1, <2>3, <2>4, <2>5 DEF LeaseKept, Promise, At
<1> QED BY <1>2, <1>3, <1>4, BooksKeep DEF LeaseInvKept

\* A step that changes neither the host nor a Machine nor the claim.
LEMMA QuietHarmless ==
  ASSUME LeaseInv, UNCHANGED <<remoteVars, machine, claim>>
  PROVE  Forward /\ ClaimMoves /\ OwnerMoves /\ \A a \in Attempts : JobMoves(a)
BY DEF Forward, ClaimMoves, OwnerMoves, JobMoves, remoteVars

\* A handler that goes on with such a step.
LEMMA QuietGoes ==
  ASSUME LeaseInv, NEW w \in Workers, ~ At(w, "idle"), UNCHANGED <<remoteVars, machine, claim>>,
         OthersSpared(w), NEW pc \in Steps, Goto(w, pc), Promise(w, pc)
  PROVE  LeaseInvKept
<1>1. Moves(w, pc, worker[w].outcome)
  BY GotoMoves DEF LeaseInv
<1> QED BY <1>1, QuietHarmless, HandlerGoes

\* A handler that ends with such a step.
LEMMA QuietDone ==
  ASSUME LeaseInv, NEW w \in Workers, ~ At(w, "idle"), UNCHANGED <<remoteVars, machine, claim>>,
         OthersSpared(w), NEW outcome \in Outcomes, Done(w, outcome)
  PROVE  LeaseInvKept
<1>1. Moves(w, "end", outcome)
  BY DoneMoves DEF LeaseInv
<1>2. Promise(w, "end")
  BY DEF Promise, LeaseSteps, OwningSteps, FinishedSteps, HolderSteps, BootstrapSteps,
         DeleteSteps, CleanupSteps
<1>3. "end" \in Steps
  BY DEF Steps
<1> QED BY <1>1, <1>2, <1>3, QuietHarmless, HandlerGoes

\* What a handler gives up takes the claim from nobody but its own Machine, and
\* from that only in release_host.
LEMMA GivenUp ==
  ASSUME LeaseInv, NEW w \in Workers, ~ At(w, "idle"), GivesUp(w)
  PROVE  \A r \in lateHost' : r \in lateHost \/ LatePatchKept(r)
<1>0. LeaseKept(w) /\ Uid(w) \in Uids /\ None \notin Uids
  BY HostAssumption DEF LeaseInv, TypeInv, WorkerShape
<1>1. ASSUME NEW r \in HostPatch(w) PROVE LatePatchKept(r)
  <2>1. CASE r.claim = claim /\ claim = Uid(w)
    BY <1>0, <2>1 DEF LeaseInv, RecordsKept, LatePatchKept
  <2>2. CASE claim = None /\ r.claim = Uid(w)
    BY <1>0, <2>2 DEF LeaseKept, LatePatchKept
  <2>3. CASE At(w, "unclaim") /\ w \in current /\ r.claim = None
    BY <1>0, <2>3 DEF LeaseKept, LatePatchKept, FinishedSteps, At
  <2> QED BY <1>1, <2>1, <2>2, <2>3 DEF HostPatch
<1> QED BY <1>1 DEF GivesUp

-----------------------------------------------------------------------------
(* Handler steps that change neither the host nor a Machine nor the claim *)

\* The readings of bind_machine and the early exits of a reconcile.
LEMMA BindQuiet ==
  ASSUME LeaseInv, LeaseCanExpire = FALSE, NEW w \in Workers,
         Bind(w) \/ MarkClaimed(w) \/ Backfill(w) \/ WaitForOwner(w) \/
         WaitForBootstrapData(w) \/ WaitForCredentials(w) \/ DryRun(w)
  PROVE  LeaseInvKept
<1> USE DEF Steps, BindSteps, BootstrapSteps, DeleteSteps, CleanupSteps, HolderSteps,
            LeaseSteps, OwningSteps, FinishedSteps, Outcomes
<1>0. LeaseKept(w)
  BY DEF LeaseInv
<1>1. CASE Bind(w)
  <2>1. worker[w].pc = "bind"
    BY <1>1 DEF Bind, At
  <2>2. UNCHANGED <<remoteVars, machine, claim>> /\ OthersSpared(w)
    BY <1>1, LifecycleAssumption DEF Bind, OthersSpared, LateMoves, NoWrite, apiVars
  <2>3. \/ claim = Uid(w) /\ Goto(w, "claimed")
        \/ Goto(w, "end")
    BY <1>1 DEF Bind, Goto, Done
  <2> QED
    BY <1>0, <2>1, <2>2, <2>3, QuietGoes, QuietDone DEF LeaseKept, Promise, At
<1>2. CASE MarkClaimed(w)
  <2>1. worker[w].pc = "claimed"
    BY <1>2 DEF MarkClaimed, At
  <2>2. UNCHANGED <<remoteVars, machine, claim>> /\ OthersSpared(w)
    BY <1>2, LifecycleAssumption DEF MarkClaimed, OthersSpared, LateMoves, SetHostPhase, PatchHost,
       NoWrite, apiVars
  <2>3. \/ claim = Uid(w) /\ (Goto(w, "backfill") \/ Goto(w, "lease"))
        \/ Goto(w, "end")
    BY <1>2 DEF MarkClaimed, SetHostPhase, Goto, Done
  <2> QED
    BY <1>0, <2>1, <2>2, <2>3, QuietGoes, QuietDone DEF LeaseKept, Promise, At
<1>3. CASE Backfill(w)
  <2>1. worker[w].pc = "backfill"
    BY <1>3 DEF Backfill, At
  <2>2. UNCHANGED <<remoteVars, machine, claim>> /\ OthersSpared(w)
    BY <1>3, LifecycleAssumption DEF Backfill, OthersSpared, LateMoves, NoWrite, apiVars
  <2>3. Done(w, "backfilled")
    BY <1>3 DEF Backfill
  <2> QED
    BY <1>0, <2>1, <2>2, <2>3, QuietGoes, QuietDone DEF LeaseKept, Promise, At
<1>4. CASE WaitForOwner(w)
  <2>1. worker[w].pc \in {"bind", "select", "reselect"}
    BY <1>4 DEF WaitForOwner, At
  <2>2. UNCHANGED <<remoteVars, machine, claim>> /\ OthersSpared(w)
    BY <1>4, LifecycleAssumption
       DEF WaitForOwner, OthersSpared, LateMoves, NotReady, NoWrite, apiVars
  <2>3. Done(w, "unprovisioned")
    BY <1>4 DEF WaitForOwner, NotReady
  <2> QED
    BY <1>0, <2>1, <2>2, <2>3, QuietGoes, QuietDone DEF LeaseKept, Promise, At
<1>5. CASE WaitForBootstrapData(w)
  <2>1. worker[w].pc = "lease"
    BY <1>5 DEF WaitForBootstrapData, At, apiVars, NoWrite
  <2>2. UNCHANGED <<remoteVars, machine, claim>> /\ OthersSpared(w)
    BY <1>5, LifecycleAssumption
       DEF WaitForBootstrapData, OthersSpared, LateMoves, NotReady, NoWrite,
       apiVars
  <2>3. Done(w, "unprovisioned")
    BY <1>5 DEF WaitForBootstrapData, NotReady
  <2> QED
    BY <1>0, <2>1, <2>2, <2>3, QuietGoes, QuietDone DEF LeaseKept, Promise, At
<1>6. CASE WaitForCredentials(w)
  <2>1. worker[w].pc = "lease"
    BY <1>6 DEF WaitForCredentials, At, apiVars, NoWrite
  <2>2. UNCHANGED <<remoteVars, machine, claim>> /\ OthersSpared(w)
    BY <1>6, LifecycleAssumption DEF WaitForCredentials, OthersSpared, LateMoves, NotReady, NoWrite,
       apiVars
  <2>3. Done(w, "unprovisioned")
    BY <1>6 DEF WaitForCredentials, NotReady
  <2> QED
    BY <1>0, <2>1, <2>2, <2>3, QuietGoes, QuietDone DEF LeaseKept, Promise, At
<1>7. CASE DryRun(w)
  <2>1. worker[w].pc = "lease"
    BY <1>7 DEF DryRun, At, apiVars, NoWrite
  <2>2. UNCHANGED <<remoteVars, machine, claim>> /\ OthersSpared(w)
    BY <1>7, LifecycleAssumption DEF DryRun, OthersSpared, LateMoves, NotReady, NoWrite, apiVars
  <2>3. Done(w, "unprovisioned")
    BY <1>7 DEF DryRun, NotReady
  <2> QED
    BY <1>0, <2>1, <2>2, <2>3, QuietGoes, QuietDone DEF LeaseKept, Promise, At
<1> QED
  BY <1>1, <1>2, <1>3, <1>4, <1>5, <1>6, <1>7

\* The Lease, the checks before a command, and the observation of the job.
LEMMA BootstrapQuiet ==
  ASSUME LeaseInv, LeaseCanExpire = FALSE, NEW w \in Workers,
         TakeLease(w) \/ Recheck(w) \/ CheckBeforeUpload(w) \/
         CheckReadiness(w) \/ QuarantineHost(w)
  PROVE  LeaseInvKept
<1> USE DEF Steps, BindSteps, BootstrapSteps, DeleteSteps, CleanupSteps, HolderSteps,
            LeaseSteps, OwningSteps, FinishedSteps, Outcomes
<1>0. LeaseKept(w)
  BY DEF LeaseInv
<1>1. CASE TakeLease(w)
  <2>1. worker[w].pc \in {"lease", "cleanLease"}
    BY <1>1 DEF TakeLease, At, apiVars, NoWrite
  <2>2. UNCHANGED <<remoteVars, machine, claim>> /\ OthersSpared(w)
    BY <1>1, LifecycleAssumption DEF TakeLease, OthersSpared, LateMoves, LeaseFree, NoWrite, apiVars
  <2>3. \/ At(w, "lease") /\ lease' = w /\ Goto(w, "recheck1")
        \/ At(w, "cleanLease") /\ lease' = w /\ Goto(w, "cleanCheck")
        \/ At(w, "lease") /\ Goto(w, "end")
        \/ At(w, "cleanLease") /\ Goto(w, "failed")
    BY <1>1 DEF TakeLease, Goto, Done, At
  <2> QED
    BY <1>0, <2>1, <2>2, <2>3, QuietGoes, QuietDone DEF LeaseKept, Promise, At
<1>2. CASE Recheck(w)
  <2>1. worker[w].pc \in {"recheck1", "recheck2"} /\ lease' = lease
    BY <1>2 DEF Recheck, At, apiVars, NoWrite
  <2>2. UNCHANGED <<remoteVars, machine, claim>> /\ OthersSpared(w)
    BY <1>2, LifecycleAssumption DEF Recheck, OthersSpared, LateMoves, NoWrite, apiVars
  <2>3. \/ At(w, "recheck1") /\ machine[Uid(w)].life = "live" /\ Goto(w, "own")
        \/ At(w, "recheck2") /\ machine[Uid(w)].life = "live" /\ Goto(w, "launch")
        \/ Goto(w, "end")
    BY <1>2 DEF Recheck, Goto, Done, At
  <2>4. Goto(w, "launch") => worker'[w].attempt = worker[w].attempt
    BY GotoMoves DEF Moves, LeaseInv
  <2> QED
    BY <1>0, <2>1, <2>2, <2>3, <2>4, QuietGoes, QuietDone DEF LeaseKept, Promise, At
<1>3. CASE CheckBeforeUpload(w)
  <2>1. worker[w].pc = "check2" /\ lease' = lease
    BY <1>3 DEF CheckBeforeUpload, At, apiVars, NoWrite
  <2>2. UNCHANGED <<remoteVars, machine, claim>> /\ OthersSpared(w)
    BY <1>3, LifecycleAssumption DEF CheckBeforeUpload, OthersSpared, LateMoves, NoWrite, apiVars
  <2>3. Goto(w, "upload") \/ Goto(w, "end")
    BY <1>3 DEF CheckBeforeUpload, Goto, Done
  <2> QED
    BY <1>0, <2>1, <2>2, <2>3, QuietGoes, QuietDone DEF LeaseKept, Promise, At
<1>4. CASE CheckReadiness(w)
  <2>1. worker[w].pc = "readiness"
    BY <1>4 DEF CheckReadiness, At
  <2>2. UNCHANGED <<remoteVars, machine, claim>> /\ OthersSpared(w)
    BY <1>4, LifecycleAssumption DEF CheckReadiness, OthersSpared, LateMoves, NoWrite, apiVars
  <2>3. Done(w, "provisioned") \/ Done(w, "unprovisioned")
    BY <1>4 DEF CheckReadiness
  <2> QED
    BY <1>0, <2>1, <2>2, <2>3, QuietGoes, QuietDone DEF LeaseKept, Promise, At
<1>5. CASE QuarantineHost(w)
  <2>1. worker[w].pc \in {"mismatch", "quarantine", "quarantine2", "legacy"}
    BY <1>5 DEF QuarantineHost, At
  <2>2. UNCHANGED <<remoteVars, machine, claim>> /\ OthersSpared(w)
    BY <1>5, LifecycleAssumption
       DEF QuarantineHost, OthersSpared, LateMoves, SetHostPhase, PatchHost,
       NoWrite, apiVars
  <2>3. \/ At(w, "quarantine2") /\ Goto(w, "recordFailed")
        \/ Goto(w, "end") \/ Done(w, "unprovisioned")
    BY <1>5 DEF QuarantineHost, SetHostPhase, Goto, Done, At
  <2> QED
    BY <1>0, <2>1, <2>2, <2>3, QuietGoes, QuietDone DEF LeaseKept, Promise, At
<1> QED
  BY <1>1, <1>2, <1>3, <1>4, <1>5

\* The readings of delete_machine, and what it does to the phase of the host.
LEMMA DeleteQuiet ==
  ASSUME LeaseInv, LeaseCanExpire = FALSE, NEW w \in Workers,
         Recover(w) \/ MarkCleaning(w) \/ CleanCheck(w) \/ LeaveCleanup(w) \/
         AfterFailure(w) \/ MakeAvailable(w) \/ NotFound(w) \/ Raise(w)
  PROVE  LeaseInvKept
<1> USE DEF Steps, BindSteps, BootstrapSteps, DeleteSteps, CleanupSteps, HolderSteps,
            LeaseSteps, OwningSteps, FinishedSteps, Outcomes
<1>0. LeaseKept(w)
  BY DEF LeaseInv
<1>1. CASE Recover(w)
  <2>1. worker[w].pc \in {"recover", "recoverSelected"}
    BY <1>1 DEF Recover, At
  <2>2. UNCHANGED <<remoteVars, machine, claim>> /\ OthersSpared(w)
    BY <1>1, LifecycleAssumption DEF Recover, OthersSpared, LateMoves, NoWrite, apiVars
  <2>3. \/ claim = Uid(w) /\ Goto(w, "recoverStatus")
        \/ Goto(w, "nothing") \/ Goto(w, "end")
    BY <1>1 DEF Recover, Goto, Done
  <2> QED
    BY <1>0, <2>1, <2>2, <2>3, QuietGoes, QuietDone DEF LeaseKept, Promise, At
<1>2. CASE MarkCleaning(w)
  <2>1. worker[w].pc = "cleaning"
    BY <1>2 DEF MarkCleaning, At
  <2>2. UNCHANGED <<remoteVars, machine, claim>> /\ OthersSpared(w)
    BY <1>2, LifecycleAssumption DEF MarkCleaning, OthersSpared, LateMoves, SetHostPhase, PatchHost,
       NoWrite, apiVars
  <2>3. Goto(w, "running") \/ Goto(w, "end")
    BY <1>2 DEF MarkCleaning, SetHostPhase, Goto, Done
  <2> QED
    BY <1>0, <2>1, <2>2, <2>3, QuietGoes, QuietDone DEF LeaseKept, Promise, At
<1>3. CASE CleanCheck(w)
  <2>1. worker[w].pc = "cleanCheck" /\ lease' = lease
    BY <1>3 DEF CleanCheck, At, apiVars, NoWrite
  <2>2. UNCHANGED <<remoteVars, machine, claim>> /\ OthersSpared(w)
    BY <1>3, LifecycleAssumption DEF CleanCheck, OthersSpared, LateMoves, NoWrite, apiVars
  <2>3. Goto(w, "reset") \/ Goto(w, "failed")
    BY <1>3 DEF CleanCheck, Goto, Done
  <2> QED
    BY <1>0, <2>1, <2>2, <2>3, QuietGoes, QuietDone DEF LeaseKept, Promise, At
<1>4. CASE LeaveCleanup(w)
  <2>1. worker[w].pc = "recorded"
    BY <1>4 DEF LeaveCleanup, At
  <2>2. UNCHANGED <<remoteVars, machine, claim>> /\ OthersSpared(w)
    BY <1>4, LifecycleAssumption DEF LeaveCleanup, OthersSpared, LateMoves
  <2>3. Goto(w, "available")
    BY <1>4 DEF LeaveCleanup
  <2> QED
    BY <1>0, <2>1, <2>2, <2>3, QuietGoes, QuietDone DEF LeaseKept, Promise, At
<1>5. CASE AfterFailure(w)
  <2>1. worker[w].pc = "failed"
    BY <1>5 DEF AfterFailure, At
  <2>2. UNCHANGED <<remoteVars, machine, claim>> /\ OthersSpared(w)
    BY <1>5, LifecycleAssumption DEF AfterFailure, OthersSpared, LateMoves
  <2>3. Goto(w, "quarantine2") \/ Goto(w, "end")
    BY <1>5 DEF AfterFailure, Goto, Done
  <2> QED
    BY <1>0, <2>1, <2>2, <2>3, QuietGoes, QuietDone DEF LeaseKept, Promise, At
<1>6. CASE MakeAvailable(w)
  <2>1. worker[w].pc = "available"
    BY <1>6 DEF MakeAvailable, At
  <2>2. UNCHANGED <<remoteVars, machine, claim>> /\ OthersSpared(w)
    BY <1>6, LifecycleAssumption DEF MakeAvailable, OthersSpared, LateMoves, PatchHost, NoWrite,
       apiVars
  <2>3. \/ claim = Uid(w) /\ claim' = claim /\ Goto(w, "unclaim")
        \/ Done(w, "deleted") \/ Goto(w, "end")
    BY <1>6 DEF MakeAvailable, PatchHost
  <2> QED
    BY <1>0, <2>1, <2>2, <2>3, QuietGoes, QuietDone DEF LeaseKept, Promise, At
<1>7. CASE NotFound(w)
  <2>1. ~ At(w, "idle") /\ (At(w, "succeeded") => worker[w].pc \in DeleteSteps)
    BY <1>7 DEF NotFound, At
  <2>2. UNCHANGED <<remoteVars, machine, claim>> /\ OthersSpared(w)
    BY <1>7, LifecycleAssumption DEF NotFound, OthersSpared, LateMoves, NoWrite, apiVars
  <2>3. \/ At(w, "succeeded") /\ Goto(w, "failed")
        \/ Goto(w, "end")
    BY <1>7 DEF NotFound, Goto, Done, At
  <2> QED
    BY <1>0, <2>1, <2>2, <2>3, QuietGoes, QuietDone DEF LeaseKept, Promise, At
<1>8. CASE Raise(w)
  <2>1. ~ At(w, "idle") /\ lease' = lease
    BY <1>8 DEF Raise, At, apiVars, NoWrite
  <2>2. UNCHANGED <<remoteVars, machine, claim>> /\ OthersSpared(w)
    <3>1. \A r \in lateHost' : r \in lateHost \/ LatePatchKept(r)
      BY <1>8, <2>1, GivenUp DEF Raise
    <3>2. ASSUME NEW m \in Uids, lateReceipt'[m] = "sent"
          PROVE  lateReceipt[m] = "sent" \/ Finished(m)
      <4>1. lateReceipt \in [Uids -> {"none", "sent", "landed"}]
        BY DEF LeaseInv, TypeInv, TypeOK
      <4> QED BY <1>0, <1>8, <3>2, <4>1 DEF Raise, LeaseKept, At
    <3> QED BY <1>8, <3>1, <3>2 DEF Raise, OthersSpared, LateMoves
  <2>3. \/ worker[w].pc \in CleanupSteps \union {"cleanLease"} /\ Goto(w, "failed")
        \/ Done(w, "unprovisioned") \/ Done(w, "none")
    BY <1>8 DEF Raise
  <2> QED
    BY <1>0, <2>1, <2>2, <2>3, QuietGoes, QuietDone DEF LeaseKept, Promise, At
<1> QED
  BY <1>1, <1>2, <1>3, <1>4, <1>5, <1>6, <1>7, <1>8

\* The receipt sends the handler to the readiness check or to quarantine.
LEMMA ObserveQuiet ==
  ASSUME LeaseInv, NEW w \in Workers, Observe(w)
  PROVE  LeaseInvKept
<1> USE DEF Steps, BindSteps, BootstrapSteps, DeleteSteps, CleanupSteps, HolderSteps,
            LeaseSteps, OwningSteps, FinishedSteps, Outcomes
<1>0. LeaseKept(w) /\ TypeInv
  BY DEF LeaseInv
<1>1. worker[w].pc = "observe" /\ lease' = lease
  BY DEF Observe, At, NoWrite, apiVars
<1>2. UNCHANGED <<remoteVars, machine, claim>> /\ OthersSpared(w)
  BY DEF Observe, OthersSpared, LateMoves, NoWrite, apiVars
<1>3. Goto(w, "readiness") \/ Goto(w, "quarantine") \/ Done(w, "none")
  BY DEF Observe
<1> QED BY <1>0, <1>1, <1>2, <1>3, QuietGoes, QuietDone DEF LeaseKept, Promise, At

-----------------------------------------------------------------------------
(* Handler steps that write *)

\* A status write of handler w that records neither ownership nor success
\* before their time.
LEMMA RecordGoes ==
  ASSUME LeaseInv, NEW w \in Workers, ~ At(w, "idle"),
         NEW field \in {"selected", "allocated", "owned", "cleanup"}, NEW value,
         Persist(w, field, value),
         field = "owned" => value = TRUE,
         field = "cleanup" /\ value = "Succeeded" => Finished(Uid(w)),
         NEW pc \in Steps, NEW outcome, Moves(w, pc, outcome), Promise(w, pc)
  PROVE  LeaseInvKept
<1>0. /\ Uid(w) \in Uids /\ machine \in [Uids -> Machines]
      /\ machine[Uid(w)].life # "absent"
  BY TypeParts DEF LeaseInv, TypeInv, WorkerShape, LeaseKept, ApiTyped
<1>1. OthersSpared(w)
  <2>1. lateReceipt \in [Uids -> {"none", "sent", "landed"}]
    BY DEF LeaseInv, TypeInv, TypeOK
  <2> QED BY <1>0, <2>1 DEF Persist, Written, OthersSpared, LateMoves
<1>2. ClaimMoves /\ OwnerMoves /\ \A a \in Attempts : JobMoves(a)
  BY DEF Persist, ClaimMoves, OwnerMoves, JobMoves, remoteVars
<1>3. Forward
  <2>1. ASSUME NEW m \in Uids \ {Uid(w)} PROVE machine'[m] = machine[m]
    BY <1>0, <2>1 DEF Persist
  <2>2. machine'[Uid(w)] = [machine[Uid(w)] EXCEPT ![field] = value]
    BY <1>0 DEF Persist
  <2>3. /\ machine'[Uid(w)].life = machine[Uid(w)].life
        /\ field # "owned" => machine'[Uid(w)].owned = machine[Uid(w)].owned
        /\ field = "owned" => machine'[Uid(w)].owned
        /\ field # "cleanup" => machine'[Uid(w)].cleanup = machine[Uid(w)].cleanup
        /\ field = "cleanup" => machine'[Uid(w)].cleanup = value
    <3>1. machine[Uid(w)] \in Machines
      BY <1>0
    <3> QED BY <2>2, <3>1 DEF Machines
  <2> QED BY <1>0, <2>1, <2>3 DEF Forward
<1> QED BY <1>1, <1>2, <1>3, HandlerGoes

\* The status writes of bind_machine, _ensure_bootstrap_ownership and
\* record_cleanup.
LEMMA RecordsGo ==
  ASSUME LeaseInv, NEW w \in Workers,
         PersistSpec(w) \/ PersistAllocation(w) \/ RecordOwnership(w) \/ RecordSucceeded(w) \/
         RecordRunning(w) \/ RecordFailed(w)
  PROVE  LeaseInvKept
<1> USE DEF Steps, BindSteps, BootstrapSteps, DeleteSteps, CleanupSteps, HolderSteps,
            LeaseSteps, OwningSteps, FinishedSteps, Outcomes
<1>0. LeaseKept(w) /\ TypeInv
  BY DEF LeaseInv
<1>1. CASE PersistSpec(w)
  <2>1. /\ worker[w].pc = "spec" /\ Persist(w, "selected", TRUE)
        /\ Moves(w, "status", worker[w].outcome)
    BY <1>0, <1>1, GotoMoves DEF PersistSpec, At
  <2>2. Promise(w, "status")
    BY <1>0, <2>1 DEF LeaseKept, Promise
  <2> QED BY <2>1, <2>2, RecordGoes DEF At
<1>2. CASE PersistAllocation(w)
  <2>1. Persist(w, "allocated", TRUE)
    BY <1>2 DEF PersistAllocation
  <2>2. CASE At(w, "status")
    <3>1. Moves(w, "claimed", worker[w].outcome)
      BY <1>0, <1>2, <2>2, GotoMoves DEF PersistAllocation
    <3>2. Promise(w, "claimed")
      BY <1>0, <2>2 DEF LeaseKept, Promise, At
    <3> QED BY <2>1, <2>2, <3>1, <3>2, RecordGoes DEF At
  <2>3. CASE At(w, "recoverStatus")
    <3>1. Moves(w, "notRequired", worker[w].outcome)
      BY <1>0, <1>2, <2>3, GotoMoves DEF PersistAllocation, At
    <3>2. Promise(w, "notRequired")
      BY <1>0, <2>3 DEF LeaseKept, Promise, At
    <3> QED BY <2>1, <2>3, <3>1, <3>2, RecordGoes DEF At
  <2> QED BY <1>2, <2>2, <2>3 DEF PersistAllocation, At
<1>3. CASE RecordOwnership(w)
  <2>1. worker[w].pc = "own" /\ Persist(w, "owned", TRUE) /\ Moves(w, "claim", worker[w].outcome)
    BY <1>0, <1>3, GotoMoves DEF RecordOwnership, At
  <2>2. machine'[Uid(w)].owned /\ lease' = lease
    <3>1. machine \in [Uids -> Machines] /\ Uid(w) \in Uids
      BY <1>0, <2>1, TypeParts DEF ApiTyped, TypeInv, WorkerShape, At
    <3> QED BY <2>1, <3>1 DEF Persist, Machines
  <2>3. Promise(w, "claim")
    BY <1>0, <2>1, <2>2 DEF LeaseKept, Promise, At
  <2> QED BY <2>1, <2>3, RecordGoes DEF At
<1>4. CASE RecordSucceeded(w)
  <2>1. /\ worker[w].pc \in {"notRequired", "nothing", "confirm", "succeeded"}
        /\ Persist(w, "cleanup", "Succeeded")
        /\ lease' = lease
    BY <1>4 DEF RecordSucceeded, Persist
  <2>2. Finished(Uid(w)) /\ machine[Uid(w)].life # "live"
    BY <1>0, <2>1 DEF LeaseKept
  <2>3. CASE At(w, "nothing")
    <3>1. Moves(w, "end", "deleted")
      BY <1>0, <1>4, <2>3, DoneMoves DEF RecordSucceeded, At
    <3>2. Promise(w, "end")
      BY DEF Promise
    <3> QED BY <2>1, <2>2, <2>3, <3>1, <3>2, RecordGoes DEF At
  <2>4. CASE At(w, "succeeded")
    <3>1. Moves(w, "recorded", worker[w].outcome)
      BY <1>0, <1>4, <2>4, GotoMoves DEF RecordSucceeded, At
    <3>2. Promise(w, "recorded")
      BY <1>0, <2>1, <2>2, <2>4 DEF LeaseKept, Promise, At
    <3> QED BY <2>1, <2>2, <2>4, <3>1, <3>2, RecordGoes DEF At
  <2>5. CASE ~ At(w, "nothing") /\ ~ At(w, "succeeded")
    <3>1. Moves(w, "available", worker[w].outcome)
      BY <1>0, <1>4, <2>5, GotoMoves DEF RecordSucceeded, At
    <3>2. Promise(w, "available")
      BY <2>2 DEF Promise
    <3> QED BY <2>1, <2>2, <3>1, <3>2, RecordGoes DEF At
  <2> QED BY <2>3, <2>4, <2>5
<1>5. CASE RecordRunning(w)
  <2>1. /\ worker[w].pc = "running" /\ Persist(w, "cleanup", "Running")
        /\ Moves(w, "cleanLease", worker[w].outcome)
    BY <1>0, <1>5, GotoMoves DEF RecordRunning, At
  <2>2. Promise(w, "cleanLease")
    BY <1>0, <2>1 DEF LeaseKept, Promise
  <2> QED BY <2>1, <2>2, RecordGoes DEF At
<1>6. CASE RecordFailed(w)
  <2>1. /\ worker[w].pc = "recordFailed" /\ Persist(w, "cleanup", "Failed")
        /\ Moves(w, "end", worker[w].outcome)
    BY <1>0, <1>6, GotoMoves DEF RecordFailed, At
  <2>2. Promise(w, "end")
    BY DEF Promise
  <2> QED BY <2>1, <2>2, RecordGoes DEF At
<1> QED BY <1>1, <1>2, <1>3, <1>4, <1>5, <1>6

\* A step that changes neither a Machine nor the host, beside the claim.
LEMMA ClaimHarmless ==
  ASSUME LeaseInv, UNCHANGED <<remoteVars, machine>>
  PROVE  Forward /\ OwnerMoves /\ \A a \in Attempts : JobMoves(a)
BY DEF Forward, OwnerMoves, JobMoves, remoteVars

\* A host is claimed from nobody, and released by a Machine that is finished.
LEMMA ClaimsGo ==
  ASSUME LeaseInv, NEW w \in Workers, Select(w) \/ ClearClaim(w)
  PROVE  LeaseInvKept
<1> USE DEF Steps, BindSteps, BootstrapSteps, DeleteSteps, CleanupSteps, HolderSteps,
            LeaseSteps, OwningSteps, FinishedSteps, Outcomes
<1>0. /\ LeaseKept(w) /\ TypeInv
      /\ worker[w].pc \in {"select", "reselect", "unclaim"}
      /\ Uid(w) \in Uids
      /\ UNCHANGED <<remoteVars, machine>>
  <2>1. LeaseKept(w) /\ TypeInv
    BY DEF LeaseInv
  <2>2. worker[w].pc \in {"select", "reselect", "unclaim"}
    BY DEF Select, ClearClaim, At
  <2>3. Uid(w) \in Uids
    BY <2>1, <2>2 DEF TypeInv, WorkerShape, At
  <2>4. UNCHANGED <<remoteVars, machine>>
    BY DEF Select, ClearClaim, PatchHost, NoWrite, apiVars
  <2> QED BY <2>1, <2>2, <2>3, <2>4
<1>1. ASSUME NoWrite,
             \/ claim = Uid(w) /\ Goto(w, "spec")
             \/ Goto(w, "end")
      PROVE  LeaseInvKept
  <2>1. UNCHANGED <<remoteVars, machine, claim>> /\ OthersSpared(w)
    BY <1>1 DEF NoWrite, apiVars, OthersSpared, LateMoves
  <2> QED BY <1>0, <1>1, <2>1, QuietGoes DEF Promise, At
<1>2. CASE At(w, "select") /\ claim = None /\ PatchHost(Uid(w), phase, {}) /\ Goto(w, "spec")
  <2>1. claim' = Uid(w) /\ OthersSpared(w)
    BY <1>0, <1>2, HostAssumption DEF PatchHost, OthersSpared, LateMoves
  <2>2. Moves(w, "spec", worker[w].outcome)
    BY <1>0, <1>2, GotoMoves
  <2>3. Promise(w, "spec")
    BY <2>1 DEF Promise
  <2>4. ClaimMoves
    BY <1>0, <1>2, <2>1 DEF ClaimMoves, LeaseKept, At
  <2> QED BY <1>0, <2>1, <2>2, <2>3, <2>4, ClaimHarmless, HandlerGoes DEF At
<1>3. CASE At(w, "unclaim") /\ w \in current /\ PatchHost(None, phase, {}) /\ Done(w, "deleted")
  <2>1. claim' = None /\ OthersSpared(w)
    BY <1>0, <1>3 DEF PatchHost, OthersSpared, LateMoves
  <2>2. Moves(w, "end", "deleted")
    BY <1>0, <1>3, DoneMoves
  <2>3. Promise(w, "end")
    BY DEF Promise
  <2>4. claim = Uid(w) /\ Finished(Uid(w))
    BY <1>0, <1>3 DEF LeaseKept, At
  <2>5. ClaimMoves
    BY <2>1, <2>4 DEF ClaimMoves
  <2> QED BY <1>0, <2>1, <2>2, <2>3, <2>5, ClaimHarmless, HandlerGoes DEF At
<1>4. CASE Select(w)
  BY <1>1, <1>2, <1>4 DEF Select, Goto, Done
<1>5. CASE ClearClaim(w)
  BY <1>1, <1>3, <1>5 DEF ClearClaim
<1> QED BY <1>4, <1>5

-----------------------------------------------------------------------------
(* Commands on the host *)

\* Beside a granted claim and a launch, no command or step of the host writes
\* the owner file or starts a job that was not launched.
HostOnly ==
  \/ \E a \in Attempts :
       \/ JobRefused(a) \/ JobSkipped(a) \/ JobStarts(a) \/ PayloadWrites(a)
       \/ \E code \in Codes : JobEnds(a, code)
       \/ Upload(a)
  \/ ResetFails \/ KubeadmReset \/ RemoveFile \/ ResetEnds \/ PowerLoss \/ ResetAlreadyClean
  \/ \E u \in Uids : ClaimRefused(u) \/ ResetBegins(u) \/ ResetRefused(u)
  \/ UNCHANGED remoteVars

\* Such a step moves neither the owner file nor a job further than allowed.
LEMMA HostOnlyMoves ==
  ASSUME LeaseInv, HostOnly
  PROVE  OwnerMoves /\ \A a \in Attempts : JobMoves(a)
<1>0. job \in [Attempts -> JobStates]
  BY DEF LeaseInv, TypeInv, TypeOK, RemoteTypeOK
<1>1. OwnerMoves
  BY DEF HostOnly, OwnerMoves, JobRefused, JobSkipped, JobStarts, PayloadWrites, JobEnds, Upload,
         ResetFails, KubeadmReset, RemoveFile, ResetEnds, PowerLoss, ResetAlreadyClean,
         ClaimRefused, ResetBegins, ResetRefused, remoteVars
<1>2. ASSUME NEW a \in Attempts PROVE JobMoves(a)
  <2>1. CASE job' = job \/ PowerLoss
    BY <1>0, <2>1 DEF JobMoves, PowerLoss
  <2>2. CASE \E b \in Attempts : JobRefused(b) \/ JobSkipped(b) \/ JobStarts(b) \/
                                 (\E code \in Codes : JobEnds(b, code))
    BY <1>0, <2>2 DEF JobMoves, JobRefused, JobSkipped, JobStarts, JobEnds, TakesFlock
  <2>3. \/ job' = job \/ PowerLoss
        \/ \E b \in Attempts : JobRefused(b) \/ JobSkipped(b) \/ JobStarts(b) \/
                               (\E code \in Codes : JobEnds(b, code))
    BY DEF HostOnly, PayloadWrites, Upload, ResetFails, KubeadmReset, RemoveFile, ResetEnds,
           ResetAlreadyClean, ClaimRefused, ResetBegins, ResetRefused, remoteVars
  <2> QED BY <2>1, <2>2, <2>3
<1> QED BY <1>1, <1>2

\* A command of handler w leaves the API server alone.
LEMMA CommandGoes ==
  ASSUME LeaseInv, NEW w \in Workers, ~ At(w, "idle"), Remote,
         NEW pc \in Steps, NEW outcome, Moves(w, pc, outcome), Promise(w, pc),
         OwnerMoves, \A a \in Attempts : JobMoves(a)
  PROVE  LeaseInvKept
<1>1. Forward /\ ClaimMoves /\ OthersSpared(w)
  BY DEF Remote, apiVars, Forward, ClaimMoves, OthersSpared, LateMoves
<1> QED BY <1>1, HandlerGoes

\* While a handler is inside host_operation for a reset that leaves no owner
\* file, nobody else is about to write one.
LEMMA ResetFinishes ==
  ASSUME LeaseInv, NEW w \in Workers, worker[w].pc \in CleanupSteps, owner = None
  PROVE  Finished(Uid(w))
<1>0. LeaseKept(w) /\ TypeInv
  BY DEF LeaseInv
<1>1. lease = w /\ machine[Uid(w)].life \notin {"absent", "live"} /\ Uid(w) \in Uids
  BY <1>0
     DEF LeaseKept, LeaseSteps, DeleteSteps, CleanupSteps, TypeInv, WorkerShape, At
<1>2. machine[Uid(w)].life \in {"deleting", "gone"}
  BY <1>0, <1>1 DEF TypeInv, TypeOK
<1>3. ASSUME NEW u \in Workers, worker[u].pc \in {"own", "claim"} PROVE FALSE
  <2>1. lease = u
    BY <1>3 DEF LeaseInv, LeaseKept, LeaseSteps, BootstrapSteps
  <2> QED BY <1>1, <1>3, <2>1 DEF CleanupSteps
<1>4. Disowned(Uid(w))
  BY <1>1, <1>3, HostAssumption DEF Disowned
<1> QED BY <1>2, <1>4 DEF Finished

\* The claim, the upload, the launch and the reset.
LEMMA CommandsGo ==
  ASSUME LeaseInv, NEW w \in Workers,
         RemoteClaim(w) \/ UploadScript(w) \/ LaunchJob(w) \/ Reset(w)
  PROVE  LeaseInvKept
<1> USE DEF Steps, BindSteps, BootstrapSteps, DeleteSteps, CleanupSteps, HolderSteps,
            LeaseSteps, OwningSteps, FinishedSteps, Outcomes
<1>0. /\ LeaseKept(w) /\ TypeInv
      /\ worker[w].pc \in {"claim", "upload", "launch", "reset"}
      /\ Uid(w) \in Uids
      /\ Remote /\ UNCHANGED <<machine, claim, lease, current, lateHost, lateReceipt>>
  <2>1. LeaseKept(w) /\ TypeInv
    BY DEF LeaseInv
  <2>2. worker[w].pc \in {"claim", "upload", "launch", "reset"}
    BY DEF RemoteClaim, UploadScript, LaunchJob, Reset, At
  <2>3. Uid(w) \in Uids
    BY <2>1, <2>2 DEF TypeInv, WorkerShape, At
  <2>4. Remote
    BY DEF RemoteClaim, UploadScript, LaunchJob, Reset
  <2> QED BY <2>1, <2>2, <2>3, <2>4 DEF Remote, apiVars
<1>1. CASE RemoteClaim(w)
  <2>1. At(w, "claim")
    BY <1>1 DEF RemoteClaim
  <2>2. /\ OwnerMoves /\ \A a \in Attempts : JobMoves(a)
    <3>1. CASE ClaimGranted(Uid(w))
      BY <2>1, <3>1 DEF ClaimGranted, OwnerMoves, JobMoves
    <3>2. CASE ClaimRefused(Uid(w)) \/ UNCHANGED remoteVars
      BY <1>0, <3>2, HostOnlyMoves DEF HostOnly
    <3> QED BY <1>1, <3>1, <3>2 DEF RemoteClaim
  <2>3. Goto(w, "check2") \/ Goto(w, "mismatch") \/ Goto(w, "end")
    BY <1>1 DEF RemoteClaim
  <2>4. Promise(w, "check2") /\ Promise(w, "mismatch") /\ Promise(w, "end")
    BY <1>0, <2>1 DEF LeaseKept, Promise, At
  <2> QED BY <1>0, <2>2, <2>3, <2>4, GotoMoves, CommandGoes DEF At
<1>2. CASE UploadScript(w)
  <2>1. At(w, "upload")
    BY <1>2 DEF UploadScript
  <2>2. CASE (Goto(w, "end") \/ Done(w, "unprovisioned")) /\ UNCHANGED remoteVars
    <3>1. Promise(w, "end")
      BY DEF Promise
    <3> QED
      BY <1>0, <2>2, <3>1, HostOnlyMoves, GotoMoves, DoneMoves, CommandGoes DEF At, HostOnly
  <2>3. CASE \E a \in Fresh(Uid(w)) :
               Upload(a) /\ worker' = [worker EXCEPT ![w].pc = "recheck2", ![w].attempt = a]
    <3>1. PICK a \in Attempts :
            /\ UidOf[a] = Uid(w) /\ Upload(a)
            /\ worker' = [worker EXCEPT ![w].pc = "recheck2", ![w].attempt = a]
      BY <2>3 DEF Fresh
    <3>2. worker \in [Workers -> WorkerRecords] /\ "recheck2" \in Steps
      BY <1>0, TypeParts DEF WorkersTyped
    <3>3. worker' = [worker EXCEPT ![w] = [worker[w] EXCEPT !.pc = "recheck2", !.attempt = a]]
      BY <3>1, <3>2 DEF WorkerRecords
    <3> DEFINE rec == [worker[w] EXCEPT !.pc = "recheck2", !.attempt = a]
    <3>4. /\ rec \in WorkerRecords /\ rec.pc = "recheck2" /\ rec.attempt = a
          /\ rec.uid = worker[w].uid /\ rec.outcome = worker[w].outcome
      <4> HIDE DEF Steps, Outcomes
      <4> QED BY <3>2 DEF WorkerRecords
    <3>5. /\ worker' \in [Workers -> WorkerRecords] /\ worker'[w] = rec
          /\ \A u \in Workers \ {w} : worker'[u] = worker[u]
      <4> HIDE DEF rec, WorkerRecords
      <4>1. worker' = [worker EXCEPT ![w] = rec]
        BY <3>3 DEF rec
      <4> QED BY <3>2, <3>4, <4>1
    <3>6. /\ Forward /\ ClaimMoves /\ OthersSpared(w)
          /\ OwnerMoves /\ \A b \in Attempts : JobMoves(b)
      BY <1>0, <3>1, HostOnlyMoves DEF Forward, ClaimMoves, OthersSpared, LateMoves, HostOnly
    <3>7. UidOf[worker'[w].attempt] = Uid(w) /\ worker'[w].pc = "recheck2" /\ Uid(w)' = Uid(w)
      BY <3>1, <3>4, <3>5 DEF Uid
    <3>8. Harmless
      <4>1. ASSUME NEW u \in Workers PROVE Enters(u)
        BY <3>5, <3>7 DEF Enters
      <4> QED BY <3>6, <4>1 DEF Harmless, OthersSpared
    <3>9. LeaseKept(w)'
      <4>1. Covered(Uid(w)) /\ machine[Uid(w)].owned /\ lease = w /\ machine[Uid(w)].life # "absent"
        BY <1>0, <2>1 DEF LeaseKept, At
      <4> DEFINE m == Uid(w)
      <4>2. m \in Uids /\ m' = m /\ Covered(m)
        BY <1>0, <3>7, <4>1
      <4> HIDE DEF m
      <4>3. Covered(m)'
        BY <3>8, <4>2, CoveredStays
      <4>4. Covered(Uid(w))'
        BY <4>2, <4>3 DEF m
      <4> QED BY <1>0, <3>7, <4>1, <4>4 DEF LeaseKept, At
    <3>10. ASSUME NEW u \in Workers \ {w} PROVE LeaseKept(u)'
      BY <3>5, <3>6, <3>8, UndisturbedKeeps DEF Undisturbed, OthersSpared
    <3> QED BY <3>8, <3>9, <3>10, BooksKeep DEF LeaseInvKept
  <2> QED BY <1>2, <2>2, <2>3 DEF UploadScript
<1>3. CASE LaunchJob(w)
  <2>1. /\ At(w, "launch") /\ Launch(worker[w].attempt) /\ Goto(w, "observe")
        /\ UidOf[worker[w].attempt] = Uid(w)
    BY <1>0, <1>3 DEF LaunchJob, LeaseKept, At
  <2>2. OwnerMoves
    BY <2>1 DEF Launch, OwnerMoves
  <2>3. ASSUME NEW a \in Attempts PROVE JobMoves(a)
    <3>1. job \in [Attempts -> JobStates]
      BY <1>0 DEF TypeInv, TypeOK, RemoteTypeOK
    <3>2. a # worker[w].attempt => job'[a] = job[a]
      BY <2>1, <3>1 DEF Launch
    <3> QED BY <2>1, <3>2 DEF JobMoves
  <2>4. Promise(w, "observe")
    BY <1>0, <2>1 DEF LeaseKept, Promise, At
  <2> QED BY <1>0, <2>1, <2>2, <2>3, <2>4, GotoMoves, CommandGoes DEF At
<1>4. CASE Reset(w)
  <2>1. At(w, "reset")
    BY <1>4 DEF Reset
  <2>2. HostOnly
    BY <1>0, <1>4 DEF Reset, HostOnly
  <2>3. CASE Goto(w, "resetting") \/ Goto(w, "failed")
    <3>1. Promise(w, "resetting") /\ Promise(w, "failed")
      BY <1>0, <2>1 DEF LeaseKept, Promise, At
    <3> QED BY <1>0, <2>2, <2>3, <3>1, HostOnlyMoves, GotoMoves, CommandGoes DEF At
  <2>4. CASE ResetAlreadyClean /\ Goto(w, "succeeded")
    <3>1. Finished(Uid(w))
      BY <2>1, <2>4, ResetFinishes DEF ResetAlreadyClean, At
    <3>2. Promise(w, "succeeded")
      BY <1>0, <2>1, <3>1 DEF LeaseKept, Promise, At
    <3> QED BY <1>0, <2>2, <2>4, <3>2, HostOnlyMoves, GotoMoves, CommandGoes DEF At
  <2> QED BY <1>4, <2>3, <2>4 DEF Reset
<1> QED BY <1>1, <1>2, <1>3, <1>4

-----------------------------------------------------------------------------
(* The steps that begin and end a handler run, the user and the host *)

\* A handler that ends, or one whose patch is applied, promises nothing more.
LEMMA LeaveGoes ==
  ASSUME LeaseInv, NEW w \in Workers, End(w) \/ ApplyPatch(w) \/ Crash(w)
  PROVE  LeaseInvKept
<1>0. /\ LeaseKept(w) /\ TypeInv
      /\ ~ At(w, "idle") /\ Uid(w) \in Uids
      /\ worker \in [Workers -> WorkerRecords] /\ machine \in [Uids -> Machines]
  <2>1. ~ At(w, "idle")
    BY DEF End, ApplyPatch, Crash, At
  <2> QED BY <2>1, TypeParts DEF LeaseInv, TypeInv, WorkerShape, WorkersTyped, ApiTyped
<1>1. /\ UNCHANGED <<remoteVars, claim>>
      /\ OthersSpared(w)
  <2>1. UNCHANGED <<remoteVars, claim>>
    BY DEF End, ApplyPatch, Crash
  <2>2. ASSUME NEW m \in Uids, lateReceipt'[m] = "sent" PROVE lateReceipt[m] = "sent"
    <3>1. lateReceipt \in [Uids -> {"none", "sent", "landed"}]
      BY <1>0 DEF TypeInv, TypeOK
    <3> QED BY <1>0, <2>2, <3>1 DEF End, ApplyPatch, Crash, Written
  <2>3. \A r \in lateHost' : r \in lateHost \/ LatePatchKept(r)
    BY <1>0, GivenUp DEF End, ApplyPatch, Crash
  <2>4. LateMoves
    BY <2>1, <2>2, <2>3 DEF LateMoves
  <2> QED BY <2>1, <2>4 DEF End, ApplyPatch, Crash, OthersSpared
<1>2. /\ \A u \in Workers \ {w} : worker'[u] = worker[u]
      /\ worker'[w] = Idle \/ worker'[w] = [worker[w] EXCEPT !.pc = "patch"]
  BY <1>0 DEF End, ApplyPatch, Crash
<1>3. /\ worker'[w].pc \in {"idle", "patch"}
      /\ worker'[w].pc = "patch" => worker'[w].uid = worker[w].uid
  <2>1. worker[w] \in WorkerRecords
    BY <1>0
  <2> QED BY <1>2, <2>1 DEF WorkerRecords, Idle
<1>4. Forward
  <2>1. CASE UNCHANGED machine
    BY <2>1 DEF Forward
  <2>2. CASE ApplyPatch(w)
    <3>1. ASSUME NEW m \in Uids
          PROVE  /\ machine'[m].owned = machine[m].owned /\ machine'[m].cleanup = machine[m].cleanup
                 /\ machine'[m].life \in {machine[m].life, "gone"}
      <4>1. m # Uid(w) => machine'[m] = machine[m]
        BY <1>0, <2>2 DEF ApplyPatch
      <4>2. worker[w].outcome \in Outcomes \ {"none"}
        BY <1>0, <2>2 DEF ApplyPatch, TypeInv, WorkerShape, WorkerRecords, At
      <4>3. machine'[Uid(w)] \in {machine[Uid(w)],
                                  [machine[Uid(w)] EXCEPT !.life = "gone"],
                                  [machine[Uid(w)] EXCEPT !.provisioned = FALSE],
                                  [machine[Uid(w)] EXCEPT !.providerID = TRUE],
                                  [machine[Uid(w)] EXCEPT !.provisioned = TRUE,
                                                          !.providerID = TRUE]}
        BY <1>0, <2>2, <4>2 DEF ApplyPatch, Outcomes
      <4>4. machine[Uid(w)] \in Machines
        BY <1>0
      <4> QED BY <4>1, <4>3, <4>4, ZenonT(60) DEF Machines
    <3> QED BY <3>1 DEF Forward
  <2> QED BY <2>1, <2>2 DEF End, Crash
<1>5. Harmless
  <2>1. ASSUME NEW u \in Workers PROVE Enters(u)
    BY <1>2, <1>3, <2>1 DEF Enters
  <2>2. ClaimMoves /\ OwnerMoves /\ \A a \in Attempts : JobMoves(a)
    BY <1>1 DEF ClaimMoves, OwnerMoves, JobMoves, remoteVars
  <2> QED BY <1>1, <1>4, <2>1, <2>2 DEF Harmless, OthersSpared
<1>6. LeaseKept(w)'
  <2>1. worker'[w].pc = "patch" => machine'[worker'[w].uid].life # "absent"
    BY <1>0, <1>3, <1>4 DEF LeaseKept, Forward, At, Uid
  <2> QED
    BY <1>3, <2>1
       DEF LeaseKept, At, Uid, LeaseSteps, OwningSteps, FinishedSteps, HolderSteps,
           BootstrapSteps, DeleteSteps, CleanupSteps
<1>7. ASSUME NEW u \in Workers \ {w} PROVE LeaseKept(u)'
  BY <1>1, <1>2, <1>5, UndisturbedKeeps DEF Undisturbed, OthersSpared
<1> QED BY <1>5, <1>6, <1>7, BooksKeep DEF LeaseInvKept

\* A deletion that finds no ownership record comes before any job; one that
\* finds the receipt comes after the last.
LEMMA BeginGoes ==
  ASSUME LeaseInv, NEW w \in Workers, NEW m \in Uids, Begin(w, m)
  PROVE  LeaseInvKept
<1> USE DEF Steps, BindSteps, BootstrapSteps, DeleteSteps, CleanupSteps, HolderSteps,
            LeaseSteps, OwningSteps, FinishedSteps
<1>0. machine[m] \in Machines /\ worker \in [Workers -> WorkerRecords]
  BY TypeParts DEF LeaseInv, ApiTyped, WorkersTyped
<1>1. /\ UNCHANGED <<remoteVars, machine, claim, current>> /\ OthersSpared(w)
      /\ machine[m].life \in {"live", "deleting"}
  <2>1. lateReceipt \in [Uids -> {"none", "sent", "landed"}]
    BY DEF LeaseInv, TypeInv, TypeOK
  <2> QED BY <2>1 DEF Begin, Present, OthersSpared, LateMoves
<1>2. /\ \A u \in Workers \ {w} : worker'[u] = worker[u]
      /\ worker'[w].uid = m
      /\ worker'[w].pc = IF machine[m].life = "live" THEN ReconcileEntry(m) ELSE DeleteEntry(m)
  <2> HIDE DEF Steps
  <2> QED BY <1>0 DEF Begin, Idle
<1>3. \/ worker'[w].pc \in {"bind", "select", "reselect", "end"}
      \/ /\ machine[m].life = "deleting"
         /\ \/ worker'[w].pc \in {"legacy", "cleaning"}
            \/ worker'[w].pc = "confirm" /\ machine[m].cleanup = "Succeeded"
            \/ /\ worker'[w].pc \in {"notRequired", "recoverSelected", "recover"}
               /\ ~ machine[m].owned
  <2>1. /\ machine[m].owned \in BOOLEAN /\ machine[m].allocated \in BOOLEAN
        /\ machine[m].providerID \in BOOLEAN /\ machine[m].provisioned \in BOOLEAN
    BY <1>0 DEF Machines
  <2> QED BY <1>1, <1>2, <2>1 DEF ReconcileEntry, DeleteEntry, Provisioned
<1>4. Harmless
  <2>1. ASSUME NEW u \in Workers PROVE Enters(u)
    BY <1>2, <1>3, <2>1 DEF Enters
  <2> QED BY <1>1, <2>1, QuietHarmless DEF Harmless, OthersSpared
<1>5. worker'[w].pc \in FinishedSteps => Finished(m)
  <2>1. CASE machine[m].cleanup = "Succeeded"
    BY <2>1 DEF LeaseInv, RecordsKept
  <2>2. CASE machine[m].life = "deleting" /\ ~ machine[m].owned
    <3>1. ASSUME NEW a \in Attempts, UidOf[a] = m PROVE job[a] = "none"
      BY <2>2, <3>1 DEF LeaseInv, JobsKept
    <3>2. ASSUME NEW u \in Workers, At(u, "launch") PROVE Uid(u) # m
      BY <2>2, <3>2 DEF LeaseInv, LeaseKept, At
    <3> QED BY <2>2, <3>1, <3>2 DEF Finished, NeverLaunched
  <2> QED BY <1>3, <2>1, <2>2
<1>6. LeaseKept(w)'
  <2>1. worker'[w].pc \in FinishedSteps => Finished(m)'
    BY <1>4, <1>5, FinishedStays
  <2>2. Uid(w)' = m
    BY <1>2 DEF Uid
  <2> HIDE DEF FinishedSteps
  <2>3. worker'[w].pc \in FinishedSteps => Finished(Uid(w))'
    BY <2>1, <2>2 DEF Finished, NeverLaunched, Disowned
  <2> QED BY <1>1, <1>3, <2>2, <2>3 DEF LeaseKept, At
<1>7. ASSUME NEW u \in Workers \ {w} PROVE LeaseKept(u)'
  BY <1>1, <1>2, <1>4, UndisturbedKeeps DEF Undisturbed, OthersSpared
<1> QED BY <1>4, <1>6, <1>7, BooksKeep DEF LeaseInvKept

\* A step in which no handler moves.
LEMMA NobodyMoves ==
  ASSUME LeaseInv, UNCHANGED <<worker, lease>>, Forward, ClaimMoves, OwnerMoves, LateMoves,
         \A a \in Attempts : JobMoves(a),
         \A u \in Workers : u \in current' /\ At(u, "unclaim") => u \in current /\ claim' = claim
  PROVE  LeaseInvKept
<1>1. Harmless
  BY DEF Harmless, Enters
<1>2. ASSUME NEW u \in Workers PROVE LeaseKept(u)'
  BY <1>1, UndisturbedKeeps DEF Undisturbed
<1> QED BY <1>1, <1>2, BooksKeep DEF LeaseInvKept

\* The user creates and deletes Machines.
LEMMA UserGoes ==
  ASSUME LeaseInv, NEW m \in Uids, CreateMachine(m) \/ DeleteMachine(m)
  PROVE  LeaseInvKept
<1>0. machine \in [Uids -> Machines]
  BY TypeParts DEF LeaseInv, ApiTyped
<1>1. UNCHANGED <<remoteVars, claim, worker, lease, current, lateHost>>
  BY DEF CreateMachine, DeleteMachine
<1>2. Forward
  BY <1>0 DEF CreateMachine, DeleteMachine, Forward, Machines
<1>3. ClaimMoves /\ OwnerMoves /\ \A a \in Attempts : JobMoves(a)
  BY <1>1 DEF ClaimMoves, OwnerMoves, JobMoves, remoteVars
<1>4. LateMoves
  <2>1. lateReceipt \in [Uids -> {"none", "sent", "landed"}]
    BY DEF LeaseInv, TypeInv, TypeOK
  <2> QED BY <1>1, <2>1 DEF CreateMachine, DeleteMachine, Written, LateMoves
<1> QED BY <1>1, <1>2, <1>3, <1>4, NobodyMoves

\* A legacy Machine is adopted before anything else exists.
LEMMA AdoptGoes ==
  ASSUME LeaseInv, NEW m \in Uids, AdoptLegacy(m)
  PROVE  LeaseInvKept
<1>0. machine \in [Uids -> Machines] /\ claim \in Uids \union {None}
  BY TypeParts DEF LeaseInv, ApiTyped
<1>1. UNCHANGED <<owner, job, worker, lease, current, lateHost, lateReceipt>> /\ claim' = m
  BY DEF AdoptLegacy
<1>2. \A n \in Uids : machine[n].life = "absent"
  BY DEF AdoptLegacy
<1>3. machine' = [machine EXCEPT ![m] = [machine[m] EXCEPT !.life = "live", !.selected = TRUE,
                                            !.provisioned = TRUE, !.providerID = TRUE]]
  BY <1>0 DEF AdoptLegacy, Machines
<1>4. Forward /\ machine'[m].life = "live"
  <2>1. \A n \in Uids \ {m} : machine'[n] = machine[n]
    BY <1>0, <1>3
  <2>2. machine[m] \in Machines
    BY <1>0
  <2>3. /\ machine'[m].life = "live" /\ machine'[m].owned = machine[m].owned
        /\ machine'[m].cleanup = machine[m].cleanup
    BY <1>0, <1>3, <2>2 DEF Machines
  <2> QED BY <1>2, <2>1, <2>3 DEF Forward
<1>5. ClaimMoves
  <2>1. claim = None
    BY <1>0, <1>2 DEF LeaseInv, RecordsKept
  <2> QED BY <1>1, <1>4, <2>1 DEF ClaimMoves
<1>6. OwnerMoves /\ \A a \in Attempts : JobMoves(a)
  BY <1>1 DEF OwnerMoves, JobMoves
<1>7. ASSUME NEW u \in Workers PROVE ~ At(u, "unclaim")
  BY <1>2 DEF LeaseInv, TypeInv, LeaseKept, WorkerShape, At
<1>8. LateMoves
  <2>1. claim = None
    BY <1>0, <1>2 DEF LeaseInv, RecordsKept
  <2>2. lateHost = {}
    BY <1>2, <2>1 DEF LeaseInv, LateKept, LatePatchKept
  <2> QED BY <1>1, <2>1, <2>2 DEF LateMoves
<1> QED BY <1>1, <1>4, <1>5, <1>6, <1>7, <1>8, NobodyMoves

\* A late patch of the SSHHost, or a late receipt.
LEMMA LateGoes ==
  ASSUME LeaseInv, LateHostPatch \/ \E m \in Uids : LateReceipt(m)
  PROVE  LeaseInvKept
<1>0. /\ machine \in [Uids -> Machines] /\ claim \in Uids \union {None} /\ None \notin Uids
      /\ lateReceipt \in [Uids -> {"none", "sent", "landed"}]
  BY TypeParts, HostAssumption DEF LeaseInv, ApiTyped
<1>1. CASE LateHostPatch
  <2>1. /\ UNCHANGED <<remoteVars, machine, lateReceipt, worker, lease>>
        /\ current' = {} /\ lateHost' = {}
    BY <1>1 DEF LateHostPatch
  <2>2. ClaimMoves
    <3>1. PICK r \in lateHost : claim' = r.claim
      BY <1>1 DEF LateHostPatch
    <3>2. LatePatchKept(r)
      BY DEF LeaseInv, LateKept
    <3> QED BY <2>1, <3>1, <3>2 DEF LatePatchKept, ClaimMoves
  <2>3. Forward /\ OwnerMoves /\ \A a \in Attempts : JobMoves(a)
    BY <2>1, ClaimHarmless
  <2> QED BY <2>1, <2>2, <2>3, NobodyMoves DEF LateMoves
<1>2. ASSUME NEW m \in Uids, LateReceipt(m) PROVE LeaseInvKept
  <2>1. UNCHANGED <<remoteVars, claim, current, lateHost, worker, lease>>
    BY <1>2 DEF LateReceipt
  <2>2. Finished(m)
    BY <1>2 DEF LateReceipt, LeaseInv, LateKept
  <2>3. Forward
    BY <1>0, <1>2, <2>2 DEF LateReceipt, Forward, Machines
  <2>4. LateMoves
    BY <1>0, <1>2, <2>1 DEF LateReceipt, LateMoves
  <2>5. ClaimMoves /\ OwnerMoves /\ \A a \in Attempts : JobMoves(a)
    BY <2>1 DEF ClaimMoves, OwnerMoves, JobMoves, remoteVars
  <2> QED BY <2>1, <2>3, <2>4, <2>5, NobodyMoves
<1> QED BY <1>1, <1>2

\* The host works on, returns from a reset, or fails.
LEMMA HostGoes ==
  ASSUME LeaseInv, HostWorks \/ ResetReturns \/ HostFault
  PROVE  LeaseInvKept
<1> USE DEF LeaseSteps, OwningSteps, FinishedSteps, HolderSteps, BootstrapSteps, DeleteSteps,
            CleanupSteps
<1>0. worker \in [Workers -> WorkerRecords]
  BY TypeParts DEF LeaseInv, WorkersTyped
<1>1. UNCHANGED <<machine, claim, lease, current, lateHost, lateReceipt>>
  BY DEF HostWorks, ResetReturns, HostFault, Remote, apiVars
<1>2. HostOnly
  BY DEF HostWorks, ResetReturns, HostFault, HostOnly
<1>3. Forward /\ ClaimMoves /\ LateMoves /\ OwnerMoves /\ \A a \in Attempts : JobMoves(a)
  BY <1>1, <1>2, HostOnlyMoves DEF Forward, ClaimMoves, LateMoves
<1>4. CASE HostWorks
  BY <1>1, <1>3, <1>4, NobodyMoves DEF HostWorks
<1>5. CASE ResetReturns \/ HostFault
  <2>1. ASSUME NEW u \in Workers
        PROVE  /\ ~ At(u, "resetting") => worker'[u] = worker[u]
               /\ At(u, "resetting") =>
                    /\ worker'[u].uid = worker[u].uid
                    /\ \/ worker'[u].pc = "succeeded" /\ ResetEnds
                       \/ worker'[u].pc = "failed"
    <3>1. worker[u] \in WorkerRecords
      BY <1>0
    <3> QED BY <1>5, <3>1 DEF ResetReturns, HostFault, WorkerRecords
  <2>2. Harmless
    <3>1. ASSUME NEW u \in Workers PROVE Enters(u)
      BY <2>1, <3>1 DEF Enters
    <3> QED BY <1>3, <3>1 DEF Harmless
  <2>3. ASSUME NEW u \in Workers, At(u, "resetting") PROVE LeaseKept(u)'
    <3>1. LeaseKept(u) /\ Uid(u) \in Uids
      BY <2>3 DEF LeaseInv, TypeInv, WorkerShape, At
    <3>2. Uid(u)' = Uid(u)
      BY <2>1, <2>3 DEF Uid
    <3>3. worker'[u].pc = "succeeded" => Finished(Uid(u))
      <4>1. worker'[u].pc = "succeeded" => owner = None
        BY <2>1, <2>3 DEF ResetEnds, NothingOwned
      <4> QED BY <2>3, <4>1, ResetFinishes DEF At
    <3>4. Finished(Uid(u)) => Finished(Uid(u))'
      <4> DEFINE m == Uid(u)
      <4>1. m \in Uids /\ m' = m
        BY <3>1, <3>2
      <4> HIDE DEF m
      <4>2. Finished(m) => Finished(m)'
        BY <2>2, <4>1, FinishedStays
      <4> QED BY <4>1, <4>2 DEF m
    <3> QED BY <1>1, <2>1, <2>3, <3>1, <3>2, <3>3, <3>4 DEF LeaseKept, At
  <2>4. ASSUME NEW u \in Workers, ~ At(u, "resetting") PROVE LeaseKept(u)'
    BY <1>1, <2>1, <2>2, <2>4, UndisturbedKeeps DEF Undisturbed
  <2> QED BY <2>2, <2>3, <2>4, BooksKeep DEF LeaseInvKept
<1> QED BY <1>4, <1>5

-----------------------------------------------------------------------------
(* The theorem *)

\* In the first state nobody has done anything.
LEMMA LeaseInvInit == Init => LeaseInv
<1> SUFFICES ASSUME Init PROVE LeaseInv
  OBVIOUS
<1>1. TypeInv
  BY LifecycleInit DEF LifecycleInv
<1>2. RecordsKept /\ LateKept /\ JobsKept
  BY HostAssumption DEF Init, RemoteInit, RecordsKept, LateKept, JobsKept
<1>3. ASSUME NEW w \in Workers PROVE LeaseKept(w)
  BY <1>3
     DEF Init, Idle, LeaseKept, At, LeaseSteps, OwningSteps, FinishedSteps, HolderSteps,
         BootstrapSteps, DeleteSteps, CleanupSteps
<1> QED BY <1>1, <1>2, <1>3 DEF LeaseInv

\* Every step keeps the invariant.
LEMMA LeaseInvStep ==
  ASSUME LeaseCanExpire = FALSE, LeaseInv, [Next]_vars
  PROVE  LeaseInv'
<1>1. TypeInv'
  BY TypeStep DEF LeaseInv
<1>2. ASSUME NEW w \in Workers, Handler(w) PROVE LeaseInvKept
  BY <1>2, BindQuiet, BootstrapQuiet, DeleteQuiet, ObserveQuiet, RecordsGo, ClaimsGo,
     CommandsGo, LeaveGoes DEF Handler
<1>3. ASSUME NEW w \in Workers, Raise(w) \/ Crash(w) PROVE LeaseInvKept
  BY <1>3, DeleteQuiet, LeaveGoes
<1>4. ASSUME NEW m \in Uids, CreateMachine(m) \/ AdoptLegacy(m) \/ DeleteMachine(m)
      PROVE  LeaseInvKept
  BY <1>4, UserGoes, AdoptGoes
<1>5. ASSUME ProbeHost PROVE LeaseInvKept
  <2>1. /\ UNCHANGED <<remoteVars, machine, claim>> /\ UNCHANGED <<worker, lease>>
        /\ current' = {} /\ LateMoves
    BY <1>5 DEF ProbeHost, LateMoves
  <2>2. Forward /\ ClaimMoves /\ OwnerMoves /\ \A a \in Attempts : JobMoves(a)
    BY <2>1, QuietHarmless
  <2> QED BY <2>1, <2>2, NobodyMoves
<1>6. ASSUME UNCHANGED vars PROVE LeaseInvKept
  <2>1. /\ UNCHANGED <<remoteVars, machine, claim>> /\ UNCHANGED <<worker, lease>>
        /\ current' = current /\ LateMoves
    BY <1>6 DEF vars, apiVars, LateMoves
  <2>2. Forward /\ ClaimMoves /\ OwnerMoves /\ \A a \in Attempts : JobMoves(a)
    BY <2>1, QuietHarmless
  <2> QED BY <2>1, <2>2, NobodyMoves
<1>7. LeaseInvKept
  <2>1. CASE HostWorks \/ ResetReturns \/ HostFault
    BY <2>1, HostGoes
  <2>2. ASSUME NEW w \in Workers, NEW m \in Uids, Begin(w, m) PROVE LeaseInvKept
    BY <2>2, BeginGoes
  <2> QED BY <1>2, <1>3, <1>4, <1>5, <1>6, <2>1, <2>2, LateGoes DEF Next
<1> QED BY <1>1, <1>7 DEF LeaseInv, LeaseInvKept

\* A running job has the owner file (JobFenced), so its Machine is not
\* finished and still has the claim.
LEMMA LeaseInvClaims == LeaseInv => RunningPayloadIsClaimed
<1> SUFFICES ASSUME LeaseInv, NEW a \in Attempts, job[a] = "running" PROVE claim = UidOf[a]
  BY DEF RunningPayloadIsClaimed
<1>1. owner = UidOf[a]
  BY DEF LeaseInv, TypeInv, Fence, JobFenced
<1>2. Covered(UidOf[a])
  BY DEF LeaseInv, JobsKept
<1>3. ~ Finished(UidOf[a])
  BY <1>1 DEF Finished, NeverLaunched, Disowned
<1> QED BY <1>2, <1>3 DEF Covered

\* The host Lease alone suffices: no payload executes on a host whose
\* consumerRef does not name its Machine, although two handlers of one Machine
\* run beside each other because the 120 seconds of the reconcile lock are
\* over, and whatever power losses leave of the state directory.
THEOREM LeaseKeepsPayloadClaimed ==
  ASSUME LeaseCanExpire = FALSE
  PROVE  Spec => []RunningPayloadIsClaimed
<1>1. LeaseInv /\ [Next]_vars => LeaseInv'
  BY LeaseInvStep
<1> QED BY <1>1, LeaseInvInit, LeaseInvClaims, PTL DEF Spec

=============================================================================
