------------------------------ MODULE Inventory ------------------------------
(***************************************************************************)
(* Allocation of the hosts of a pool to Machines by concurrent handlers    *)
(* (inventory.py, as called by sshmachine_reconcile and delete_machine).   *)
(*                                                                         *)
(* _select_host lists the SSHHosts once and then tries to claim the        *)
(* candidates of that list one after the other, each with the              *)
(* resourceVersion it was listed with.  current[w] is the set of hosts not *)
(* written since worker w read them: a patch of w commits iff its host is  *)
(* in current[w].  Hosts are numbered in the order of their names.         *)
(*                                                                         *)
(* A patch whose request timed out may commit later, as long as its host   *)
(* still has the version it was sent with: late[h] holds what such patches *)
(* would make of h.                                                        *)
(*                                                                         *)
(* Bootstrap and cleanup themselves are in Lifecycle; here they succeed or *)
(* quarantine the host, and a deletion may find that there is nothing to   *)
(* clean, or that it is already done.                                      *)
(***************************************************************************)
EXTENDS Naturals, FiniteSets, SequencesExt

CONSTANTS
  Hosts,          \* numbers of the SSHHosts that match the selector
  Uids,           \* SSHMachines
  Workers,        \* concurrent handler runs
  None,
  Failing,        \* hosts whose probe may fail
  ExpiringLocks,  \* Machines whose reconcile lock may run out under a live worker
  MaxFaults       \* bound on crashes, failed calls and locks that expire early

ASSUME InventoryAssumption ==
  /\ Hosts \subseteq Nat
  /\ IsFiniteSet(Hosts)
  /\ None \notin Hosts \union Uids \union Workers
  /\ Failing \subseteq Hosts
  /\ ExpiringLocks \subseteq Uids
  /\ MaxFaults \in Nat

VARIABLES
  host,     \* SSHHost: spec.consumerRef, status.phase and status.ready
  machine,  \* SSHMachine: life, spec.hostRef, status.allocation
  lock,     \* holder of each Machine's reconcile lock
  worker,   \* progress of each handler run
  current,  \* hosts that no one has written since a worker read them
  late,     \* what timed-out patches with a host's version would make of it
  stray,    \* hosts whose consumerRef was set by a patch that had timed out
  faults

hostVars == <<host, current, late, stray>>
vars     == <<hostVars, machine, lock, worker, faults>>

Phases == {"Available", "Claimed", "Cleaning", "Quarantined"}
HostObject == [claim : Uids \union {None}, phase : Phases, ready : {"True", "False", "None"}]
Steps == {"idle", "list", "claim", "spec", "status", "bind", "claimed", "bootstrap", "end",
          "patch", "recover", "adopt", "cleaning", "clean", "available", "unclaim", "finish"}

\* ref is spec.hostRef as read under the lock, todo the candidates left to try.
Idle == [pc |-> "idle", uid |-> None, ref |-> None, chosen |-> None, todo |-> << >>,
         staged |-> FALSE]

TypeOK ==
  /\ host \in [Hosts -> HostObject]
  /\ machine \in [Uids -> [life : {"absent", "live", "deleting", "gone"},
                           hostRef : Hosts \union {None}, allocation : Hosts \union {None}]]
  /\ lock \in [Uids -> Workers \union {None}]
  /\ worker \in [Workers -> [pc : Steps, uid : Uids \union {None}, ref : Hosts \union {None},
                             chosen : Hosts \union {None},
                             todo : SeqOf(Hosts, Cardinality(Hosts)), staged : BOOLEAN]]
  /\ current \in [Workers -> SUBSET Hosts]
  /\ late \in [Hosts -> SUBSET HostObject]
  /\ stray \in SUBSET Hosts
  /\ faults \in 0 .. MaxFaults

Unclaimed == [claim |-> None, phase |-> "Available", ready |-> "None"]

Init ==
  /\ host = [h \in Hosts |-> Unclaimed]
  /\ machine = [m \in Uids |-> [life |-> "absent", hostRef |-> None, allocation |-> None]]
  /\ lock = [m \in Uids |-> None]
  /\ worker = [w \in Workers |-> Idle]
  /\ current = [w \in Workers |-> {}]
  /\ late = [h \in Hosts |-> {}]
  /\ stray = {}
  /\ faults = 0

-----------------------------------------------------------------------------
At(w, pc)   == worker[w].pc = pc
Uid(w)      == worker[w].uid
Chosen(w)   == worker[w].chosen
Present(m)  == machine[m].life \in {"live", "deleting"}
Goto(w, pc) == worker' = [worker EXCEPT ![w].pc = pc]

Forget(w) == current' = [current EXCEPT ![w] = {}]

ReadsOnly == UNCHANGED <<hostVars, machine, lock, faults>>

\* The host gets a new resourceVersion, known to the workers in known: a patch
\* under way is refused.
NewVersion(h, known) ==
  /\ current' = [w \in Workers |-> IF w \in known THEN {h} ELSE current[w] \ {h}]
  /\ late' = [late EXCEPT ![h] = {}]

\* _host_patch; a patch that changes nothing leaves the version.
PatchHost(h, object, known) ==
  /\ host' = [host EXCEPT ![h] = object]
  /\ stray' = IF object.claim = host[h].claim THEN stray ELSE stray \ {h}
  /\ \/ NewVersion(h, known)
     \/ /\ object = host[h]
        /\ current' = [w \in Workers |-> IF w \in known THEN {h} ELSE current[w]]
        /\ UNCHANGED late
  /\ UNCHANGED <<machine, lock, faults>>

\* same_consumer over the hosts
Own(m) == {h \in Hosts : host[h].claim = m}

AwaitsCleanup(object) == object.phase \in {"Quarantined", "Cleaning"}

\* persist_machine_status, and the patch of the connection fields
PersistMachine(w, field) ==
  /\ Present(Uid(w))
  /\ machine' = [machine EXCEPT ![Uid(w)][field] = Chosen(w)]
  /\ UNCHANGED <<hostVars, lock, faults>>

\* set_host_phase: only for the consumer of record.
SetHostPhase(w, phase, next) ==
  LET h == Chosen(w) IN
  \/ /\ host[h].claim = Uid(w)
     /\ PatchHost(h, [host[h] EXCEPT !.phase = phase], {})
     /\ Goto(w, next)
  \/ host[h].claim # Uid(w) /\ Goto(w, "end") /\ ReadsOnly

-----------------------------------------------------------------------------
(* Users, the prober, and the handler's frame *)

CreateMachine(m) ==
  /\ machine[m].life = "absent"
  /\ machine' = [machine EXCEPT ![m].life = "live"]
  /\ UNCHANGED <<hostVars, lock, worker, faults>>

DeleteMachine(m) ==
  /\ machine[m].life = "live"
  /\ machine' = [machine EXCEPT ![m].life = "deleting"]
  /\ UNCHANGED <<hostVars, lock, worker, faults>>

\* sshhost_probe: status.ready is known after the first probe.
Probe(h) ==
  /\ \E ready \in {"True", "False"} :
       /\ ready = "False" => h \in Failing
       /\ host' = [host EXCEPT ![h].ready = ready]
  /\ NewVersion(h, {})
  /\ UNCHANGED <<stray, machine, lock, worker, faults>>

\* Variant: the lock is not consulted.
BeginUnlocked(w, m) ==
  /\ At(w, "idle")
  /\ machine[m].life = "live"
  /\ lock' = [lock EXCEPT ![m] = w]
  /\ worker' = [worker EXCEPT ![w] = [Idle EXCEPT
       !.uid = m, !.ref = machine[m].hostRef, !.chosen = machine[m].allocation,
       !.pc = IF machine[m].allocation # None THEN "bind" ELSE "list"]]
  /\ UNCHANGED <<hostVars, machine, faults>>

LockFree(m) == lock[m] # None => m \in ExpiringLocks /\ faults < MaxFaults

\* The lock is taken and the object read; its status decides what follows.
Begin(w, m) ==
  /\ At(w, "idle")
  /\ LockFree(m)
  /\ faults' = IF lock[m] = None THEN faults ELSE faults + 1
  /\ Present(m)
  /\ lock' = [lock EXCEPT ![m] = w]
  /\ worker' = [worker EXCEPT ![w] = [Idle EXCEPT
       !.uid = m,
       !.ref = machine[m].hostRef,
       !.chosen = machine[m].allocation,
       !.pc = CASE machine[m].life = "live" /\ machine[m].allocation # None -> "bind"
                [] machine[m].life = "live" /\ machine[m].allocation = None -> "list"
                [] machine[m].life = "deleting" /\ machine[m].allocation # None -> "cleaning"
                [] machine[m].life = "deleting" /\ machine[m].allocation = None -> "recover"]]
  /\ UNCHANGED <<hostVars, machine>>

End(w) ==
  /\ At(w, "end")
  /\ lock' = [lock EXCEPT ![Uid(w)] = IF @ = w THEN None ELSE @]
  /\ worker' = [worker EXCEPT ![w] = IF @.staged THEN [@ EXCEPT !.pc = "patch"] ELSE Idle]
  /\ Forget(w)
  /\ UNCHANGED <<host, late, stray, machine, faults>>

\* Kopf applies the allocation and hostRef that bind_machine has staged,
\* without a resourceVersion.
ApplyPatch(w) ==
  /\ At(w, "patch")
  /\ machine' = [machine EXCEPT ![Uid(w)] =
       IF Present(Uid(w)) THEN [@ EXCEPT !.hostRef = Chosen(w), !.allocation = Chosen(w)] ELSE @]
  /\ worker' = [worker EXCEPT ![w] = Idle]
  /\ UNCHANGED <<hostVars, lock, faults>>

-----------------------------------------------------------------------------
(* _select_host and bind_machine *)

Eligible(object) ==
  object.claim = None /\ object.phase = "Available" /\ object.ready # "False"

\* Probed hosts first, then by name.
Before(h, i) ==
  LET unready(j) == host[j].ready # "True" IN
  (~ unready(h) /\ unready(i)) \/ ((unready(h) <=> unready(i)) /\ h < i)

\* The candidates, sorted
Candidates ==
  {todo \in SetToSeqs({h \in Hosts : Eligible(host[h])}) :
     \A i, j \in 1 .. Len(todo) : i < j => Before(todo[i], todo[j])}

\* Variant: an own claim is not looked for.
ListHostsAnew(w) ==
  /\ At(w, "list")
  /\ worker[w].ref = None
  /\ current' = [current EXCEPT ![w] = Hosts]
  /\ \E todo \in Candidates :
       worker' = [worker EXCEPT ![w].pc = "claim", ![w].todo = todo]
  /\ UNCHANGED <<host, late, stray, machine, lock, faults>>

\* The list is read.  The own claim is found again whatever its labels and
\* health; a Machine that had a host gets no other.
ListHosts(w) ==
  /\ At(w, "list")
  /\ LET own == Own(Uid(w)) IN
     \/ /\ Cardinality(own) = 1
        /\ \E h \in own : worker' = [worker EXCEPT ![w].chosen = h,
             ![w].pc = IF AwaitsCleanup(host[h]) THEN "end" ELSE "spec"]
        /\ UNCHANGED current
     \/ /\ Cardinality(own) > 1 \/ (own = {} /\ worker[w].ref # None)
        /\ Goto(w, "end")
        /\ UNCHANGED current
     \/ /\ own = {}
        /\ worker[w].ref = None
        /\ current' = [current EXCEPT ![w] = Hosts]
        /\ \E todo \in Candidates :
             worker' = [worker EXCEPT ![w].pc = "claim", ![w].todo = todo]
  /\ UNCHANGED <<host, late, stray, machine, lock, faults>>

\* Variant: the patch carries no resourceVersion.
TryClaimUnfenced(w) ==
  LET todo == worker[w].todo IN
  /\ At(w, "claim")
  /\ todo # << >>
  /\ PatchHost(Head(todo), [host[Head(todo)] EXCEPT !.claim = Uid(w)], {})
  /\ worker' = [worker EXCEPT ![w].pc = "spec", ![w].chosen = Head(todo), ![w].todo = << >>]

\* Variant: a claim whose answer was lost counts as a conflict.
TryClaimMovesOn(w) ==
  LET todo == worker[w].todo IN
  /\ At(w, "claim")
  /\ todo # << >>
  /\ Head(todo) \in current[w]
  /\ host' = [host EXCEPT ![Head(todo)].claim = Uid(w)]
  /\ \/ worker' = [worker EXCEPT ![w].todo = Tail(todo)]
     \/ worker' = [worker EXCEPT ![w].pc = "spec", ![w].chosen = Head(todo), ![w].todo = << >>]
  /\ UNCHANGED <<current, late, stray, machine, lock, faults>>

\* One patch of the loop: committed, or 409 and on to the next candidate.
TryClaim(w) ==
  LET todo == worker[w].todo IN
  /\ At(w, "claim")
  /\ \/ /\ todo # << >>
        /\ Head(todo) \in current[w]
        /\ PatchHost(Head(todo), [host[Head(todo)] EXCEPT !.claim = Uid(w)], {})
        /\ worker' = [worker EXCEPT ![w].pc = "spec", ![w].chosen = Head(todo), ![w].todo = << >>]
     \/ /\ todo # << >>
        /\ Head(todo) \notin current[w]
        /\ worker' = [worker EXCEPT ![w].todo = Tail(todo)]
        /\ ReadsOnly
     \/ /\ todo = << >>
        /\ Goto(w, "end")
        /\ ReadsOnly

PersistSpec(w) ==
  /\ At(w, "spec")
  /\ PersistMachine(w, "hostRef")
  /\ Goto(w, "status")

\* The binding is staged for Kopf as soon as it is persisted or verified.
Staged(w) == worker' = [worker EXCEPT ![w].pc = "claimed", ![w].staged = TRUE]

PersistAllocation(w) ==
  /\ worker[w].pc \in {"status", "adopt"}
  /\ PersistMachine(w, "allocation")
  /\ IF At(w, "status") THEN Staged(w) ELSE Goto(w, "available")

\* An existing allocation is verified, never replaced.
Bind(w) ==
  LET h == Chosen(w) IN
  /\ At(w, "bind")
  /\ IF /\ host[h].claim = Uid(w)
        /\ ~ AwaitsCleanup(host[h])
        /\ worker[w].ref \in {h, None}
     THEN Staged(w) ELSE Goto(w, "end")
  /\ ReadsOnly

MarkClaimed(w) ==
  /\ At(w, "claimed")
  /\ SetHostPhase(w, "Claimed", "bootstrap")

Bootstrap(w) ==
  /\ At(w, "bootstrap")
  /\ \/ Goto(w, "end") /\ ReadsOnly
     \/ SetHostPhase(w, "Quarantined", "end")

-----------------------------------------------------------------------------
(* delete_machine *)

\* Variant: the claims are not searched.
RecoverNothing(w) ==
  /\ At(w, "recover")
  /\ Goto(w, IF worker[w].ref = None THEN "finish" ELSE "end")
  /\ ReadsOnly

\* recover_unstarted_claim
Recover(w) ==
  /\ At(w, "recover")
  /\ LET own == Own(Uid(w)) IN
     \/ /\ Cardinality(own) = 1
        /\ \E h \in own :
             worker' = [worker EXCEPT ![w].chosen = h,
               ![w].pc = IF worker[w].ref \in {h, None} THEN "adopt" ELSE "end"]
     \/ own = {} /\ worker[w].ref = None /\ Goto(w, "finish")
     \/ /\ Cardinality(own) > 1 \/ (own = {} /\ worker[w].ref # None)
        /\ Goto(w, "end")
  /\ ReadsOnly

\* Variant: a phase the SSHHost CRD does not have.
MarkDeleting(w) == At(w, "cleaning") /\ SetHostPhase(w, "Deleting", "clean")

MarkCleaning(w) ==
  /\ At(w, "cleaning")
  /\ \/ SetHostPhase(w, "Cleaning", "clean")
     \/ Goto(w, "available") /\ ReadsOnly  \* cleanup not required, or already recorded

Clean(w) ==
  /\ At(w, "clean")
  /\ \/ Goto(w, "available") /\ ReadsOnly
     \/ SetHostPhase(w, "Quarantined", "end")

\* release_host
MakeAvailable(w) ==
  LET h == Chosen(w) IN
  /\ At(w, "available")
  /\ \/ /\ host[h].claim = Uid(w)
        /\ PatchHost(h, [host[h] EXCEPT !.phase = "Available"], {w})
        /\ Goto(w, "unclaim")
     \/ host[h].claim = None /\ Goto(w, "finish") /\ ReadsOnly
     \/ host[h].claim \notin {Uid(w), None} /\ Goto(w, "end") /\ ReadsOnly

\* Variant: the second patch carries no resourceVersion.
ClearClaimUnfenced(w) ==
  /\ At(w, "unclaim")
  /\ PatchHost(Chosen(w), [host[Chosen(w)] EXCEPT !.claim = None], {})
  /\ Goto(w, "finish")

ClearClaim(w) ==
  LET h == Chosen(w) IN
  /\ At(w, "unclaim")
  /\ \/ h \in current[w] /\ PatchHost(h, [host[h] EXCEPT !.claim = None], {}) /\ Goto(w, "finish")
     \/ h \notin current[w] /\ Goto(w, "end") /\ ReadsOnly

\* The handler has succeeded; Kopf removes the finalizer.
Finish(w) ==
  /\ At(w, "finish")
  /\ machine' = [machine EXCEPT ![Uid(w)].life = "gone"]
  /\ lock' = [lock EXCEPT ![Uid(w)] = IF @ = w THEN None ELSE @]
  /\ worker' = [worker EXCEPT ![w] = Idle]
  /\ Forget(w)
  /\ UNCHANGED <<host, late, stray, faults>>

-----------------------------------------------------------------------------
(* Faults *)

\* The phase that a step writes with set_host_phase or release_host
PhaseSet == [claimed |-> "Claimed", bootstrap |-> "Quarantined", cleaning |-> "Cleaning",
             clean |-> "Quarantined", available |-> "Available"]

\* What the patch that the step of w sends would make of host h, if any.
Sent(w, h) ==
  {object \in HostObject :
     \/ /\ At(w, "claim") /\ worker[w].todo # << >> /\ Head(worker[w].todo) = h
        /\ h \in current[w]
        /\ object = [host[h] EXCEPT !.claim = Uid(w)]
     \/ /\ worker[w].pc \in DOMAIN PhaseSet /\ Chosen(w) = h /\ host[h].claim = Uid(w)
        /\ object = [host[h] EXCEPT !.phase = PhaseSet[worker[w].pc]]
     \/ /\ At(w, "unclaim") /\ Chosen(w) = h /\ h \in current[w]
        /\ object = [host[h] EXCEPT !.claim = None]}

\* request gives up after API_TIMEOUT: the patch it has sent may still arrive.
GivesUp(w) == late' \in {late, [h \in Hosts |-> late[h] \union Sent(w, h)]}

\* A call fails or its answer is lost.
Raise(w) ==
  /\ faults < MaxFaults
  /\ worker[w].pc \notin {"idle", "end", "patch"}
  /\ Goto(w, "end")
  /\ GivesUp(w)
  /\ faults' = faults + 1
  /\ UNCHANGED <<host, current, stray, machine, lock>>

\* The process dies, and the lock that names it expires.
Crash(w) ==
  /\ faults < MaxFaults
  /\ ~ At(w, "idle")
  /\ lock' = [lock EXCEPT ![Uid(w)] = IF @ = w THEN None ELSE @]
  /\ worker' = [worker EXCEPT ![w] = Idle]
  /\ Forget(w)
  /\ GivesUp(w)
  /\ faults' = faults + 1
  /\ UNCHANGED <<host, stray, machine>>

\* A patch commits that nobody waits for any more.
LateCommit(h) ==
  /\ \E object \in late[h] :
       /\ host' = [host EXCEPT ![h] = object]
       /\ stray' = IF object.claim = host[h].claim THEN stray
                   ELSE IF object.claim = None THEN stray \ {h} ELSE stray \union {h}
  /\ NewVersion(h, {})
  /\ UNCHANGED <<machine, lock, worker, faults>>

\* A write to an object that no longer exists.
NotFound(w) ==
  /\ worker[w].pc \in {"spec", "status", "adopt"}
  /\ ~ Present(Uid(w))
  /\ Goto(w, "end")
  /\ ReadsOnly

Handler(w) ==
  \/ End(w) \/ ApplyPatch(w) \/ ListHosts(w) \/ TryClaim(w) \/ PersistSpec(w)
  \/ PersistAllocation(w) \/ Bind(w) \/ MarkClaimed(w) \/ Bootstrap(w)
  \/ Recover(w) \/ MarkCleaning(w) \/ Clean(w) \/ MakeAvailable(w) \/ ClearClaim(w)
  \/ Finish(w) \/ NotFound(w)

Next ==
  \/ \E m \in Uids : CreateMachine(m) \/ DeleteMachine(m)
  \/ \E h \in Hosts : Probe(h) \/ LateCommit(h)
  \/ \E w \in Workers : Handler(w) \/ Raise(w) \/ Crash(w) \/ \E m \in Uids : Begin(w, m)

Spec == Init /\ [][Next]_vars

-----------------------------------------------------------------------------
(* Properties *)

\* Machines whose handlers exclude each other for as long as they live
Locked == Uids \ ExpiringLocks

\* bind_machine never changes an existing allocation: neither a retry nor a
\* staged patch nor another handler moves a Machine to a spare host.
AllocationNeverMoves ==
  [][\A m \in Locked : machine[m].allocation # None =>
       machine'[m].allocation = machine[m].allocation]_vars

\* The host whose claim a Machine holds is the one its status.allocation
\* names: bootstrap, cleanup and release all go by the latter.  Beside it there
\* may only be claims that timed out and came late, on hosts never used.
BoundToItsClaim ==
  \A m \in Locked : machine[m].allocation # None =>
    \A h \in Own(m) \ {machine[m].allocation} : h \in stray /\ host[h].phase = "Available"

\* When the finalizer is gone, so is every claim that a handler of the Machine
\* knew of: nothing else in the provider would ever release it.  What may be
\* left is a claim that timed out and came late, on a host never used.
NoOrphanedClaim ==
  \A m \in Locked : machine[m].life = "gone" =>
    \A h \in Own(m) : h \in stray /\ h # machine[m].allocation /\ host[h].phase = "Available"

\* A consumerRef is only ever set on a host that has none: a claim of a host
\* that somebody else got first ends in a conflict, whatever the list said.
ClaimNeverStolen ==
  [][\A h \in Hosts : host[h].claim # None => host'[h].claim \in {host[h].claim, None}]_vars

\* A host without consumer is Available.  _select_host skips it otherwise and
\* no Machine would ever set its phase again: it would be lost to the pool.
NoStrandedHost ==
  \A h \in Hosts : host[h].claim = None => host[h].phase = "Available"

\* The Machine that a host is allocated to; a claim that came late counts once
\* the Machine is bound to it.
Consumer(h) ==
  LET m == host[h].claim IN
  IF m \in Locked /\ (h \notin stray \/ machine[m].allocation = h) THEN m ELSE None

Promise == INSTANCE Allocation WITH
  Uids     <- Locked,
  consumer <- [h \in Hosts |-> Consumer(h)],
  served   <- {m \in Locked : machine[m].allocation # None \/ ~ Own(m) \subseteq stray}

\* The claims implement the abstract allocation: whatever was interrupted
\* between the claim and the record of it, no Machine takes a second host.
ImplementsAllocation == Promise!AllocationSpec

=============================================================================
