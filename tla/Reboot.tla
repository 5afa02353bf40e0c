------------------------------- MODULE Reboot -------------------------------
(***************************************************************************)
(* Reboot remediation of one provisioned Machine (lifecycle.py:            *)
(* reconcile_reboot) and the deletion that waits for it (delete_machine).  *)
(*                                                                         *)
(* Handlers of a Machine exclude each other: that is what ReconcileLock    *)
(* promises, while the annotation does not expire, so there is one handler *)
(* at a time.  What it staged in patch is applied by Kopf some time after  *)
(* it has released the lock, without a resourceVersion: it may replace     *)
(* what a later handler has recorded.                                      *)
(*                                                                         *)
(* What a handler writes itself carries the resourceVersion, and taking    *)
(* the lock changes that: a write that times out commits before the next   *)
(* handler reads the object, or never.                                     *)
(*                                                                         *)
(* A submitted command sleeps and then reboots the host: until then it is  *)
(* armed, and any restart of the host ends it.  Cleanup is in Lifecycle;   *)
(* here it succeeds or fails.                                              *)
(***************************************************************************)
EXTENDS Naturals, FiniteSets

CONSTANTS
  MaxRequests,         \* bound on spec.remediation.reboot.requestedAt values
  MaxBoots,            \* bound on restarts of the host
  MaxFaults,           \* bound on failed calls and crashes
  MaxPatches,          \* bound on patches outstanding when a handler begins
  StatusCanBeMissing   \* a command may end without an exit status

ASSUME RebootAssumption ==
  /\ MaxRequests \in Nat
  /\ MaxBoots \in Nat
  /\ MaxFaults \in Nat
  /\ MaxPatches \in Nat
  /\ StatusCanBeMissing \in BOOLEAN

VARIABLES
  boot,       \* the host's current boot id
  armed,      \* requests whose command waits on the host to reboot it
  submitted,  \* whether the command of a request was sent: never, once or again
  machine,    \* metadata, spec and status of the SSHMachine
  phase,      \* status.phase of its SSHHost
  handler,    \* the handler that has the Machine's lock
  staged,     \* status.remediation.reboot in patches Kopf has still to apply
  overtaken,  \* requests whose record a late patch has replaced by another's
  faults

vars == <<boot, armed, submitted, machine, phase, handler, staged, overtaken, faults>>

Requests == 1 .. MaxRequests
Boots    == 0 .. MaxBoots

\* status.remediation.reboot: lastRequestedAt, phase and previousBootID
Outcomes     == {"none", "Prepared", "Submitted", "Unknown", "Failed", "Succeeded"}
RebootStatus == [request : 0 .. MaxRequests, phase : Outcomes, previous : Boots]
NoReboot     == [request |-> 0, phase |-> "none", previous |-> 0]

\* state is previous or, once it is written, the state that patch refers to.
Idle == [pc |-> "idle", request |-> 0, state |-> NoReboot, wrote |-> FALSE,
         observeOnly |-> FALSE, boot |-> 0]

TypeOK ==
  /\ boot \in Boots
  /\ armed \subseteq Requests
  /\ submitted \in [Requests -> 0 .. 2]
  /\ machine \in [life : {"live", "deleting", "gone"}, requested : 0 .. MaxRequests,
                  provisioned : BOOLEAN, reboot : RebootStatus,
                  cleanup : {"none", "Running", "Failed", "Succeeded"}]
  /\ phase \in {"Claimed", "Cleaning", "Quarantined", "Available"}
  /\ handler \in [pc : {"idle", "reboot", "observe", "resolve", "submit", "record", "cleaning",
                        "reset", "release", "end"},
                  request : 0 .. MaxRequests, state : RebootStatus, wrote : BOOLEAN,
                  observeOnly : BOOLEAN, boot : Boots]
  /\ staged \subseteq RebootStatus
  /\ overtaken \subseteq 0 .. MaxRequests
  /\ faults \in 0 .. MaxFaults

Init ==
  /\ boot = 0
  /\ armed = {}
  /\ submitted = [r \in Requests |-> 0]
  /\ machine = [life |-> "live", requested |-> 0, provisioned |-> TRUE, reboot |-> NoReboot,
                cleanup |-> "none"]
  /\ phase = "Claimed"
  /\ handler = Idle
  /\ staged = {}
  /\ overtaken = {}
  /\ faults = 0

-----------------------------------------------------------------------------
At(pc)   == handler.pc = pc
Goto(pc) == handler' = [handler EXCEPT !.pc = pc]
Resolved == {"Succeeded", "Failed"}

\* Variant: only what was acknowledged is waited for.
PendingAcknowledged(state) == state.phase \in {"Submitted", "Unknown"}

Pending(state) == state.phase \in {"Prepared", "Submitted", "Unknown"}

\* write_reboot persists the state and stages it for Kopf.
WriteReboot(state, pc) ==
  /\ machine' = [machine EXCEPT !.reboot = state]
  /\ handler' = [handler EXCEPT !.pc = pc, !.state = state, !.wrote = TRUE]
  /\ UNCHANGED <<boot, armed, submitted, phase, staged, overtaken, faults>>

\* The step only reads.
ReadsOnly == UNCHANGED <<boot, armed, submitted, machine, phase, staged, overtaken, faults>>

-----------------------------------------------------------------------------
(* The user and the host *)

\* A new request, by the documented procedure: the last one was recorded, and
\* if it is unresolved, no delayed reboot is left on the host.
RequestReboot ==
  /\ machine.life = "live"
  /\ machine.requested < MaxRequests
  /\ machine.reboot.request = machine.requested
  /\ machine.reboot.phase # "Prepared"
  /\ Pending(machine.reboot) => armed = {}
  /\ machine' = [machine EXCEPT !.requested = @ + 1]
  /\ UNCHANGED <<boot, armed, submitted, phase, handler, staged, overtaken, faults>>

DeleteMachine ==
  /\ machine.life = "live"
  /\ machine' = [machine EXCEPT !.life = "deleting"]
  /\ UNCHANGED <<boot, armed, submitted, phase, handler, staged, overtaken, faults>>

\* A reconcile that finds no owner clears status.initialization.provisioned,
\* one that finds it again restores it.
Reprovision ==
  /\ machine.life = "live"
  /\ At("idle")
  /\ machine' = [machine EXCEPT !.provisioned = ~ @]
  /\ UNCHANGED <<boot, armed, submitted, phase, handler, staged, overtaken, faults>>

\* The host restarts, because of an armed command or for reasons of its own.
HostReboots ==
  /\ boot < MaxBoots
  /\ boot' = boot + 1
  /\ armed' = {}
  /\ UNCHANGED <<submitted, machine, phase, handler, staged, overtaken, faults>>

\* Neither systemctl reboot nor reboot works.
CommandFails(r) ==
  /\ r \in armed
  /\ armed' = armed \ {r}
  /\ UNCHANGED <<boot, submitted, machine, phase, handler, staged, overtaken, faults>>

-----------------------------------------------------------------------------
(* The handler *)

\* delete_machine: a recorded success is finished; a pending reboot is
\* observed, never submitted; otherwise the host is cleaned.
DeleteEntry ==
  IF machine.cleanup = "Succeeded" THEN "release"
  ELSE IF Pending(machine.reboot) THEN "reboot" ELSE "cleaning"

\* The object is read under the lock; a live one goes to reconcile_reboot
\* once its reconcile has returned.
Begin ==
  /\ At("idle")
  /\ machine.life # "gone"
  /\ Cardinality(staged) <= MaxPatches
  /\ handler' = [Idle EXCEPT
       !.pc = IF machine.life = "live" THEN "reboot" ELSE DeleteEntry,
       !.observeOnly = machine.life = "deleting",
       !.request = IF machine.life = "live" THEN machine.requested ELSE machine.reboot.request,
       !.state = machine.reboot]
  /\ ReadsOnly

\* Nothing is requested, the request is already resolved, the Machine is not
\* provisioned, or bind_machine raises: the host awaits cleanup.
NothingToDo ==
  \/ handler.request = 0
  \/ handler.request = handler.state.request /\ handler.state.phase \in Resolved
  \/ ~ machine.provisioned
  \/ phase \in {"Quarantined", "Cleaning"}

CheckRequest ==
  /\ At("reboot")
  /\ Goto(IF NothingToDo THEN "end" ELSE "observe")
  /\ ReadsOnly

\* The boot id, over the connection that the command will use too.
ReadBootId ==
  /\ At("observe")
  /\ handler' = [handler EXCEPT !.pc = "resolve", !.boot = boot]
  /\ ReadsOnly

SameRequest == handler.request = handler.state.request
Rebooted    == handler.boot # handler.state.previous

\* Variant: a request that is not completed after 300 seconds is submitted again.
ResolveReplays ==
  /\ At("resolve")
  /\ \/ /\ Pending(handler.state) /\ Rebooted
        /\ WriteReboot([handler.state EXCEPT !.phase = "Succeeded"], "end")
     \/ /\ Pending(handler.state) /\ ~ Rebooted /\ SameRequest
        /\ Goto("end") /\ ReadsOnly
     \/ /\ ~ Pending(handler.state) \/ ~ Rebooted
        /\ WriteReboot([request |-> handler.request, phase |-> "Prepared",
                        previous |-> handler.boot], "submit")

\* Variant: a completed reboot is not written when nothing may be submitted.
ResolveUnobserved ==
  /\ At("resolve")
  /\ IF Pending(handler.state) \/ handler.observeOnly
     THEN Goto("end") /\ ReadsOnly
     ELSE WriteReboot([request |-> handler.request, phase |-> "Prepared",
                       previous |-> handler.boot], "submit")

\* What is pending is resolved by a new boot id; the same request waits, or
\* becomes Unknown if 300 seconds have passed since startedAt; another one has
\* to wait unless it is Unknown.  Only then is the intent recorded.
Resolve ==
  /\ At("resolve")
  /\ \/ /\ Pending(handler.state) /\ Rebooted
        /\ WriteReboot([handler.state EXCEPT !.phase = "Succeeded"], "end")
     \/ /\ Pending(handler.state) /\ ~ Rebooted /\ SameRequest
        /\ WriteReboot([handler.state EXCEPT !.phase = "Unknown"], "end")
     \/ /\ Pending(handler.state) /\ ~ Rebooted
        /\ SameRequest \/ handler.state.phase # "Unknown"
        /\ Goto("end") /\ ReadsOnly
     \/ /\ IF Pending(handler.state)
           THEN ~ Rebooted /\ ~ SameRequest /\ handler.state.phase = "Unknown"
           ELSE ~ handler.observeOnly
        /\ WriteReboot([request |-> handler.request, phase |-> "Prepared",
                        previous |-> handler.boot], "submit")

\* The command reaches a host that has not restarted since the connection was
\* made.  It is armed and acknowledged, or refused by owned_command; or the
\* answer is lost, as an exception or, if the connection ends without an exit
\* status, as exit code -1, which counts as a refusal.
Submit ==
  LET r == handler.request
      Learn(outcome) == handler' = [handler EXCEPT !.pc = "record", !.state.phase = outcome]
      Lost == {"Unknown"} \union (IF StatusCanBeMissing THEN {"Failed"} ELSE {})
  IN
  /\ At("submit")
  /\ submitted' = [submitted EXCEPT ![r] = IF @ = 0 THEN 1 ELSE 2]
  /\ \/ boot = handler.boot /\ armed' = armed \union {r} /\ Learn("Submitted")
     \/ boot = handler.boot /\ armed' = armed /\ Learn("Failed")
     \/ /\ armed' \in {armed} \union {armed \union {r} : b \in {boot} \intersect {handler.boot}}
        /\ \E outcome \in Lost : Learn(outcome)
  /\ UNCHANGED <<boot, machine, phase, staged, overtaken, faults>>

RecordOutcome ==
  /\ At("record")
  /\ WriteReboot(handler.state, "end")

\* Variant: a phase the SSHHost CRD does not have.
StartDeleting ==
  /\ At("cleaning")
  /\ phase' = "Deleting"
  /\ machine' = [machine EXCEPT !.cleanup = "Running"]
  /\ Goto("reset")
  /\ UNCHANGED <<boot, armed, submitted, staged, overtaken, faults>>

\* set_host_phase and record_cleanup("Running")
StartCleanup ==
  /\ At("cleaning")
  /\ phase' = "Cleaning"
  /\ machine' = [machine EXCEPT !.cleanup = "Running"]
  /\ Goto("reset")
  /\ UNCHANGED <<boot, armed, submitted, staged, overtaken, faults>>

ResetEnds ==
  /\ At("reset")
  /\ machine' = [machine EXCEPT !.cleanup = "Succeeded"]
  /\ Goto("release")
  /\ UNCHANGED <<boot, armed, submitted, phase, staged, overtaken, faults>>

ResetFails ==
  /\ At("reset")
  /\ faults < MaxFaults
  /\ phase' = "Quarantined"
  /\ machine' = [machine EXCEPT !.cleanup = "Failed"]
  /\ Goto("end")
  /\ faults' = faults + 1
  /\ UNCHANGED <<boot, armed, submitted, staged, overtaken>>

\* release_host, and the finalizer
Release ==
  /\ At("release")
  /\ phase' = "Available"
  /\ machine' = [machine EXCEPT !.life = "gone"]
  /\ Goto("end")
  /\ UNCHANGED <<boot, armed, submitted, staged, overtaken, faults>>

\* The lock is released, with the patch left to Kopf.
End ==
  /\ At("end")
  /\ handler' = Idle
  /\ staged' = staged \union (IF handler.wrote THEN {handler.state} ELSE {})
  /\ UNCHANGED <<boot, armed, submitted, machine, phase, overtaken, faults>>

\* Kopf patches the status with what a handler has staged.
ApplyPatch(state) ==
  /\ state \in staged
  /\ staged' = staged \ {state}
  /\ machine' = IF machine.life = "gone" THEN machine ELSE [machine EXCEPT !.reboot = state]
  /\ overtaken' = IF machine.life = "gone" \/ state.request = machine.reboot.request
                  THEN overtaken ELSE overtaken \union {machine.reboot.request}
  /\ UNCHANGED <<boot, armed, submitted, phase, handler, faults>>

\* A call fails or its answer is lost: what the handler has staged is applied
\* all the same.
Raise ==
  /\ faults < MaxFaults
  /\ ~ At("idle") /\ ~ At("end")
  /\ Goto("end")
  /\ faults' = faults + 1
  /\ UNCHANGED <<boot, armed, submitted, machine, phase, staged, overtaken>>

\* The process stops, and with it what was staged but for patches under way.
Crash ==
  /\ faults < MaxFaults
  /\ ~ At("idle") \/ staged # {}
  /\ handler' = Idle
  /\ staged' \in SUBSET staged
  /\ faults' = faults + 1
  /\ UNCHANGED <<boot, armed, submitted, machine, phase, overtaken>>

Handler ==
  \/ CheckRequest \/ ReadBootId \/ Resolve \/ Submit \/ RecordOutcome
  \/ StartCleanup \/ ResetEnds \/ ResetFails \/ Release \/ End

Next ==
  \/ RequestReboot \/ DeleteMachine \/ Reprovision \/ HostReboots
  \/ \E r \in armed : CommandFails(r)
  \/ Begin \/ Handler \/ Raise \/ Crash
  \/ \E state \in staged : ApplyPatch(state)

Spec == Init /\ [][Next]_vars

\* Kopf calls the deletion handler until it succeeds, the handler runs to its
\* end, and what it staged is applied.
Fairness ==
  /\ WF_vars(Begin)
  /\ WF_vars(Handler)
  /\ WF_vars(\E state \in staged : ApplyPatch(state))

FairSpec == Spec /\ Fairness

-----------------------------------------------------------------------------
(* Properties *)

\* reconcile_reboot: the command of one request is sent at most once, whatever
\* was lost, cut short or retried after the intent was recorded, unless a patch
\* that Kopf applied late has put the record of another request in its place.
SubmittedOnce == \A r \in Requests : submitted[r] > 1 => r \in overtaken

\* delete_machine waits for an unresolved reboot: from the first step of the
\* cleanup on, no reboot is left on the host that could interrupt the reset or
\* hit the next Machine, but for one whose record a late patch has replaced.
NoRebootDuringCleanup == machine.cleanup # "none" => armed \subseteq overtaken

\* A deletion that waits for a reboot goes on by itself once the host is up
\* again and no patch is outstanding: it observes the new boot id without
\* submitting anything.
DeletionResumes ==
  /\ machine.life = "deleting"
  /\ machine.provisioned
  /\ machine.cleanup = "none"
  /\ Pending(machine.reboot)
  /\ boot # machine.reboot.previous
  /\ At("idle") /\ staged = {}
  ~> machine.life = "gone"

=============================================================================
