---------------------------- MODULE RebootProofs ----------------------------
(***************************************************************************)
(* Proofs about Reboot for any number of requests, restarts, faults and    *)
(* patches that Kopf has still to apply.                                   *)
(***************************************************************************)
EXTENDS Reboot, TLAPS

-----------------------------------------------------------------------------
(* The inductive invariant *)

\* The steps of reconcile_reboot, and those up to the recorded intent
RebootSteps == {"reboot", "observe", "resolve", "submit", "record"}
BeforeIntent == {"reboot", "observe", "resolve"}

\* Something of the request is left that its record has to answer for: its
\* command was sent, or a patch with its state is outstanding.
Known(r) ==
  \/ r \in Requests /\ submitted[r] > 0
  \/ \E s \in staged : s.request = r

\* A copy of status.remediation.reboot is of a request that was made, and has
\* a phase if there is one.
WellFormed(state) ==
  /\ state.request <= machine.requested
  /\ state.phase = "none" <=> state.request = 0

RequestsWereMade ==
  /\ WellFormed(machine.reboot)
  /\ \A s \in staged : WellFormed(s)
  /\ WellFormed(handler.state)
  /\ handler.request <= machine.requested
  /\ \A r \in Requests : r > machine.requested => submitted[r] = 0
  /\ \A r \in armed : submitted[r] > 0

\* The record of the last request is in place, also in the handler's eyes,
\* unless a late patch has replaced it.
LatestOnRecord ==
  Known(machine.requested) /\ machine.requested \notin overtaken =>
    /\ machine.reboot.request = machine.requested
    /\ ~ At("idle") => handler.state.request = machine.requested

\* What the handler has written is on record.
WrittenOnRecord ==
  handler.wrote /\ handler.state.request \notin overtaken =>
    machine.reboot.request = handler.state.request

\* A request that is new to the handler is the last one, and nothing of it is
\* left from before; nothing is of a later one.  A deletion has no request of
\* its own.
NewIsLatest ==
  /\ /\ handler.pc \in BeforeIntent
     /\ handler.request # handler.state.request
     /\ handler.request \notin overtaken
     => /\ handler.request = machine.requested
        /\ ~ Known(handler.request)
        /\ machine.reboot.request # handler.request
  /\ handler.pc \in RebootSteps /\ ~ handler.observeOnly =>
       \A q \in Requests : q > handler.request => ~ Known(q)
  /\ handler.pc \in RebootSteps /\ handler.observeOnly =>
       handler.request = handler.state.request

\* A request that is found resolved, or none at all, is not handled.
UnresolvedOnly ==
  handler.pc \in {"observe", "resolve"} =>
    /\ handler.request # 0
    /\ handler.request = handler.state.request => handler.state.phase \notin Resolved

\* The request that is submitted has its intent on record, and its command was
\* not sent before.
IntentRecorded ==
  /\ handler.pc \in {"submit", "record"} =>
       /\ handler.wrote
       /\ handler.request # 0
       /\ handler.request = handler.state.request
       /\ ~ handler.observeOnly
       /\ handler.state.phase # "none"
       /\ handler.request \notin overtaken =>
            /\ handler.request = machine.requested
            /\ machine.reboot = [request |-> handler.request, phase |-> "Prepared",
                                 previous |-> handler.state.previous]
            /\ \A s \in staged : s.request # handler.request
  /\ At("submit") =>
       /\ handler.state.phase = "Prepared"
       /\ handler.request \notin overtaken => submitted[handler.request] = 0

SubmitInv ==
  /\ TypeOK
  /\ RequestsWereMade
  /\ LatestOnRecord
  /\ WrittenOnRecord
  /\ NewIsLatest
  /\ UnresolvedOnly
  /\ IntentRecorded
  /\ SubmittedOnce

-----------------------------------------------------------------------------
(* What keeps a cleanup free of reboots. *)

\* Boot ids of the past
BootsPast ==
  /\ machine.reboot.previous <= boot
  /\ \A s \in staged : s.previous <= boot
  /\ handler.state.previous <= boot
  /\ handler.boot <= boot
  /\ At("resolve") => handler.state.previous <= handler.boot
  /\ At("submit") => handler.state.previous = handler.boot

\* The state says of the request that it may still restart the host.
Awaits(state, r) == state.request = r /\ Pending(state) /\ state.previous = boot

\* A reboot that waits on the host is of the last request and is awaited in
\* every copy of its status, unless a late patch has replaced its record.
ArmedIsAwaited ==
  \A r \in armed \ overtaken :
    /\ r = machine.requested
    /\ Awaits(machine.reboot, r)
    /\ \A s \in staged : s.request = r => Awaits(s, r)
    /\ ~ At("idle") => Awaits(handler.state, r)

\* A cleanup is begun by a deletion that found nothing pending, and after it
\* no handler submits anything.
CleanupExcludesSubmission ==
  /\ handler.pc \in {"cleaning", "reset"} => armed \subseteq overtaken /\ machine.life # "live"
  /\ machine.cleanup # "none" => machine.life # "live"
  /\ handler.pc \in RebootSteps => handler.observeOnly \/ machine.cleanup = "none"

CleanupInv ==
  /\ SubmitInv
  /\ BootsPast
  /\ ArmedIsAwaited
  /\ CleanupExcludesSubmission
  /\ NoRebootDuringCleanup

-----------------------------------------------------------------------------
(* Proofs *)

\* A provisioned Machine without requests
LEMMA SubmitInvInit == Init => SubmitInv
BY RebootAssumption
DEF Init, SubmitInv, TypeOK, RequestsWereMade, WellFormed, LatestOnRecord, WrittenOnRecord,
    NewIsLatest, UnresolvedOnly, IntentRecorded, SubmittedOnce, Known, Idle, NoReboot, At,
    RebootSteps, BeforeIntent, Requests, Boots, Outcomes, RebootStatus

\* A step that leaves the requests, their records and the patches alone, and
\* that takes the handler no nearer to a submission than the check and the
\* read of the boot id do.
QuietStep ==
  /\ UNCHANGED <<submitted, staged, overtaken>>
  /\ armed' \subseteq armed
  /\ machine'.requested = machine.requested
  /\ machine'.reboot = machine.reboot
  /\ handler'.state = handler.state
  /\ handler'.request = handler.request
  /\ handler'.wrote = handler.wrote
  /\ handler'.observeOnly = handler.observeOnly
  /\ \/ handler'.pc = handler.pc
     \/ At("reboot") /\ handler'.pc = "observe" /\ ~ NothingToDo
     \/ At("observe") /\ handler'.pc = "resolve"
     \/ ~ At("idle") /\ handler'.pc \in {"reset", "release", "end"}

\* Such a step keeps the invariant.
LEMMA QuietKeepsInv ==
  ASSUME SubmitInv, QuietStep, TypeOK'
  PROVE  SubmitInv'
<1> USE DEF SubmitInv, QuietStep, At
<1>1. \A r : Known(r)' <=> Known(r)
  BY DEF Known
<1>2. RequestsWereMade'
  BY DEF RequestsWereMade, WellFormed, TypeOK
<1>3. LatestOnRecord' /\ WrittenOnRecord'
  BY <1>1 DEF LatestOnRecord, WrittenOnRecord
<1>4. NewIsLatest'
  BY <1>1 DEF NewIsLatest, RebootSteps, BeforeIntent
<1>5. UnresolvedOnly'
  BY DEF UnresolvedOnly, NothingToDo
<1>6. IntentRecorded' /\ SubmittedOnce'
  BY DEF IntentRecorded, SubmittedOnce
<1> QED BY <1>2, <1>3, <1>4, <1>5, <1>6

\* The user's other operations, the host, and the steps of the handler that
\* write no reboot status are quiet.
LEMMA QuietActions ==
  ASSUME SubmitInv,
         \/ DeleteMachine \/ Reprovision \/ HostReboots \/ \E r \in armed : CommandFails(r)
         \/ CheckRequest \/ ReadBootId \/ StartCleanup \/ ResetEnds \/ ResetFails \/ Release
         \/ Raise \/ UNCHANGED vars
  PROVE  QuietStep /\ TypeOK'
<1> USE RebootAssumption DEF SubmitInv, At, Goto, ReadsOnly
<1>1. CASE DeleteMachine
  <2>1. QuietStep
    BY <1>1 DEF DeleteMachine, QuietStep, TypeOK
  <2>2. TypeOK'
    BY <1>1, ZenonT(60) DEF DeleteMachine, TypeOK
  <2> QED BY <2>1, <2>2
<1>2. CASE Reprovision
  <2>1. QuietStep
    BY <1>2 DEF Reprovision, QuietStep, TypeOK
  <2>2. TypeOK'
    BY <1>2 DEF Reprovision, TypeOK
  <2> QED BY <2>1, <2>2
<1>3. CASE HostReboots
  <2>1. QuietStep
    BY <1>3 DEF HostReboots, QuietStep, TypeOK
  <2>2. TypeOK'
    BY <1>3 DEF HostReboots, TypeOK, Boots
  <2> QED BY <2>1, <2>2
<1>4. ASSUME NEW r \in armed, CommandFails(r) PROVE QuietStep /\ TypeOK'
  <2>1. QuietStep
    BY <1>4 DEF CommandFails, QuietStep, TypeOK
  <2>2. TypeOK'
    BY <1>4 DEF CommandFails, TypeOK
  <2> QED BY <2>1, <2>2
<1>5. CASE CheckRequest
  <2>1. QuietStep
    BY <1>5 DEF CheckRequest, QuietStep, TypeOK
  <2>2. TypeOK'
    BY <1>5, ZenonT(60) DEF CheckRequest, TypeOK
  <2> QED BY <2>1, <2>2
<1>6. CASE ReadBootId
  <2>1. QuietStep
    BY <1>6 DEF ReadBootId, QuietStep, TypeOK
  <2>2. TypeOK'
    BY <1>6, ZenonT(60) DEF ReadBootId, TypeOK
  <2> QED BY <2>1, <2>2
<1>7. CASE StartCleanup
  <2>1. QuietStep
    BY <1>7 DEF StartCleanup, QuietStep, TypeOK
  <2>2. TypeOK'
    BY <1>7, ZenonT(60) DEF StartCleanup, TypeOK
  <2> QED BY <2>1, <2>2
<1>8. CASE ResetEnds
  <2>1. QuietStep
    BY <1>8 DEF ResetEnds, QuietStep, TypeOK
  <2>2. TypeOK'
    BY <1>8, ZenonT(60) DEF ResetEnds, TypeOK
  <2> QED BY <2>1, <2>2
<1>9. CASE ResetFails
  <2>1. QuietStep
    BY <1>9 DEF ResetFails, QuietStep, TypeOK
  <2>2. TypeOK'
    BY <1>9 DEF ResetFails, TypeOK
  <2> QED BY <2>1, <2>2
<1>10. CASE Release
  <2>1. QuietStep
    BY <1>10 DEF Release, QuietStep, TypeOK
  <2>2. TypeOK'
    BY <1>10, ZenonT(60) DEF Release, TypeOK
  <2> QED BY <2>1, <2>2
<1>11. CASE Raise
  <2>1. QuietStep
    BY <1>11 DEF Raise, QuietStep, TypeOK
  <2>2. TypeOK'
    BY <1>11 DEF Raise, TypeOK
  <2> QED BY <2>1, <2>2
<1>12. CASE UNCHANGED vars
  <2>1. QuietStep
    BY <1>12 DEF vars, QuietStep, TypeOK
  <2>2. TypeOK'
    BY <1>12 DEF vars, TypeOK
  <2> QED BY <2>1, <2>2
<1> QED BY <1>1, <1>2, <1>3, <1>4, <1>5, <1>6, <1>7, <1>8, <1>9, <1>10, <1>11, <1>12

\* Resolve records an outcome of the request that the handler has found, or the
\* intent of a new one, or nothing.
Continues(state) ==
  /\ state.request = handler.state.request
  /\ state.previous = handler.state.previous
  /\ state.request # 0
  /\ \/ state.phase = "Succeeded" /\ handler.boot # handler.state.previous
     \/ state.phase = "Unknown"

IsIntent(state) ==
  /\ state = [request |-> handler.request, phase |-> "Prepared", previous |-> handler.boot]
  /\ handler.request # 0
  /\ handler.request # handler.state.request
  /\ ~ handler.observeOnly

\* The cases of reconcile_reboot once the boot id is known.
LEMMA ResolveCases ==
  ASSUME SubmitInv, Resolve
  PROVE  \/ Goto("end") /\ ReadsOnly
         \/ \E state \in RebootStatus : Continues(state) /\ WriteReboot(state, "end")
         \/ \E state \in RebootStatus : IsIntent(state) /\ WriteReboot(state, "submit")
<1> DEFINE Outcome(phase_) == [handler.state EXCEPT !.phase = phase_]
           Intent == [request |-> handler.request, phase |-> "Prepared", previous |-> handler.boot]
<1>1. Outcome("Succeeded") \in RebootStatus /\ Outcome("Unknown") \in RebootStatus
      /\ Intent \in RebootStatus
  BY DEF SubmitInv, TypeOK, RebootStatus, Outcomes
<1>2. Pending(handler.state) => handler.state.request # 0
  BY DEF SubmitInv, RequestsWereMade, WellFormed, Pending
<1>3. CASE Pending(handler.state) /\ Rebooted /\ WriteReboot(Outcome("Succeeded"), "end")
  <2>1. Continues(Outcome("Succeeded"))
    BY <1>2, <1>3 DEF Continues, Rebooted, SubmitInv, TypeOK, RebootStatus
  <2> QED BY <1>1, <1>3, <2>1
<1>4. CASE Pending(handler.state) /\ WriteReboot(Outcome("Unknown"), "end")
  <2>1. Continues(Outcome("Unknown"))
    BY <1>2, <1>4 DEF Continues, SubmitInv, TypeOK, RebootStatus
  <2> QED BY <1>1, <1>4, <2>1
<1>5. CASE /\ IF Pending(handler.state)
              THEN ~ Rebooted /\ ~ SameRequest /\ handler.state.phase = "Unknown"
              ELSE ~ handler.observeOnly
           /\ WriteReboot(Intent, "submit")
  <2>1. handler.request # 0 /\ handler.request # handler.state.request
    BY <1>5 DEF Resolve, SameRequest, Pending, At, Resolved, SubmitInv, UnresolvedOnly,
                RequestsWereMade, WellFormed, TypeOK, RebootStatus, Outcomes
  <2>2. ~ handler.observeOnly
    BY <2>1 DEF Resolve, At, SubmitInv, NewIsLatest, RebootSteps
  <2>3. IsIntent(Intent)
    BY <2>1, <2>2 DEF IsIntent
  <2> QED BY <1>1, <1>5, <2>3
<1> QED BY <1>3, <1>4, <1>5 DEF Resolve

\* Every step keeps it.
LEMMA SubmitInvStep ==
  ASSUME SubmitInv, [Next]_vars
  PROVE  SubmitInv'
<1> USE RebootAssumption DEF SubmitInv, At
<1>1. CASE RequestReboot
  <2>0. /\ machine' = [machine EXCEPT !.requested = machine.requested + 1]
        /\ machine.requested + 1 \in Requests
        /\ UNCHANGED <<boot, armed, submitted, phase, handler, staged, overtaken, faults>>
    BY <1>1 DEF RequestReboot, TypeOK, Requests
  <2>1. TypeOK'
    BY <2>0 DEF TypeOK, Requests
  <2>2. \A r : Known(r)' <=> Known(r)
    BY <2>0 DEF Known
  <2>3. ~ Known(machine.requested + 1)
    BY <2>0 DEF Known, RequestsWereMade, WellFormed, TypeOK, Requests, RebootStatus
  <2>4. RequestsWereMade'
    BY <2>0 DEF RequestsWereMade, WellFormed, TypeOK, Requests, RebootStatus
  <2>5. LatestOnRecord' /\ WrittenOnRecord'
    BY <2>0, <2>2, <2>3 DEF LatestOnRecord, WrittenOnRecord, TypeOK
  <2>6. NewIsLatest'
    BY <1>1, <2>0, <2>2 DEF RequestReboot, NewIsLatest, TypeOK
  <2>7. UnresolvedOnly' /\ SubmittedOnce'
    BY <2>0 DEF UnresolvedOnly, SubmittedOnce
  <2>8. IntentRecorded'
    BY <1>1, <2>0 DEF RequestReboot, IntentRecorded, TypeOK
  <2> QED BY <2>1, <2>4, <2>5, <2>6, <2>7, <2>8
<1>2. CASE Begin
  <2>1. PICK pc \in {"reboot", "cleaning", "release"}, request \in 0 .. MaxRequests :
          /\ handler' = [pc |-> pc, request |-> request, state |-> machine.reboot, wrote |-> FALSE,
                         observeOnly |-> (machine.life = "deleting"), boot |-> 0]
          /\ request = IF machine.life = "live" THEN machine.requested ELSE machine.reboot.request
          /\ machine.life # "gone"
    BY <1>2 DEF Begin, DeleteEntry, Idle, TypeOK, RebootStatus
  <2>2. UNCHANGED <<boot, armed, submitted, machine, phase, staged, overtaken, faults>>
    BY <1>2 DEF Begin, ReadsOnly
  <2>3. TypeOK'
    <3>1. (machine.life = "deleting") \in BOOLEAN
      OBVIOUS
    <3>2. machine.reboot \in RebootStatus /\ 0 \in Boots
      BY DEF TypeOK, Boots
    <3>3. handler' \in [pc : {"reboot", "cleaning", "release"}, request : 0 .. MaxRequests,
                        state : RebootStatus, wrote : BOOLEAN, observeOnly : BOOLEAN, boot : Boots]
      BY <2>1, <3>1, <3>2
    <3> QED BY <2>2, <3>3 DEF TypeOK
  <2>4. \A r : Known(r)' <=> Known(r)
    BY <2>2 DEF Known
  <2>5. RequestsWereMade'
    BY <2>1, <2>2 DEF RequestsWereMade, WellFormed, TypeOK
  <2>6. LatestOnRecord' /\ WrittenOnRecord'
    BY <2>1, <2>2, <2>4 DEF LatestOnRecord, WrittenOnRecord
  <2>7. NewIsLatest'
    <3>1. \A q \in Requests : q > machine.requested => ~ Known(q)
      BY DEF Known, RequestsWereMade, WellFormed, TypeOK, RebootStatus, Requests
    <3>2. machine.life = "live" \/ machine.life = "deleting"
      BY <2>1 DEF TypeOK
    <3> QED BY <2>1, <2>2, <2>4, <3>1, <3>2 DEF NewIsLatest, LatestOnRecord, BeforeIntent
  <2>8. UnresolvedOnly' /\ IntentRecorded' /\ SubmittedOnce'
    BY <2>1, <2>2 DEF UnresolvedOnly, IntentRecorded, SubmittedOnce
  <2> QED BY <2>3, <2>5, <2>6, <2>7, <2>8
<1>3. CASE Resolve
  <2>0. At("resolve")
    BY <1>3 DEF Resolve
  <2>1. CASE Goto("end") /\ ReadsOnly
    <3>1. TypeOK'
      BY <2>1, ZenonT(60) DEF Goto, ReadsOnly, TypeOK
    <3>2. QuietStep
      BY <2>0, <2>1 DEF QuietStep, Goto, ReadsOnly, TypeOK
    <3> QED BY <3>1, <3>2, QuietKeepsInv
  <2>2. ASSUME NEW state \in RebootStatus, Continues(state), WriteReboot(state, "end")
        PROVE  SubmitInv'
    <3>1. /\ machine' = [machine EXCEPT !.reboot = state]
          /\ handler' = [handler EXCEPT !.pc = "end", !.state = state, !.wrote = TRUE]
          /\ UNCHANGED <<boot, armed, submitted, phase, staged, overtaken, faults>>
      BY <2>2 DEF WriteReboot
    <3>2. TypeOK'
      BY <3>1, ZenonT(60) DEF TypeOK
    <3>3. \A r : Known(r)' <=> Known(r)
      BY <3>1 DEF Known
    <3>4. RequestsWereMade'
      BY <2>2, <3>1 DEF Continues, RequestsWereMade, WellFormed, TypeOK
    <3>5. LatestOnRecord' /\ WrittenOnRecord'
      BY <2>0, <2>2, <3>1, <3>3 DEF Continues, LatestOnRecord, WrittenOnRecord, TypeOK
    <3>6. NewIsLatest' /\ UnresolvedOnly' /\ IntentRecorded' /\ SubmittedOnce'
      BY <3>1 DEF NewIsLatest, RebootSteps, BeforeIntent, UnresolvedOnly, IntentRecorded,
                  SubmittedOnce, TypeOK
    <3> QED BY <3>2, <3>4, <3>5, <3>6
  <2>3. ASSUME NEW state \in RebootStatus, IsIntent(state), WriteReboot(state, "submit")
        PROVE  SubmitInv'
    <3>1. /\ machine' = [machine EXCEPT !.reboot = state]
          /\ handler' = [handler EXCEPT !.pc = "submit", !.state = state, !.wrote = TRUE]
          /\ UNCHANGED <<boot, armed, submitted, phase, staged, overtaken, faults>>
      BY <2>3 DEF WriteReboot
    <3>2. TypeOK'
      BY <3>1, ZenonT(60) DEF TypeOK
    <3>3. \A r : Known(r)' <=> Known(r)
      BY <3>1 DEF Known
    <3>4. RequestsWereMade'
      BY <2>3, <3>1 DEF IsIntent, RequestsWereMade, WellFormed, TypeOK
    <3>5. \A q \in Requests : q > handler.request => ~ Known(q)
      BY <2>0, <2>3 DEF IsIntent, NewIsLatest, RebootSteps
    <3>6. /\ handler.request \in Requests
          /\ handler.request <= machine.requested /\ machine.requested \in 0 .. MaxRequests
          /\ handler.request \notin overtaken =>
               handler.request = machine.requested /\ ~ Known(handler.request)
      BY <2>0, <2>3 DEF IsIntent, NewIsLatest, BeforeIntent, RequestsWereMade, TypeOK, Requests
    <3>7. Known(machine.requested) /\ machine.requested \notin overtaken
            => handler.request = machine.requested
      BY <3>5, <3>6 DEF Requests
    <3>8. LatestOnRecord' /\ WrittenOnRecord'
      BY <2>3, <3>1, <3>3, <3>7 DEF IsIntent, LatestOnRecord, WrittenOnRecord, TypeOK
    <3>9. NewIsLatest' /\ UnresolvedOnly'
      BY <2>3, <3>1, <3>3, <3>5
         DEF IsIntent, NewIsLatest, BeforeIntent, RebootSteps, UnresolvedOnly, TypeOK
    <3>10. handler.request \notin overtaken =>
             /\ submitted[handler.request] = 0
             /\ \A s \in staged : s.request # handler.request
      BY <3>6 DEF Known, TypeOK
    <3>11. IntentRecorded' /\ SubmittedOnce'
      BY <2>3, <3>1, <3>6, <3>10 DEF IsIntent, IntentRecorded, SubmittedOnce, TypeOK
    <3> QED BY <3>2, <3>4, <3>8, <3>9, <3>11
  <2> QED BY <1>3, <2>1, <2>2, <2>3, ResolveCases
<1>4. CASE Submit
  <2>1. PICK outcome \in {"Submitted", "Unknown", "Failed"} :
          handler' = [handler EXCEPT !.pc = "record", !.state.phase = outcome]
    BY <1>4 DEF Submit
  <2>2. handler' = [handler EXCEPT !.pc = "record",
                                   !.state = [handler.state EXCEPT !.phase = outcome]]
    BY <2>1 DEF TypeOK
  <2>3. /\ At("submit")
        /\ submitted' = [submitted EXCEPT ![handler.request] = IF @ = 0 THEN 1 ELSE 2]
        /\ armed' \subseteq armed \union {handler.request}
        /\ UNCHANGED <<boot, machine, phase, staged, overtaken, faults>>
    BY <1>4 DEF Submit
  <2>4. handler.request \in Requests
    BY <2>3 DEF IntentRecorded, TypeOK, Requests
  <2>5. TypeOK'
    <3>1. [handler.state EXCEPT !.phase = outcome] \in RebootStatus
      BY DEF TypeOK, RebootStatus, Outcomes
    <3>2. submitted' \in [Requests -> 0 .. 2]
      BY <2>3, <2>4 DEF TypeOK
    <3> QED BY <2>2, <2>3, <2>4, <3>1, <3>2, ZenonT(60) DEF TypeOK
  <2>6. /\ submitted'[handler.request] > 0
        /\ \A r \in Requests : r # handler.request => submitted'[r] = submitted[r]
        /\ submitted[handler.request] = 0 => submitted'[handler.request] = 1
        /\ \A r : r # handler.request => (Known(r)' <=> Known(r))
    BY <2>3, <2>4 DEF Known, TypeOK
  <2>7. /\ handler'.state.request = handler.state.request
        /\ handler'.state.previous = handler.state.previous
        /\ handler'.state.phase = outcome
        /\ handler'.request = handler.request
        /\ handler'.wrote = handler.wrote
        /\ handler'.observeOnly = handler.observeOnly
        /\ handler'.pc = "record"
    BY <2>2 DEF TypeOK, RebootStatus
  <2>8. RequestsWereMade'
    BY <2>3, <2>4, <2>6, <2>7
       DEF RequestsWereMade, WellFormed, IntentRecorded, TypeOK, Requests
  <2>9. LatestOnRecord' /\ WrittenOnRecord'
    BY <2>3, <2>6, <2>7 DEF LatestOnRecord, WrittenOnRecord, IntentRecorded, TypeOK
  <2>10. NewIsLatest' /\ UnresolvedOnly'
    BY <2>3, <2>4, <2>6, <2>7
       DEF NewIsLatest, BeforeIntent, RebootSteps, IntentRecorded, UnresolvedOnly, Requests
  <2>11. IntentRecorded'
    BY <2>3, <2>7 DEF IntentRecorded
  <2>12. SubmittedOnce'
    BY <2>3, <2>4, <2>6 DEF IntentRecorded, SubmittedOnce
  <2> QED BY <2>5, <2>8, <2>9, <2>10, <2>11, <2>12
<1>5. CASE RecordOutcome
  <2>1. /\ At("record")
        /\ machine' = [machine EXCEPT !.reboot = handler.state]
        /\ handler' = [handler EXCEPT !.pc = "end", !.wrote = TRUE]
        /\ UNCHANGED <<boot, armed, submitted, phase, staged, overtaken, faults>>
    BY <1>5 DEF RecordOutcome, WriteReboot, TypeOK
  <2>2. TypeOK'
    BY <2>1, ZenonT(60) DEF TypeOK
  <2>3. \A r : Known(r)' <=> Known(r)
    BY <2>1 DEF Known
  <2>4. RequestsWereMade'
    BY <2>1 DEF RequestsWereMade, WellFormed, TypeOK
  <2>5. LatestOnRecord' /\ WrittenOnRecord'
    BY <2>1, <2>3 DEF LatestOnRecord, WrittenOnRecord, TypeOK
  <2>6. NewIsLatest' /\ UnresolvedOnly' /\ IntentRecorded' /\ SubmittedOnce'
    BY <2>1 DEF NewIsLatest, RebootSteps, BeforeIntent, UnresolvedOnly, IntentRecorded,
                SubmittedOnce, TypeOK
  <2> QED BY <2>2, <2>4, <2>5, <2>6
<1>6. CASE End
  <2>1. /\ At("end")
        /\ handler' = Idle
        /\ staged' = staged \union (IF handler.wrote THEN {handler.state} ELSE {})
        /\ UNCHANGED <<boot, armed, submitted, machine, phase, overtaken, faults>>
    BY <1>6 DEF End
  <2>2. TypeOK'
    BY <2>1 DEF TypeOK, Idle, NoReboot, RebootStatus, Outcomes, Boots
  <2>3. \A r : Known(r)' => Known(r) \/ (handler.wrote /\ handler.state.request = r)
    BY <2>1 DEF Known
  <2>4. RequestsWereMade'
    BY <2>1 DEF RequestsWereMade, WellFormed, TypeOK, Idle, NoReboot
  <2>5. LatestOnRecord' /\ WrittenOnRecord'
    BY <2>1, <2>3 DEF LatestOnRecord, WrittenOnRecord, Idle
  <2>6. NewIsLatest' /\ UnresolvedOnly' /\ IntentRecorded' /\ SubmittedOnce'
    BY <2>1 DEF NewIsLatest, RebootSteps, BeforeIntent, UnresolvedOnly, IntentRecorded,
                SubmittedOnce, Idle
  <2> QED BY <2>2, <2>4, <2>5, <2>6
<1>7. CASE Crash
  <2>1. /\ handler' = Idle
        /\ staged' \subseteq staged
        /\ faults' \in 0 .. MaxFaults
        /\ UNCHANGED <<boot, armed, submitted, machine, phase, overtaken>>
    BY <1>7 DEF Crash, TypeOK
  <2>2. TypeOK'
    BY <2>1 DEF TypeOK, Idle, NoReboot, RebootStatus, Outcomes, Boots
  <2>3. \A r : Known(r)' => Known(r)
    BY <2>1 DEF Known
  <2>4. RequestsWereMade'
    BY <2>1 DEF RequestsWereMade, WellFormed, TypeOK, Idle, NoReboot
  <2>5. LatestOnRecord' /\ WrittenOnRecord'
    BY <2>1, <2>3 DEF LatestOnRecord, WrittenOnRecord, Idle
  <2>6. NewIsLatest' /\ UnresolvedOnly' /\ IntentRecorded' /\ SubmittedOnce'
    BY <2>1 DEF NewIsLatest, RebootSteps, BeforeIntent, UnresolvedOnly, IntentRecorded,
                SubmittedOnce, Idle
  <2> QED BY <2>2, <2>4, <2>5, <2>6
<1>8. ASSUME NEW s \in staged, ApplyPatch(s) PROVE SubmitInv'
  <2>1. /\ staged' \subseteq staged
        /\ overtaken \subseteq overtaken'
        /\ UNCHANGED <<boot, armed, submitted, phase, handler, faults>>
    BY <1>8 DEF ApplyPatch
  <2>2. \/ machine' = machine
        \/ /\ machine' = [machine EXCEPT !.reboot = s]
           /\ s.request = machine.reboot.request \/ machine.reboot.request \in overtaken'
    BY <1>8 DEF ApplyPatch
  <2>3. /\ machine'.requested = machine.requested
        /\ machine'.reboot \in {machine.reboot, s}
    BY <2>2 DEF TypeOK
  <2>4. /\ machine.reboot.request \notin overtaken' =>
             machine'.reboot.request = machine.reboot.request
        /\ Known(s.request)
    BY <2>2 DEF Known, TypeOK
  <2>5. \A r : Known(r)' => Known(r)
    BY <2>1 DEF Known
  <2>6. TypeOK'
    <3>1. s \in RebootStatus /\ machine.reboot.request \in 0 .. MaxRequests
      BY DEF TypeOK, RebootStatus
    <3>2. overtaken' \subseteq 0 .. MaxRequests
      BY <1>8, <3>1 DEF ApplyPatch, TypeOK
    <3> QED BY <2>1, <2>2, <3>1, <3>2, ZenonT(60) DEF TypeOK
  <2>7. RequestsWereMade'
    BY <2>1, <2>3 DEF RequestsWereMade, WellFormed
  <2>8. LatestOnRecord'
    <3>1. CASE machine.reboot.request = machine.requested
      BY <2>1, <2>3, <2>4, <2>5, <3>1 DEF LatestOnRecord
    <3>2. CASE machine.reboot.request # machine.requested
      BY <2>1, <2>3, <2>5, <3>2 DEF LatestOnRecord
    <3> QED BY <3>1, <3>2
  <2>9. WrittenOnRecord'
    BY <2>1, <2>4 DEF WrittenOnRecord
  <2>10. NewIsLatest'
    BY <2>1, <2>3, <2>4, <2>5 DEF NewIsLatest
  <2>11. UnresolvedOnly' /\ SubmittedOnce'
    BY <2>1 DEF UnresolvedOnly, SubmittedOnce
  <2>12. IntentRecorded'
    BY <2>1, <2>2, <2>3 DEF IntentRecorded, TypeOK
  <2> QED BY <2>6, <2>7, <2>8, <2>9, <2>10, <2>11, <2>12
<1> QED
  BY <1>1, <1>2, <1>3, <1>4, <1>5, <1>6, <1>7, <1>8, QuietActions, QuietKeepsInv
     DEF Next, Handler

\* Every step keeps a cleanup undisturbed, if every command returns an exit
\* status or raises.
LEMMA CleanupInvStep ==
  ASSUME StatusCanBeMissing = FALSE, CleanupInv, [Next]_vars
  PROVE  CleanupInv'
<1>0. SubmitInv /\ SubmitInv'
  BY SubmitInvStep DEF CleanupInv
<1>a. TypeOK /\ TypeOK'
  BY <1>0 DEF SubmitInv
<1>b. BootsPast /\ ArmedIsAwaited /\ CleanupExcludesSubmission /\ NoRebootDuringCleanup
  BY DEF CleanupInv
<1>c. SUFFICES BootsPast' /\ ArmedIsAwaited' /\ CleanupExcludesSubmission' /\ NoRebootDuringCleanup'
  BY <1>0 DEF CleanupInv
<1> USE RebootAssumption DEF At, Boots, Requests
<1>1. CASE RequestReboot
  <2>1. BootsPast'
    BY <1>a, <1>b, <1>1 DEF RequestReboot, BootsPast, TypeOK
  <2>2. ArmedIsAwaited'
    \* The procedure for a new request makes sure of it.
    <3>1. armed \subseteq overtaken
      BY <1>b, <1>1 DEF RequestReboot, ArmedIsAwaited, Awaits
    <3> QED BY <1>1, <3>1 DEF RequestReboot, ArmedIsAwaited
  <2>3. CleanupExcludesSubmission' /\ NoRebootDuringCleanup'
    BY <1>a, <1>b, <1>1
       DEF RequestReboot, CleanupExcludesSubmission, NoRebootDuringCleanup, RebootSteps, TypeOK
  <2> QED BY <2>1, <2>2, <2>3
<1>2. CASE DeleteMachine
  <2>1. BootsPast'
    BY <1>a, <1>b, <1>2 DEF DeleteMachine, BootsPast, TypeOK
  <2>2. ArmedIsAwaited'
    BY <1>a, <1>b, <1>2 DEF DeleteMachine, ArmedIsAwaited, Awaits, TypeOK
  <2>3. CleanupExcludesSubmission' /\ NoRebootDuringCleanup'
    BY <1>a, <1>b, <1>2
       DEF DeleteMachine, CleanupExcludesSubmission, NoRebootDuringCleanup, RebootSteps, TypeOK
  <2> QED BY <2>1, <2>2, <2>3
<1>3. CASE Reprovision
  <2>1. BootsPast'
    BY <1>a, <1>b, <1>3 DEF Reprovision, BootsPast, TypeOK
  <2>2. ArmedIsAwaited'
    BY <1>a, <1>b, <1>3 DEF Reprovision, ArmedIsAwaited, Awaits, TypeOK
  <2>3. CleanupExcludesSubmission' /\ NoRebootDuringCleanup'
    BY <1>a, <1>b, <1>3
       DEF Reprovision, CleanupExcludesSubmission, NoRebootDuringCleanup, RebootSteps, TypeOK
  <2> QED BY <2>1, <2>2, <2>3
<1>4. CASE HostReboots
  <2>1. BootsPast'
    BY <1>a, <1>b, <1>4 DEF HostReboots, BootsPast, TypeOK, RebootStatus
  <2>2. ArmedIsAwaited'
    BY <1>a, <1>b, <1>4 DEF HostReboots, ArmedIsAwaited, Awaits, TypeOK
  <2>3. CleanupExcludesSubmission' /\ NoRebootDuringCleanup'
    BY <1>a, <1>b, <1>4
       DEF HostReboots, CleanupExcludesSubmission, NoRebootDuringCleanup, RebootSteps, TypeOK
  <2> QED BY <2>1, <2>2, <2>3
<1>5. ASSUME NEW r \in armed, CommandFails(r)
      PROVE  BootsPast' /\ ArmedIsAwaited' /\ CleanupExcludesSubmission' /\ NoRebootDuringCleanup'
  <2>1. BootsPast'
    BY <1>a, <1>b, <1>5 DEF CommandFails, BootsPast, TypeOK
  <2>2. ArmedIsAwaited'
    BY <1>a, <1>b, <1>5 DEF CommandFails, ArmedIsAwaited, Awaits, TypeOK
  <2>3. CleanupExcludesSubmission' /\ NoRebootDuringCleanup'
    BY <1>a, <1>b, <1>5
       DEF CommandFails, CleanupExcludesSubmission, NoRebootDuringCleanup, RebootSteps, TypeOK
  <2> QED BY <2>1, <2>2, <2>3
<1>6. CASE Begin
  <2>1. BootsPast'
    BY <1>a, <1>b, <1>6 DEF Begin, ReadsOnly, DeleteEntry, Idle, BootsPast, TypeOK
  <2>2. ArmedIsAwaited'
    BY <1>a, <1>b, <1>6 DEF Begin, ReadsOnly, DeleteEntry, Idle, ArmedIsAwaited, Awaits, TypeOK
  <2>3. CleanupExcludesSubmission' /\ NoRebootDuringCleanup'
    <3>1. /\ UNCHANGED <<armed, machine, overtaken>>
          /\ machine.life # "gone"
          /\ handler'.pc \in {"reboot", "cleaning", "release"}
          /\ handler'.observeOnly = (machine.life = "deleting")
          /\ handler'.pc = "cleaning" => machine.life # "live" /\ ~ Pending(machine.reboot)
      BY <1>6 DEF Begin, ReadsOnly, DeleteEntry, Idle
    \* Nothing is pending, so nothing is armed.
    <3>2. ~ Pending(machine.reboot) => armed \subseteq overtaken
      BY <1>b DEF ArmedIsAwaited, Awaits
    <3>3. machine.life \in {"live", "deleting"}
      BY <1>a, <3>1 DEF TypeOK
    <3> QED BY <1>b, <3>1, <3>2, <3>3
            DEF CleanupExcludesSubmission, NoRebootDuringCleanup, RebootSteps
  <2> QED BY <2>1, <2>2, <2>3
<1>7. CASE CheckRequest
  <2>1. BootsPast'
    BY <1>a, <1>b, <1>7 DEF CheckRequest, ReadsOnly, Goto, BootsPast, TypeOK
  <2>2. ArmedIsAwaited'
    BY <1>a, <1>b, <1>7 DEF CheckRequest, ReadsOnly, Goto, ArmedIsAwaited, Awaits, TypeOK
  <2>3. CleanupExcludesSubmission' /\ NoRebootDuringCleanup'
    BY <1>a, <1>b, <1>7
       DEF CheckRequest, ReadsOnly, Goto, CleanupExcludesSubmission, NoRebootDuringCleanup,
           RebootSteps, TypeOK
  <2> QED BY <2>1, <2>2, <2>3
<1>8. CASE ReadBootId
  <2>1. BootsPast'
    BY <1>a, <1>b, <1>8 DEF ReadBootId, ReadsOnly, BootsPast, TypeOK
  <2>2. ArmedIsAwaited'
    BY <1>a, <1>b, <1>8 DEF ReadBootId, ReadsOnly, ArmedIsAwaited, Awaits, TypeOK
  <2>3. CleanupExcludesSubmission' /\ NoRebootDuringCleanup'
    BY <1>a, <1>b, <1>8
       DEF ReadBootId, ReadsOnly, CleanupExcludesSubmission, NoRebootDuringCleanup, RebootSteps,
           TypeOK
  <2> QED BY <2>1, <2>2, <2>3
<1>9. CASE Resolve
  <2>0. At("resolve")
    BY <1>9 DEF Resolve
  <2>1. CASE Goto("end") /\ ReadsOnly
    BY <1>a, <1>b, <2>0, <2>1
       DEF Goto, ReadsOnly, BootsPast, ArmedIsAwaited, Awaits, CleanupExcludesSubmission,
           NoRebootDuringCleanup, RebootSteps, TypeOK
  <2>2. ASSUME NEW state \in RebootStatus, Continues(state), WriteReboot(state, "end")
        PROVE  BootsPast' /\ ArmedIsAwaited' /\ CleanupExcludesSubmission' /\ NoRebootDuringCleanup'
    <3>1. BootsPast'
      BY <1>a, <1>b, <2>0, <2>2 DEF WriteReboot, Continues, BootsPast, TypeOK
    <3>2. ArmedIsAwaited'
      \* A reboot that is still armed has not changed the boot id that was read.
      <4>1. ASSUME NEW r \in armed \ overtaken PROVE state.phase = "Unknown"
        <5>1. handler.state.previous = boot
          BY <1>b, <2>0 DEF ArmedIsAwaited, Awaits
        <5>2. handler.boot = boot
          BY <1>a, <1>b, <2>0, <5>1 DEF BootsPast, TypeOK
        <5> QED BY <2>2, <5>1, <5>2 DEF Continues
      <4> QED BY <1>a, <1>b, <2>0, <2>2, <4>1
              DEF WriteReboot, Continues, ArmedIsAwaited, Awaits, Pending, TypeOK
    <3>3. CleanupExcludesSubmission' /\ NoRebootDuringCleanup'
      BY <1>a, <1>b, <2>2
         DEF WriteReboot, CleanupExcludesSubmission, NoRebootDuringCleanup, RebootSteps, TypeOK
    <3> QED BY <3>1, <3>2, <3>3
  <2>3. ASSUME NEW state \in RebootStatus, IsIntent(state), WriteReboot(state, "submit")
        PROVE  BootsPast' /\ ArmedIsAwaited' /\ CleanupExcludesSubmission' /\ NoRebootDuringCleanup'
    <3>1. BootsPast'
      BY <1>a, <1>b, <2>3 DEF WriteReboot, IsIntent, BootsPast, TypeOK
    <3>2. ArmedIsAwaited'
      \* The request is new: no earlier one waits on the host.
      <4>1. ASSUME NEW r \in armed \ overtaken PROVE FALSE
        <5>1. r \in Requests /\ r = machine.requested /\ r = handler.state.request /\ Known(r)
          BY <1>0, <1>a, <1>b, <2>0
             DEF ArmedIsAwaited, Awaits, Known, SubmitInv, RequestsWereMade, TypeOK
        <5>2. handler.request \in Nat /\ handler.request <= r /\ handler.request # r
          BY <1>0, <1>a, <2>3, <5>1 DEF IsIntent, SubmitInv, RequestsWereMade, TypeOK
        <5> QED BY <1>0, <2>0, <2>3, <5>1, <5>2
                DEF IsIntent, SubmitInv, NewIsLatest, RebootSteps
      <4> QED BY <2>3, <4>1 DEF WriteReboot, ArmedIsAwaited
    <3>3. CleanupExcludesSubmission' /\ NoRebootDuringCleanup'
      BY <1>a, <1>b, <2>0, <2>3
         DEF WriteReboot, CleanupExcludesSubmission, NoRebootDuringCleanup, RebootSteps, TypeOK
    <3> QED BY <3>1, <3>2, <3>3
  <2> QED BY <1>0, <1>9, <2>1, <2>2, <2>3, ResolveCases
<1>10. CASE Submit
  <2>1. PICK outcome \in {"Submitted", "Unknown", "Failed"} :
          /\ handler' = [handler EXCEPT !.pc = "record", !.state.phase = outcome]
          /\ \/ armed' = armed
             \/ /\ armed' = armed \union {handler.request}
                /\ boot = handler.boot
                /\ outcome # "Failed"
    BY <1>10 DEF Submit
  <2>2. At("submit") /\ UNCHANGED <<boot, machine, phase, staged, overtaken, faults>>
    BY <1>10 DEF Submit
  <2>3. /\ handler'.state.request = handler.state.request
        /\ handler'.state.previous = handler.state.previous
        /\ handler'.state.phase = outcome
        /\ handler'.boot = handler.boot
        /\ handler'.observeOnly = handler.observeOnly
        /\ handler'.pc = "record"
    BY <1>a, <2>1 DEF TypeOK, RebootStatus
  <2>4. BootsPast'
    BY <1>b, <2>2, <2>3 DEF BootsPast
  <2>5. ArmedIsAwaited'
    \* The command was not sent before, so nothing else waits on the host.
    <3>1. armed \subseteq overtaken
      <4>1. ASSUME NEW r \in armed \ overtaken PROVE FALSE
        <5>1. r = handler.request
          BY <1>0, <1>b, <2>2 DEF ArmedIsAwaited, Awaits, SubmitInv, IntentRecorded
        <5> QED BY <1>0, <2>2, <5>1 DEF SubmitInv, IntentRecorded, RequestsWereMade
      <4> QED BY <4>1
    <3>2. CASE handler.request \in overtaken
      BY <2>1, <2>2, <3>1, <3>2 DEF ArmedIsAwaited
    <3>3. CASE handler.request \notin overtaken
      <4>1. handler.state.previous = handler.boot
        BY <1>b, <2>2 DEF BootsPast
      <4>2. /\ handler.request = machine.requested
            /\ handler.request = handler.state.request
            /\ machine.reboot = [request |-> handler.request, phase |-> "Prepared",
                                 previous |-> handler.state.previous]
            /\ \A s \in staged : s.request # handler.request
        BY <1>0, <2>2, <3>3 DEF SubmitInv, IntentRecorded
      <4> QED BY <2>1, <2>2, <2>3, <3>1, <4>1, <4>2 DEF ArmedIsAwaited, Awaits, Pending
    <3> QED BY <3>2, <3>3
  <2>6. CleanupExcludesSubmission' /\ NoRebootDuringCleanup'
    BY <1>0, <1>b, <2>2, <2>3
       DEF SubmitInv, IntentRecorded, CleanupExcludesSubmission, NoRebootDuringCleanup, RebootSteps
  <2> QED BY <2>4, <2>5, <2>6
<1>11. CASE RecordOutcome
  <2>1. BootsPast'
    BY <1>a, <1>b, <1>11 DEF RecordOutcome, WriteReboot, BootsPast, TypeOK
  <2>2. ArmedIsAwaited'
    BY <1>a, <1>b, <1>11 DEF RecordOutcome, WriteReboot, ArmedIsAwaited, Awaits, TypeOK
  <2>3. CleanupExcludesSubmission' /\ NoRebootDuringCleanup'
    BY <1>a, <1>b, <1>11
       DEF RecordOutcome, WriteReboot, CleanupExcludesSubmission, NoRebootDuringCleanup,
           RebootSteps, TypeOK
  <2> QED BY <2>1, <2>2, <2>3
<1>12. CASE StartCleanup
  <2>1. BootsPast'
    BY <1>a, <1>b, <1>12 DEF StartCleanup, Goto, BootsPast, TypeOK
  <2>2. ArmedIsAwaited'
    BY <1>a, <1>b, <1>12 DEF StartCleanup, Goto, ArmedIsAwaited, Awaits, TypeOK
  <2>3. CleanupExcludesSubmission' /\ NoRebootDuringCleanup'
    BY <1>a, <1>b, <1>12
       DEF StartCleanup, Goto, CleanupExcludesSubmission, NoRebootDuringCleanup, RebootSteps,
           TypeOK
  <2> QED BY <2>1, <2>2, <2>3
<1>13. CASE ResetEnds
  <2>1. BootsPast'
    BY <1>a, <1>b, <1>13 DEF ResetEnds, Goto, BootsPast, TypeOK
  <2>2. ArmedIsAwaited'
    BY <1>a, <1>b, <1>13 DEF ResetEnds, Goto, ArmedIsAwaited, Awaits, TypeOK
  <2>3. CleanupExcludesSubmission' /\ NoRebootDuringCleanup'
    BY <1>a, <1>b, <1>13
       DEF ResetEnds, Goto, CleanupExcludesSubmission, NoRebootDuringCleanup, RebootSteps, TypeOK
  <2> QED BY <2>1, <2>2, <2>3
<1>14. CASE ResetFails
  <2>1. BootsPast'
    BY <1>a, <1>b, <1>14 DEF ResetFails, Goto, BootsPast, TypeOK
  <2>2. ArmedIsAwaited'
    BY <1>a, <1>b, <1>14 DEF ResetFails, Goto, ArmedIsAwaited, Awaits, TypeOK
  <2>3. CleanupExcludesSubmission' /\ NoRebootDuringCleanup'
    BY <1>a, <1>b, <1>14
       DEF ResetFails, Goto, CleanupExcludesSubmission, NoRebootDuringCleanup, RebootSteps,
           TypeOK
  <2> QED BY <2>1, <2>2, <2>3
<1>15. CASE Release
  <2>1. BootsPast'
    BY <1>a, <1>b, <1>15 DEF Release, Goto, BootsPast, TypeOK
  <2>2. ArmedIsAwaited'
    BY <1>a, <1>b, <1>15 DEF Release, Goto, ArmedIsAwaited, Awaits, TypeOK
  <2>3. CleanupExcludesSubmission' /\ NoRebootDuringCleanup'
    BY <1>a, <1>b, <1>15
       DEF Release, Goto, CleanupExcludesSubmission, NoRebootDuringCleanup, RebootSteps, TypeOK
  <2> QED BY <2>1, <2>2, <2>3
<1>16. CASE End
  <2>1. BootsPast'
    BY <1>a, <1>b, <1>16 DEF End, Idle, NoReboot, BootsPast, TypeOK
  <2>2. ArmedIsAwaited'
    BY <1>a, <1>b, <1>16 DEF End, Idle, NoReboot, ArmedIsAwaited, Awaits, TypeOK
  <2>3. CleanupExcludesSubmission' /\ NoRebootDuringCleanup'
    BY <1>a, <1>b, <1>16
       DEF End, Idle, NoReboot, CleanupExcludesSubmission, NoRebootDuringCleanup, RebootSteps,
           TypeOK
  <2> QED BY <2>1, <2>2, <2>3
<1>17. CASE Raise
  <2>1. BootsPast'
    BY <1>a, <1>b, <1>17 DEF Raise, Goto, BootsPast, TypeOK
  <2>2. ArmedIsAwaited'
    BY <1>a, <1>b, <1>17 DEF Raise, Goto, ArmedIsAwaited, Awaits, TypeOK
  <2>3. CleanupExcludesSubmission' /\ NoRebootDuringCleanup'
    BY <1>a, <1>b, <1>17
       DEF Raise, Goto, CleanupExcludesSubmission, NoRebootDuringCleanup, RebootSteps, TypeOK
  <2> QED BY <2>1, <2>2, <2>3
<1>18. CASE Crash
  <2>1. BootsPast'
    BY <1>a, <1>b, <1>18 DEF Crash, Idle, NoReboot, BootsPast, TypeOK
  <2>2. ArmedIsAwaited'
    BY <1>a, <1>b, <1>18 DEF Crash, Idle, NoReboot, ArmedIsAwaited, Awaits, TypeOK
  <2>3. CleanupExcludesSubmission' /\ NoRebootDuringCleanup'
    BY <1>a, <1>b, <1>18
       DEF Crash, Idle, NoReboot, CleanupExcludesSubmission, NoRebootDuringCleanup, RebootSteps,
           TypeOK
  <2> QED BY <2>1, <2>2, <2>3
<1>19. ASSUME NEW s \in staged, ApplyPatch(s)
       PROVE  BootsPast' /\ ArmedIsAwaited' /\ CleanupExcludesSubmission' /\ NoRebootDuringCleanup'
  <2>1. BootsPast'
    BY <1>a, <1>b, <1>19 DEF ApplyPatch, BootsPast, TypeOK
  <2>2. ArmedIsAwaited'
    BY <1>a, <1>b, <1>19 DEF ApplyPatch, ArmedIsAwaited, Awaits, TypeOK
  <2>3. CleanupExcludesSubmission' /\ NoRebootDuringCleanup'
    BY <1>a, <1>b, <1>19
       DEF ApplyPatch, CleanupExcludesSubmission, NoRebootDuringCleanup, RebootSteps, TypeOK
  <2> QED BY <2>1, <2>2, <2>3
<1>20. CASE UNCHANGED vars
  <2>1. BootsPast'
    BY <1>a, <1>b, <1>20 DEF vars, BootsPast, TypeOK
  <2>2. ArmedIsAwaited'
    BY <1>a, <1>b, <1>20 DEF vars, ArmedIsAwaited, Awaits, TypeOK
  <2>3. CleanupExcludesSubmission' /\ NoRebootDuringCleanup'
    BY <1>a, <1>b, <1>20
       DEF vars, CleanupExcludesSubmission, NoRebootDuringCleanup, RebootSteps, TypeOK
  <2> QED BY <2>1, <2>2, <2>3
<1> QED
  BY <1>1, <1>2, <1>3, <1>4, <1>5, <1>6, <1>7, <1>8, <1>9, <1>10, <1>11,
     <1>12, <1>13, <1>14, <1>15, <1>16, <1>17, <1>18, <1>19, <1>20
     DEF Next, Handler

-----------------------------------------------------------------------------
\* The invariant behind SubmittedOnce holds in every reachable state, also if a
\* command may end without exit status.
THEOREM SubmitInvariant == Spec => []SubmitInv
<1>1. Init => SubmitInv
  BY SubmitInvInit
<1>2. SubmitInv /\ [Next]_vars => SubmitInv'
  BY SubmitInvStep
<1> QED BY <1>1, <1>2, PTL DEF Spec

\* The objects, the handler and what it stages are well formed.
THEOREM RebootTypeCorrect == Spec => []TypeOK
<1>1. SubmitInv => TypeOK
  BY DEF SubmitInv
<1> QED BY <1>1, SubmitInvariant, PTL

\* reconcile_reboot sends the command of a request at most once, whatever is
\* lost, cut short or retried, unless a patch that Kopf applied late has
\* replaced the record of the request.
THEOREM RebootSubmittedOnce == Spec => []SubmittedOnce
<1>1. SubmitInv => SubmittedOnce
  BY DEF SubmitInv
<1> QED BY <1>1, SubmitInvariant, PTL

\* A Machine without requests has nothing that could disturb a cleanup.
LEMMA CleanupInvInit == Init => CleanupInv
<1> SUFFICES ASSUME Init PROVE CleanupInv
  OBVIOUS
<1>1. SubmitInv
  BY SubmitInvInit
<1>2. BootsPast /\ ArmedIsAwaited /\ CleanupExcludesSubmission /\ NoRebootDuringCleanup
  BY RebootAssumption
  DEF Init, BootsPast, ArmedIsAwaited, CleanupExcludesSubmission, NoRebootDuringCleanup,
      Idle, NoReboot, At, RebootSteps
<1> QED BY <1>1, <1>2 DEF CleanupInv

\* delete_machine cleans no host on which a reboot is waiting, for any number
\* of requests, restarts, faults and late patches, provided that every command
\* returns an exit status or raises: the one reboot that may be left is of a
\* request whose record a late patch has replaced.
THEOREM CleanupUndisturbed ==
  ASSUME StatusCanBeMissing = FALSE
  PROVE  Spec => []NoRebootDuringCleanup
<1>1. Init => CleanupInv
  BY CleanupInvInit
<1>2. CleanupInv /\ [Next]_vars => CleanupInv'
  BY CleanupInvStep
<1>3. CleanupInv => NoRebootDuringCleanup
  BY DEF CleanupInv
<1> QED BY <1>1, <1>2, <1>3, PTL DEF Spec

=============================================================================
