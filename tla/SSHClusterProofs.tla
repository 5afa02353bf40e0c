-------------------------- MODULE SSHClusterProofs --------------------------
(***************************************************************************)
(* Proofs about SSHCluster for any number of changes and failed lookups.   *)
(*                                                                         *)
(* PauseHolds is not inductive.  A task that began after the pause decides *)
(* from a snapshot, and the lookup of the CAPI Cluster comes later: the    *)
(* invariant says that the snapshot still agrees with the object on what   *)
(* the pause depends on, and that the staged patch leaves the flags alone. *)
(***************************************************************************)
EXTENDS SSHCluster, TLAPS

-----------------------------------------------------------------------------
(* Types *)

TaskRecords == [pc : {"idle", "lookup", "patch"}, seen : Object,
                conditions : ConditionsOver(Types), ready : SUBSET BOOLEAN,
                raised : BOOLEAN, warned : BOOLEAN]

StatusRecords == [ready : BOOLEAN, provisioned : BOOLEAN, conditions : ConditionsOver(Types)]

\* TypeOK, with the shape of the records that it looks into.
Typed ==
  /\ cluster \in Object
  /\ capi \in [exists : BOOLEAN, paused : BOOLEAN]
  /\ status \in StatusRecords
  /\ event \in BOOLEAN
  /\ task \in [Tasks -> TaskRecords]
  /\ changes \in 0 .. MaxChanges
  /\ faults \in 0 .. MaxFaults

\* Conditions are functions from some of the types to a status.
LEMMA ConditionsShape ==
  ASSUME NEW c
  PROVE  c \in ConditionsOver(Types) <=>
           DOMAIN c \subseteq Types /\ c \in [DOMAIN c -> ConditionStatus]
BY DEF ConditionsOver

\* merge_conditions adds no type that neither side has.
LEMMA MergeTyped ==
  ASSUME NEW existing \in ConditionsOver(Types), NEW updates \in ConditionsOver(Types)
  PROVE  MergeConditions(existing, updates) \in ConditionsOver(Types)
<1> DEFINE types == DOMAIN updates \union DOMAIN existing
<1>1. /\ DOMAIN existing \subseteq Types /\ existing \in [DOMAIN existing -> ConditionStatus]
      /\ DOMAIN updates \subseteq Types /\ updates \in [DOMAIN updates -> ConditionStatus]
  BY ConditionsShape
<1>2. MergeConditions(existing, updates) \in [types -> ConditionStatus]
  BY <1>1 DEF MergeConditions, Union
<1>3. types \in SUBSET Types
  BY <1>1
<1> QED BY <1>2, <1>3 DEF ConditionsOver

\* What the handlers merge: the same status for several types, the Paused
\* condition, nothing.
LEMMA UpdatesTyped ==
  /\ \A types \in SUBSET Types, value \in ConditionStatus :
       All(types, value) \in ConditionsOver(Types)
  /\ \A value \in ConditionStatus : ReportPause(value) \in ConditionsOver(Types)
  /\ Nothing \in ConditionsOver(Types)
<1>1. ASSUME NEW types \in SUBSET Types, NEW value \in ConditionStatus
      PROVE  All(types, value) \in ConditionsOver(Types)
  BY ConditionsShape DEF All
<1>2. ASSUME NEW value \in ConditionStatus
      PROVE  ReportPause(value) \in ConditionsOver(Types)
  <2>1. ReportPause(value) = [type \in {"Paused"} |-> value]
    BY DEF ReportPause
  <2>2. {"Paused"} \subseteq Types
    BY DEF Types
  <2> QED BY <2>1, <2>2, ConditionsShape
<1>3. Nothing \in ConditionsOver(Types)
  BY ConditionsShape DEF Nothing
<1> QED BY <1>1, <1>2, <1>3

\* Every step keeps the types.
LEMMA TypedStep == Typed /\ [Next]_vars => Typed'
<1> SUFFICES ASSUME Typed, [Next]_vars PROVE Typed'
  OBVIOUS
<1> USE DEF Typed
<1>1. Idle \in TaskRecords
  BY UpdatesTyped DEF Idle, TaskRecords, Object, Created
<1>2. CASE ChangeCluster \/ ChangeCapi
  <2>1. Unwarned \in [Tasks -> TaskRecords]
    BY ZenonT(60) DEF Unwarned, TaskRecords
  <2>2. \A field \in {"owner", "endpoint", "paused"} : [cluster EXCEPT ![field] = ~ @] \in Object
    BY DEF Object
  <2>3. \A field \in {"exists", "paused"} :
          [capi EXCEPT ![field] = ~ @] \in [exists : BOOLEAN, paused : BOOLEAN]
    OBVIOUS
  <2>4. cluster' \in Object /\ capi' \in [exists : BOOLEAN, paused : BOOLEAN] /\ event' \in BOOLEAN
    BY <1>2, <2>2, <2>3 DEF ChangeCluster, ChangeCapi
  <2>5. task' \in [Tasks -> TaskRecords]
    BY <1>2, <2>1 DEF ChangeCluster, ChangeCapi
  <2>6. changes' \in 0 .. MaxChanges /\ UNCHANGED <<status, faults>>
    BY <1>2, SSHClusterAssumption DEF ChangeCluster, ChangeCapi
  <2> QED BY <2>4, <2>5, <2>6
<1>3. CASE DeleteCluster
  BY <1>3 DEF DeleteCluster, Object
<1>4. ASSUME NEW t \in Tasks, Begin(t) PROVE Typed'
  <2>1. [Idle EXCEPT !.pc = "lookup", !.seen = cluster, !.conditions = status.conditions,
                     !.warned = PausedNow] \in TaskRecords
    <3>1. PausedNow \in BOOLEAN
      BY DEF PausedNow, PausedBy, Object
    <3>2. status.conditions \in ConditionsOver(Types)
      BY DEF StatusRecords
    <3> QED BY <1>1, <3>1, <3>2 DEF TaskRecords
  <2>2. task' \in [Tasks -> TaskRecords]
    BY <1>4, <2>1 DEF Begin, Goes
  <2> QED BY <1>4, <2>2 DEF Begin
<1>5. ASSUME NEW t \in Tasks, Lookup(t) \/ LookupFails(t) PROVE Typed'
  <2>1. task[t] \in TaskRecords
    OBVIOUS
  <2>2. Staged(t) \in ConditionsOver(Types)
    <3>1. All({"Ready", "InfrastructureReady", "CleanupSucceeded"}, "False")
            \in ConditionsOver(Types)
      BY UpdatesTyped DEF Types, ConditionStatus
    <3>2. task[t].conditions \in ConditionsOver(Types)
      BY <2>1 DEF TaskRecords
    <3> QED BY <3>1, <3>2, MergeTyped DEF Staged
  <2>3. Decided(task[t].seen) \in ConditionsOver(Types)
    <3>1. All(Lifecycle, Says(ReadyFor(task[t].seen))) \in ConditionsOver(Types)
      BY UpdatesTyped DEF Lifecycle, Types, Says, ConditionStatus
    <3>2. [type \in {"ControlPlaneEndpointReady", "CleanupSucceeded"} |->
             Says(type = "CleanupSucceeded")] \in ConditionsOver(Types)
      BY ConditionsShape DEF Types, Says, ConditionStatus
    <3> QED BY <3>1, <3>2 DEF Decided
  <2>4. \A value \in ConditionStatus :
          MergeConditions(Staged(t), ReportPause(value)) \in ConditionsOver(Types)
    BY <2>2, UpdatesTyped, MergeTyped
  <2>5. PICK conditions \in ConditionsOver(Types), ready \in SUBSET BOOLEAN, raised \in BOOLEAN :
          task' = [task EXCEPT ![t] = [task[t] EXCEPT
                     !.pc = "patch", !.conditions = conditions, !.ready = ready,
                     !.raised = raised]]
    <3>1. CASE Lookup(t)
      <4> DEFINE paused == IsPaused(t)
                 reported == MergeConditions(Staged(t), ReportPause(Says(paused)))
                 all == MergeConditions(reported,
                          IF paused THEN Nothing ELSE Decided(task[t].seen))
                 ready == IF paused THEN {} ELSE {ReadyFor(task[t].seen)}
                 raised == paused /\ task[t].seen.life = "deleting"
      <4>1. reported \in ConditionsOver(Types)
        BY <2>4 DEF Says, ConditionStatus
      <4>2. all \in ConditionsOver(Types)
        <5> HIDE DEF reported, paused
        <5> QED BY <2>3, <4>1, UpdatesTyped, MergeTyped
      <4>3. ready \in SUBSET BOOLEAN /\ raised \in BOOLEAN
        BY <2>1 DEF IsPaused, PausedBy, ReadyFor, TaskRecords, Object
      <4>4. task' = [task EXCEPT ![t] = [task[t] EXCEPT
                       !.pc = "patch", !.conditions = all, !.ready = ready, !.raised = raised]]
        BY <3>1 DEF Lookup, Goes
      <4> HIDE DEF all, ready, raised
      <4> QED BY <4>2, <4>3, <4>4
    <3>2. CASE LookupFails(t)
      <4> DEFINE all == MergeConditions(Staged(t), ReportPause("Unknown"))
      <4>1. all \in ConditionsOver(Types)
        BY <2>4 DEF ConditionStatus
      <4>2. task' = [task EXCEPT ![t] = [task[t] EXCEPT
                       !.pc = "patch", !.conditions = all, !.ready = task[t].ready,
                       !.raised = TRUE]]
        <5> HIDE DEF all
        <5>1. task' = [task EXCEPT ![t] = [task[t] EXCEPT
                         !.pc = "patch", !.raised = TRUE, !.conditions = all]]
          BY <3>2 DEF LookupFails, Goes, all
        <5>2. [task[t] EXCEPT !.pc = "patch", !.raised = TRUE, !.conditions = all]
                = [task[t] EXCEPT !.pc = "patch", !.conditions = all, !.ready = task[t].ready,
                                  !.raised = TRUE]
          BY <2>1 DEF TaskRecords
        <5> QED BY <5>1, <5>2
      <4>3. task[t].ready \in SUBSET BOOLEAN
        BY <2>1 DEF TaskRecords
      <4> HIDE DEF all
      <4> QED BY <4>1, <4>2, <4>3
    <3> QED BY <1>5, <3>1, <3>2
  <2>6. task' \in [Tasks -> TaskRecords]
    BY <2>1, <2>5 DEF TaskRecords
  <2>7. faults' \in 0 .. MaxFaults /\ UNCHANGED <<cluster, capi, status, event, changes>>
    BY <1>5, SSHClusterAssumption DEF Lookup, LookupFails
  <2> QED BY <2>6, <2>7
<1>6. ASSUME NEW t \in Tasks, Patch(t) PROVE Typed'
  <2>1. task[t] \in TaskRecords
    OBVIOUS
  <2>2. Patched(t) \in StatusRecords
    <3>1. status.ready \in BOOLEAN /\ status.provisioned \in BOOLEAN
      BY DEF StatusRecords
    <3>2. task[t].conditions \in ConditionsOver(Types)
      BY <2>1 DEF TaskRecords
    <3> DEFINE ready == IF task[t].seen.life = "deleting" THEN FALSE
                        ELSE IF task[t].ready = {} THEN status.ready ELSE TRUE \in task[t].ready
               provisioned == IF task[t].ready = {} THEN status.provisioned
                              ELSE task[t].seen.life = "live" /\ TRUE \in task[t].ready
    <3>3. ready \in BOOLEAN
      <4>1. CASE task[t].seen.life = "deleting"
        BY <4>1
      <4>2. CASE task[t].seen.life # "deleting" /\ task[t].ready = {}
        BY <3>1, <4>2
      <4>3. CASE task[t].seen.life # "deleting" /\ task[t].ready # {}
        <5>1. (TRUE \in task[t].ready) \in BOOLEAN
          OBVIOUS
        <5>2. ready = (TRUE \in task[t].ready)
          BY <4>3, Zenon
        <5> HIDE DEF ready
        <5> QED BY <5>1, <5>2
      <4> QED BY <4>1, <4>2, <4>3
    <3>4. provisioned \in BOOLEAN
      BY <3>1
    <3>5. Patched(t) = [ready |-> ready, provisioned |-> provisioned,
                        conditions |-> task[t].conditions]
      BY DEF Patched
    <3> HIDE DEF ready, provisioned
    <3> QED BY <3>2, <3>3, <3>4, <3>5 DEF StatusRecords
  <2>3. status' \in StatusRecords
    BY <1>6, <2>2 DEF Patch
  <2>4. cluster' \in Object
    BY <1>6 DEF Patch, Object
  <2>5. task' \in [Tasks -> TaskRecords] /\ event' \in BOOLEAN
    BY <1>1, <1>6, <2>1 DEF Patch, Goes, TaskRecords
  <2> QED BY <1>6, <2>3, <2>4, <2>5 DEF Patch
<1>7. CASE UNCHANGED vars
  BY <1>7 DEF vars
<1> QED BY <1>2, <1>3, <1>4, <1>5, <1>6, <1>7 DEF Next, Handler

\* Initially no task is under way and nothing is reported.
LEMMA TypedInit == Init => Typed
<1> SUFFICES ASSUME Init PROVE Typed
  OBVIOUS
<1>1. Idle \in TaskRecords
  BY UpdatesTyped DEF Idle, TaskRecords, Object, Created
<1>2. cluster \in Object
  BY DEF Init, Created, Object
<1>3. status \in StatusRecords
  BY UpdatesTyped DEF Init, StatusRecords
<1> QED BY <1>1, <1>2, <1>3, SSHClusterAssumption DEF Init, Typed

\* The types hold in every reachable state; in particular every condition that
\* is ever written has one of the three statuses.
THEOREM SSHClusterTypeCorrect == Spec => []TypeOK
<1>1. Typed => TypeOK
  BY DEF Typed, TypeOK, StatusRecords, TaskRecords
<1> QED BY <1>1, TypedInit, TypedStep, PTL DEF Spec

-----------------------------------------------------------------------------
(* The pause *)

\* What PausedBy depends on is the same in the snapshot as in the object.
SamePause(seen) ==
  seen.paused = cluster.paused /\ seen.owner = cluster.owner /\ seen.label = cluster.label

\* A task that has been warned decides as the pause in force asks it to, and a
\* task never finds a live object that it takes for one under deletion.
Warned(t) ==
  /\ task[t].pc = "idle" => ~ task[t].warned
  /\ task[t].pc = "lookup" => task[t].ready = {}
  /\ task[t].pc # "idle" /\ cluster.life = "live" => task[t].seen.life = "live"
  /\ task[t].warned => PausedNow /\ SamePause(task[t].seen)
  /\ task[t].warned /\ task[t].pc = "patch" => task[t].ready = {}

PauseInv == Typed /\ \A t \in Tasks : Warned(t)

\* Every step keeps what a warned task relies on.
LEMMA PauseStep == PauseInv /\ [Next]_vars => PauseInv'
<1> SUFFICES ASSUME PauseInv, [Next]_vars, NEW u \in Tasks PROVE Warned(u)'
  BY TypedStep DEF PauseInv
<1>0. /\ Typed /\ Warned(u)
      /\ task \in [Tasks -> TaskRecords] /\ task[u] \in TaskRecords /\ cluster \in Object
  BY DEF PauseInv, Typed
<1> USE DEF Warned, PausedNow, PausedBy, SamePause
<1>1. CASE ChangeCluster
  <2>1. PICK field \in {"owner", "endpoint", "paused"} :
          /\ cluster' = [cluster EXCEPT ![field] = ~ @]
          /\ task' = IF field = "endpoint" THEN task ELSE Unwarned
    BY <1>1 DEF ChangeCluster
  <2>2. cluster'.life = cluster.life /\ capi' = capi
    BY <1>0, <1>1, <2>1 DEF ChangeCluster, Object
  <2>3. CASE field = "endpoint"
    <3>1. /\ cluster'.paused = cluster.paused /\ cluster'.owner = cluster.owner
          /\ cluster'.label = cluster.label
      BY <1>0, <2>1, <2>3 DEF Object
    <3> QED BY <1>0, <2>1, <2>2, <2>3, <3>1
  <2>4. CASE field # "endpoint"
    <3>1. /\ ~ task'[u].warned /\ task'[u].pc = task[u].pc
          /\ task'[u].ready = task[u].ready /\ task'[u].seen = task[u].seen
      BY <1>0, <2>1, <2>4 DEF Unwarned, TaskRecords
    <3> QED BY <1>0, <2>2, <3>1
  <2> QED BY <2>3, <2>4
<1>2. CASE ChangeCapi
  <2>1. /\ ~ task'[u].warned /\ task'[u].pc = task[u].pc
        /\ task'[u].ready = task[u].ready /\ task'[u].seen = task[u].seen
    BY <1>0, <1>2 DEF ChangeCapi, Unwarned, TaskRecords
  <2> QED BY <1>0, <1>2, <2>1 DEF ChangeCapi
<1>3. CASE DeleteCluster
  <2>1. /\ cluster'.paused = cluster.paused /\ cluster'.owner = cluster.owner
        /\ cluster'.label = cluster.label /\ cluster'.life = "deleting"
    BY <1>0, <1>3 DEF DeleteCluster, Object
  <2> QED BY <1>0, <1>3, <2>1 DEF DeleteCluster
<1>4. ASSUME NEW t \in Tasks, Begin(t) PROVE Warned(u)'
  <2>1. UNCHANGED <<cluster, capi>>
    BY <1>4 DEF Begin
  <2>2. CASE u = t
    <3>1. /\ task'[u].pc = "lookup" /\ task'[u].seen = cluster /\ task'[u].ready = {}
          /\ task'[u].warned = PausedNow
      BY <1>0, <1>4, <2>2 DEF Begin, Goes, Idle
    <3> QED BY <2>1, <3>1
  <2>3. CASE u # t
    <3>1. task'[u] = task[u]
      BY <1>0, <1>4, <2>3 DEF Begin, Goes
    <3> QED BY <1>0, <2>1, <3>1
  <2> QED BY <2>2, <2>3
<1>5. ASSUME NEW t \in Tasks, Lookup(t) \/ LookupFails(t) PROVE Warned(u)'
  <2>1. UNCHANGED <<cluster, capi>>
    BY <1>5 DEF Lookup, LookupFails
  <2>2. CASE u = t
    <3>1. /\ task[u].pc = "lookup" /\ task'[u].pc = "patch" /\ task'[u].seen = task[u].seen
          /\ task'[u].warned = task[u].warned
          /\ IsPaused(u) => task'[u].ready = {}
      <4>1. CASE Lookup(t)
        BY <1>0, <2>2, <4>1 DEF Lookup, Goes, TaskRecords
      <4>2. CASE LookupFails(t)
        BY <1>0, <2>2, <4>2 DEF LookupFails, Goes, TaskRecords
      <4> QED BY <1>5, <4>1, <4>2
    <3> QED BY <1>0, <2>1, <3>1 DEF IsPaused
  <2>3. CASE u # t
    <3>1. task'[u] = task[u]
      BY <1>0, <1>5, <2>3 DEF Lookup, LookupFails, Goes
    <3> QED BY <1>0, <2>1, <3>1
  <2> QED BY <2>2, <2>3
<1>6. ASSUME NEW t \in Tasks, Patch(t) PROVE Warned(u)'
  <2>1. /\ capi' = capi
        /\ cluster'.paused = cluster.paused /\ cluster'.owner = cluster.owner
        /\ cluster'.label = cluster.label
        /\ cluster'.life = "live" => cluster.life = "live"
    BY <1>0, <1>6 DEF Patch, Object
  <2>2. CASE u = t
    BY <1>0, <1>6, <2>2 DEF Patch, Goes, Idle
  <2>3. CASE u # t
    <3>1. task'[u] = task[u]
      BY <1>0, <1>6, <2>3 DEF Patch, Goes
    <3> QED BY <1>0, <2>1, <3>1
  <2> QED BY <2>2, <2>3
<1>7. CASE UNCHANGED vars
  BY <1>0, <1>7 DEF vars
<1> QED BY <1>1, <1>2, <1>3, <1>4, <1>5, <1>6, <1>7 DEF Next, Handler

\* PauseInv holds in every reachable state.
THEOREM PauseInvariant == Spec => []PauseInv
<1>1. Init => PauseInv
  <2> SUFFICES ASSUME Init, NEW t \in Tasks PROVE Warned(t)
    BY TypedInit DEF PauseInv
  <2>1. task[t] = Idle
    BY DEF Init
  <2> QED BY <2>1 DEF Warned, Idle
<1> QED BY <1>1, PauseStep, PTL DEF Spec

\* is_paused and report_pause: once the tasks that were under way when the pause
\* came are over, no patch changes ready or provisioned of a cluster that is not
\* being deleted, however often the spec changes and whichever lookups fail.
THEOREM PauseIsObeyed == Spec => PauseHolds
<1>1. ASSUME PauseInv, [Next]_vars, cluster.life = "live",
             \A t \in Tasks : task[t].pc # "idle" => task[t].warned
      PROVE  status'.ready = status.ready /\ status'.provisioned = status.provisioned
  <2>1. ASSUME NEW t \in Tasks, Patch(t)
        PROVE  status'.ready = status.ready /\ status'.provisioned = status.provisioned
    <3>1. task[t].pc = "patch" /\ task[t].warned
      BY <1>1, <2>1 DEF Patch
    <3>2. task[t].ready = {} /\ task[t].seen.life = "live"
      BY <1>1, <3>1 DEF PauseInv, Warned
    <3> QED BY <1>1, <2>1, <3>2 DEF Patch, Patched
  <2> QED
    BY <1>1, <2>1
       DEF Next, vars, ChangeCluster, ChangeCapi, DeleteCluster, Begin, Handler, Lookup,
           LookupFails
<1>2. PauseInv /\ [Next]_vars =>
        [PausedNow /\ PausedNow' /\ cluster.life = "live"
           /\ (\A t \in Tasks : task[t].pc # "idle" => task[t].warned)
         => status'.ready = status.ready /\ status'.provisioned = status.provisioned]_vars
  BY <1>1
<1> QED BY <1>2, PauseInvariant, PTL DEF Spec, PauseHolds

=============================================================================
