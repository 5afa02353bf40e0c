----------------------------- MODULE SSHCluster -----------------------------
(***************************************************************************)
(* The SSHCluster controller (sshcluster.py).  Kopf runs two tasks for an  *)
(* object: one handles its events, one after the other, and one is the     *)
(* timer.  Each takes a snapshot of the object, looks up the CAPI Cluster  *)
(* in a thread (contracts.py: is_paused) and leaves a patch, which Kopf    *)
(* applies later and without a resourceVersion; status.conditions is a     *)
(* list, so the patch replaces it as a whole.                              *)
(***************************************************************************)
EXTENDS Conditions, Naturals

CONSTANTS
  MaxChanges,  \* bound on changes by users and by CAPI
  MaxFaults    \* bound on lookups that fail

ASSUME SSHClusterAssumption == MaxChanges \in Nat /\ MaxFaults \in Nat

VARIABLES
  cluster,  \* SSHCluster: metadata and spec
  capi,     \* the CAPI Cluster that it belongs to
  status,   \* status of the SSHCluster
  event,    \* the SSHCluster has changed since its events were last handled
  task,     \* progress of the two tasks
  changes,
  faults

vars == <<cluster, capi, status, event, task, changes, faults>>

Tasks == {"events", "timer"}
Types == {"Ready", "InfrastructureReady", "ControlPlaneEndpointReady", "Paused",
          "CleanupSucceeded"}

Nothing == [t \in {} |-> "True"]

Created == [life |-> "live", owner |-> FALSE, label |-> FALSE, endpoint |-> FALSE,
            paused |-> FALSE]

\* ready is the value that the task will write: none of both while paused.
\* warned: the task began after the pause that is now in force.
Idle == [pc |-> "idle", seen |-> Created, conditions |-> Nothing, ready |-> {}, raised |-> FALSE,
         warned |-> FALSE]

\* owner: an ownerReference to the CAPI Cluster; label: its cluster-name label
Object == [life : {"live", "deleting", "gone"}, owner : BOOLEAN, label : BOOLEAN,
           endpoint : BOOLEAN, paused : BOOLEAN]

TypeOK ==
  /\ cluster \in Object
  /\ capi \in [exists : BOOLEAN, paused : BOOLEAN]
  /\ status.ready \in BOOLEAN
  /\ status.provisioned \in BOOLEAN
  /\ status.conditions \in ConditionsOver(Types)
  /\ event \in BOOLEAN
  /\ \A t \in Tasks :
       /\ task[t].pc \in {"idle", "lookup", "patch"}
       /\ task[t].seen \in Object
       /\ task[t].conditions \in ConditionsOver(Types)
       /\ task[t].ready \subseteq BOOLEAN
  /\ changes \in 0 .. MaxChanges
  /\ faults \in 0 .. MaxFaults

Init ==
  /\ \E owner, label, endpoint \in BOOLEAN :
       cluster = [Created EXCEPT !.owner = owner, !.label = label, !.endpoint = endpoint]
  /\ capi = [exists |-> TRUE, paused |-> FALSE]
  /\ status = [ready |-> FALSE, provisioned |-> FALSE, conditions |-> Nothing]
  /\ event = TRUE
  /\ task = [t \in Tasks |-> Idle]
  /\ changes = 0
  /\ faults = 0

-----------------------------------------------------------------------------
(* Users and CAPI *)

\* is_paused: the object itself, or the CAPI Cluster that it names, if it names
\* one; a missing one counts as paused.
PausedBy(object) ==
  \/ object.paused
  \/ (object.owner \/ object.label) /\ (~ capi.exists \/ capi.paused)

\* The pause in force
PausedNow == PausedBy(cluster)

\* A task that is under way when the pause may change has not been warned.
Unwarned == [t \in Tasks |-> [task[t] EXCEPT !.warned = FALSE]]

\* The owner is outside of what Kopf compares to find an update: it leaves the
\* change to the timer.
ChangeCluster ==
  /\ changes < MaxChanges
  /\ cluster.life = "live"
  /\ \E field \in {"owner", "endpoint", "paused"} :
       /\ cluster' = [cluster EXCEPT ![field] = ~ @]
       /\ task' = IF field = "endpoint" THEN task ELSE Unwarned
       /\ event' = (event \/ field # "owner")
  /\ changes' = changes + 1
  /\ UNCHANGED <<capi, status, faults>>

ChangeCapi ==
  /\ changes < MaxChanges
  /\ \E field \in {"exists", "paused"} : capi' = [capi EXCEPT ![field] = ~ @]
  /\ task' = Unwarned
  /\ changes' = changes + 1
  /\ UNCHANGED <<cluster, status, event, faults>>

DeleteCluster ==
  /\ cluster.life = "live"
  /\ cluster' = [cluster EXCEPT !.life = "deleting"]
  /\ event' = TRUE
  /\ UNCHANGED <<capi, status, task, changes, faults>>

-----------------------------------------------------------------------------
(* The handlers *)

Goes(t, next) == task' = [task EXCEPT ![t] = next]

\* A handler is called with the object as it is; the timer ends with deletion.
Begin(t) ==
  /\ task[t].pc = "idle"
  /\ IF t = "timer" THEN cluster.life = "live" ELSE event /\ cluster.life # "gone"
  /\ Goes(t, [Idle EXCEPT !.pc = "lookup", !.seen = cluster, !.conditions = status.conditions,
                          !.warned = PausedNow])
  /\ event' = (event /\ t = "timer")
  /\ UNCHANGED <<cluster, capi, status, changes, faults>>

All(types, value) == [type \in types |-> value]
Lifecycle         == {"Ready", "InfrastructureReady", "ControlPlaneEndpointReady"}

\* The conditions a handler has staged before it looks the pause up.
Staged(t) ==
  IF task[t].seen.life = "live" THEN task[t].conditions
  ELSE MergeConditions(task[t].conditions,
         All({"Ready", "InfrastructureReady", "CleanupSucceeded"}, "False"))

\* Owner and endpoint decide; every exit writes all three conditions.
ReadyFor(seen) == seen.owner /\ seen.endpoint

Says(value) == IF value THEN "True" ELSE "False"

\* _reconcile and sshcluster_delete after the pause check
Decided(seen) ==
  IF seen.life = "live" THEN All(Lifecycle, Says(ReadyFor(seen)))
  ELSE [type \in {"ControlPlaneEndpointReady", "CleanupSucceeded"} |->
          Says(type = "CleanupSucceeded")]

\* Variant: only the object itself is asked about the pause.
PausedLocally(t) == task[t].seen.paused

\* The object as the handler was given it, and the live CAPI Cluster
IsPaused(t) == PausedBy(task[t].seen)

\* While paused nothing but the condition is reported, and a deletion is
\* retried.
Lookup(t) ==
  LET paused == IsPaused(t) IN
  /\ task[t].pc = "lookup"
  /\ Goes(t, [task[t] EXCEPT
       !.pc = "patch",
       !.conditions = MergeConditions(MergeConditions(Staged(t), ReportPause(Says(paused))),
                                      IF paused THEN Nothing ELSE Decided(task[t].seen)),
       !.ready = IF paused THEN {} ELSE {ReadyFor(task[t].seen)},
       !.raised = paused /\ task[t].seen.life = "deleting"])
  /\ UNCHANGED <<cluster, capi, status, event, changes, faults>>

\* The lookup is refused or fails, or finds a Cluster with another UID: the
\* exception leaves the handler, with the Paused condition Unknown.
LookupFails(t) ==
  /\ task[t].pc = "lookup"
  /\ ~ task[t].seen.paused
  /\ task[t].seen.owner \/ task[t].seen.label
  /\ faults < MaxFaults
  /\ Goes(t, [task[t] EXCEPT !.pc = "patch", !.raised = TRUE,
       !.conditions = MergeConditions(Staged(t), ReportPause("Unknown"))])
  /\ faults' = faults + 1
  /\ UNCHANGED <<cluster, capi, status, event, changes>>

\* The status under the staged patch
Patched(t) ==
  LET seen == task[t].seen IN
  [ready       |-> IF seen.life = "deleting" THEN FALSE
                   ELSE IF task[t].ready = {} THEN status.ready ELSE TRUE \in task[t].ready,
   provisioned |-> IF task[t].ready = {} THEN status.provisioned
                   ELSE seen.life = "live" /\ TRUE \in task[t].ready,
   conditions  |-> task[t].conditions]

\* Kopf patches the status.  A handler that raised is called again; the
\* finalizer goes when the deletion handler has succeeded.
Patch(t) ==
  LET seen == task[t].seen IN
  /\ task[t].pc = "patch"
  /\ status' = IF cluster.life = "gone" THEN status ELSE Patched(t)
  /\ cluster' = IF t = "events" /\ seen.life = "deleting" /\ ~ task[t].raised
                THEN [cluster EXCEPT !.life = "gone"] ELSE cluster
  /\ event' = (event \/ (t = "events" /\ task[t].raised))
  /\ Goes(t, Idle)
  /\ UNCHANGED <<capi, changes, faults>>

Handler(t) == Lookup(t) \/ LookupFails(t) \/ Patch(t)

Next ==
  \/ ChangeCluster \/ ChangeCapi \/ DeleteCluster
  \/ \E t \in Tasks : Begin(t) \/ Handler(t)

Spec == Init /\ [][Next]_vars

\* Kopf handles every event, calls the timer every RECONCILE_INTERVAL seconds
\* and applies every patch.
Fairness == \A t \in Tasks : WF_vars(Begin(t)) /\ WF_vars(Handler(t))

FairSpec == Spec /\ Fairness

-----------------------------------------------------------------------------
(* Properties *)

\* is_paused and report_pause: once CAPI has paused a cluster that is not being
\* deleted and handlers that were already under way are over, ready and
\* provisioned stay as they are, whatever changes in the spec and whichever
\* lookups fail.  (sshcluster_delete stages ready = False before its own check.)
PauseHolds ==
  [][PausedNow /\ PausedNow' /\ cluster.life = "live"
       /\ (\A t \in Tasks : task[t].pc # "idle" => task[t].warned)
     => status'.ready = status.ready /\ status'.provisioned = status.provisioned]_vars

Converged ==
  /\ status.ready = ReadyFor(cluster)
  /\ status.provisioned = ReadyFor(cluster)
  /\ Lifecycle \union {"Paused"} \subseteq DOMAIN status.conditions
  /\ \A type \in Lifecycle : status.conditions[type] = Says(ReadyFor(cluster))
  /\ status.conditions["Paused"] = "False"

\* Events and timer overwrite each other's status with stale snapshots, and
\* the pause of the CAPI Cluster is no event of the SSHCluster; but once the
\* cluster is left alone and not paused, the status, its flags and its
\* conditions, becomes right and stays right.
StatusConverges ==
  <>[](cluster.life = "live" /\ ~ PausedNow) => <>[]Converged
=============================================================================
