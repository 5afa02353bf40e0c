----------------------------- MODULE Conditions -----------------------------
(***************************************************************************)
(* status.conditions as conditions.py maintains them: a function from the  *)
(* types that are present to their status.  Reasons, messages, transition  *)
(* times and observedGeneration are left out.                              *)
(***************************************************************************)

ConditionStatus == {"True", "False", "Unknown"}

ConditionsOver(types) == UNION {[some -> ConditionStatus] : some \in SUBSET types}

\* Both sets of conditions, and the winner's where they have the same type.
Union(winner, other) ==
  [type \in DOMAIN winner \union DOMAIN other |->
     IF type \in DOMAIN winner THEN winner[type] ELSE other[type]]

\* Variant: what is there wins.
MergeKeepsExisting(existing, updates) == Union(existing, updates)

\* merge_conditions: updates replace what is there, other types are kept.
MergeConditions(existing, updates) == Union(updates, existing)

\* Variant: the reason is reported for the status.
ReportReason(paused) ==
  [type \in {"Paused"} |-> IF paused = "False" THEN "NotPaused" ELSE "Paused"]

\* report_pause: the Paused condition by the outcome of the check, which is
\* Unknown when it has failed.
ReportPause(paused) == [type \in {"Paused"} |-> paused]
=============================================================================
