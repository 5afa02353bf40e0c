----------------------------- MODULE RemoteHost -----------------------------
(***************************************************************************)
(* The files and commands of one bootstrap host (operations.py:            *)
(* owned_command and durable_bootstrap; sshmachine.py:                     *)
(* _bootstrap_execution_command; the reset command of delete_machine).     *)
(*                                                                         *)
(* Every mutating command runs under one flock: the claim, the reset and   *)
(* the observation of a Machine try it (flock -n), a bootstrap job waits   *)
(* for it.  Commands outlive the SSH session that submitted them, so any   *)
(* Machine UID may submit any command at any time; only the commands'      *)
(* own checks order them.  A claim is one step (its last effect is a       *)
(* rename); a job and a reset take several, and a power loss can fall      *)
(* between any two of them.                                                *)
(***************************************************************************)

CONSTANTS
  Uids,            \* Machine UIDs that are bound to this host over time
  Attempts,        \* bootstrap attempts, each with a script path of its own
  UidOf,           \* the Machine UID of an attempt
  None,
  RemovalCanBeCut  \* whether a power loss may interrupt rm -rf of the state directory

ASSUME HostAssumption ==
  /\ UidOf \in [Attempts -> Uids]
  /\ None \notin Uids
  /\ RemovalCanBeCut \in BOOLEAN

VARIABLES
  owner,     \* content of /var/lib/capi-provider-ssh/owner
  started,   \* bootstrap-started exists
  receipt,   \* bootstrap-exit-code: its code, and (history) whose job wrote it
  scripts,   \* attempts whose bootstrap-<uuid>.sh exists
  dir,       \* /var/lib/capi-provider-ssh exists
  k8s,       \* kubelet, manifest or etcd state exists
  sentinel,  \* /run/cluster-api/bootstrap-success.complete exists
  job,       \* progress of the submitted bootstrap job of an attempt
  reset,     \* progress of the reset command that holds the flock
  ran,       \* history: attempts whose payload ran since the host was claimed
  proven     \* history: a reset exited 0 and nobody has claimed the host since

remoteVars == <<owner, started, receipt, scripts, dir, k8s, sentinel, job, reset, ran, proven>>

JobStates   == {"none", "queued", "running", "done"}
ResetStates == {"none", "kubeadm", "remove"}
Codes       == {"ok", "failed", "interrupted"}
NoReceipt   == [by |-> None, code |-> "none"]

RemoteTypeOK ==
  /\ owner \in Uids \union {None}
  /\ started \in BOOLEAN
  /\ receipt \in {NoReceipt} \union [by : Uids, code : Codes]
  /\ scripts \in SUBSET Attempts
  /\ dir \in BOOLEAN
  /\ k8s \in BOOLEAN
  /\ sentinel \in BOOLEAN
  /\ job \in [Attempts -> JobStates]
  /\ reset \in ResetStates
  /\ ran \in SUBSET Attempts
  /\ proven \in BOOLEAN

RemoteInit ==
  /\ owner = None
  /\ started = FALSE
  /\ receipt = NoReceipt
  /\ scripts = {}
  /\ dir = FALSE
  /\ k8s = FALSE
  /\ sentinel = FALSE
  /\ job = [a \in Attempts |-> "none"]
  /\ reset = "none"
  /\ ran = {}
  /\ proven = FALSE

\* Variant: a detached job does not hold the flock.
FlockFreeOfResets == reset = "none"

FlockFree == reset = "none" /\ \A a \in Attempts : job[a] # "running"

\* The five paths whose presence makes a host without owner foreign.
KubernetesState == k8s \/ sentinel

-----------------------------------------------------------------------------
(* owned_command(uid, "true", claim=True) *)

\* Exit 0: the owner file names uid, or the host is untouched and gets it.
ClaimGranted(u) ==
  /\ FlockFree
  /\ \/ owner = u /\ UNCHANGED <<owner, dir, ran, proven>>
     \/ /\ owner = None
        /\ ~ KubernetesState
        /\ owner' = u
        /\ dir' = TRUE
        /\ ran' = {}
        /\ proven' = FALSE
  /\ UNCHANGED <<started, receipt, scripts, k8s, sentinel, job, reset>>

\* Exit 78.
ClaimRefused(u) ==
  /\ FlockFree
  /\ owner # u
  /\ owner = None => KubernetesState
  /\ UNCHANGED remoteVars

-----------------------------------------------------------------------------
(* conn.upload: SFTP, neither owner check nor flock *)

Upload(a) ==
  /\ dir
  /\ scripts' = scripts \union {a}
  /\ UNCHANGED <<owner, started, receipt, dir, k8s, sentinel, job, reset, ran, proven>>

(* durable_bootstrap: the detached job *)

Launch(a) ==
  /\ job[a] = "none"
  /\ job' = [job EXCEPT ![a] = "queued"]
  /\ UNCHANGED <<owner, started, receipt, scripts, dir, k8s, sentinel, reset, ran, proven>>

TakesFlock(a) == job[a] = "queued" /\ FlockFree

\* exit 78: another owner, or none.
JobRefused(a) ==
  /\ TakesFlock(a)
  /\ owner # UidOf[a]
  /\ job' = [job EXCEPT ![a] = "done"]
  /\ UNCHANGED <<owner, started, receipt, scripts, dir, k8s, sentinel, reset, ran, proven>>

\* Variant: bootstrap-started is tested before bootstrap-exit-code.
JobSkippedOverwrites(a) ==
  /\ TakesFlock(a)
  /\ owner = UidOf[a]
  /\ receipt # NoReceipt \/ started
  /\ receipt' = IF started THEN [by |-> UidOf[a], code |-> "interrupted"] ELSE receipt
  /\ scripts' = scripts \ {a}
  /\ job' = [job EXCEPT ![a] = "done"]
  /\ UNCHANGED <<owner, started, dir, k8s, sentinel, reset, ran, proven>>

\* A result exists, or an earlier job was interrupted and leaves 123.
JobSkipped(a) ==
  /\ TakesFlock(a)
  /\ owner = UidOf[a]
  /\ receipt # NoReceipt \/ started
  /\ receipt' = IF receipt # NoReceipt THEN receipt
                ELSE [by |-> UidOf[a], code |-> "interrupted"]
  /\ scripts' = scripts \ {a}
  /\ job' = [job EXCEPT ![a] = "done"]
  /\ UNCHANGED <<owner, started, dir, k8s, sentinel, reset, ran, proven>>

\* Variant: an interrupted job is replayed.
JobReplayed(a) ==
  /\ TakesFlock(a)
  /\ owner = UidOf[a]
  /\ receipt = NoReceipt
  /\ started' = TRUE
  /\ job' = [job EXCEPT ![a] = "running"]
  /\ ran' = IF sentinel \/ a \notin scripts THEN ran ELSE ran \union {a}
  /\ UNCHANGED <<owner, receipt, scripts, dir, k8s, sentinel, reset, proven>>

JobStarts(a) ==
  /\ TakesFlock(a)
  /\ owner = UidOf[a]
  /\ receipt = NoReceipt
  /\ ~ started
  /\ started' = TRUE
  /\ job' = [job EXCEPT ![a] = "running"]
  /\ ran' = IF sentinel \/ a \notin scripts THEN ran ELSE ran \union {a}
  /\ UNCHANGED <<owner, receipt, scripts, dir, k8s, sentinel, reset, proven>>

\* The script is executing and has created Kubernetes state.
PayloadWrites(a) ==
  /\ job[a] = "running"
  /\ a \in ran
  /\ k8s' = TRUE
  /\ UNCHANGED <<owner, started, receipt, scripts, dir, sentinel, job, reset, ran, proven>>

\* A sentinel hit and a script that returns 0 give 0, a missing script does not.
JobEnds(a, code) ==
  /\ job[a] = "running"
  /\ code \in (IF sentinel THEN {"ok"} ELSE IF a \in ran THEN {"ok", "failed"} ELSE {"failed"})
  /\ k8s' = (k8s \/ (code = "ok" /\ a \in ran))
  /\ sentinel' = (sentinel \/ code = "ok")
  /\ receipt' = [by |-> UidOf[a], code |-> code]
  /\ scripts' = scripts \ {a}
  /\ job' = [job EXCEPT ![a] = "done"]
  /\ UNCHANGED <<owner, started, dir, reset, ran, proven>>

-----------------------------------------------------------------------------
(* owned_command(uid, "kubeadm reset ... && rm -rf ...", cleaned_retry=True) *)

ResetBegins(u) ==
  /\ FlockFree
  /\ owner = u
  /\ reset' = "kubeadm"
  /\ UNCHANGED <<owner, started, receipt, scripts, dir, k8s, sentinel, job, ran, proven>>

\* Exit 78: another owner, or Kubernetes state without one.
ResetRefused(u) ==
  /\ FlockFree
  /\ owner # u
  /\ owner = None => KubernetesState
  /\ UNCHANGED remoteVars

\* Exit 0 without work: the retry of a reset whose answer was lost.
ResetAlreadyClean ==
  /\ FlockFree
  /\ owner = None
  /\ ~ KubernetesState
  /\ proven' = TRUE
  /\ UNCHANGED <<owner, started, receipt, scripts, dir, k8s, sentinel, job, reset, ran>>

\* Variant: the reset leaves bootstrap-exit-code behind.
NothingOwnedButReceipt == owner = None /\ ~ started

NothingOwned == owner = None /\ ~ started /\ receipt = NoReceipt

\* Nonzero exit: kubeadm reset fails or etcd data survives it, or a script
\* uploaded meanwhile keeps rm from removing the directory itself.
ResetFails ==
  /\ \/ reset = "kubeadm"
     \/ reset = "remove" /\ NothingOwned /\ scripts # {}
  /\ reset' = "none"
  /\ UNCHANGED <<owner, started, receipt, scripts, dir, k8s, sentinel, job, ran, proven>>

\* Variant: surviving etcd data does not fail the reset.
KubeadmResetKeepsData ==
  /\ reset = "kubeadm"
  /\ sentinel' = FALSE
  /\ reset' = "remove"
  /\ UNCHANGED <<owner, started, receipt, scripts, dir, k8s, job, ran, proven>>

KubeadmReset ==
  /\ reset = "kubeadm"
  /\ k8s' = FALSE
  /\ sentinel' = FALSE
  /\ reset' = "remove"
  /\ UNCHANGED <<owner, started, receipt, scripts, dir, job, ran, proven>>

\* rm -rf unlinks the files one at a time, in the directory's own order.
RemoveFile ==
  /\ reset = "remove"
  /\ \/ owner # None /\ owner' = None /\ UNCHANGED <<started, receipt, scripts>>
     \/ started /\ started' = FALSE /\ UNCHANGED <<owner, receipt, scripts>>
     \/ receipt # NoReceipt /\ receipt' = NoReceipt /\ UNCHANGED <<owner, started, scripts>>
     \/ \E a \in scripts : scripts' = scripts \ {a} /\ UNCHANGED <<owner, started, receipt>>
  /\ UNCHANGED <<dir, k8s, sentinel, job, reset, ran, proven>>

\* The directory itself goes last; the command exits 0.
ResetEnds ==
  /\ reset = "remove"
  /\ NothingOwned
  /\ scripts = {}
  /\ dir' = FALSE
  /\ reset' = "none"
  /\ proven' = TRUE
  /\ UNCHANGED <<owner, started, receipt, scripts, k8s, sentinel, job, ran>>

-----------------------------------------------------------------------------
\* The host restarts: every process is gone, /run is empty, files stay.
PowerLoss ==
  /\ reset = "remove" => RemovalCanBeCut
  /\ job' = [a \in Attempts |-> IF job[a] = "none" THEN "none" ELSE "done"]
  /\ reset' = "none"
  /\ sentinel' = FALSE
  /\ UNCHANGED <<owner, started, receipt, scripts, dir, k8s, ran, proven>>

\* The steps the host takes by itself.
HostStep ==
  \/ \E a \in Attempts :
       \/ JobRefused(a) \/ JobSkipped(a) \/ JobStarts(a) \/ PayloadWrites(a)
       \/ \E code \in Codes : JobEnds(a, code)
  \/ ResetFails \/ KubeadmReset \/ RemoveFile \/ ResetEnds
  \/ PowerLoss

\* Commands that arrive over SSH, in any order and from any Machine UID.
Submission ==
  \/ \E u \in Uids : ClaimGranted(u) \/ ClaimRefused(u) \/ ResetBegins(u) \/ ResetRefused(u)
  \/ ResetAlreadyClean
  \/ \E a \in Attempts : Upload(a) \/ Launch(a)

RemoteNext == HostStep \/ Submission

RemoteSpec == RemoteInit /\ [][RemoteNext]_remoteVars

-----------------------------------------------------------------------------
(* Properties *)

\* owned_command: while a bootstrap job runs, the owner file names the job's
\* Machine UID and no reset and no other job is running, whoever submitted
\* what in the meantime.
JobFenced ==
  \A a \in Attempts : job[a] = "running" =>
    /\ owner = UidOf[a]
    /\ reset = "none"
    /\ \A b \in Attempts : job[b] = "running" => b = a

\* durable_bootstrap never replays: between a claim and its reset at most one
\* payload has run, however many launches were queued and whatever was
\* interrupted, and it is the owner's.
OnePayloadPerClaim ==
  /\ \A a, b \in ran : a = b
  /\ owner # None => \A a \in ran : UidOf[a] = owner

\* The result an owner can observe was written by a job of that owner.
ReceiptOfOwner ==
  receipt # NoReceipt /\ owner # None => receipt.by = owner

\* A reset that exited 0 leaves no Kubernetes state and nothing of the last
\* owner that the next owner's job would obey, until the next claim.
ResetProvesClean ==
  proven => NothingOwned /\ ~ KubernetesState

\* A result, once written, is never replaced by another one.
ReceiptIsFinal ==
  [][receipt # NoReceipt => receipt' \in {receipt, NoReceipt}]_remoteVars

=============================================================================
