-------------------------- MODULE RemoteHostProofs --------------------------
(***************************************************************************)
(* Proofs about RemoteHost for any number of Machine UIDs and attempts.    *)
(*                                                                         *)
(* The fence and the finality of the receipt (Fence) hold whatever a power *)
(* loss cuts short: they rest on the flock and on the order of the checks  *)
(* in a job.  What one owner leaves to the next (Ownership) needs that the *)
(* removal of the state directory is not cut: RemovalCanBeCut = FALSE.     *)
(***************************************************************************)
EXTENDS RemoteHost, TLAPS

-----------------------------------------------------------------------------
(* What makes the properties inductive. *)

\* A job that runs has found no result, and nobody writes one meanwhile.
RunningUnreported ==
  \A a \in Attempts : job[a] = "running" => receipt = NoReceipt

\* Outside a removal, a host without owner file has no marker of a job.
OwnerlessIsEmpty ==
  reset # "remove" /\ owner = None => ~ started /\ receipt = NoReceipt

\* A payload that ran for the present claim has left its started marker.
RanIsStarted ==
  reset # "remove" /\ owner # None /\ ran # {} => started

\* While the directory is being removed the Kubernetes state is gone.
RemovalIsClean ==
  reset = "remove" => ~ KubernetesState

Fence ==
  /\ RemoteTypeOK
  /\ JobFenced
  /\ RunningUnreported

Ownership ==
  /\ OnePayloadPerClaim
  /\ ReceiptOfOwner
  /\ ResetProvesClean
  /\ OwnerlessIsEmpty
  /\ RanIsStarted
  /\ RemovalIsClean

RemoteInv == Fence /\ Ownership

-----------------------------------------------------------------------------
\* An unused host satisfies the invariant.
LEMMA RemoteInvInit == RemoteInit => RemoteInv
BY HostAssumption
DEF RemoteInit, RemoteInv, Fence, Ownership, RemoteTypeOK, JobFenced, RunningUnreported,
    OnePayloadPerClaim, ReceiptOfOwner, ResetProvesClean, OwnerlessIsEmpty, RanIsStarted,
    RemovalIsClean, KubernetesState, NothingOwned, NoReceipt, JobStates, ResetStates

\* Every command, every step of the host and every power loss keeps a running
\* job alone, with its owner and without result.
LEMMA FenceStep == Fence /\ [RemoteNext]_remoteVars => Fence'
<1> SUFFICES ASSUME RemoteTypeOK, JobFenced, RunningUnreported, [RemoteNext]_remoteVars
             PROVE  Fence'
  BY DEF Fence
<1> USE HostAssumption
        DEF NoReceipt, JobStates, ResetStates, Codes, FlockFree, TakesFlock, NothingOwned
<1>1. ASSUME NEW u \in Uids, ClaimGranted(u) PROVE Fence'
  <2>1. RemoteTypeOK'
    <3> HIDE DEF NoReceipt, JobStates, ResetStates, Codes
    <3> QED BY <1>1 DEF ClaimGranted, RemoteTypeOK
  <2>2. JobFenced'
    BY <1>1 DEF ClaimGranted, JobFenced, RemoteTypeOK
  <2>3. RunningUnreported'
    BY <1>1 DEF ClaimGranted, RunningUnreported, RemoteTypeOK, JobFenced
  <2> QED BY <2>1, <2>2, <2>3 DEF Fence
<1>2. ASSUME NEW u \in Uids, ResetBegins(u) PROVE Fence'
  <2>1. RemoteTypeOK'
    BY <1>2 DEF ResetBegins, RemoteTypeOK
  <2>2. JobFenced'
    BY <1>2 DEF ResetBegins, JobFenced, RemoteTypeOK
  <2>3. RunningUnreported'
    BY <1>2 DEF ResetBegins, RunningUnreported, RemoteTypeOK, JobFenced
  <2> QED BY <2>1, <2>2, <2>3 DEF Fence
<1>3. ASSUME NEW a \in Attempts, Upload(a) PROVE Fence'
  <2>1. RemoteTypeOK'
    BY <1>3 DEF Upload, RemoteTypeOK
  <2>2. JobFenced'
    BY <1>3 DEF Upload, JobFenced, RemoteTypeOK
  <2>3. RunningUnreported'
    BY <1>3 DEF Upload, RunningUnreported, RemoteTypeOK, JobFenced
  <2> QED BY <2>1, <2>2, <2>3 DEF Fence
<1>4. ASSUME NEW a \in Attempts, Launch(a) PROVE Fence'
  <2>1. RemoteTypeOK'
    BY <1>4 DEF Launch, RemoteTypeOK
  <2>2. JobFenced'
    BY <1>4 DEF Launch, JobFenced, RemoteTypeOK
  <2>3. RunningUnreported'
    BY <1>4 DEF Launch, RunningUnreported, RemoteTypeOK, JobFenced
  <2> QED BY <2>1, <2>2, <2>3 DEF Fence
<1>5. ASSUME NEW a \in Attempts, JobRefused(a) PROVE Fence'
  <2>1. RemoteTypeOK'
    BY <1>5 DEF JobRefused, RemoteTypeOK
  <2>2. JobFenced'
    BY <1>5 DEF JobRefused, JobFenced, RemoteTypeOK
  <2>3. RunningUnreported'
    BY <1>5 DEF JobRefused, RunningUnreported, RemoteTypeOK, JobFenced
  <2> QED BY <2>1, <2>2, <2>3 DEF Fence
<1>6. ASSUME NEW a \in Attempts, JobSkipped(a) PROVE Fence'
  <2>1. RemoteTypeOK'
    BY <1>6 DEF JobSkipped, RemoteTypeOK
  <2>2. JobFenced'
    BY <1>6 DEF JobSkipped, JobFenced, RemoteTypeOK
  <2>3. RunningUnreported'
    BY <1>6 DEF JobSkipped, RunningUnreported, RemoteTypeOK, JobFenced
  <2> QED BY <2>1, <2>2, <2>3 DEF Fence
<1>7. ASSUME NEW a \in Attempts, JobStarts(a) PROVE Fence'
  <2>1. RemoteTypeOK'
    BY <1>7 DEF JobStarts, RemoteTypeOK
  <2>2. JobFenced'
    BY <1>7 DEF JobStarts, JobFenced, RemoteTypeOK
  <2>3. RunningUnreported'
    BY <1>7 DEF JobStarts, RunningUnreported, RemoteTypeOK, JobFenced
  <2> QED BY <2>1, <2>2, <2>3 DEF Fence
<1>8. ASSUME NEW a \in Attempts, PayloadWrites(a) PROVE Fence'
  <2>1. RemoteTypeOK'
    BY <1>8 DEF PayloadWrites, RemoteTypeOK
  <2>2. JobFenced'
    BY <1>8 DEF PayloadWrites, JobFenced, RemoteTypeOK
  <2>3. RunningUnreported'
    BY <1>8 DEF PayloadWrites, RunningUnreported, RemoteTypeOK, JobFenced
  <2> QED BY <2>1, <2>2, <2>3 DEF Fence
<1>9. ASSUME NEW a \in Attempts, NEW code \in Codes, JobEnds(a, code) PROVE Fence'
  <2>1. RemoteTypeOK'
    BY <1>9 DEF JobEnds, RemoteTypeOK
  <2>2. JobFenced'
    BY <1>9 DEF JobEnds, JobFenced, RemoteTypeOK
  <2>3. RunningUnreported'
    BY <1>9 DEF JobEnds, RunningUnreported, RemoteTypeOK, JobFenced
  <2> QED BY <2>1, <2>2, <2>3 DEF Fence
<1>10. CASE ResetAlreadyClean
  <2>1. RemoteTypeOK'
    BY <1>10 DEF ResetAlreadyClean, RemoteTypeOK
  <2>2. JobFenced'
    BY <1>10 DEF ResetAlreadyClean, JobFenced, RemoteTypeOK
  <2>3. RunningUnreported'
    BY <1>10 DEF ResetAlreadyClean, RunningUnreported, RemoteTypeOK, JobFenced
  <2> QED BY <2>1, <2>2, <2>3 DEF Fence
<1>11. CASE ResetFails
  <2>1. RemoteTypeOK'
    BY <1>11 DEF ResetFails, RemoteTypeOK
  <2>2. JobFenced'
    BY <1>11 DEF ResetFails, JobFenced, RemoteTypeOK
  <2>3. RunningUnreported'
    BY <1>11 DEF ResetFails, RunningUnreported, RemoteTypeOK, JobFenced
  <2> QED BY <2>1, <2>2, <2>3 DEF Fence
<1>12. CASE KubeadmReset
  <2>1. RemoteTypeOK'
    BY <1>12 DEF KubeadmReset, RemoteTypeOK
  <2>2. JobFenced'
    BY <1>12 DEF KubeadmReset, JobFenced, RemoteTypeOK
  <2>3. RunningUnreported'
    BY <1>12 DEF KubeadmReset, RunningUnreported, RemoteTypeOK, JobFenced
  <2> QED BY <2>1, <2>2, <2>3 DEF Fence
<1>13. CASE RemoveFile
  <2>1. RemoteTypeOK'
    BY <1>13 DEF RemoveFile, RemoteTypeOK
  <2>2. JobFenced'
    BY <1>13 DEF RemoveFile, JobFenced, RemoteTypeOK
  <2>3. RunningUnreported'
    BY <1>13 DEF RemoveFile, RunningUnreported, RemoteTypeOK, JobFenced
  <2> QED BY <2>1, <2>2, <2>3 DEF Fence
<1>14. CASE ResetEnds
  <2>1. RemoteTypeOK'
    BY <1>14 DEF ResetEnds, RemoteTypeOK
  <2>2. JobFenced'
    BY <1>14 DEF ResetEnds, JobFenced, RemoteTypeOK
  <2>3. RunningUnreported'
    BY <1>14 DEF ResetEnds, RunningUnreported, RemoteTypeOK, JobFenced
  <2> QED BY <2>1, <2>2, <2>3 DEF Fence
<1>15. CASE PowerLoss
  <2>1. RemoteTypeOK'
    BY <1>15 DEF PowerLoss, RemoteTypeOK
  <2>2. JobFenced'
    BY <1>15 DEF PowerLoss, JobFenced, RemoteTypeOK
  <2>3. RunningUnreported'
    BY <1>15 DEF PowerLoss, RunningUnreported, RemoteTypeOK, JobFenced
  <2> QED BY <2>1, <2>2, <2>3 DEF Fence
<1>16. CASE UNCHANGED remoteVars
  <2>1. RemoteTypeOK'
    BY <1>16 DEF remoteVars, RemoteTypeOK
  <2>2. JobFenced'
    BY <1>16 DEF remoteVars, JobFenced, RemoteTypeOK
  <2>3. RunningUnreported'
    BY <1>16 DEF remoteVars, RunningUnreported, RemoteTypeOK, JobFenced
  <2> QED BY <2>1, <2>2, <2>3 DEF Fence
<1>17. ASSUME NEW u \in Uids, ClaimRefused(u) \/ ResetRefused(u) PROVE Fence'
  BY <1>16, <1>17 DEF ClaimRefused, ResetRefused
<1> QED
  BY <1>1, <1>2, <1>3, <1>4, <1>5, <1>6, <1>7, <1>8, <1>9, <1>10, <1>11, <1>12, <1>13, <1>14,
     <1>15, <1>16, <1>17 DEF RemoteNext, HostStep, Submission

\* Without a cut removal, what an owner finds on the host is its own.
LEMMA OwnershipStep ==
  ASSUME RemovalCanBeCut = FALSE
  PROVE  RemoteInv /\ [RemoteNext]_remoteVars => Ownership'
<1> SUFFICES ASSUME RemoteTypeOK, JobFenced, OnePayloadPerClaim, ReceiptOfOwner,
                    ResetProvesClean, OwnerlessIsEmpty, RanIsStarted, RemovalIsClean,
                    [RemoteNext]_remoteVars
             PROVE  Ownership'
  BY DEF RemoteInv, Fence, Ownership
<1> USE HostAssumption
        DEF NoReceipt, JobStates, ResetStates, Codes, FlockFree, TakesFlock, NothingOwned,
            KubernetesState
<1>1. ASSUME NEW u \in Uids, ClaimGranted(u) PROVE Ownership'
  <2>1. OnePayloadPerClaim' /\ RanIsStarted'
    BY <1>1 DEF ClaimGranted, OnePayloadPerClaim, RanIsStarted, OwnerlessIsEmpty, RemoteTypeOK,
       JobFenced
  <2>2. ReceiptOfOwner' /\ OwnerlessIsEmpty'
    BY <1>1 DEF ClaimGranted, ReceiptOfOwner, OwnerlessIsEmpty, RemoteTypeOK, JobFenced
  <2>3. ResetProvesClean' /\ RemovalIsClean'
    BY <1>1 DEF ClaimGranted, ResetProvesClean, RemovalIsClean, OwnerlessIsEmpty, RemoteTypeOK,
       JobFenced
  <2> QED BY <2>1, <2>2, <2>3 DEF Ownership
<1>2. ASSUME NEW u \in Uids, ResetBegins(u) PROVE Ownership'
  <2>1. OnePayloadPerClaim' /\ RanIsStarted'
    BY <1>2 DEF ResetBegins, OnePayloadPerClaim, RanIsStarted, OwnerlessIsEmpty, RemoteTypeOK,
       JobFenced
  <2>2. ReceiptOfOwner' /\ OwnerlessIsEmpty'
    BY <1>2 DEF ResetBegins, ReceiptOfOwner, OwnerlessIsEmpty, RemoteTypeOK, JobFenced
  <2>3. ResetProvesClean' /\ RemovalIsClean'
    BY <1>2 DEF ResetBegins, ResetProvesClean, RemovalIsClean, OwnerlessIsEmpty, RemoteTypeOK,
       JobFenced
  <2> QED BY <2>1, <2>2, <2>3 DEF Ownership
<1>3. ASSUME NEW a \in Attempts, Upload(a) PROVE Ownership'
  <2>1. OnePayloadPerClaim' /\ RanIsStarted'
    BY <1>3 DEF Upload, OnePayloadPerClaim, RanIsStarted, OwnerlessIsEmpty, RemoteTypeOK,
       JobFenced
  <2>2. ReceiptOfOwner' /\ OwnerlessIsEmpty'
    BY <1>3 DEF Upload, ReceiptOfOwner, OwnerlessIsEmpty, RemoteTypeOK, JobFenced
  <2>3. ResetProvesClean' /\ RemovalIsClean'
    BY <1>3 DEF Upload, ResetProvesClean, RemovalIsClean, OwnerlessIsEmpty, RemoteTypeOK,
       JobFenced
  <2> QED BY <2>1, <2>2, <2>3 DEF Ownership
<1>4. ASSUME NEW a \in Attempts, Launch(a) PROVE Ownership'
  <2>1. OnePayloadPerClaim' /\ RanIsStarted'
    BY <1>4 DEF Launch, OnePayloadPerClaim, RanIsStarted, OwnerlessIsEmpty, RemoteTypeOK,
       JobFenced
  <2>2. ReceiptOfOwner' /\ OwnerlessIsEmpty'
    BY <1>4 DEF Launch, ReceiptOfOwner, OwnerlessIsEmpty, RemoteTypeOK, JobFenced
  <2>3. ResetProvesClean' /\ RemovalIsClean'
    BY <1>4 DEF Launch, ResetProvesClean, RemovalIsClean, OwnerlessIsEmpty, RemoteTypeOK,
       JobFenced
  <2> QED BY <2>1, <2>2, <2>3 DEF Ownership
<1>5. ASSUME NEW a \in Attempts, JobRefused(a) PROVE Ownership'
  <2>1. OnePayloadPerClaim' /\ RanIsStarted'
    BY <1>5 DEF JobRefused, OnePayloadPerClaim, RanIsStarted, OwnerlessIsEmpty, RemoteTypeOK,
       JobFenced
  <2>2. ReceiptOfOwner' /\ OwnerlessIsEmpty'
    BY <1>5 DEF JobRefused, ReceiptOfOwner, OwnerlessIsEmpty, RemoteTypeOK, JobFenced
  <2>3. ResetProvesClean' /\ RemovalIsClean'
    BY <1>5 DEF JobRefused, ResetProvesClean, RemovalIsClean, OwnerlessIsEmpty, RemoteTypeOK,
       JobFenced
  <2> QED BY <2>1, <2>2, <2>3 DEF Ownership
<1>6. ASSUME NEW a \in Attempts, JobSkipped(a) PROVE Ownership'
  <2>1. OnePayloadPerClaim' /\ RanIsStarted'
    BY <1>6 DEF JobSkipped, OnePayloadPerClaim, RanIsStarted, OwnerlessIsEmpty, RemoteTypeOK,
       JobFenced
  <2>2. ReceiptOfOwner' /\ OwnerlessIsEmpty'
    BY <1>6 DEF JobSkipped, ReceiptOfOwner, OwnerlessIsEmpty, RemoteTypeOK, JobFenced
  <2>3. ResetProvesClean' /\ RemovalIsClean'
    BY <1>6 DEF JobSkipped, ResetProvesClean, RemovalIsClean, OwnerlessIsEmpty, RemoteTypeOK,
       JobFenced
  <2> QED BY <2>1, <2>2, <2>3 DEF Ownership
<1>7. ASSUME NEW a \in Attempts, JobStarts(a) PROVE Ownership'
  <2>1. OnePayloadPerClaim' /\ RanIsStarted'
    BY <1>7 DEF JobStarts, OnePayloadPerClaim, RanIsStarted, OwnerlessIsEmpty, RemoteTypeOK,
       JobFenced
  <2>2. ReceiptOfOwner' /\ OwnerlessIsEmpty'
    BY <1>7 DEF JobStarts, ReceiptOfOwner, OwnerlessIsEmpty, RemoteTypeOK, JobFenced
  <2>3. ResetProvesClean' /\ RemovalIsClean'
    BY <1>7 DEF JobStarts, ResetProvesClean, RemovalIsClean, OwnerlessIsEmpty, RemoteTypeOK,
       JobFenced
  <2> QED BY <2>1, <2>2, <2>3 DEF Ownership
<1>8. ASSUME NEW a \in Attempts, PayloadWrites(a) PROVE Ownership'
  <2>1. OnePayloadPerClaim' /\ RanIsStarted'
    BY <1>8 DEF PayloadWrites, OnePayloadPerClaim, RanIsStarted, OwnerlessIsEmpty, RemoteTypeOK,
       JobFenced
  <2>2. ReceiptOfOwner' /\ OwnerlessIsEmpty'
    BY <1>8 DEF PayloadWrites, ReceiptOfOwner, OwnerlessIsEmpty, RemoteTypeOK, JobFenced
  <2>3. ResetProvesClean' /\ RemovalIsClean'
    BY <1>8 DEF PayloadWrites, ResetProvesClean, RemovalIsClean, OwnerlessIsEmpty, RemoteTypeOK,
       JobFenced
  <2> QED BY <2>1, <2>2, <2>3 DEF Ownership
<1>9. ASSUME NEW a \in Attempts, NEW code \in Codes, JobEnds(a, code) PROVE Ownership'
  <2>1. OnePayloadPerClaim' /\ RanIsStarted'
    BY <1>9 DEF JobEnds, OnePayloadPerClaim, RanIsStarted, OwnerlessIsEmpty, RemoteTypeOK,
       JobFenced
  <2>2. ReceiptOfOwner' /\ OwnerlessIsEmpty'
    BY <1>9 DEF JobEnds, ReceiptOfOwner, OwnerlessIsEmpty, RemoteTypeOK, JobFenced
  <2>3. ResetProvesClean' /\ RemovalIsClean'
    BY <1>9 DEF JobEnds, ResetProvesClean, RemovalIsClean, OwnerlessIsEmpty, RemoteTypeOK,
       JobFenced
  <2> QED BY <2>1, <2>2, <2>3 DEF Ownership
<1>10. CASE ResetAlreadyClean
  <2>1. OnePayloadPerClaim' /\ RanIsStarted'
    BY <1>10 DEF ResetAlreadyClean, OnePayloadPerClaim, RanIsStarted, OwnerlessIsEmpty,
       RemoteTypeOK, JobFenced
  <2>2. ReceiptOfOwner' /\ OwnerlessIsEmpty'
    BY <1>10 DEF ResetAlreadyClean, ReceiptOfOwner, OwnerlessIsEmpty, RemoteTypeOK, JobFenced
  <2>3. ResetProvesClean' /\ RemovalIsClean'
    BY <1>10 DEF ResetAlreadyClean, ResetProvesClean, RemovalIsClean, OwnerlessIsEmpty,
       RemoteTypeOK, JobFenced
  <2> QED BY <2>1, <2>2, <2>3 DEF Ownership
<1>11. CASE ResetFails
  <2>1. OnePayloadPerClaim' /\ RanIsStarted'
    BY <1>11 DEF ResetFails, OnePayloadPerClaim, RanIsStarted, OwnerlessIsEmpty, RemoteTypeOK,
       JobFenced
  <2>2. ReceiptOfOwner' /\ OwnerlessIsEmpty'
    BY <1>11 DEF ResetFails, ReceiptOfOwner, OwnerlessIsEmpty, RemoteTypeOK, JobFenced
  <2>3. ResetProvesClean' /\ RemovalIsClean'
    BY <1>11 DEF ResetFails, ResetProvesClean, RemovalIsClean, OwnerlessIsEmpty, RemoteTypeOK,
       JobFenced
  <2> QED BY <2>1, <2>2, <2>3 DEF Ownership
<1>12. CASE KubeadmReset
  <2>1. OnePayloadPerClaim' /\ RanIsStarted'
    BY <1>12 DEF KubeadmReset, OnePayloadPerClaim, RanIsStarted, OwnerlessIsEmpty, RemoteTypeOK,
       JobFenced
  <2>2. ReceiptOfOwner' /\ OwnerlessIsEmpty'
    BY <1>12 DEF KubeadmReset, ReceiptOfOwner, OwnerlessIsEmpty, RemoteTypeOK, JobFenced
  <2>3. ResetProvesClean' /\ RemovalIsClean'
    BY <1>12 DEF KubeadmReset, ResetProvesClean, RemovalIsClean, OwnerlessIsEmpty, RemoteTypeOK,
       JobFenced
  <2> QED BY <2>1, <2>2, <2>3 DEF Ownership
<1>13. CASE RemoveFile
  <2>1. OnePayloadPerClaim' /\ RanIsStarted'
    BY <1>13 DEF RemoveFile, OnePayloadPerClaim, RanIsStarted, OwnerlessIsEmpty, RemoteTypeOK,
       JobFenced
  <2>2. ReceiptOfOwner' /\ OwnerlessIsEmpty'
    BY <1>13 DEF RemoveFile, ReceiptOfOwner, OwnerlessIsEmpty, RemoteTypeOK, JobFenced
  <2>3. ResetProvesClean' /\ RemovalIsClean'
    BY <1>13 DEF RemoveFile, ResetProvesClean, RemovalIsClean, OwnerlessIsEmpty, RemoteTypeOK,
       JobFenced
  <2> QED BY <2>1, <2>2, <2>3 DEF Ownership
<1>14. CASE ResetEnds
  <2>1. OnePayloadPerClaim' /\ RanIsStarted'
    BY <1>14 DEF ResetEnds, OnePayloadPerClaim, RanIsStarted, OwnerlessIsEmpty, RemoteTypeOK,
       JobFenced
  <2>2. ReceiptOfOwner' /\ OwnerlessIsEmpty'
    BY <1>14 DEF ResetEnds, ReceiptOfOwner, OwnerlessIsEmpty, RemoteTypeOK, JobFenced
  <2>3. ResetProvesClean' /\ RemovalIsClean'
    BY <1>14 DEF ResetEnds, ResetProvesClean, RemovalIsClean, OwnerlessIsEmpty, RemoteTypeOK,
       JobFenced
  <2> QED BY <2>1, <2>2, <2>3 DEF Ownership
<1>15. CASE PowerLoss
  <2>1. OnePayloadPerClaim' /\ RanIsStarted'
    BY <1>15 DEF PowerLoss, OnePayloadPerClaim, RanIsStarted, OwnerlessIsEmpty, RemoteTypeOK,
       JobFenced
  <2>2. ReceiptOfOwner' /\ OwnerlessIsEmpty'
    BY <1>15 DEF PowerLoss, ReceiptOfOwner, OwnerlessIsEmpty, RemoteTypeOK, JobFenced
  <2>3. ResetProvesClean' /\ RemovalIsClean'
    BY <1>15 DEF PowerLoss, ResetProvesClean, RemovalIsClean, OwnerlessIsEmpty, RemoteTypeOK,
       JobFenced
  <2> QED BY <2>1, <2>2, <2>3 DEF Ownership
<1>16. CASE UNCHANGED remoteVars
  <2>1. OnePayloadPerClaim' /\ RanIsStarted'
    BY <1>16 DEF remoteVars, OnePayloadPerClaim, RanIsStarted, OwnerlessIsEmpty, RemoteTypeOK,
       JobFenced
  <2>2. ReceiptOfOwner' /\ OwnerlessIsEmpty'
    BY <1>16 DEF remoteVars, ReceiptOfOwner, OwnerlessIsEmpty, RemoteTypeOK, JobFenced
  <2>3. ResetProvesClean' /\ RemovalIsClean'
    BY <1>16 DEF remoteVars, ResetProvesClean, RemovalIsClean, OwnerlessIsEmpty, RemoteTypeOK,
       JobFenced
  <2> QED BY <2>1, <2>2, <2>3 DEF Ownership
<1>17. ASSUME NEW u \in Uids, ClaimRefused(u) \/ ResetRefused(u) PROVE Ownership'
  BY <1>16, <1>17 DEF ClaimRefused, ResetRefused
<1> QED
  BY <1>1, <1>2, <1>3, <1>4, <1>5, <1>6, <1>7, <1>8, <1>9, <1>10, <1>11, <1>12, <1>13, <1>14,
     <1>15, <1>16, <1>17 DEF RemoteNext, HostStep, Submission

\* The whole invariant is kept by every step, when removals are not cut.
LEMMA RemoteInvStep ==
  ASSUME RemovalCanBeCut = FALSE
  PROVE  RemoteInv /\ [RemoteNext]_remoteVars => RemoteInv'
BY FenceStep, OwnershipStep DEF RemoteInv

-----------------------------------------------------------------------------
\* The part of the invariant that no power loss breaks.
THEOREM FenceInvariant == RemoteSpec => []Fence
<1>1. RemoteInit => Fence
  BY RemoteInvInit DEF RemoteInv
<1>2. Fence /\ [RemoteNext]_remoteVars => Fence'
  BY FenceStep
<1> QED BY <1>1, <1>2, PTL DEF RemoteSpec

\* The invariant holds in every reachable state.
THEOREM RemoteInvariant ==
  ASSUME RemovalCanBeCut = FALSE
  PROVE  RemoteSpec => []RemoteInv
<1>1. RemoteInit => RemoteInv
  BY RemoteInvInit
<1>2. RemoteInv /\ [RemoteNext]_remoteVars => RemoteInv'
  BY RemoteInvStep
<1> QED BY <1>1, <1>2, PTL DEF RemoteSpec

\* owned_command fences a running job against every other UID and command,
\* for any number of UIDs and of queued launches, and whatever a power loss
\* interrupts.
THEOREM JobsAreFenced == RemoteSpec => []JobFenced
<1>1. Fence => JobFenced
  BY DEF Fence
<1> QED BY <1>1, FenceInvariant, PTL

\* durable_bootstrap never replaces a result: no job that starts, is skipped
\* or ends writes bootstrap-exit-code where there is one, again whatever a
\* power loss interrupts.
THEOREM ReceiptWrittenOnce == RemoteSpec => ReceiptIsFinal
<1>1. ASSUME Fence, [RemoteNext]_remoteVars, receipt # NoReceipt
      PROVE  receipt' \in {receipt, NoReceipt}
  <2>1. ASSUME NEW a \in Attempts, NEW code \in Codes, JobEnds(a, code)
        PROVE  FALSE
    BY <1>1, <2>1 DEF Fence, RunningUnreported, JobEnds
  <2> QED BY <1>1, <2>1
      DEF RemoteNext, HostStep, Submission, remoteVars, ClaimGranted, ClaimRefused, ResetBegins,
          ResetRefused, ResetAlreadyClean, Upload, Launch, JobRefused, JobSkipped, JobStarts,
          PayloadWrites, ResetFails, KubeadmReset, RemoveFile, ResetEnds, PowerLoss
<1>2. Fence /\ [RemoteNext]_remoteVars
        => [receipt # NoReceipt => receipt' \in {receipt, NoReceipt}]_remoteVars
  BY <1>1
<1> QED BY <1>2, FenceInvariant, PTL DEF RemoteSpec, ReceiptIsFinal

\* durable_bootstrap runs at most one payload per claim.
THEOREM PayloadRunsOnce ==
  ASSUME RemovalCanBeCut = FALSE
  PROVE  RemoteSpec => []OnePayloadPerClaim
<1>1. RemoteInv => OnePayloadPerClaim
  BY DEF RemoteInv, Ownership
<1> QED BY <1>1, RemoteInvariant, PTL

\* The receipt an owner observes was written by a job of that owner.
THEOREM ReceiptIsOwn ==
  ASSUME RemovalCanBeCut = FALSE
  PROVE  RemoteSpec => []ReceiptOfOwner
<1>1. RemoteInv => ReceiptOfOwner
  BY DEF RemoteInv, Ownership
<1> QED BY <1>1, RemoteInvariant, PTL

\* A reset that exits 0 leaves nothing behind for the next owner.
THEOREM ResetSeparatesOwners ==
  ASSUME RemovalCanBeCut = FALSE
  PROVE  RemoteSpec => []ResetProvesClean
<1>1. RemoteInv => ResetProvesClean
  BY DEF RemoteInv, Ownership
<1> QED BY <1>1, RemoteInvariant, PTL

=============================================================================
