--------------------------- MODULE HostLeaseProofs ---------------------------
(***************************************************************************)
(* Proofs about HostLease for every set of operations, every lease         *)
(* duration and every bound on the clock.                                  *)
(***************************************************************************)
EXTENDS HostLease, TLAPS

-----------------------------------------------------------------------------
(* The inductive invariant.                                                *)

\* No recorded or sampled time lies in the future.
TimesPast ==
  /\ lease.renewed <= clock
  /\ \A o \in Ops, k \in Kinds : at[o][k] <= clock

\* An operation that is not running has nothing confirmed and no call that
\* still has a caller.
EndedIsSilent ==
  \A o \in Ops : main[o] \in {"new", "done"} =>
    /\ confirmed[o] = None
    /\ \A k \in Kinds : call[o][k] \in {"idle", "abandoned"}

\* A call that still has a caller is the one the calling task is waiting for.
CallHasCaller ==
  \A o \in Ops :
    /\ call[o]["acquire"] \notin {"idle", "abandoned"} => main[o] = "acquiring"
    /\ call[o]["check"] \notin {"idle", "abandoned"} => main[o] = "checking"
    /\ call[o]["release"] \notin {"idle", "abandoned"} => main[o] = "releasing"
    /\ call[o]["beat"] \notin {"idle", "abandoned"} => beat[o] = "renewing"
    /\ beat[o] = "renewing" => main[o] \in {"holding", "checking", "stopping"}
    /\ main[o] \in {"new", "acquiring"} => confirmed[o] = None

\* acquire and release end the operation when their answer is lost.
AbandonedEnds ==
  \A o \in Ops : \A k \in {"acquire", "release"} :
    call[o][k] = "abandoned" => main[o] = "done"

\* What a call that read the current version knows about the Lease.
Knows(o) ==
    /\ "acquire" \in fresh[o] /\ call[o]["acquire"] \in OnTheWire
         => \/ lease.holder = None
            \/ lease.renewed + LEASE_SECONDS <= at[o]["acquire"]
    /\ "release" \in fresh[o] /\ call[o]["release"] \in OnTheWire
         => lease.holder = o
    /\ \A k \in Renewals :
         /\ k \in fresh[o] /\ call[o][k] \in OnTheWire \union {"read"}
              => lease.holder = o
         /\ k \in fresh[o] /\ call[o][k] \in OnTheWire
              => lease.renewed <= at[o][k]

FreshKnows == \A o \in Ops : Knows(o)

\* A confirmed renewal is still on record until it expires.
OnRecord(o) ==
  confirmed[o] # None =>
    \/ confirmed[o] + LEASE_SECONDS <= clock
    \/ lease.holder = o /\ lease.renewed >= confirmed[o]

ConfirmedOnRecord == \A o \in Ops : OnRecord(o)

LeaseInv ==
  /\ TypeOK
  /\ TimesPast
  /\ EndedIsSilent
  /\ CallHasCaller
  /\ AbandonedEnds
  /\ FreshKnows
  /\ ConfirmedOnRecord

-----------------------------------------------------------------------------
\* The initial state: a free Lease and no operation.
LEMMA LeaseInvInit == Init => LeaseInv
<1> SUFFICES ASSUME Init PROVE LeaseInv
  OBVIOUS
<1> USE LeaseAssumption DEF Init, Kinds, Renewals, MainStates, BeatStates, CallStates, OnTheWire
<1>1. TypeOK BY DEF TypeOK
<1>2. TimesPast BY DEF TimesPast
<1>3. EndedIsSilent BY DEF EndedIsSilent
<1>4. CallHasCaller BY DEF CallHasCaller
<1>5. AbandonedEnds BY DEF AbandonedEnds
<1>6. FreshKnows BY DEF FreshKnows, Knows
<1>7. ConfirmedOnRecord BY DEF ConfirmedOnRecord, OnRecord
<1> QED BY <1>1, <1>2, <1>3, <1>4, <1>5, <1>6, <1>7 DEF LeaseInv

\* Every step of an operation, of the network and of time keeps the
\* invariant: the resourceVersion check is what keeps FreshKnows, and
\* FreshKnows is what keeps ConfirmedOnRecord.
LEMMA LeaseInvStep == LeaseInv /\ [Next]_vars => LeaseInv'
<1> SUFFICES ASSUME LeaseInv, [Next]_vars PROVE LeaseInv'
  OBVIOUS
<1> USE LeaseAssumption DEF LeaseInv, Kinds, Renewals, MainStates, BeatStates, CallStates, OnTheWire
<1>1. CASE Tick
  <2>1. TypeOK' /\ TimesPast'
    BY <1>1 DEF Tick, TypeOK, TimesPast
  <2>2. EndedIsSilent' /\ CallHasCaller' /\ AbandonedEnds'
    BY <1>1 DEF Tick, TypeOK, EndedIsSilent, CallHasCaller, AbandonedEnds
  <2>3. FreshKnows' /\ ConfirmedOnRecord'
    BY <1>1 DEF Tick, TypeOK, TimesPast, FreshKnows, Knows, EndedIsSilent,
               AbandonedEnds, ConfirmedOnRecord, OnRecord
  <2> QED BY <2>1, <2>2, <2>3
<1>2. ASSUME NEW o \in Ops, AcquireStart(o) PROVE LeaseInv'
  <2>1. TypeOK' /\ TimesPast'
    BY <1>2 DEF AcquireStart, SetCall, TypeOK, TimesPast
  <2>2. EndedIsSilent' /\ CallHasCaller' /\ AbandonedEnds'
    BY <1>2 DEF AcquireStart, SetCall, TypeOK, EndedIsSilent, CallHasCaller, AbandonedEnds
  <2>3. FreshKnows' /\ ConfirmedOnRecord'
    BY <1>2 DEF AcquireStart, SetCall, TypeOK, TimesPast, FreshKnows, Knows, EndedIsSilent,
               AbandonedEnds, ConfirmedOnRecord, OnRecord
  <2> QED BY <2>1, <2>2, <2>3
<1>3. ASSUME NEW o \in Ops, AcquireRead(o) PROVE LeaseInv'
  <2>1. TypeOK' /\ TimesPast'
    BY <1>3 DEF AcquireRead, SetCall, HeldAt, TypeOK, TimesPast
  <2>2. EndedIsSilent' /\ CallHasCaller' /\ AbandonedEnds'
    BY <1>3 DEF AcquireRead, SetCall, HeldAt, TypeOK, EndedIsSilent, CallHasCaller, AbandonedEnds
  <2>3. FreshKnows' /\ ConfirmedOnRecord'
    BY <1>3 DEF AcquireRead, SetCall, HeldAt, TypeOK, TimesPast, FreshKnows, Knows, EndedIsSilent,
               AbandonedEnds, ConfirmedOnRecord, OnRecord
  <2> QED BY <2>1, <2>2, <2>3
<1>4. ASSUME NEW o \in Ops, AcquireRefused(o) PROVE LeaseInv'
  <2>1. TypeOK'
    BY <1>4 DEF AcquireRefused, SetCall, Failure, Ended, TypeOK
  <2>2. TimesPast'
    BY <1>4 DEF AcquireRefused, SetCall, Failure, Ended, TypeOK, TimesPast
  <2>3. EndedIsSilent'
    <3> SUFFICES ASSUME NEW p \in Ops, main'[p] \in {"new", "done"}, NEW j \in Kinds
                 PROVE  confirmed'[p] = None /\ call'[p][j] \in {"idle", "abandoned"}
      BY DEF EndedIsSilent
    <3>1. CASE p = o
      BY <1>4, <3>1, SMTT(30)
         DEF AcquireRefused, SetCall, Failure, Ended, TypeOK, EndedIsSilent, CallHasCaller
    <3>2. CASE p # o
      BY <1>4, <3>2
         DEF AcquireRefused, SetCall, Failure, Ended, TypeOK, EndedIsSilent, CallHasCaller
    <3> QED BY <3>1, <3>2
  <2>4. CallHasCaller'
    BY <1>4
       DEF AcquireRefused, SetCall, Failure, Ended, TypeOK, CallHasCaller, EndedIsSilent,
           AbandonedEnds
  <2>5. AbandonedEnds'
    BY <1>4 DEF AcquireRefused, SetCall, Failure, Ended, TypeOK, AbandonedEnds, CallHasCaller
  <2>6. FreshKnows'
    BY <1>4 DEF AcquireRefused, SetCall, Failure, Ended, TypeOK, FreshKnows, Knows, TimesPast
  <2>7. ConfirmedOnRecord'
    BY <1>4
       DEF AcquireRefused, SetCall, Failure, Ended, TypeOK, ConfirmedOnRecord, FreshKnows, Knows,
           TimesPast, AbandonedEnds, EndedIsSilent, OnRecord
  <2> QED BY <2>1, <2>2, <2>3, <2>4, <2>5, <2>6, <2>7
<1>5. ASSUME NEW o \in Ops, BodyEnds(o) PROVE LeaseInv'
  <2>1. TypeOK' /\ TimesPast'
    BY <1>5 DEF BodyEnds, TypeOK, TimesPast
  <2>2. EndedIsSilent' /\ CallHasCaller' /\ AbandonedEnds'
    BY <1>5 DEF BodyEnds, TypeOK, EndedIsSilent, CallHasCaller, AbandonedEnds
  <2>3. FreshKnows' /\ ConfirmedOnRecord'
    BY <1>5 DEF BodyEnds, TypeOK, TimesPast, FreshKnows, Knows, EndedIsSilent,
               AbandonedEnds, ConfirmedOnRecord, OnRecord
  <2> QED BY <2>1, <2>2, <2>3
<1>6. ASSUME NEW o \in Ops, HeartbeatStops(o) PROVE LeaseInv'
  <2>1. TypeOK' /\ TimesPast'
    BY <1>6 DEF HeartbeatStops, TypeOK, TimesPast
  <2>2. EndedIsSilent' /\ CallHasCaller' /\ AbandonedEnds'
    BY <1>6 DEF HeartbeatStops, TypeOK, EndedIsSilent, CallHasCaller, AbandonedEnds
  <2>3. FreshKnows' /\ ConfirmedOnRecord'
    BY <1>6 DEF HeartbeatStops, TypeOK, TimesPast, FreshKnows, Knows, EndedIsSilent,
               AbandonedEnds, ConfirmedOnRecord, OnRecord
  <2> QED BY <2>1, <2>2, <2>3
<1>7. ASSUME NEW o \in Ops, ReleaseRead(o) PROVE LeaseInv'
  <2>1. TypeOK' /\ TimesPast'
    BY <1>7 DEF ReleaseRead, SetCall, HeartbeatOver, TypeOK, TimesPast
  <2>2. EndedIsSilent' /\ CallHasCaller' /\ AbandonedEnds'
    BY <1>7
       DEF ReleaseRead, SetCall, HeartbeatOver, TypeOK, EndedIsSilent, CallHasCaller,
           AbandonedEnds
  <2>3. FreshKnows' /\ ConfirmedOnRecord'
    BY <1>7
       DEF ReleaseRead, SetCall, HeartbeatOver, TypeOK, TimesPast, FreshKnows, Knows,
           EndedIsSilent,
               AbandonedEnds, ConfirmedOnRecord, OnRecord
  <2> QED BY <2>1, <2>2, <2>3
<1>8. ASSUME NEW o \in Ops, ReleaseSkipped(o) PROVE LeaseInv'
  <2>1. TypeOK'
    BY <1>8 DEF ReleaseSkipped, HeartbeatOver, Ended, TypeOK
  <2>2. TimesPast'
    BY <1>8 DEF ReleaseSkipped, HeartbeatOver, Ended, TypeOK, TimesPast
  <2>3. EndedIsSilent'
    <3> SUFFICES ASSUME NEW p \in Ops, main'[p] \in {"new", "done"}, NEW j \in Kinds
                 PROVE  confirmed'[p] = None /\ call'[p][j] \in {"idle", "abandoned"}
      BY DEF EndedIsSilent
    <3>1. CASE p = o
      BY <1>8, <3>1 DEF ReleaseSkipped, HeartbeatOver, Ended, TypeOK, EndedIsSilent, CallHasCaller
    <3>2. CASE p # o
      BY <1>8, <3>2 DEF ReleaseSkipped, HeartbeatOver, Ended, TypeOK, EndedIsSilent, CallHasCaller
    <3> QED BY <3>1, <3>2
  <2>4. CallHasCaller'
    BY <1>8
       DEF ReleaseSkipped, HeartbeatOver, Ended, TypeOK, CallHasCaller, EndedIsSilent,
           AbandonedEnds
  <2>5. AbandonedEnds'
    BY <1>8 DEF ReleaseSkipped, HeartbeatOver, Ended, TypeOK, AbandonedEnds, CallHasCaller
  <2>6. FreshKnows'
    BY <1>8 DEF ReleaseSkipped, HeartbeatOver, Ended, TypeOK, FreshKnows, Knows, TimesPast
  <2>7. ConfirmedOnRecord'
    BY <1>8
       DEF ReleaseSkipped, HeartbeatOver, Ended, TypeOK, ConfirmedOnRecord, FreshKnows, Knows,
           TimesPast, AbandonedEnds, EndedIsSilent, OnRecord
  <2> QED BY <2>1, <2>2, <2>3, <2>4, <2>5, <2>6, <2>7
<1>9. ASSUME NEW o \in Ops, NEW k \in Renewals, RenewRead(o, k) PROVE LeaseInv'
  <2>1. TypeOK' /\ TimesPast'
    BY <1>9 DEF RenewRead, SetCall, MayRenew, TypeOK, TimesPast
  <2>2. EndedIsSilent' /\ CallHasCaller' /\ AbandonedEnds'
    BY <1>9 DEF RenewRead, SetCall, MayRenew, TypeOK, EndedIsSilent, CallHasCaller, AbandonedEnds
  <2>3. FreshKnows' /\ ConfirmedOnRecord'
    BY <1>9 DEF RenewRead, SetCall, MayRenew, TypeOK, TimesPast, FreshKnows, Knows, EndedIsSilent,
               AbandonedEnds, ConfirmedOnRecord, OnRecord
  <2> QED BY <2>1, <2>2, <2>3
<1>10. ASSUME NEW o \in Ops, NEW k \in Renewals, RenewRefused(o, k) PROVE LeaseInv'
  <2>1. TypeOK' /\ TimesPast'
    BY <1>10 DEF RenewRefused, MayRenew, Failure, HeartbeatLost, Ended, TypeOK, TimesPast
  <2>2. EndedIsSilent' /\ CallHasCaller' /\ AbandonedEnds'
    BY <1>10
       DEF RenewRefused, MayRenew, Failure, HeartbeatLost, Ended, TypeOK, EndedIsSilent,
           CallHasCaller, AbandonedEnds
  <2>3. FreshKnows' /\ ConfirmedOnRecord'
    BY <1>10
       DEF RenewRefused, MayRenew, Failure, HeartbeatLost, Ended, TypeOK, TimesPast, FreshKnows,
           Knows, EndedIsSilent,
               AbandonedEnds, ConfirmedOnRecord, OnRecord
  <2> QED BY <2>1, <2>2, <2>3
<1>11. ASSUME NEW o \in Ops, NEW k \in Renewals, RenewSend(o, k) PROVE LeaseInv'
  <2>1. TypeOK' /\ TimesPast'
    BY <1>11 DEF RenewSend, SetCall, TypeOK, TimesPast
  <2>2. EndedIsSilent' /\ CallHasCaller' /\ AbandonedEnds'
    BY <1>11 DEF RenewSend, SetCall, TypeOK, EndedIsSilent, CallHasCaller, AbandonedEnds
  <2>3. FreshKnows' /\ ConfirmedOnRecord'
    BY <1>11 DEF RenewSend, SetCall, TypeOK, TimesPast, FreshKnows, Knows, EndedIsSilent,
               AbandonedEnds, ConfirmedOnRecord, OnRecord
  <2> QED BY <2>1, <2>2, <2>3
<1>12. ASSUME NEW o \in Ops, NEW k \in Kinds, Commit(o, k) PROVE LeaseInv'
  <2>1. TypeOK'
    <3>1. lease' \in [holder : Ops \union {None}, renewed : Nat]
      BY <1>12 DEF Commit, Proposed, TypeOK
    <3>2. call' \in [Ops -> [Kinds -> CallStates]] /\ at' \in [Ops -> [Kinds -> Nat]]
      BY <1>12 DEF Commit, SetCall, TypeOK
    <3>3. fresh' \in [Ops -> SUBSET Kinds]
      BY <1>12 DEF Commit, TypeOK
    <3>4. CASE k = "release"
      BY <1>12, <3>1, <3>2, <3>3, <3>4 DEF Commit, Success, Ended, TypeOK
    <3>5. CASE k # "release"
      <4>1. main' \in [Ops -> MainStates] /\ beat' \in [Ops -> BeatStates]
        BY <1>12, <3>5, ZenonT(60) DEF Commit, Success, TypeOK
      <4>2. confirmed' \in [Ops -> Nat \union {None}]
        BY <1>12, <3>5 DEF Commit, Success, TypeOK
      <4> QED BY <1>12, <3>1, <3>2, <3>3, <4>1, <4>2 DEF Commit, TypeOK
    <3> QED BY <3>4, <3>5
  <2>2. TimesPast'
    BY <1>12 DEF Commit, SetCall, Success, Proposed, Ended, TypeOK, TimesPast
  <2>3. EndedIsSilent'
    <3> SUFFICES ASSUME NEW p \in Ops, main'[p] \in {"new", "done"}, NEW j \in Kinds
                 PROVE  confirmed'[p] = None /\ call'[p][j] \in {"idle", "abandoned"}
      BY DEF EndedIsSilent
    <3>1. CASE p = o
      <4>1. CASE k = "acquire"
        BY <1>12, <3>1, <4>1
           DEF Commit, SetCall, Success, Proposed, Ended, TypeOK, EndedIsSilent, CallHasCaller
      <4>2. CASE k = "check"
        BY <1>12, <3>1, <4>2
           DEF Commit, SetCall, Success, Proposed, Ended, TypeOK, EndedIsSilent, CallHasCaller
      <4>3. CASE k = "beat"
        BY <1>12, <3>1, <4>3
           DEF Commit, SetCall, Success, Proposed, Ended, TypeOK, EndedIsSilent, CallHasCaller
      <4>4. CASE k = "release"
        BY <1>12, <3>1, <4>4, SMTT(30)
           DEF Commit, SetCall, Success, Proposed, Ended, TypeOK, EndedIsSilent,
               CallHasCaller
      <4> QED BY <4>1, <4>2, <4>3, <4>4
    <3>2. CASE p # o
      BY <1>12, <3>2
         DEF Commit, SetCall, Success, Proposed, Ended, TypeOK, EndedIsSilent, CallHasCaller
    <3> QED BY <3>1, <3>2
  <2>4. CallHasCaller'
    BY <1>12
       DEF Commit, SetCall, Success, Proposed, Ended, TypeOK, CallHasCaller, EndedIsSilent,
           AbandonedEnds
  <2>5. AbandonedEnds'
    BY <1>12, SMTT(30)
       DEF Commit, SetCall, Success, Proposed, Ended, TypeOK, AbandonedEnds, CallHasCaller
  <2>6. FreshKnows'
    BY <1>12 DEF Commit, SetCall, Success, Proposed, Ended, TypeOK, FreshKnows, Knows, TimesPast
  <2>7. ConfirmedOnRecord'
    BY <1>12
       DEF Commit, SetCall, Success, Proposed, Ended, TypeOK, ConfirmedOnRecord, FreshKnows,
           Knows, TimesPast, AbandonedEnds, EndedIsSilent, OnRecord
  <2> QED BY <2>1, <2>2, <2>3, <2>4, <2>5, <2>6, <2>7
<1>13. ASSUME NEW o \in Ops, NEW k \in Kinds, Conflict(o, k) PROVE LeaseInv'
  <2>1. TypeOK'
    BY <1>13 DEF Conflict, SetCall, Failure, HeartbeatLost, Ended, TypeOK
  <2>2. TimesPast'
    BY <1>13 DEF Conflict, SetCall, Failure, HeartbeatLost, Ended, TypeOK, TimesPast
  <2>3. EndedIsSilent'
    <3> SUFFICES ASSUME NEW p \in Ops, main'[p] \in {"new", "done"}, NEW j \in Kinds
                 PROVE  confirmed'[p] = None /\ call'[p][j] \in {"idle", "abandoned"}
      BY DEF EndedIsSilent
    <3>1. CASE p = o
      BY <1>13, <3>1
         DEF Conflict, SetCall, Failure, HeartbeatLost, Ended, TypeOK, EndedIsSilent,
             CallHasCaller
    <3>2. CASE p # o
      BY <1>13, <3>2
         DEF Conflict, SetCall, Failure, HeartbeatLost, Ended, TypeOK, EndedIsSilent,
             CallHasCaller
    <3> QED BY <3>1, <3>2
  <2>4. CallHasCaller'
    BY <1>13
       DEF Conflict, SetCall, Failure, HeartbeatLost, Ended, TypeOK, CallHasCaller,
           EndedIsSilent, AbandonedEnds
  <2>5. AbandonedEnds'
    BY <1>13
       DEF Conflict, SetCall, Failure, HeartbeatLost, Ended, TypeOK, AbandonedEnds, CallHasCaller
  <2>6. FreshKnows'
    BY <1>13
       DEF Conflict, SetCall, Failure, HeartbeatLost, Ended, TypeOK, FreshKnows, Knows, TimesPast
  <2>7. ConfirmedOnRecord'
    BY <1>13
       DEF Conflict, SetCall, Failure, HeartbeatLost, Ended, TypeOK, ConfirmedOnRecord,
           FreshKnows, Knows, TimesPast, AbandonedEnds, EndedIsSilent, OnRecord
  <2> QED BY <2>1, <2>2, <2>3, <2>4, <2>5, <2>6, <2>7
<1>14. ASSUME NEW o \in Ops, NEW k \in Kinds, TransportError(o, k) PROVE LeaseInv'
  <2>1. TypeOK'
    <3>1. call' \in [Ops -> [Kinds -> CallStates]] /\ at' \in [Ops -> [Kinds -> Nat]]
      BY <1>14 DEF TransportError, SetCall, TypeOK
    <3> QED BY <1>14, <3>1 DEF TransportError, Failure, HeartbeatLost, Ended, TypeOK
  <2>2. TimesPast'
    BY <1>14 DEF TransportError, SetCall, Failure, HeartbeatLost, Ended, TypeOK, TimesPast
  <2>3. EndedIsSilent'
    <3> SUFFICES ASSUME NEW p \in Ops, main'[p] \in {"new", "done"}, NEW j \in Kinds
                 PROVE  confirmed'[p] = None /\ call'[p][j] \in {"idle", "abandoned"}
      BY DEF EndedIsSilent
    <3>1. CASE p = o
      BY <1>14, <3>1
         DEF TransportError, SetCall, Failure, HeartbeatLost, Ended, TypeOK, EndedIsSilent,
             CallHasCaller
    <3>2. CASE p # o
      BY <1>14, <3>2
         DEF TransportError, SetCall, Failure, HeartbeatLost, Ended, TypeOK, EndedIsSilent,
             CallHasCaller
    <3> QED BY <3>1, <3>2
  <2>4. CallHasCaller'
    BY <1>14
       DEF TransportError, SetCall, Failure, HeartbeatLost, Ended, TypeOK, CallHasCaller,
           EndedIsSilent, AbandonedEnds
  <2>5. AbandonedEnds'
    BY <1>14
       DEF TransportError, SetCall, Failure, HeartbeatLost, Ended, TypeOK, AbandonedEnds,
           CallHasCaller
  <2>6. FreshKnows'
    BY <1>14
       DEF TransportError, SetCall, Failure, HeartbeatLost, Ended, TypeOK, FreshKnows, Knows,
           TimesPast
  <2>7. ConfirmedOnRecord'
    BY <1>14
       DEF TransportError, SetCall, Failure, HeartbeatLost, Ended, TypeOK, ConfirmedOnRecord,
           FreshKnows, Knows, TimesPast, AbandonedEnds, EndedIsSilent, OnRecord
  <2> QED BY <2>1, <2>2, <2>3, <2>4, <2>5, <2>6, <2>7
<1>15. ASSUME NEW o \in Ops, NEW k \in Kinds, LateCommit(o, k) PROVE LeaseInv'
  <2>1. TypeOK' /\ TimesPast'
    <3>1. lease' \in [holder : Ops \union {None}, renewed : Nat]
      BY <1>15 DEF LateCommit, Proposed, TypeOK
    <3>2. call' \in [Ops -> [Kinds -> CallStates]] /\ at' \in [Ops -> [Kinds -> Nat]]
      BY <1>15 DEF LateCommit, SetCall, TypeOK
    <3> QED BY <1>15, <3>1, <3>2 DEF LateCommit, SetCall, Proposed, TypeOK, TimesPast
  <2>2. EndedIsSilent' /\ CallHasCaller' /\ AbandonedEnds'
    BY <1>15 DEF LateCommit, SetCall, Proposed, TypeOK, EndedIsSilent, CallHasCaller, AbandonedEnds
  <2>3. FreshKnows' /\ ConfirmedOnRecord'
    BY <1>15 DEF LateCommit, SetCall, Proposed, TypeOK, TimesPast, FreshKnows, Knows, EndedIsSilent,
               AbandonedEnds, ConfirmedOnRecord, OnRecord
  <2> QED BY <2>1, <2>2, <2>3
<1>16. ASSUME NEW o \in Ops, NEW k \in Kinds, Dropped(o, k) PROVE LeaseInv'
  <2>1. TypeOK' /\ TimesPast'
    BY <1>16 DEF Dropped, SetCall, TypeOK, TimesPast
  <2>2. EndedIsSilent' /\ CallHasCaller' /\ AbandonedEnds'
    BY <1>16 DEF Dropped, SetCall, TypeOK, EndedIsSilent, CallHasCaller, AbandonedEnds
  <2>3. FreshKnows' /\ ConfirmedOnRecord'
    BY <1>16 DEF Dropped, SetCall, TypeOK, TimesPast, FreshKnows, Knows, EndedIsSilent,
               AbandonedEnds, ConfirmedOnRecord, OnRecord
  <2> QED BY <2>1, <2>2, <2>3
<1>17. ASSUME NEW o \in Ops, Crash(o) PROVE LeaseInv'
  <2>1. TypeOK' /\ TimesPast'
    BY <1>17 DEF Crash, Ended, TypeOK, TimesPast
  <2>2. EndedIsSilent' /\ CallHasCaller' /\ AbandonedEnds'
    BY <1>17 DEF Crash, Ended, TypeOK, EndedIsSilent, CallHasCaller, AbandonedEnds
  <2>3. FreshKnows' /\ ConfirmedOnRecord'
    BY <1>17 DEF Crash, Ended, TypeOK, TimesPast, FreshKnows, Knows, EndedIsSilent,
               AbandonedEnds, ConfirmedOnRecord, OnRecord
  <2> QED BY <2>1, <2>2, <2>3
<1>18. ASSUME NEW o \in Ops, NextAttempt(o) PROVE LeaseInv'
  <2>1. TypeOK' /\ TimesPast'
    BY <1>18 DEF NextAttempt, TypeOK, TimesPast
  <2>2. EndedIsSilent' /\ CallHasCaller' /\ AbandonedEnds'
    BY <1>18 DEF NextAttempt, TypeOK, EndedIsSilent, CallHasCaller, AbandonedEnds
  <2>3. FreshKnows' /\ ConfirmedOnRecord'
    BY <1>18 DEF NextAttempt, TypeOK, TimesPast, FreshKnows, Knows, EndedIsSilent,
               AbandonedEnds, ConfirmedOnRecord, OnRecord
  <2> QED BY <2>1, <2>2, <2>3
<1>19. CASE UNCHANGED vars
  <2>1. TypeOK' /\ TimesPast'
    BY <1>19 DEF vars, TypeOK, TimesPast
  <2>2. EndedIsSilent' /\ CallHasCaller' /\ AbandonedEnds'
    BY <1>19 DEF vars, TypeOK, EndedIsSilent, CallHasCaller, AbandonedEnds
  <2>3. FreshKnows' /\ ConfirmedOnRecord'
    BY <1>19 DEF vars, TypeOK, TimesPast, FreshKnows, Knows, EndedIsSilent,
               AbandonedEnds, ConfirmedOnRecord, OnRecord
  <2> QED BY <2>1, <2>2, <2>3
<1> QED
  BY <1>1, <1>2, <1>3, <1>4, <1>5, <1>6, <1>7, <1>8, <1>9, <1>10, <1>11, <1>12, <1>13, <1>14,
     <1>15, <1>16, <1>17, <1>18, <1>19
     DEF Next, Operation, Server

\* The invariant holds in every reachable state.
THEOREM LeaseInvariant == Spec => []LeaseInv
<1>1. Init => LeaseInv
  BY LeaseInvInit
<1>2. LeaseInv /\ [Next]_vars => LeaseInv'
  BY LeaseInvStep
<1> QED BY <1>1, <1>2, PTL DEF Spec

\* The state of the Lease and of every operation is well formed.
THEOREM LeaseTypeCorrect == Spec => []TypeOK
<1>1. LeaseInv => TypeOK
  BY DEF LeaseInv
<1> QED BY <1>1, LeaseInvariant, PTL

\* host_operation: an operation whose last confirmed renewal has not expired
\* is the recorded holder, for any number of replicas and operations and
\* whatever requests are lost, late or abandoned by a crash.
THEOREM TrustedHolder == Spec => []TrustedHolderIsRecorded
<1>1. LeaseInv => TrustedHolderIsRecorded
  <2> SUFFICES ASSUME LeaseInv, NEW o \in Ops, Trusted(o) PROVE lease.holder = o
    BY DEF TrustedHolderIsRecorded
  <2>1. confirmed[o] \in Nat /\ clock \in Nat /\ LEASE_SECONDS \in Nat
    BY LeaseAssumption DEF LeaseInv, TypeOK, Trusted
  <2> QED BY <2>1 DEF LeaseInv, ConfirmedOnRecord, OnRecord, Trusted
<1> QED BY <1>1, LeaseInvariant, PTL

\* At most one operation can trust the Lease at any time.
THEOREM OneTrustedHolder ==
  Spec => [](\A o, p \in Ops : Trusted(o) /\ Trusted(p) => o = p)
<1>1. TrustedHolderIsRecorded => \A o, p \in Ops : Trusted(o) /\ Trusted(p) => o = p
  BY DEF TrustedHolderIsRecorded
<1> QED BY <1>1, TrustedHolder, PTL

\* The only steps that write the Lease are those of the API server committing
\* a replace that carries the current resourceVersion.
LEMMA LeaseWriters ==
  ASSUME [Next]_vars, lease' # lease
  PROVE  \E o \in Ops, k \in Kinds :
           /\ lease' = Proposed(o, k)
           /\ k \in fresh[o]
           /\ call[o][k] \in OnTheWire
BY DEF Next, vars, Tick, Operation, Server, Crash, NextAttempt, AcquireStart, AcquireRead,
       AcquireRefused, BodyEnds, HeartbeatStops, ReleaseRead, ReleaseSkipped, RenewRead,
       RenewRefused, RenewSend, Commit, Conflict, TransportError, LateCommit, Dropped, OnTheWire

\* No acquire, renew or release displaces a holder whose Lease is valid.
THEOREM HolderKeepsLease == Spec => NoEarlyTakeover
<1>1. LeaseInv /\ [Next]_vars =>
        [\A o \in Ops :
           lease.holder = o /\ lease'.holder # o
             => \/ lease.renewed + LEASE_SECONDS <= clock
                \/ call[o]["release"] \in OnTheWire]_vars
  <2> SUFFICES ASSUME LeaseInv, [Next]_vars,
                      NEW o \in Ops, lease.holder = o, lease'.holder # o,
                      call[o]["release"] \notin OnTheWire
               PROVE  lease.renewed + LEASE_SECONDS <= clock
    OBVIOUS
  <2>1. PICK p \in Ops, k \in Kinds :
          lease' = Proposed(p, k) /\ k \in fresh[p] /\ call[p][k] \in OnTheWire
    BY LeaseWriters
  <2>2. Knows(p) /\ at[p][k] \in Nat /\ at[p][k] <= clock
    BY DEF LeaseInv, FreshKnows, TimesPast, TypeOK
  <2>3. k = "acquire"
    BY <2>1, <2>2 DEF Knows, Proposed, Kinds, Renewals
  <2> QED
    BY <2>1, <2>2, <2>3, LeaseAssumption DEF Knows, LeaseInv, TypeOK
<1> QED BY <1>1, LeaseInvariant, PTL DEF Spec, NoEarlyTakeover

\* renew_time never moves back under one holder.
THEOREM RenewTimeMonotone == Spec => RenewalNeverBackdated
<1>1. LeaseInv /\ [Next]_vars =>
        [lease.holder # None /\ lease'.holder = lease.holder
           => lease'.renewed >= lease.renewed]_vars
  <2> SUFFICES ASSUME LeaseInv, [Next]_vars, lease' # lease,
                      lease.holder # None, lease'.holder = lease.holder
               PROVE  lease'.renewed >= lease.renewed
    BY DEF LeaseInv, TypeOK
  <2>1. PICK p \in Ops, k \in Kinds :
          lease' = Proposed(p, k) /\ k \in fresh[p] /\ call[p][k] \in OnTheWire
    BY LeaseWriters
  <2>2. Knows(p) /\ at[p][k] \in Nat /\ lease.renewed \in Nat
    BY DEF LeaseInv, FreshKnows, TypeOK
  <2>3. lease' = [holder |-> p, renewed |-> at[p][k]]
    BY <2>1 DEF Proposed, LeaseInv, TypeOK
  <2>4. lease.renewed <= at[p][k]
    BY <2>1, <2>2, <2>3, LeaseAssumption DEF Knows, Kinds, Renewals, Proposed
  <2> QED
    BY <2>2, <2>3, <2>4
<1> QED BY <1>1, LeaseInvariant, PTL DEF Spec, RenewalNeverBackdated

=============================================================================
