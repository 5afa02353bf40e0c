------------------------------ MODULE HostLease ------------------------------
(***************************************************************************)
(* The Kubernetes Lease that serialises operations on one SSH endpoint     *)
(* (operations.py: class HostLease and the context manager host_operation).*)
(*                                                                         *)
(* An operation is one entry into host_operation; it has its own holder    *)
(* identity "<machine uid>/<uuid4>".  The operation's task acquires the    *)
(* Lease, may renew it on demand (operation.check), and releases it; a     *)
(* heartbeat task renews it meanwhile.  Every API call is a read followed  *)
(* by a replace that carries the resourceVersion of the read.  The set     *)
(* fresh holds the calls whose read is still the current version, so a     *)
(* replace commits iff its call is in fresh.  A request whose response is  *)
(* lost or late raises in the caller and stays "abandoned" on the wire,    *)
(* where it may still reach the server.                                    *)
(*                                                                         *)
(* Abstractions: a Lease that does not exist (create) and one without a    *)
(* holder (replace) are the same free Lease; all replicas read one clock.  *)
(***************************************************************************)
EXTENDS Naturals

CONSTANTS
  Ops,            \* identities of operations: one HostLease object each
  None,           \* no holder, or no confirmed renewal
  LEASE_SECONDS,  \* validity of an acquisition or a renewal, in clock ticks
  MaxTime         \* bound on the clock

ASSUME LeaseAssumption ==
  /\ LEASE_SECONDS \in Nat \ {0}
  /\ MaxTime \in Nat
  /\ None \notin Ops
  /\ None \notin Nat

VARIABLES
  clock,      \* datetime.now(UTC)
  lease,      \* the Lease object: holder_identity and renew_time
  main,       \* where the operation's task is in host_operation
  beat,       \* state of the heartbeat task
  call,       \* progress of the API call each method of the lease is making
  at,         \* the `now` that call sampled
  fresh,      \* calls whose read still is the Lease's current resourceVersion
  confirmed   \* history: renew_time of the last write the caller saw succeed

vars == <<clock, lease, main, beat, call, at, fresh, confirmed>>

Renewals == {"check", "beat"}
Kinds    == {"acquire", "release"} \union Renewals

MainStates == {"new", "acquiring", "holding", "checking", "stopping",
               "releasing", "done"}
BeatStates == {"off", "sleep", "renewing", "lost"}
CallStates == {"idle", "sampled", "read", "sent", "abandoned"}
OnTheWire  == {"sent", "abandoned"}

TypeOK ==
  /\ clock \in Nat
  /\ lease \in [holder : Ops \union {None}, renewed : Nat]
  /\ main \in [Ops -> MainStates]
  /\ beat \in [Ops -> BeatStates]
  /\ call \in [Ops -> [Kinds -> CallStates]]
  /\ at \in [Ops -> [Kinds -> Nat]]
  /\ fresh \in [Ops -> SUBSET Kinds]
  /\ confirmed \in [Ops -> Nat \union {None}]

Init ==
  /\ clock = 0
  /\ lease = [holder |-> None, renewed |-> 0]
  /\ main = [o \in Ops |-> "new"]
  /\ beat = [o \in Ops |-> "off"]
  /\ call = [o \in Ops |-> [k \in Kinds |-> "idle"]]
  /\ at = [o \in Ops |-> [k \in Kinds |-> 0]]
  /\ fresh = [o \in Ops |-> {}]
  /\ confirmed = [o \in Ops |-> None]

-----------------------------------------------------------------------------
(* What an API call of operation o returns to the task that made it.       *)

SetCall(o, k, state, now) ==
  /\ call' = [call EXCEPT ![o][k] = state]
  /\ at' = [at EXCEPT ![o][k] = now]

\* host_operation is left; what the operation knew is gone.
Ended(o) ==
  /\ main' = [main EXCEPT ![o] = "done"]
  /\ beat' = [beat EXCEPT ![o] = "off"]
  /\ confirmed' = [confirmed EXCEPT ![o] = None]

\* The write is known to have committed.
Success(o, k) ==
  IF k = "release" THEN Ended(o) ELSE
  /\ main' = [main EXCEPT ![o] =
                IF k = "beat" THEN @
                ELSE IF beat[o] = "lost" THEN "stopping" ELSE "holding"]
  /\ beat' = [beat EXCEPT ![o] = IF k = "check" THEN @ ELSE "sleep"]
  /\ confirmed' = [confirmed EXCEPT ![o] = at[o][k]]

\* Variant: the heartbeat retries after a lost renewal instead of giving up.
HeartbeatRetries(o) ==
  /\ beat' = [beat EXCEPT ![o] = "sleep"]
  /\ UNCHANGED <<main, confirmed>>

\* The heartbeat gives up and calls parent.cancel().  A parent that already
\* waits for the heartbeat in its finally block has that wait cancelled, and
\* leaves without calling release.
HeartbeatLost(o) ==
  IF main[o] = "stopping" THEN Ended(o) ELSE
  /\ beat' = [beat EXCEPT ![o] = "lost"]
  /\ UNCHANGED <<main, confirmed>>

\* 409, a transport error, or a holder that is not ours.
Failure(o, k) ==
  \/ k = "beat" /\ HeartbeatLost(o)
  \/ k = "check" /\ main' = [main EXCEPT ![o] = "stopping"] /\ UNCHANGED <<beat, confirmed>>
  \/ k \in {"acquire", "release"} /\ Ended(o)

\* Variant: release clears renew_time along with the holder.
ProposedWithoutTime(o, k) ==
  IF k = "release" THEN [holder |-> None, renewed |-> None]
                   ELSE [holder |-> o, renewed |-> at[o][k]]

\* The body of the replace request that call <<o, k>> has sent.
Proposed(o, k) ==
  IF k = "release" THEN [lease EXCEPT !.holder = None]
                   ELSE [holder |-> o, renewed |-> at[o][k]]

-----------------------------------------------------------------------------
(* acquire *)

AcquireStart(o) ==
  /\ main[o] = "new"
  /\ main' = [main EXCEPT ![o] = "acquiring"]
  /\ SetCall(o, "acquire", "sampled", clock)
  /\ UNCHANGED <<clock, lease, beat, fresh, confirmed>>

\* Variant: the expiry comparison is off by one.
HeldLongerThan(now) == lease.holder # None /\ lease.renewed + LEASE_SECONDS > now + 1

HeldAt(now) == lease.holder # None /\ lease.renewed + LEASE_SECONDS > now

AcquireRead(o) ==
  /\ call[o]["acquire"] = "sampled"
  /\ ~ HeldAt(at[o]["acquire"])
  /\ SetCall(o, "acquire", "sent", at[o]["acquire"])
  /\ fresh' = [fresh EXCEPT ![o] = @ \union {"acquire"}]
  /\ UNCHANGED <<clock, lease, main, beat, confirmed>>

\* acquire returns False, or its read fails.
AcquireRefused(o) ==
  /\ call[o]["acquire"] = "sampled"
  /\ SetCall(o, "acquire", "idle", 0)
  /\ Failure(o, "acquire")
  /\ UNCHANGED <<clock, lease, fresh>>

-----------------------------------------------------------------------------
(* renew, called by operation.check and by the heartbeat *)

MayRenew(o, k) ==
  \/ k = "check" /\ main[o] = "holding" /\ beat[o] # "lost"
  \/ k = "beat" /\ beat[o] = "sleep" /\ main[o] \in {"holding", "checking"}

RenewRead(o, k) ==
  /\ MayRenew(o, k)
  /\ lease.holder = o
  /\ SetCall(o, k, "read", 0)
  /\ fresh' = [fresh EXCEPT ![o] = @ \union {k}]
  /\ main' = [main EXCEPT ![o] = IF k = "check" THEN "checking" ELSE @]
  /\ beat' = [beat EXCEPT ![o] = IF k = "beat" THEN "renewing" ELSE @]
  /\ UNCHANGED <<clock, lease, confirmed>>

\* renew finds another holder, or its read fails.
RenewRefused(o, k) ==
  /\ MayRenew(o, k)
  /\ Failure(o, k)
  /\ UNCHANGED <<clock, lease, call, at, fresh>>

\* Variant: renew writes a time it did not sample after its read.
RenewSendUnsampled(o, k) ==
  /\ call[o][k] = "read"
  /\ SetCall(o, k, "sent", at[o][k])
  /\ UNCHANGED <<clock, lease, main, beat, fresh, confirmed>>

RenewSend(o, k) ==
  /\ call[o][k] = "read"
  /\ SetCall(o, k, "sent", clock)
  /\ UNCHANGED <<clock, lease, main, beat, fresh, confirmed>>

-----------------------------------------------------------------------------
(* the end of host_operation *)

\* The body returns or raises; the finally block sets `stopped`.
BodyEnds(o) ==
  /\ main[o] = "holding"
  /\ main' = [main EXCEPT ![o] = "stopping"]
  /\ UNCHANGED <<clock, lease, beat, call, at, fresh, confirmed>>

\* A sleeping heartbeat sees `stopped`.
HeartbeatStops(o) ==
  /\ main[o] = "stopping"
  /\ beat[o] = "sleep"
  /\ beat' = [beat EXCEPT ![o] = "off"]
  /\ UNCHANGED <<clock, lease, main, call, at, fresh, confirmed>>

\* The heartbeat task has returned.
HeartbeatOver(o) == main[o] = "stopping" /\ beat[o] \in {"off", "lost"}

\* Variant: release does not compare the recorded holder with its own.
ReleaseUnchecked(o) ==
  /\ HeartbeatOver(o)
  /\ main' = [main EXCEPT ![o] = "releasing"]
  /\ SetCall(o, "release", "sent", 0)
  /\ fresh' = [fresh EXCEPT ![o] = @ \union {"release"}]
  /\ UNCHANGED <<clock, lease, beat, confirmed>>

ReleaseRead(o) ==
  /\ HeartbeatOver(o)
  /\ lease.holder = o
  /\ main' = [main EXCEPT ![o] = "releasing"]
  /\ SetCall(o, "release", "sent", 0)
  /\ fresh' = [fresh EXCEPT ![o] = @ \union {"release"}]
  /\ UNCHANGED <<clock, lease, beat, confirmed>>

\* Another holder is recorded, or the read fails: suppressed either way.
ReleaseSkipped(o) ==
  /\ HeartbeatOver(o)
  /\ Ended(o)
  /\ UNCHANGED <<clock, lease, call, at, fresh>>

-----------------------------------------------------------------------------
(* the API server and the network *)

\* The server commits the replace and the caller gets the answer.  Every
\* earlier read is now an old resourceVersion.
Commit(o, k) ==
  /\ call[o][k] = "sent"
  /\ k \in fresh[o]
  /\ lease' = Proposed(o, k)
  /\ fresh' = [p \in Ops |-> {}]
  /\ SetCall(o, k, "idle", 0)
  /\ Success(o, k)
  /\ UNCHANGED <<clock>>

\* 409 Conflict: the Lease has changed since it was read.
Conflict(o, k) ==
  /\ call[o][k] = "sent"
  /\ k \notin fresh[o]
  /\ SetCall(o, k, "idle", 0)
  /\ Failure(o, k)
  /\ UNCHANGED <<clock, lease, fresh>>

\* request() times out; the replace may still be under way.
TransportError(o, k) ==
  /\ call[o][k] = "sent"
  /\ SetCall(o, k, "abandoned", at[o][k])
  /\ Failure(o, k)
  /\ UNCHANGED <<clock, lease, fresh>>

\* An abandoned replace reaches the server after all.
LateCommit(o, k) ==
  /\ call[o][k] = "abandoned"
  /\ k \in fresh[o]
  /\ lease' = Proposed(o, k)
  /\ fresh' = [p \in Ops |-> {}]
  /\ SetCall(o, k, "idle", 0)
  /\ UNCHANGED <<clock, main, beat, confirmed>>

\* An abandoned replace is lost, or is answered 409 with nobody listening.
Dropped(o, k) ==
  /\ call[o][k] = "abandoned"
  /\ SetCall(o, k, "idle", 0)
  /\ fresh' = [fresh EXCEPT ![o] = @ \ {k}]
  /\ UNCHANGED <<clock, lease, main, beat, confirmed>>

Tick ==
  /\ clock < MaxTime
  /\ clock' = clock + 1
  /\ UNCHANGED <<lease, main, beat, call, at, fresh, confirmed>>

\* The manager process dies: both tasks are gone, requests on the wire are not.
Crash(o) ==
  /\ main[o] \notin {"new", "done"}
  /\ Ended(o)
  /\ call' = [call EXCEPT ![o] =
                [k \in Kinds |-> IF @[k] \in OnTheWire THEN "abandoned" ELSE "idle"]]
  /\ at' = [at EXCEPT ![o] =
              [k \in Kinds |-> IF call[o][k] \in OnTheWire THEN @[k] ELSE 0]]
  /\ fresh' = [fresh EXCEPT ![o] = {k \in @ : call[o][k] \in OnTheWire}]
  /\ UNCHANGED <<clock, lease>>

\* The next attempt builds a HostLease with a new uuid.  The identity o is
\* reused for it once no trace of the earlier attempt is left.
NextAttempt(o) ==
  /\ main[o] = "done"
  /\ lease.holder # o
  /\ \A k \in Kinds : call[o][k] = "idle"
  /\ main' = [main EXCEPT ![o] = "new"]
  /\ UNCHANGED <<clock, lease, beat, call, at, fresh, confirmed>>

-----------------------------------------------------------------------------
Operation(o) ==
  \/ AcquireStart(o) \/ AcquireRead(o) \/ AcquireRefused(o)
  \/ BodyEnds(o) \/ HeartbeatStops(o)
  \/ ReleaseRead(o) \/ ReleaseSkipped(o)
  \/ \E k \in Renewals :
       RenewRead(o, k) \/ RenewRefused(o, k) \/ RenewSend(o, k)

Server(o) ==
  \E k \in Kinds :
    Commit(o, k) \/ Conflict(o, k) \/ TransportError(o, k) \/ LateCommit(o, k) \/ Dropped(o, k)

Next ==
  \/ Tick
  \/ \E o \in Ops : Operation(o) \/ Server(o) \/ Crash(o) \/ NextAttempt(o)

Spec == Init /\ [][Next]_vars

\* The event loop keeps running: the heartbeat wakes up every
\* LEASE_RENEW_SECONDS, a cancellation is delivered, and every request is
\* answered or times out (API_TIMEOUT).  Nothing is assumed about when the
\* body of an operation ends.
Fairness ==
  \A o \in Ops :
    /\ WF_vars(RenewRead(o, "beat") \/ RenewRefused(o, "beat"))
    /\ WF_vars(\E k \in Renewals : RenewSend(o, k))
    /\ WF_vars(\E k \in Kinds : Commit(o, k) \/ Conflict(o, k) \/ TransportError(o, k))
    /\ WF_vars(beat[o] = "lost" /\ BodyEnds(o))
    /\ WF_vars(HeartbeatStops(o))
    /\ WF_vars(ReleaseRead(o) \/ ReleaseSkipped(o))

FairSpec == Spec /\ Fairness

-----------------------------------------------------------------------------
(* Properties *)

\* What an operation may rely on: the last write it saw succeed is younger
\* than LEASE_SECONDS, and it has not begun to give the Lease back.
Trusted(o) ==
  /\ main[o] \in {"holding", "checking", "stopping"}
  /\ confirmed[o] # None
  /\ confirmed[o] + LEASE_SECONDS > clock

\* An operation inside host_operation whose last confirmed renewal has not
\* expired is the recorded holder, whatever requests are still on the wire;
\* so no two replicas trust the Lease of one host at the same time.
TrustedHolderIsRecorded ==
  \A o \in Ops : Trusted(o) => lease.holder = o

\* A holder leaves the Lease record only by its own release or when
\* lease_duration_seconds have passed since renew_time: no stale or late
\* acquire, renew or release of another operation displaces it.
NoEarlyTakeover ==
  [][\A o \in Ops :
       lease.holder = o /\ lease'.holder # o
         => \/ lease.renewed + LEASE_SECONDS <= clock
            \/ call[o]["release"] \in OnTheWire]_vars

\* While one holder keeps the Lease, renew_time never moves back, although
\* its heartbeat and operation.check renew concurrently and late.
RenewalNeverBackdated ==
  [][lease.holder # None /\ lease'.holder = lease.holder
       => lease'.renewed >= lease.renewed]_vars

\* An operation that is running its body while another holder (or none) is
\* recorded is eventually ended by its heartbeat.
DisplacedOperationStops ==
  \A o \in Ops :
    main[o] \in {"holding", "checking"} /\ lease.holder # o ~> main[o] = "done"

=============================================================================
