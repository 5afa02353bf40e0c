--------------------------- MODULE InventoryProofs ---------------------------
(***************************************************************************)
(* Proofs about Inventory for any hosts, Machines and concurrent handlers, *)
(* of which those of the Machines in Locked exclude each other.            *)
(***************************************************************************)
EXTENDS Inventory, FiniteSetTheorems, SequenceTheorems, TLAPS

USE DEF hostVars

-----------------------------------------------------------------------------
(* The inductive invariant: what holds of each handler, and of the objects *)

\* Handlers that have a Machine's lock, and those that have a host
Active(w)     == worker[w].pc \notin {"idle", "patch"}
Unallocated   == {"list", "claim", "spec", "status", "recover", "adopt"}
AllocatedHost == {"bind", "claimed", "bootstrap", "cleaning", "clean", "available", "unclaim"}
ChosenHost    == {"spec", "status", "adopt"}

\* A handler works for a Machine, and on a host once it has chosen one.
WorkerChose(w) ==
  /\ worker[w].pc # "idle" => Uid(w) \in Uids
  /\ worker[w].pc \in AllocatedHost \union ChosenHost => Chosen(w) \in Hosts
  /\ worker[w].pc = "patch" => worker[w].staged
  /\ worker[w].staged => Chosen(w) \in Hosts

\* The lock names the one handler of a Machine, which is not gone.
LockNamesHandler(w) ==
  Active(w) /\ Uid(w) \in Locked => lock[Uid(w)] = w /\ Present(Uid(w))

\* What a handler read of the allocation under the lock is still so, and what
\* it has staged is on record.
AllocationAsRead(w) ==
  Uid(w) \in Locked =>
    /\ worker[w].pc \in Unallocated => machine[Uid(w)].allocation = None
    /\ worker[w].pc \in AllocatedHost => machine[Uid(w)].allocation = Chosen(w)
    /\ worker[w].staged => machine[Uid(w)].allocation = Chosen(w)

\* Beside the claim that its handler has made or found, a Machine has only
\* claims that came late.
ClaimsAsFound(w) ==
  Uid(w) \in Locked =>
    /\ worker[w].pc = "claim" => Own(Uid(w)) \subseteq stray
    /\ worker[w].pc = "finish" => Own(Uid(w)) \subseteq stray \ {machine[Uid(w)].allocation}
    /\ worker[w].pc \in ChosenHost =>
         Chosen(w) \in Own(Uid(w)) /\ Own(Uid(w)) \subseteq stray \union {Chosen(w)}

\* A candidate that nobody has written since the list was read is still free,
\* and a released host that nobody has written is still the Machine's.
CurrentAsRead(w) ==
  /\ worker[w].pc = "claim" =>
       \A i \in 1 .. Len(worker[w].todo) :
         worker[w].todo[i] \in current[w] => Eligible(host[worker[w].todo[i]])
  /\ worker[w].pc = "unclaim" /\ Chosen(w) \in current[w] =>
       host[Chosen(w)].claim = Uid(w) /\ host[Chosen(w)].phase = "Available"

HandlerInv(w) ==
  /\ WorkerChose(w)
  /\ LockNamesHandler(w)
  /\ AllocationAsRead(w)
  /\ ClaimsAsFound(w)
  /\ CurrentAsRead(w)

HandlersInv == \A w \in Workers : HandlerInv(w)

\* A host that a Machine has claimed is used only once it is allocated.
UsedIfAllocated ==
  \A m \in Locked : \A h \in Own(m) \ {machine[m].allocation} : host[h].phase = "Available"

\* Beside its allocation a Machine has only claims that came late.
OthersCameLate ==
  \A m \in Locked : machine[m].allocation # None \/ machine[m].life = "gone" =>
    Own(m) \subseteq stray \union {machine[m].allocation}

\* A Machine that is gone has released its allocation.
GoneReleased ==
  \A m \in Locked : machine[m].life = "gone" => machine[m].allocation \notin Own(m)

\* A patch that may still come late claims a free host, which is not the
\* allocation of the Machine, or changes or releases an allocated one.
LatePatch(h, object) ==
  LET m == host[h].claim
      n == object.claim IN
  \/ /\ m = None /\ n \in Uids /\ object.phase = "Available"
     /\ n \in Locked => machine[n].allocation # h
  \/ /\ m \in Uids
     /\ n = m \/ (n = None /\ object.phase = "Available")
     /\ m \in Locked => machine[m].allocation = h

LateAsSent == \A h \in Hosts : \A object \in late[h] : LatePatch(h, object)

ObjectsInv ==
  UsedIfAllocated /\ OthersCameLate /\ GoneReleased /\ NoStrandedHost /\ LateAsSent

InventoryInv == TypeOK /\ HandlersInv /\ ObjectsInv

-----------------------------------------------------------------------------
(* Types *)

HandlerRecord ==
  [pc : Steps, uid : Uids \union {None}, ref : Hosts \union {None},
   chosen : Hosts \union {None}, todo : SeqOf(Hosts, Cardinality(Hosts)), staged : BOOLEAN]

MachineObject ==
  [life : {"absent", "live", "deleting", "gone"},
   hostRef : Hosts \union {None}, allocation : Hosts \union {None}]

\* The empty list is a list of candidates, and so is the tail of one.
LEMMA BoundedSequences ==
  ASSUME NEW S, NEW n \in Nat
  PROVE  /\ << >> \in SeqOf(S, n)
         /\ \A q \in SeqOf(S, n) : Len(q) \in Nat /\
              (q # << >> =>
                /\ Len(q) \in Nat \ {0}
                /\ Head(q) \in S
                /\ Head(q) = q[1]
                /\ Tail(q) \in SeqOf(S, n)
                /\ Len(Tail(q)) = Len(q) - 1
                /\ \A i \in 1 .. Len(Tail(q)) : Tail(q)[i] = q[i + 1])
<1>1. << >> \in SeqOf(S, n)
  <2>1. << >> \in [1 .. 0 -> S] /\ 0 \in 0 .. n
    OBVIOUS
  <2> QED BY <2>1 DEF SeqOf
<1>2. ASSUME NEW q \in SeqOf(S, n)
      PROVE  Len(q) \in Nat /\
              (q # << >> =>
                /\ Len(q) \in Nat \ {0}
                /\ Head(q) \in S
                /\ Head(q) = q[1]
                /\ Tail(q) \in SeqOf(S, n)
                /\ Len(Tail(q)) = Len(q) - 1
                /\ \A i \in 1 .. Len(Tail(q)) : Tail(q)[i] = q[i + 1])
  <2>1. PICK m \in 0 .. n : q \in [1 .. m -> S]
    BY DEF SeqOf
  <2>2. q \in Seq(S) /\ Len(q) = m
    BY <2>1
  <2>3. SUFFICES ASSUME q # << >>
                 PROVE  /\ Len(q) \in Nat \ {0}
                        /\ Head(q) \in S
                        /\ Head(q) = q[1]
                        /\ Tail(q) \in SeqOf(S, n)
                        /\ Len(Tail(q)) = Len(q) - 1
                        /\ \A i \in 1 .. Len(Tail(q)) : Tail(q)[i] = q[i + 1]
    BY <2>2
  <2>4. m \in Nat \ {0} /\ m - 1 \in 0 .. n
    BY <2>2, <2>3, EmptySeq
  <2>5. /\ Tail(q) \in Seq(S)
        /\ Len(Tail(q)) = m - 1
        /\ \A i \in 1 .. m - 1 : Tail(q)[i] = q[i + 1]
    BY <2>2, <2>3, <2>4
  <2>6. Tail(q) \in [1 .. m - 1 -> S]
    BY <2>5, LenProperties
  <2>7. Head(q) = q[1] /\ Head(q) \in S
    BY <2>2, <2>3, <2>4
  <2> QED BY <2>2, <2>4, <2>5, <2>6, <2>7 DEF SeqOf
<1> QED BY <1>1, <1>2

\* What TypeOK says of one object and of one handler
LEMMA Typed ==
  TypeOK <=>
    /\ host \in [Hosts -> HostObject]
    /\ machine \in [Uids -> MachineObject]
    /\ lock \in [Uids -> Workers \union {None}]
    /\ worker \in [Workers -> HandlerRecord]
    /\ current \in [Workers -> SUBSET Hosts]
    /\ late \in [Hosts -> SUBSET HostObject]
    /\ stray \in SUBSET Hosts
    /\ faults \in 0 .. MaxFaults
BY DEF TypeOK, MachineObject, HandlerRecord

\* A handler that has nothing to do, and the fields a step may change
LEMMA RecordTyped ==
  /\ Idle \in HandlerRecord
  /\ \A r \in HandlerRecord :
       /\ \A p \in Steps : [r EXCEPT !.pc = p] \in HandlerRecord
       /\ \A q \in SeqOf(Hosts, Cardinality(Hosts)) : [r EXCEPT !.todo = q] \in HandlerRecord
       /\ \A h \in Hosts \union {None} : [r EXCEPT !.chosen = h] \in HandlerRecord
       /\ [r EXCEPT !.staged = TRUE] \in HandlerRecord
<1>1. << >> \in SeqOf(Hosts, Cardinality(Hosts))
  BY BoundedSequences, FS_CardinalityType, InventoryAssumption
<1>2. Idle \in HandlerRecord
  BY <1>1 DEF Idle, HandlerRecord, Steps
<1>3. ASSUME NEW r \in HandlerRecord
      PROVE  /\ \A p \in Steps : [r EXCEPT !.pc = p] \in HandlerRecord
             /\ \A q \in SeqOf(Hosts, Cardinality(Hosts)) : [r EXCEPT !.todo = q] \in HandlerRecord
             /\ \A h \in Hosts \union {None} : [r EXCEPT !.chosen = h] \in HandlerRecord
             /\ [r EXCEPT !.staged = TRUE] \in HandlerRecord
  BY DEF HandlerRecord
<1> QED BY <1>2, <1>3

\* The steps of a handler leave its Machine, and change its place and at most
\* what it has chosen, listed and staged.
LEMMA Moves ==
  ASSUME TypeOK, NEW w \in Workers, NEW p \in Steps
  PROVE  /\ worker' = [worker EXCEPT ![w].pc = p] =>
              /\ worker' \in [Workers -> HandlerRecord]
              /\ worker'[w] = [worker[w] EXCEPT !.pc = p]
              /\ \A u \in Workers \ {w} : worker'[u] = worker[u]
         /\ worker' = [worker EXCEPT ![w] = Idle] =>
              /\ worker' \in [Workers -> HandlerRecord]
              /\ worker'[w] = Idle
              /\ \A u \in Workers \ {w} : worker'[u] = worker[u]
<1>1. worker \in [Workers -> HandlerRecord]
  BY Typed
<1>2. worker[w] \in HandlerRecord
  BY <1>1
<1>3. [worker[w] EXCEPT !.pc = p] \in HandlerRecord /\ Idle \in HandlerRecord
  BY <1>2, RecordTyped
<1> QED BY <1>1, <1>3

-----------------------------------------------------------------------------
(* Other handlers *)

\* What a step does to the claim of a host by Machine m, seen from a handler
ClaimFollows(m, h) ==
  /\ host'[h].claim = m =>
       \/ host[h].claim = m /\ (h \in stray => h \in stray')
       \/ h \in stray' /\ h # machine[m].allocation
  /\ host[h].claim = m /\ machine[m].allocation = None => host'[h].claim = m

\* The handlers of a Machine in Locked exclude each other.
LEMMA Exclusive ==
  ASSUME InventoryInv, NEW w \in Workers, NEW u \in Workers \ {w}, Active(w), Active(u),
         Uid(u) \in Locked
  PROVE  Uid(u) # Uid(w)
BY DEF InventoryInv, HandlersInv, HandlerInv, LockNamesHandler

\* A handler is not disturbed by a step that leaves it its lock, its Machine's
\* life and allocation, and its claims but for a release of the allocation and
\* for claims that come late, and that is seen to write a host it has read.
LEMMA Undisturbed ==
  ASSUME InventoryInv, NEW u \in Workers, worker'[u] = worker[u],
         Uid(u) \in Locked /\ Active(u) =>
           /\ lock'[Uid(u)] = lock[Uid(u)]
           /\ Present(Uid(u)) => Present(Uid(u))'
           /\ \A h \in Hosts : ClaimFollows(Uid(u), h),
         Uid(u) \in Locked /\ (Active(u) \/ worker[u].staged) =>
           machine'[Uid(u)].allocation = machine[Uid(u)].allocation,
         current'[u] \subseteq current[u],
         \A h \in current'[u] : host'[h].claim = host[h].claim /\ host'[h].phase = host[h].phase
                                  /\ host'[h].ready = host[h].ready
  PROVE  HandlerInv(u)'
<1> USE DEF Uid, Chosen, Active
<1>0. HandlerInv(u)
  BY DEF InventoryInv, HandlersInv
<1>1. WorkerChose(u)'
  BY <1>0 DEF HandlerInv, WorkerChose
<1>2. LockNamesHandler(u)'
  BY <1>0 DEF HandlerInv, LockNamesHandler
<1>3. AllocationAsRead(u)'
  BY <1>0 DEF HandlerInv, AllocationAsRead, Unallocated, AllocatedHost
<1>4. ClaimsAsFound(u)'
  <2>1. SUFFICES ASSUME Uid(u) \in Locked,
                        worker[u].pc \in {"claim", "finish"} \union ChosenHost
                 PROVE  ClaimsAsFound(u)'
    BY DEF ClaimsAsFound
  <2>2. Active(u) /\ machine'[Uid(u)].allocation = machine[Uid(u)].allocation
    BY <2>1 DEF ChosenHost
  <2>3. \A h \in Hosts : ClaimFollows(Uid(u), h)
    BY <2>1, <2>2
  <2>4. ClaimsAsFound(u) /\ AllocationAsRead(u)
    BY <1>0 DEF HandlerInv
  <2>5. CASE worker[u].pc \in {"claim", "finish"}
    BY <2>1, <2>2, <2>3, <2>4, <2>5 DEF ClaimsAsFound, ChosenHost, ClaimFollows, Own
  <2>6. CASE worker[u].pc \in ChosenHost
    <3>1. machine[Uid(u)].allocation = None
      BY <2>1, <2>4, <2>6 DEF AllocationAsRead, Unallocated, ChosenHost
    <3> QED BY <2>1, <2>2, <2>3, <2>4, <2>6, <3>1 DEF ClaimsAsFound, ChosenHost, ClaimFollows, Own
  <2> QED BY <2>1, <2>5, <2>6
<1>5. CurrentAsRead(u)'
  BY <1>0 DEF HandlerInv, CurrentAsRead, Eligible
<1> QED BY <1>1, <1>2, <1>3, <1>4, <1>5 DEF HandlerInv

\* A handler that has its Machine's lock disturbs no other one as long as it
\* changes its own Machine only, claims or releases hosts for that Machine
\* only, moves no allocation, and its writes are seen.
LEMMA OthersUndisturbed ==
  ASSUME InventoryInv, NEW w \in Workers, Active(w),
         \A u \in Workers \ {w} : worker'[u] = worker[u],
         \A m \in Uids \ {Uid(w)} : lock'[m] = lock[m] /\ machine'[m] = machine[m],
         Uid(w) \in Locked /\ machine[Uid(w)].allocation # None =>
           machine'[Uid(w)].allocation = machine[Uid(w)].allocation,
         \A h \in Hosts : \/ host'[h].claim = host[h].claim /\ (h \in stray => h \in stray')
                          \/ {host'[h].claim, host[h].claim} \subseteq {Uid(w), None},
         \A u \in Workers \ {w} :
           /\ current'[u] \subseteq current[u]
           /\ \A h \in current'[u] : host'[h] = host[h]
  PROVE  \A u \in Workers \ {w} : HandlerInv(u)'
<1> TAKE u \in Workers \ {w}
<1>1. Uid(u) \in Locked /\ Active(u) => Uid(u) # Uid(w) /\ Uid(u) \in Uids /\ Uid(u) # None
  BY Exclusive, InventoryAssumption DEF Locked
<1>2. Uid(u) \in Locked /\ Active(u) =>
        /\ lock'[Uid(u)] = lock[Uid(u)]
        /\ Present(Uid(u)) => Present(Uid(u))'
        /\ \A h \in Hosts : ClaimFollows(Uid(u), h)
  <2>1. SUFFICES ASSUME Uid(u) \in Locked, Active(u)
                 PROVE  /\ lock'[Uid(u)] = lock[Uid(u)]
                        /\ Present(Uid(u)) => Present(Uid(u))'
                        /\ \A h \in Hosts : ClaimFollows(Uid(u), h)
    OBVIOUS
  <2>2. \A h \in Hosts : ClaimFollows(Uid(u), h)
    BY <1>1, <2>1 DEF ClaimFollows
  <2>3. lock'[Uid(u)] = lock[Uid(u)] /\ machine'[Uid(u)] = machine[Uid(u)] /\ Uid(u)' = Uid(u)
    BY <1>1, <2>1 DEF Uid
  <2> QED BY <2>2, <2>3 DEF Present
<1>3. Uid(u) \in Locked /\ (Active(u) \/ worker[u].staged) =>
        machine'[Uid(u)].allocation = machine[Uid(u)].allocation
  <2>1. CASE Uid(u) # Uid(w)
    BY <2>1 DEF Locked
  <2>2. CASE Uid(u) = Uid(w) /\ worker[u].staged /\ Uid(u) \in Locked
    <3>1. machine[Uid(u)].allocation = Chosen(u) /\ Chosen(u) \in Hosts
      BY <2>2 DEF InventoryInv, HandlersInv, HandlerInv, AllocationAsRead, WorkerChose
    <3> QED BY <2>2, <3>1, InventoryAssumption
  <2> QED BY <1>1, <2>1, <2>2
<1> QED
  BY <1>2, <1>3, Undisturbed

-----------------------------------------------------------------------------
(* Steps *)

\* An empty pool
LEMMA InventoryInvInit == Init => InventoryInv
<1> SUFFICES ASSUME Init PROVE InventoryInv
  OBVIOUS
<1> USE DEF Init
<1>1. TypeOK
  <2>1. host \in [Hosts -> HostObject] /\ machine \in [Uids -> MachineObject]
    BY DEF Unclaimed, HostObject, Phases, MachineObject
  <2>2. worker \in [Workers -> HandlerRecord]
    BY RecordTyped
  <2>3. /\ lock \in [Uids -> Workers \union {None}]
        /\ current \in [Workers -> SUBSET Hosts]
        /\ late \in [Hosts -> SUBSET HostObject] /\ stray \in SUBSET Hosts
        /\ faults \in 0 .. MaxFaults
    BY InventoryAssumption
  <2> QED BY <2>1, <2>2, <2>3, Typed
<1>2. ASSUME NEW w \in Workers PROVE HandlerInv(w)
  BY <1>2, InventoryAssumption
  DEF HandlerInv, WorkerChose, LockNamesHandler, AllocationAsRead, ClaimsAsFound, CurrentAsRead,
      Active, Locked, AllocatedHost, ChosenHost, Unallocated, Uid, Chosen, Idle
<1>3. ObjectsInv
  BY InventoryAssumption
  DEF ObjectsInv, UsedIfAllocated, OthersCameLate, GoneReleased, NoStrandedHost, LateAsSent,
      Locked, Own, Unclaimed
<1> QED BY <1>1, <1>2, <1>3 DEF InventoryInv, HandlersInv

\* The objects keep their part in a step that leaves the claims, the phases
\* and the allocations, and sends only patches of its own.
LEMMA ObjectsKept ==
  ASSUME InventoryInv,
         \A h \in Hosts : host'[h].claim = host[h].claim /\ host'[h].phase = host[h].phase,
         \A m \in Locked : /\ machine'[m].allocation = machine[m].allocation
                           /\ machine'[m].life = "gone" => machine[m].life = "gone",
         stray' = stray,
         (\A h \in Hosts : late'[h] \subseteq late[h]) \/ LateAsSent'
  PROVE  ObjectsInv'
<1> USE DEF InventoryInv, ObjectsInv
<1>1. \A m \in Locked : Own(m)' = Own(m)
  BY DEF Own
<1>2. \A m \in Locked : Own(m) \subseteq Hosts
  BY DEF Own
<1>3. UsedIfAllocated' /\ NoStrandedHost'
  BY <1>1, <1>2 DEF UsedIfAllocated, NoStrandedHost
<1>4. OthersCameLate' /\ GoneReleased'
  BY <1>1 DEF OthersCameLate, GoneReleased
<1>5. LateAsSent'
  BY DEF LateAsSent, LatePatch
<1> QED BY <1>3, <1>4, <1>5

\* A handler that only moves on keeps the invariant if it keeps its own part.
LEMMA OnlyMoves ==
  ASSUME InventoryInv, NEW w \in Workers, Active(w),
         worker' \in [Workers -> HandlerRecord],
         \A u \in Workers \ {w} : worker'[u] = worker[u],
         UNCHANGED <<host, machine, lock, stray>>, faults' \in 0 .. MaxFaults,
         UNCHANGED late \/ (late' \in [Hosts -> SUBSET HostObject] /\ LateAsSent'),
         current' \in [Workers -> SUBSET Hosts],
         \A u \in Workers \ {w} : current'[u] = current[u],
         HandlerInv(w)'
  PROVE  InventoryInv'
<1>1. TypeOK'
  BY Typed DEF InventoryInv, TypeOK, MachineObject, HandlerRecord
<1>2. \A u \in Workers \ {w} : HandlerInv(u)'
  BY OthersUndisturbed
<1>3. ObjectsInv'
  BY ObjectsKept
<1> QED BY <1>1, <1>2, <1>3 DEF InventoryInv, HandlersInv

\* A handler may end at any step.
LEMMA EndsEarly ==
  ASSUME InventoryInv, NEW w \in Workers, Active(w), Goto(w, "end"),
         UNCHANGED <<host, machine, lock, current, stray>>, faults' \in 0 .. MaxFaults,
         UNCHANGED late \/ (late' \in [Hosts -> SUBSET HostObject] /\ LateAsSent')
  PROVE  InventoryInv'
<1>1. TypeOK /\ "end" \in Steps
  BY DEF InventoryInv, Steps
<1>2. /\ worker' \in [Workers -> HandlerRecord]
      /\ worker'[w] = [worker[w] EXCEPT !.pc = "end"]
      /\ \A u \in Workers \ {w} : worker'[u] = worker[u]
  BY <1>1, Moves DEF Goto
<1>3. worker[w] \in HandlerRecord
  BY <1>1, Typed
<1>4. /\ worker'[w].pc = "end" /\ worker'[w].uid = worker[w].uid
      /\ worker'[w].chosen = worker[w].chosen /\ worker'[w].staged = worker[w].staged
  BY <1>2, <1>3 DEF HandlerRecord
<1>5. HandlerInv(w)
  BY DEF InventoryInv, HandlersInv
<1>6. HandlerInv(w)'
  BY <1>4, <1>5
  DEF HandlerInv, WorkerChose, LockNamesHandler, AllocationAsRead, ClaimsAsFound, CurrentAsRead,
      Active, AllocatedHost, ChosenHost, Unallocated, Uid, Chosen, Present
<1>7. current' \in [Workers -> SUBSET Hosts]
  BY <1>1, Typed
<1> QED BY <1>2, <1>3, <1>6, <1>7, OnlyMoves

\* Users and the prober change nothing that a handler relies on unseen.
LEMMA UsersKeepInv ==
  ASSUME InventoryInv,
         \/ \E m \in Uids : CreateMachine(m) \/ DeleteMachine(m)
         \/ \E h \in Hosts : Probe(h)
  PROVE  InventoryInv'
<1> USE Typed DEF InventoryInv
<1>1. ASSUME NEW m \in Uids, CreateMachine(m) \/ DeleteMachine(m) PROVE InventoryInv'
  <2>1. /\ machine[m].life \in {"absent", "live"}
        /\ machine' \in [Uids -> MachineObject]
        /\ \A n \in Uids : /\ machine'[n].allocation = machine[n].allocation
                           /\ Present(n) => machine'[n].life \in {"live", "deleting"}
                           /\ machine'[n].life = "gone" => machine[n].life = "gone"
        /\ UNCHANGED <<host, lock, worker, current, late, stray, faults>>
    <3>1. CASE CreateMachine(m)
      BY <3>1 DEF CreateMachine, MachineObject, Present
    <3>2. CASE DeleteMachine(m)
      BY <3>2 DEF DeleteMachine, MachineObject, Present
    <3> QED BY <1>1, <3>1, <3>2
  <2>2. TypeOK'
    BY <2>1 DEF TypeOK, MachineObject
  <2>3. ASSUME NEW u \in Workers PROVE HandlerInv(u)'
    <3>1. Uid(u) \in Locked => Uid(u) \in Uids /\ (Present(Uid(u)) => Present(Uid(u))')
      BY <2>1 DEF Uid, Locked, Present
    <3> QED BY <2>1, <3>1, Undisturbed DEF Locked, ClaimFollows
  <2>4. ObjectsInv'
    BY <2>1, ObjectsKept DEF Locked
  <2> QED BY <2>2, <2>3, <2>4 DEF HandlersInv
<1>2. ASSUME NEW h \in Hosts, Probe(h) PROVE InventoryInv'
  <2>1. /\ host' \in [Hosts -> HostObject]
        /\ \A i \in Hosts : host'[i].claim = host[i].claim /\ host'[i].phase = host[i].phase
        /\ \A i \in Hosts \ {h} : host'[i] = host[i]
        /\ current' \in [Workers -> SUBSET Hosts]
        /\ \A w \in Workers : current'[w] = current[w] \ {h}
        /\ late' \in [Hosts -> SUBSET HostObject]
        /\ \A i \in Hosts : late'[i] \subseteq late[i]
        /\ UNCHANGED <<stray, machine, lock, worker, faults>>
    BY <1>2 DEF Probe, NewVersion, HostObject
  <2>2. TypeOK'
    BY <2>1 DEF TypeOK, MachineObject, HandlerRecord
  <2>3. ASSUME NEW u \in Workers PROVE HandlerInv(u)'
    <3>1. current[u] \subseteq Hosts
      OBVIOUS
    <3>2. Present(Uid(u)) => Present(Uid(u))'
      BY <2>1 DEF Uid, Present
    <3> QED BY <2>1, <3>1, <3>2, Undisturbed DEF ClaimFollows
  <2>4. ObjectsInv'
    BY <2>1, ObjectsKept
  <2> QED BY <2>2, <2>3, <2>4 DEF HandlersInv
<1> QED BY <1>1, <1>2

\* A handler that takes a lock finds no other one at work under it, and what
\* it reads then is so.
LEMMA BeginKeepsInv ==
  ASSUME InventoryInv, NEW w \in Workers, NEW m \in Uids, Begin(w, m)
  PROVE  InventoryInv'
<1> USE Typed DEF InventoryInv
<1> DEFINE r == worker'[w]
<1>1. /\ lock' \in [Uids -> Workers \union {None}]
      /\ lock'[m] = w
      /\ \A n \in Uids \ {m} : lock'[n] = lock[n]
      /\ UNCHANGED <<host, machine, current, late, stray>>
      /\ m \in Locked => lock[m] = None
      /\ Present(m)
  BY DEF Begin, LockFree, Locked
<1>2. faults' \in 0 .. MaxFaults
  BY InventoryAssumption DEF Begin, LockFree
<1>3. machine[m] \in MachineObject
  OBVIOUS
<1>4. /\ r.uid = m /\ r.ref = machine[m].hostRef /\ r.chosen = machine[m].allocation
      /\ r.todo = << >> /\ r.staged = FALSE
      /\ \/ machine[m].allocation # None /\ r.pc \in {"bind", "cleaning"}
         \/ machine[m].allocation = None /\ r.pc \in {"list", "recover"}
      /\ \A u \in Workers \ {w} : worker'[u] = worker[u]
  BY <1>3 DEF Begin, Idle, Present, MachineObject
<1>5. worker' \in [Workers -> HandlerRecord]
  <2>1. << >> \in SeqOf(Hosts, Cardinality(Hosts))
    BY BoundedSequences, FS_CardinalityType, InventoryAssumption
  <2>2. PICK p : worker' = [worker EXCEPT ![w] = [Idle EXCEPT
          !.uid = m, !.ref = machine[m].hostRef, !.chosen = machine[m].allocation, !.pc = p]]
    BY Zenon DEF Begin
  <2>3. p = r.pc
    BY <2>2 DEF Idle
  <2>4. [Idle EXCEPT !.uid = m, !.ref = machine[m].hostRef, !.chosen = machine[m].allocation,
         !.pc = p] \in HandlerRecord
    BY <1>3, <1>4, <2>1, <2>3 DEF HandlerRecord, MachineObject, Steps, Idle
  <2> QED BY <2>2, <2>4
<1>6. TypeOK'
  BY <1>1, <1>2, <1>5 DEF TypeOK, MachineObject, HandlerRecord
<1>7. ASSUME NEW u \in Workers \ {w} PROVE HandlerInv(u)'
  <2>1. Uid(u) \in Locked /\ Active(u) => lock[Uid(u)] = u
    BY DEF HandlersInv, HandlerInv, LockNamesHandler
  <2>2. Uid(u) \in Locked /\ Active(u) => lock'[Uid(u)] = lock[Uid(u)]
    BY <1>1, <2>1, InventoryAssumption DEF Locked
  <2>3. Present(Uid(u)) => Present(Uid(u))'
    BY <1>1, <1>4 DEF Present, Uid
  <2> QED BY <1>1, <1>4, <2>2, <2>3, Undisturbed DEF ClaimFollows
<1>8. HandlerInv(w)'
  <2>1. machine[m].allocation \in Hosts \union {None}
    BY <1>3 DEF MachineObject
  <2> QED BY <1>1, <1>4, <2>1
  DEF HandlerInv, WorkerChose, LockNamesHandler, AllocationAsRead, ClaimsAsFound, CurrentAsRead,
      Active, AllocatedHost, ChosenHost, Unallocated, Uid, Chosen, Present
<1>9. ObjectsInv'
  BY <1>1, ObjectsKept
<1> QED BY <1>6, <1>7, <1>8, <1>9 DEF HandlersInv

\* What a handler may send at its step is a patch of a host it knows: it claims
\* a free one, or changes or releases the one that is allocated.
LEMMA GivesUpLate ==
  ASSUME InventoryInv, NEW w \in Workers, UNCHANGED <<host, machine>>,
         UNCHANGED late \/ GivesUp(w)
  PROVE  late' \in [Hosts -> SUBSET HostObject] /\ LateAsSent'
<1> USE Typed DEF InventoryInv
<1>0. HandlerInv(w) /\ worker[w] \in HandlerRecord
  BY DEF HandlersInv
<1>1. ASSUME NEW h \in Hosts, NEW object \in Sent(w, h) PROVE LatePatch(h, object)
  <2>0. host[h] \in HostObject
    OBVIOUS
  <2>1. CASE /\ At(w, "claim") /\ worker[w].todo # << >> /\ Head(worker[w].todo) = h
             /\ h \in current[w]
             /\ object = [host[h] EXCEPT !.claim = Uid(w)]
    <3>1. h = worker[w].todo[1] /\ Len(worker[w].todo) \in Nat \ {0}
      BY <1>0, <2>1, BoundedSequences, FS_CardinalityType, InventoryAssumption DEF HandlerRecord
    <3>2. Eligible(host[h]) /\ Uid(w) \in Uids
      BY <1>0, <2>1, <3>1 DEF HandlerInv, CurrentAsRead, WorkerChose, At
    <3>3. Uid(w) \in Locked => machine[Uid(w)].allocation = None
      BY <1>0, <2>1 DEF HandlerInv, AllocationAsRead, Unallocated, At
    <3>4. object.claim = Uid(w) /\ object.phase = host[h].phase
      BY <2>0, <2>1 DEF HostObject
    <3> QED BY <3>2, <3>3, <3>4, InventoryAssumption DEF LatePatch, Eligible
  <2>2. CASE /\ worker[w].pc \in DOMAIN PhaseSet /\ Chosen(w) = h /\ host[h].claim = Uid(w)
             /\ object = [host[h] EXCEPT !.phase = PhaseSet[worker[w].pc]]
    <3>1. worker[w].pc \in {"claimed", "bootstrap", "cleaning", "clean", "available"}
      BY <2>2 DEF PhaseSet
    <3>2. Uid(w) \in Uids /\ (Uid(w) \in Locked => machine[Uid(w)].allocation = h)
      BY <1>0, <2>2, <3>1 DEF HandlerInv, AllocationAsRead, AllocatedHost, WorkerChose
    <3>3. object.claim = host[h].claim
      BY <2>0, <2>2 DEF HostObject
    <3> QED BY <2>2, <3>2, <3>3 DEF LatePatch
  <2>3. CASE /\ At(w, "unclaim") /\ Chosen(w) = h /\ h \in current[w]
             /\ object = [host[h] EXCEPT !.claim = None]
    <3>1. Uid(w) \in Uids /\ (Uid(w) \in Locked => machine[Uid(w)].allocation = h)
      BY <1>0, <2>3 DEF HandlerInv, AllocationAsRead, AllocatedHost, WorkerChose, At
    <3>2. host[h].claim = Uid(w) /\ host[h].phase = "Available"
      BY <1>0, <2>3 DEF HandlerInv, CurrentAsRead, At
    <3>3. object.claim = None /\ object.phase = host[h].phase
      BY <2>0, <2>3 DEF HostObject
    <3> QED BY <3>1, <3>2, <3>3 DEF LatePatch
  <2> QED BY <1>1, <2>1, <2>2, <2>3 DEF Sent
<1>2. \A h \in Hosts : Sent(w, h) \subseteq HostObject
  BY DEF Sent
<1>3. LateAsSent
  BY DEF ObjectsInv
<1>4. CASE UNCHANGED late
  BY <1>3, <1>4 DEF LateAsSent, LatePatch
<1>5. CASE late' = [h \in Hosts |-> late[h] \union Sent(w, h)]
  <2>1. late' \in [Hosts -> SUBSET HostObject]
    BY <1>2, <1>5
  <2>2. \A h \in Hosts : \A object \in late'[h] : LatePatch(h, object)
    BY <1>1, <1>3, <1>5 DEF LateAsSent
  <2>3. \A h, object : LatePatch(h, object)' <=> LatePatch(h, object)
    BY DEF LatePatch
  <2> QED BY <2>1, <2>2, <2>3 DEF LateAsSent
<1> QED BY <1>4, <1>5 DEF GivesUp

\* A handler that ends gives back the lock; what it has staged is applied
\* later, without the lock.
LEMMA EndKeepsInv ==
  ASSUME InventoryInv, NEW w \in Workers, End(w) \/ Crash(w)
  PROVE  InventoryInv'
<1> USE Typed DEF InventoryInv
<1>1. HandlerInv(w) /\ worker[w] \in HandlerRecord
  BY DEF HandlersInv
<1>2. worker[w].pc # "idle" /\ Uid(w) \in Uids
  BY <1>1 DEF End, Crash, At, HandlerInv, WorkerChose
<1>3. faults' \in 0 .. MaxFaults
  BY InventoryAssumption DEF End, Crash
<1>4. /\ lock' \in [Uids -> Workers \union {None}]
      /\ \A m \in Uids \ {Uid(w)} : lock'[m] = lock[m]
      /\ lock'[Uid(w)] = IF lock[Uid(w)] = w THEN None ELSE lock[Uid(w)]
      /\ UNCHANGED <<host, machine, stray>>
      /\ current' \in [Workers -> SUBSET Hosts]
      /\ \A u \in Workers \ {w} : current'[u] = current[u]
      /\ UNCHANGED late \/ GivesUp(w)
  BY <1>2 DEF End, Crash, Forget
<1>5. late' \in [Hosts -> SUBSET HostObject] /\ LateAsSent'
  BY <1>2, <1>4, GivesUpLate
<1>6. /\ \A u \in Workers \ {w} : worker'[u] = worker[u]
      /\ worker' \in [Workers -> HandlerRecord]
      /\ \/ worker'[w] = Idle
         \/ worker[w].staged /\ worker'[w] = [worker[w] EXCEPT !.pc = "patch"]
  <2>1. "patch" \in Steps
    BY DEF Steps
  <2>2. CASE worker' = [worker EXCEPT ![w] = Idle]
    BY <2>1, <2>2, Moves
  <2>3. CASE worker[w].staged /\ worker' = [worker EXCEPT ![w].pc = "patch"]
    BY <2>1, <2>3, Moves
  <2>4. CASE Crash(w)
    BY <2>2, <2>4 DEF Crash
  <2>5. CASE End(w)
    BY <2>2, <2>3, <2>5 DEF End
  <2> QED BY <2>4, <2>5
<1>7. TypeOK'
  BY <1>3, <1>4, <1>6, <1>5 DEF TypeOK, MachineObject, HandlerRecord
<1>8. ASSUME NEW u \in Workers \ {w} PROVE HandlerInv(u)'
  <2>1. Uid(u) \in Locked /\ Active(u) => lock[Uid(u)] = u
    BY DEF HandlersInv, HandlerInv, LockNamesHandler
  <2>2. Uid(u) \in Locked /\ Active(u) => lock'[Uid(u)] = lock[Uid(u)]
    BY <1>4, <2>1 DEF Locked
  <2>3. Present(Uid(u)) => Present(Uid(u))'
    BY <1>4, <1>6 DEF Present, Uid
  <2> QED BY <1>4, <1>6, <2>2, <2>3, Undisturbed DEF ClaimFollows
<1>9. HandlerInv(w)'
  <2>1. CASE worker'[w] = Idle
    BY <2>1, InventoryAssumption
    DEF HandlerInv, WorkerChose, LockNamesHandler, AllocationAsRead, ClaimsAsFound, CurrentAsRead,
        Active, AllocatedHost, ChosenHost, Unallocated, Uid, Chosen, Idle
  <2>2. CASE worker[w].staged /\ worker'[w] = [worker[w] EXCEPT !.pc = "patch"]
    <3>1. /\ worker'[w].pc = "patch" /\ worker'[w].uid = worker[w].uid
          /\ worker'[w].chosen = worker[w].chosen /\ worker'[w].staged = worker[w].staged
      BY <1>1, <2>2 DEF HandlerRecord
    <3> QED BY <1>1, <1>2, <1>4, <2>2, <3>1
    DEF HandlerInv, WorkerChose, LockNamesHandler, AllocationAsRead, ClaimsAsFound, CurrentAsRead,
        Active, AllocatedHost, ChosenHost, Unallocated, Uid, Chosen
  <2> QED BY <1>6, <2>1, <2>2
<1>10. ObjectsInv'
  BY <1>4, <1>5, ObjectsKept
<1> QED BY <1>7, <1>8, <1>9, <1>10 DEF HandlersInv

\* The patch that Kopf applies late repeats what is on record.
LEMMA ApplyPatchKeepsInv ==
  ASSUME InventoryInv, NEW w \in Workers, ApplyPatch(w)
  PROVE  InventoryInv'
<1> USE Typed DEF InventoryInv
<1>1. HandlerInv(w) /\ worker[w] \in HandlerRecord
  BY DEF HandlersInv
<1>2. /\ worker[w].pc = "patch" /\ worker[w].staged
      /\ Uid(w) \in Uids /\ Chosen(w) \in Hosts
      /\ Uid(w) \in Locked => machine[Uid(w)].allocation = Chosen(w)
  BY <1>1 DEF ApplyPatch, At, HandlerInv, WorkerChose, AllocationAsRead
<1>3. /\ worker' \in [Workers -> HandlerRecord]
      /\ worker'[w] = Idle
      /\ \A u \in Workers \ {w} : worker'[u] = worker[u]
  BY Moves DEF ApplyPatch, Steps
<1>4. /\ machine' \in [Uids -> MachineObject]
      /\ \A m \in Uids : machine'[m].life = machine[m].life
      /\ \A m \in Locked : machine'[m].allocation = machine[m].allocation
      /\ UNCHANGED <<host, lock, current, late, stray, faults>>
  BY <1>2, ZenonT(60) DEF ApplyPatch, MachineObject, Locked
<1>5. TypeOK'
  BY <1>3, <1>4 DEF TypeOK, MachineObject, HandlerRecord
<1>6. ASSUME NEW u \in Workers \ {w} PROVE HandlerInv(u)'
  <2>1. Uid(u) \in Locked => (Present(Uid(u)) => Present(Uid(u))')
    BY <1>3, <1>4 DEF Present, Uid, Locked
  <2> QED BY <1>3, <1>4, <2>1, Undisturbed DEF ClaimFollows
<1>7. HandlerInv(w)'
  BY <1>3, InventoryAssumption
  DEF HandlerInv, WorkerChose, LockNamesHandler, AllocationAsRead, ClaimsAsFound, CurrentAsRead,
      Active, AllocatedHost, ChosenHost, Unallocated, Uid, Chosen, Idle
<1>8. ObjectsInv'
  BY <1>4, ObjectsKept DEF Locked
<1> QED BY <1>5, <1>6, <1>7, <1>8 DEF HandlersInv

\* The candidates are free hosts of the pool.
LEMMA CandidatesTyped ==
  ASSUME NEW todo \in Candidates
  PROVE  /\ todo \in SeqOf(Hosts, Cardinality(Hosts))
         /\ \A i \in 1 .. Len(todo) : todo[i] \in Hosts /\ Eligible(host[todo[i]])
<1> DEFINE S == {h \in Hosts : Eligible(host[h])}
           n == Cardinality(S)
<1>1. n \in Nat /\ Cardinality(Hosts) \in Nat /\ n <= Cardinality(Hosts)
  <2>1. S \in SUBSET Hosts /\ IsFiniteSet(Hosts)
    BY InventoryAssumption
  <2>2. IsFiniteSet(S) /\ n <= Cardinality(Hosts)
    BY <2>1, FS_Subset
  <2>3. n \in Nat /\ Cardinality(Hosts) \in Nat
    BY <2>1, <2>2, FS_CardinalityType
  <2> QED BY <2>2, <2>3
<1>2. todo \in [1 .. n -> S]
  BY DEF Candidates, SetToSeqs
<1> HIDE DEF n
<1>3. todo \in [1 .. n -> Hosts]
  BY <1>2
<1>4. todo \in SeqOf(Hosts, Cardinality(Hosts))
  BY <1>1, <1>3 DEF SeqOf
<1>5. Len(todo) = n
  BY <1>1, <1>3
<1> QED BY <1>2, <1>4, <1>5

\* What one handler has of the fields of another place in its run
LEMMA HandlerTyped ==
  ASSUME InventoryInv, NEW w \in Workers
  PROVE  /\ HandlerInv(w)
         /\ worker \in [Workers -> HandlerRecord]
         /\ worker[w] \in HandlerRecord
         /\ worker[w].pc # "idle" => Uid(w) \in Uids /\ Uid(w) # None
         /\ Own(Uid(w)) \subseteq Hosts
         /\ IsFiniteSet(Own(Uid(w)))
         /\ Cardinality(Own(Uid(w))) = 1 <=> \E h \in Hosts : Own(Uid(w)) = {h}
<1>1. HandlerInv(w)
  BY DEF InventoryInv, HandlersInv
<1>2. worker \in [Workers -> HandlerRecord] /\ worker[w] \in HandlerRecord
  BY Typed DEF InventoryInv
<1>3. worker[w].pc # "idle" => Uid(w) \in Uids /\ Uid(w) # None
  BY <1>1, InventoryAssumption DEF HandlerInv, WorkerChose
<1>4. Own(Uid(w)) \subseteq Hosts
  BY DEF Own
<1>5. IsFiniteSet(Own(Uid(w)))
  BY <1>4, FS_Subset, InventoryAssumption
<1>6. Cardinality(Own(Uid(w))) = 1 <=> \E h \in Hosts : Own(Uid(w)) = {h}
  BY <1>4, <1>5, FS_Singleton
<1> QED BY <1>1, <1>2, <1>3, <1>4, <1>5, <1>6

\* The list shows the handler its own claim, or that it has none.
LEMMA ListHostsKeepsInv ==
  ASSUME InventoryInv, NEW w \in Workers, ListHosts(w)
  PROVE  InventoryInv'
<1> USE DEF Uid, Chosen
<1>0. /\ HandlerInv(w) /\ worker \in [Workers -> HandlerRecord] /\ worker[w] \in HandlerRecord
      /\ TypeOK
  BY HandlerTyped DEF InventoryInv
<1>1. worker[w].pc = "list" /\ Active(w)
  BY DEF ListHosts, At, Active
<1>2. UNCHANGED <<host, machine, lock, late, stray>> /\ faults' \in 0 .. MaxFaults
  BY <1>0, Typed DEF ListHosts
<1>3. CASE /\ Cardinality(Own(Uid(w))) = 1
           /\ \E h \in Own(Uid(w)) : worker' = [worker EXCEPT ![w].chosen = h,
                ![w].pc = IF AwaitsCleanup(host[h]) THEN "end" ELSE "spec"]
           /\ UNCHANGED current
  <2>1. PICK h \in Own(Uid(w)) : worker' = [worker EXCEPT ![w].chosen = h,
               ![w].pc = IF AwaitsCleanup(host[h]) THEN "end" ELSE "spec"]
    BY <1>3
  <2>2. h \in Hosts /\ Own(Uid(w)) = {h}
    <3>1. Cardinality(Own(Uid(w))) = 1 => \E i \in Hosts : Own(Uid(w)) = {i}
      BY HandlerTyped
    <3>2. PICK i \in Hosts : Own(Uid(w)) = {i}
      BY <1>3, <3>1
    <3> QED BY <2>1, <3>2
  <2>3. PICK p \in {"end", "spec"} : worker' = [worker EXCEPT ![w].chosen = h, ![w].pc = p]
    BY <2>1
  <2>4. /\ worker'[w].pc = p /\ worker'[w].uid = worker[w].uid
        /\ worker'[w].chosen = h /\ worker'[w].staged = worker[w].staged
        /\ worker' \in [Workers -> HandlerRecord]
        /\ \A u \in Workers \ {w} : worker'[u] = worker[u]
    BY <1>0, <2>2, <2>3 DEF HandlerRecord, Steps
  <2>5. HandlerInv(w)'
    BY <1>0, <1>1, <1>2, <1>3, <2>2, <2>4, InventoryAssumption
    DEF HandlerInv, WorkerChose, LockNamesHandler, AllocationAsRead, ClaimsAsFound, CurrentAsRead,
        Active, AllocatedHost, ChosenHost, Unallocated, Present, Own
  <2> QED BY <1>0, <1>1, <1>2, <1>3, <2>4, <2>5, Typed, OnlyMoves
<1>4. CASE Goto(w, "end") /\ UNCHANGED current
  BY <1>1, <1>2, <1>4, EndsEarly
<1>5. CASE /\ Own(Uid(w)) = {}
           /\ current' = [current EXCEPT ![w] = Hosts]
           /\ \E todo \in Candidates :
                worker' = [worker EXCEPT ![w].pc = "claim", ![w].todo = todo]
  <2>1. PICK todo \in Candidates : worker' = [worker EXCEPT ![w].pc = "claim", ![w].todo = todo]
    BY <1>5
  <2>2. /\ todo \in SeqOf(Hosts, Cardinality(Hosts))
        /\ \A i \in 1 .. Len(todo) : todo[i] \in Hosts /\ Eligible(host[todo[i]])
    BY CandidatesTyped
  <2>3. /\ worker'[w].pc = "claim" /\ worker'[w].uid = worker[w].uid /\ worker'[w].todo = todo
        /\ worker'[w].chosen = worker[w].chosen /\ worker'[w].staged = worker[w].staged
        /\ worker' \in [Workers -> HandlerRecord]
        /\ \A u \in Workers \ {w} : worker'[u] = worker[u]
    BY <1>0, <2>1, <2>2 DEF HandlerRecord, Steps
  <2>4. HandlerInv(w)'
    BY <1>0, <1>1, <1>2, <1>5, <2>2, <2>3
    DEF HandlerInv, WorkerChose, LockNamesHandler, AllocationAsRead, ClaimsAsFound, CurrentAsRead,
        Active, AllocatedHost, ChosenHost, Unallocated, Present, Own, Eligible
  <2>5. /\ current' \in [Workers -> SUBSET Hosts]
        /\ \A u \in Workers \ {w} : current'[u] = current[u]
    BY <1>0, <1>5, Typed
  <2> QED BY <1>1, <1>2, <2>3, <2>4, <2>5, OnlyMoves
<1> QED BY <1>3, <1>4, <1>5, <1>1 DEF ListHosts

\* A claim is committed only on a host that is still as the list showed it.
LEMMA TryClaimKeepsInv ==
  ASSUME InventoryInv, NEW w \in Workers, TryClaim(w)
  PROVE  InventoryInv'
<1> USE DEF Uid, Chosen
<1> DEFINE todo == worker[w].todo
           c    == Head(todo)
<1>0. /\ HandlerInv(w) /\ worker \in [Workers -> HandlerRecord] /\ worker[w] \in HandlerRecord
      /\ TypeOK
  BY HandlerTyped DEF InventoryInv
<1>1. worker[w].pc = "claim" /\ Active(w) /\ Uid(w) \in Uids
  BY <1>0 DEF TryClaim, At, Active, HandlerInv, WorkerChose
<1>2. /\ << >> \in SeqOf(Hosts, Cardinality(Hosts))
      /\ Len(todo) \in Nat
      /\ todo # << >> =>
           /\ Len(todo) \in Nat \ {0}
           /\ c \in Hosts
           /\ c = todo[1]
           /\ Tail(todo) \in SeqOf(Hosts, Cardinality(Hosts))
           /\ Len(Tail(todo)) = Len(todo) - 1
           /\ \A i \in 1 .. Len(Tail(todo)) : Tail(todo)[i] = todo[i + 1]
  <2>1. todo \in SeqOf(Hosts, Cardinality(Hosts)) /\ Cardinality(Hosts) \in Nat
    BY <1>0, FS_CardinalityType, InventoryAssumption DEF HandlerRecord
  <2> QED BY <2>1, BoundedSequences
<1> HIDE DEF todo, c
<1>3. CASE /\ todo # << >>
           /\ c \in current[w]
           /\ PatchHost(c, [host[c] EXCEPT !.claim = Uid(w)], {})
           /\ worker' = [worker EXCEPT ![w].pc = "spec", ![w].chosen = c, ![w].todo = << >>]
  <2>1. Eligible(host[c]) /\ c \in Hosts
    BY <1>0, <1>1, <1>2, <1>3 DEF HandlerInv, CurrentAsRead, todo
  <2>2. /\ worker'[w].pc = "spec" /\ worker'[w].uid = worker[w].uid
        /\ worker'[w].chosen = c /\ worker'[w].staged = worker[w].staged
        /\ worker' \in [Workers -> HandlerRecord]
        /\ \A u \in Workers \ {w} : worker'[u] = worker[u]
    BY <1>0, <1>2, <1>3, <2>1 DEF HandlerRecord, Steps
  <2>3. /\ host' \in [Hosts -> HostObject]
        /\ host'[c].claim = Uid(w) /\ host'[c].phase = host[c].phase
        /\ \A h \in Hosts \ {c} : host'[h] = host[h]
        /\ UNCHANGED <<machine, lock, faults>>
    BY <1>0, <1>1, <1>3, <2>1, Typed DEF PatchHost, HostObject
  <2>4. /\ current' \in [Workers -> SUBSET Hosts]
        /\ \A u \in Workers : current'[u] = current[u] \ {c}
        /\ late' \in [Hosts -> SUBSET HostObject]
        /\ late'[c] = {}
        /\ \A h \in Hosts \ {c} : late'[h] = late[h]
        /\ stray' = stray \ {c}
    <3>1. host[c].claim = None /\ Uid(w) # None /\ host[c] \in HostObject
      BY <1>0, <1>1, <2>1, Typed, InventoryAssumption DEF Eligible
    <3>2. [host[c] EXCEPT !.claim = Uid(w)].claim = Uid(w)
      BY <3>1 DEF HostObject
    <3>3. NewVersion(c, {}) /\ stray' = stray \ {c}
      BY <1>3, <3>1, <3>2 DEF PatchHost
    <3> QED BY <1>0, <2>1, <3>3, Typed DEF NewVersion
  <2>5. TypeOK'
    BY <1>0, <2>2, <2>3, <2>4, Typed DEF TypeOK, MachineObject, HandlerRecord
  <2>6. \A u \in Workers \ {w} : HandlerInv(u)'
    <3>1. \A h \in Hosts : \/ host'[h].claim = host[h].claim /\ (h \in stray => h \in stray')
                           \/ {host'[h].claim, host[h].claim} \subseteq {Uid(w), None}
      BY <2>1, <2>3, <2>4 DEF Eligible
    <3>2. \A u \in Workers : current'[u] \subseteq current[u] /\ current'[u] \subseteq Hosts \ {c}
      BY <1>0, <2>4, Typed
    <3> QED BY <1>1, <2>2, <2>3, <2>4, <3>1, <3>2, OthersUndisturbed
  <2>7. /\ Uid(w) \in Locked => Own(Uid(w)) \subseteq stray'
        /\ Own(worker[w].uid)' = Own(Uid(w)) \union {c} /\ c \notin Own(Uid(w))
        /\ \A m \in Uids \ {Uid(w)} : Own(m)' = Own(m) /\ c \notin Own(m)
    <3>0. \A m \in Uids : c \notin Own(m)
      BY <2>1, InventoryAssumption DEF Own, Eligible
    <3>1. \A m \in Uids \ {Uid(w)} : Own(m)' = Own(m)
      <4>1. ASSUME NEW m \in Uids \ {Uid(w)}, NEW h \in Hosts
            PROVE  host'[h].claim = m <=> host[h].claim = m
        BY <2>1, <2>3, InventoryAssumption DEF Eligible
      <4> QED BY <4>1 DEF Own
    <3>2. Uid(w) \in Locked => Own(Uid(w)) \subseteq stray
      BY <1>0, <1>1 DEF HandlerInv, ClaimsAsFound
    <3>3. \A h \in Hosts : host'[h].claim = Uid(w) <=> h = c \/ h \in Own(Uid(w))
      BY <2>1, <2>3 DEF Own
    <3>4. Own(worker[w].uid)' = Own(Uid(w)) \union {c}
      BY <2>1, <2>2, <3>3 DEF Own
    <3> QED BY <1>1, <2>4, <3>0, <3>1, <3>2, <3>4
  <2>8. HandlerInv(w)'
    BY <1>0, <1>1, <2>1, <2>2, <2>3, <2>4, <2>7, InventoryAssumption
    DEF HandlerInv, WorkerChose, LockNamesHandler, AllocationAsRead, ClaimsAsFound, CurrentAsRead,
        Active, AllocatedHost, ChosenHost, Unallocated, Present
  <2>9. ObjectsInv'
    <3>1. Uid(w) \in Locked => machine[Uid(w)].allocation = None /\ machine[Uid(w)].life # "gone"
      BY <1>0, <1>1 DEF HandlerInv, LockNamesHandler, AllocationAsRead, Unallocated, Present
    <3>2. OthersCameLate' /\ GoneReleased'
      BY <1>1, <2>2, <2>3, <2>4, <2>7, <3>1
      DEF InventoryInv, ObjectsInv, OthersCameLate, GoneReleased, Locked
    <3>3. UsedIfAllocated'
      <4>1. \A m \in Uids : Own(m)' \subseteq Own(m) \union {c} /\ Own(m) \subseteq Hosts
        BY <1>1, <2>2, <2>7 DEF Own
      <4> QED BY <2>1, <2>3, <2>7, <4>1
          DEF InventoryInv, ObjectsInv, UsedIfAllocated, Eligible, Locked
    <3>4. NoStrandedHost'
      BY <2>1, <2>3 DEF InventoryInv, ObjectsInv, NoStrandedHost, Eligible
    <3>5. LateAsSent'
      BY <2>3, <2>4 DEF InventoryInv, ObjectsInv, LateAsSent, LatePatch
    <3> QED BY <3>2, <3>3, <3>4, <3>5 DEF ObjectsInv
  <2> QED BY <2>5, <2>6, <2>8, <2>9 DEF InventoryInv, HandlersInv
<1>4. CASE /\ todo # << >>
           /\ worker' = [worker EXCEPT ![w].todo = Tail(todo)]
           /\ ReadsOnly
  <2>1. /\ worker'[w].pc = "claim" /\ worker'[w].uid = worker[w].uid
        /\ worker'[w].todo = Tail(todo)
        /\ worker'[w].chosen = worker[w].chosen /\ worker'[w].staged = worker[w].staged
        /\ worker' \in [Workers -> HandlerRecord]
        /\ \A u \in Workers \ {w} : worker'[u] = worker[u]
    BY <1>0, <1>1, <1>2, <1>4 DEF HandlerRecord
  <2>2. CurrentAsRead(w)'
    <3>1. CurrentAsRead(w)
      BY <1>0 DEF HandlerInv
    <3>2. \A i \in 1 .. Len(Tail(todo)) :
            Tail(todo)[i] \in current[w] => Eligible(host[Tail(todo)[i]])
      <4>1. ASSUME NEW i \in 1 .. Len(Tail(todo))
            PROVE  i + 1 \in 1 .. Len(todo) /\ Tail(todo)[i] = todo[i + 1]
        BY <1>2, <1>4
      <4> QED BY <1>1, <3>1, <4>1 DEF CurrentAsRead, todo
    <3> QED BY <1>4, <2>1, <3>2 DEF CurrentAsRead, ReadsOnly, Eligible
  <2>3. HandlerInv(w)'
    BY <1>0, <1>1, <1>4, <2>1, <2>2
    DEF HandlerInv, WorkerChose, LockNamesHandler, AllocationAsRead, ClaimsAsFound,
        Active, AllocatedHost, ChosenHost, Unallocated, Present, Own, ReadsOnly
  <2> QED BY <1>0, <1>1, <1>4, <2>1, <2>3, Typed, OnlyMoves DEF ReadsOnly
<1>5. CASE Goto(w, "end") /\ ReadsOnly
  BY <1>0, <1>1, <1>5, Typed, EndsEarly DEF ReadsOnly
<1> QED BY <1>3, <1>4, <1>5 DEF TryClaim, todo, c

\* What is persisted is the host whose claim the Machine has.
LEMMA PersistKeepsInv ==
  ASSUME InventoryInv, NEW w \in Workers, PersistSpec(w) \/ PersistAllocation(w)
  PROVE  InventoryInv'
<1> USE DEF Uid, Chosen
<1>0. /\ HandlerInv(w) /\ worker \in [Workers -> HandlerRecord] /\ worker[w] \in HandlerRecord
      /\ TypeOK
  BY HandlerTyped DEF InventoryInv
<1>1. worker[w].pc \in ChosenHost /\ Active(w)
  BY DEF PersistSpec, PersistAllocation, At, ChosenHost, Active
<1>2. Uid(w) \in Uids /\ Chosen(w) \in Hosts
  BY <1>0, <1>1 DEF HandlerInv, WorkerChose, ChosenHost
<1>3. UNCHANGED <<host, lock, current, late, stray, faults>>
  BY DEF PersistSpec, PersistAllocation, PersistMachine
<1>4. /\ machine' \in [Uids -> MachineObject]
      /\ \A m \in Uids \ {Uid(w)} : machine'[m] = machine[m]
      /\ \A m \in Uids : machine'[m].life = machine[m].life
      /\ PersistSpec(w) => machine'[Uid(w)].allocation = machine[Uid(w)].allocation
      /\ PersistAllocation(w) => machine'[Uid(w)].allocation = Chosen(w)
  <2>1. CASE PersistSpec(w)
    <3>1. worker[w].pc = "spec"
      BY <2>1 DEF PersistSpec, At
    <3>2. ~ PersistAllocation(w)
      BY <3>1 DEF PersistAllocation
    <3>3. machine' = [machine EXCEPT ![Uid(w)].hostRef = Chosen(w)]
      BY <2>1 DEF PersistSpec, PersistMachine
    <3> QED BY <1>0, <1>2, <3>2, <3>3, Typed DEF MachineObject
  <2>2. CASE PersistAllocation(w)
    <3>1. worker[w].pc # "spec"
      BY <2>2 DEF PersistAllocation
    <3>2. ~ PersistSpec(w)
      BY <3>1 DEF PersistSpec, At
    <3>3. machine' = [machine EXCEPT ![Uid(w)].allocation = Chosen(w)]
      BY <2>2 DEF PersistAllocation, PersistMachine
    <3> QED BY <1>0, <1>2, <3>2, <3>3, Typed DEF MachineObject
  <2> QED BY <2>1, <2>2
<1>5. /\ worker'[w].uid = worker[w].uid /\ worker'[w].chosen = worker[w].chosen
      /\ worker' \in [Workers -> HandlerRecord]
      /\ \A u \in Workers \ {w} : worker'[u] = worker[u]
      /\ \/ PersistSpec(w) /\ worker'[w].pc = "status" /\ worker'[w].staged = worker[w].staged
         \/ /\ PersistAllocation(w)
            /\ worker'[w].pc \in {"claimed", "available"}
  BY <1>0 DEF PersistSpec, PersistAllocation, Staged, Goto, HandlerRecord, Steps
<1>6. TypeOK'
  BY <1>0, <1>3, <1>4, <1>5, Typed DEF TypeOK, MachineObject, HandlerRecord
<1>7. Uid(w) \in Locked =>
        /\ machine[Uid(w)].allocation = None /\ machine[Uid(w)].life # "gone"
        /\ Chosen(w) \in Own(Uid(w)) /\ Own(Uid(w)) \subseteq stray \union {Chosen(w)}
  BY <1>0, <1>1
  DEF HandlerInv, LockNamesHandler, AllocationAsRead, ClaimsAsFound, Unallocated, ChosenHost,
      Present
<1>8. \A u \in Workers \ {w} : HandlerInv(u)'
  BY <1>1, <1>3, <1>4, <1>5, <1>7, OthersUndisturbed
<1>9. HandlerInv(w)'
  <2>1. CASE PersistSpec(w) /\ worker'[w].pc = "status" /\ worker'[w].staged = worker[w].staged
    BY <1>0, <1>1, <1>2, <1>3, <1>4, <1>5, <1>7, <2>1
    DEF HandlerInv, WorkerChose, LockNamesHandler, AllocationAsRead, ClaimsAsFound, CurrentAsRead,
        Active, AllocatedHost, ChosenHost, Unallocated, Present, Own
  <2>2. CASE PersistAllocation(w) /\ worker'[w].pc \in {"claimed", "available"}
    BY <1>0, <1>1, <1>2, <1>3, <1>4, <1>5, <1>7, <2>2
    DEF HandlerInv, WorkerChose, LockNamesHandler, AllocationAsRead, ClaimsAsFound, CurrentAsRead,
        Active, AllocatedHost, ChosenHost, Unallocated, Present
  <2> QED BY <1>5, <2>1, <2>2
<1>10. ObjectsInv'
  <2>0. ObjectsInv /\ (\A m : Own(m)' = Own(m)) /\ Locked \subseteq Uids
    BY <1>3 DEF InventoryInv, Own, Locked
  <2>1. \A m \in Locked : \/ machine'[m].allocation = machine[m].allocation
                          \/ /\ m = Uid(w) /\ machine[m].allocation = None
                             /\ machine'[m].allocation = Chosen(w)
    BY <1>4, <1>5, <1>7, <2>0
  <2>2. UsedIfAllocated' /\ NoStrandedHost'
    <3>1. \A m \in Locked : machine[m].allocation = None => machine[m].allocation \notin Own(m)
      BY InventoryAssumption DEF Own
    <3> QED BY <1>3, <2>0, <2>1, <3>1 DEF ObjectsInv, UsedIfAllocated, NoStrandedHost
  <2>3. OthersCameLate' /\ GoneReleased'
    BY <1>3, <1>4, <1>7, <2>0, <2>1 DEF ObjectsInv, OthersCameLate, GoneReleased
  <2>4. LateAsSent'
    <3>1. ASSUME NEW h \in Hosts, NEW object \in late[h] PROVE LatePatch(h, object)'
      <4>1. LatePatch(h, object)
        BY <2>0 DEF ObjectsInv, LateAsSent
      <4>2. Uid(w) \in Locked => host[Chosen(w)].claim = Uid(w)
        BY <1>7 DEF Own
      <4> QED BY <1>2, <1>3, <2>1, <4>1, <4>2, InventoryAssumption DEF LatePatch
    <3> QED BY <1>3, <3>1 DEF LateAsSent
  <2> QED BY <2>2, <2>3, <2>4 DEF ObjectsInv
<1> QED BY <1>6, <1>8, <1>9, <1>10 DEF InventoryInv, HandlersInv

\* An allocation that is verified is left as it is.
LEMMA BindKeepsInv ==
  ASSUME InventoryInv, NEW w \in Workers, Bind(w)
  PROVE  InventoryInv'
<1> USE DEF Uid, Chosen
<1>0. /\ HandlerInv(w) /\ worker \in [Workers -> HandlerRecord] /\ worker[w] \in HandlerRecord
      /\ TypeOK
  BY HandlerTyped DEF InventoryInv
<1>1. worker[w].pc = "bind" /\ Active(w) /\ ReadsOnly
  BY DEF Bind, At, Active
<1>2. CASE Goto(w, "end")
  BY <1>0, <1>1, <1>2, Typed, EndsEarly DEF ReadsOnly
<1>3. CASE Staged(w)
  <2>1. /\ worker'[w].pc = "claimed" /\ worker'[w].uid = worker[w].uid
        /\ worker'[w].chosen = worker[w].chosen
        /\ worker' \in [Workers -> HandlerRecord]
        /\ \A u \in Workers \ {w} : worker'[u] = worker[u]
    BY <1>0, <1>3 DEF Staged, HandlerRecord, Steps
  <2>2. HandlerInv(w)'
    BY <1>0, <1>1, <2>1
    DEF HandlerInv, WorkerChose, LockNamesHandler, AllocationAsRead, ClaimsAsFound, CurrentAsRead,
        Active, AllocatedHost, ChosenHost, Unallocated, Present, ReadsOnly
  <2> QED BY <1>0, <1>1, <2>1, <2>2, Typed, OnlyMoves DEF ReadsOnly
<1> QED BY <1>2, <1>3 DEF Bind

\* A handler that has its host's claim changes the phase of that host and goes
\* on; the patch that makes it Available is the one whose answer it keeps.
LEMMA PhaseKeepsInv ==
  ASSUME InventoryInv, NEW w \in Workers, NEW phase \in Phases,
         NEW next \in {"bootstrap", "clean", "end", "unclaim"}, NEW known \in SUBSET {w},
         worker[w].pc \in AllocatedHost, host[Chosen(w)].claim = Uid(w), Goto(w, next),
         PatchHost(Chosen(w), [host[Chosen(w)] EXCEPT !.phase = phase], known),
         next = "unclaim" => phase = "Available"
  PROVE  InventoryInv'
<1> USE DEF Uid, Chosen
<1> DEFINE h == Chosen(w)
<1>0. /\ HandlerInv(w) /\ worker \in [Workers -> HandlerRecord] /\ worker[w] \in HandlerRecord
      /\ TypeOK
  BY HandlerTyped DEF InventoryInv
<1>1. Active(w) /\ Uid(w) \in Uids /\ Uid(w) # None /\ h \in Hosts
  BY <1>0, InventoryAssumption DEF Active, AllocatedHost, HandlerInv, WorkerChose
<1>2. /\ worker'[w].pc = next /\ worker'[w].uid = worker[w].uid
      /\ worker'[w].chosen = h /\ worker'[w].staged = worker[w].staged
      /\ worker' \in [Workers -> HandlerRecord]
      /\ \A u \in Workers \ {w} : worker'[u] = worker[u]
  BY <1>0 DEF Goto, HandlerRecord, Steps
<1> HIDE DEF h
<1>3. /\ host' \in [Hosts -> HostObject]
      /\ host'[h].claim = host[h].claim /\ host'[h].phase = phase
      /\ \A i \in Hosts \ {h} : host'[i] = host[i]
      /\ \A i \in Hosts : host'[i].claim = host[i].claim
      /\ UNCHANGED <<stray, machine, lock, faults>>
  BY <1>0, <1>1, Typed DEF PatchHost, HostObject, h
<1>4. /\ current' \in [Workers -> SUBSET Hosts]
      /\ late' \in [Hosts -> SUBSET HostObject]
      /\ \A i \in Hosts : late'[i] \subseteq late[i]
      /\ \/ (\A u \in Workers \ {w} : current'[u] = current[u] \ {h}) /\ late'[h] = {}
         \/ (\A u \in Workers \ {w} : current'[u] = current[u]) /\ host' = host
  <2>1. CASE NewVersion(h, known)
    BY <1>0, <1>1, <2>1, Typed DEF NewVersion
  <2>2. CASE /\ [host[h] EXCEPT !.phase = phase] = host[h]
             /\ current' = [u \in Workers |-> IF u \in known THEN {h} ELSE current[u]]
             /\ UNCHANGED late
    <3>1. host' = host
      BY <1>0, <1>1, <2>2, Typed DEF PatchHost, h
    <3> QED BY <1>0, <1>1, <2>2, <3>1, Typed
  <2> QED BY <2>1, <2>2 DEF PatchHost, h
<1>5. TypeOK'
  BY <1>0, <1>2, <1>3, <1>4, Typed DEF TypeOK, MachineObject, HandlerRecord
<1>6. \A u \in Workers \ {w} : HandlerInv(u)'
  <2>1. \A u \in Workers \ {w} : /\ current'[u] \subseteq current[u]
                                 /\ \A i \in current'[u] : host'[i] = host[i]
    <3>1. \A u \in Workers : current[u] \subseteq Hosts
      BY <1>0, Typed
    <3> QED BY <1>3, <1>4, <3>1
  <2> QED BY <1>1, <1>2, <1>3, <2>1, OthersUndisturbed
<1>7. HandlerInv(w)'
  BY <1>0, <1>1, <1>2, <1>3
  DEF HandlerInv, WorkerChose, LockNamesHandler, AllocationAsRead, ClaimsAsFound, CurrentAsRead,
      Active, AllocatedHost, ChosenHost, Unallocated, Present, Phases, h
<1>8. ObjectsInv'
  <2>0. ObjectsInv /\ \A m : Own(m)' = Own(m) /\ Own(m) \subseteq Hosts
    BY <1>3 DEF InventoryInv, Own
  <2>1. OthersCameLate' /\ GoneReleased'
    BY <1>3, <2>0 DEF ObjectsInv, OthersCameLate, GoneReleased
  <2>2. NoStrandedHost'
    BY <1>1, <1>3 DEF InventoryInv, ObjectsInv, NoStrandedHost, h
  <2>3. UsedIfAllocated'
    <3>1. Uid(w) \in Locked => machine[Uid(w)].allocation = h
      BY <1>0 DEF HandlerInv, AllocationAsRead, h
    <3>2. \A m \in Locked \ {Uid(w)} : h \notin Own(m)
      BY DEF Own, h
    <3> QED BY <1>3, <2>0, <3>1, <3>2 DEF ObjectsInv, UsedIfAllocated
  <2>4. LateAsSent'
    <3>1. ASSUME NEW i \in Hosts, NEW object \in late'[i] PROVE LatePatch(i, object)'
      <4>1. LatePatch(i, object) /\ host'[i].claim = host[i].claim /\ UNCHANGED machine
        BY <1>3, <1>4, <2>0, <3>1 DEF ObjectsInv, LateAsSent
      <4> QED BY <4>1 DEF LatePatch
    <3> QED BY <3>1 DEF LateAsSent
  <2> QED BY <2>1, <2>2, <2>3, <2>4 DEF ObjectsInv
<1> QED BY <1>5, <1>6, <1>7, <1>8 DEF InventoryInv, HandlersInv

\* set_host_phase by the consumer of record, or by another one
LEMMA SetHostPhaseKeepsInv ==
  ASSUME InventoryInv, NEW w \in Workers, NEW phase \in Phases,
         NEW next \in {"bootstrap", "clean", "end"}, worker[w].pc \in AllocatedHost,
         SetHostPhase(w, phase, next)
  PROVE  InventoryInv'
<1>1. CASE /\ host[Chosen(w)].claim = Uid(w)
           /\ PatchHost(Chosen(w), [host[Chosen(w)] EXCEPT !.phase = phase], {})
           /\ Goto(w, next)
  BY <1>1, PhaseKeepsInv
<1>2. CASE Goto(w, "end") /\ ReadsOnly
  BY <1>2, EndsEarly DEF InventoryInv, TypeOK, ReadsOnly, Active, AllocatedHost
<1> QED BY <1>1, <1>2 DEF SetHostPhase

\* A handler that is done with the host, or has nothing to do with it, goes on
\* to give it back.
LEMMA OnToRelease ==
  ASSUME InventoryInv, NEW w \in Workers, worker[w].pc \in AllocatedHost,
         Goto(w, "available"), ReadsOnly
  PROVE  InventoryInv'
<1> USE DEF Uid, Chosen
<1>0. /\ HandlerInv(w) /\ worker \in [Workers -> HandlerRecord] /\ worker[w] \in HandlerRecord
      /\ TypeOK
  BY HandlerTyped DEF InventoryInv
<1>1. Active(w)
  BY DEF Active, AllocatedHost
<1>2. /\ worker'[w].pc = "available" /\ worker'[w].uid = worker[w].uid
      /\ worker'[w].chosen = worker[w].chosen /\ worker'[w].staged = worker[w].staged
      /\ worker' \in [Workers -> HandlerRecord]
      /\ \A u \in Workers \ {w} : worker'[u] = worker[u]
  BY <1>0 DEF Goto, HandlerRecord, Steps
<1>3. HandlerInv(w)'
  BY <1>0, <1>1, <1>2
  DEF HandlerInv, WorkerChose, LockNamesHandler, AllocationAsRead, ClaimsAsFound, CurrentAsRead,
      Active, AllocatedHost, ChosenHost, Unallocated, Present, ReadsOnly
<1> QED BY <1>0, <1>1, <1>2, <1>3, Typed, OnlyMoves DEF ReadsOnly

\* The steps of bootstrap and of cleanup that record the phase of the host
LEMMA PhaseStepsKeepInv ==
  ASSUME InventoryInv, NEW w \in Workers,
         MarkClaimed(w) \/ Bootstrap(w) \/ MarkCleaning(w) \/ Clean(w)
  PROVE  InventoryInv'
<1> USE DEF AllocatedHost, Phases, At
<1>1. worker[w].pc \in AllocatedHost /\ Active(w)
  BY DEF MarkClaimed, Bootstrap, MarkCleaning, Clean, Active
<1>2. CASE MarkClaimed(w)
  BY <1>2, SetHostPhaseKeepsInv DEF MarkClaimed
<1>3. CASE Goto(w, "end") /\ ReadsOnly
  BY <1>1, <1>3, EndsEarly DEF InventoryInv, TypeOK, ReadsOnly
<1>4. CASE Goto(w, "available") /\ ReadsOnly
  BY <1>1, <1>4, OnToRelease
<1>5. CASE SetHostPhase(w, "Quarantined", "end") \/ SetHostPhase(w, "Cleaning", "clean")
  BY <1>1, <1>5, SetHostPhaseKeepsInv
<1> QED BY <1>2, <1>3, <1>4, <1>5 DEF Bootstrap, MarkCleaning, Clean

\* recover_unstarted_claim finds the one claim of the Machine, or none.
LEMMA RecoverKeepsInv ==
  ASSUME InventoryInv, NEW w \in Workers, Recover(w)
  PROVE  InventoryInv'
<1> USE DEF Uid, Chosen
<1>0. /\ HandlerInv(w) /\ worker \in [Workers -> HandlerRecord] /\ worker[w] \in HandlerRecord
      /\ TypeOK
  BY HandlerTyped DEF InventoryInv
<1>1. worker[w].pc = "recover" /\ Active(w) /\ ReadsOnly
  BY DEF Recover, At, Active
<1>2. CASE /\ Cardinality(Own(Uid(w))) = 1
           /\ \E h \in Own(Uid(w)) : worker' = [worker EXCEPT ![w].chosen = h,
                ![w].pc = IF worker[w].ref \in {h, None} THEN "adopt" ELSE "end"]
  <2>1. PICK h \in Own(Uid(w)) : worker' = [worker EXCEPT ![w].chosen = h,
               ![w].pc = IF worker[w].ref \in {h, None} THEN "adopt" ELSE "end"]
    BY <1>2
  <2>2. h \in Hosts /\ Own(Uid(w)) = {h}
    <3>1. Cardinality(Own(Uid(w))) = 1 => \E i \in Hosts : Own(Uid(w)) = {i}
      BY HandlerTyped
    <3>2. PICK i \in Hosts : Own(Uid(w)) = {i}
      BY <1>2, <3>1
    <3> QED BY <2>1, <3>2
  <2>3. PICK p \in {"end", "adopt"} : worker' = [worker EXCEPT ![w].chosen = h, ![w].pc = p]
    BY <2>1
  <2>4. /\ worker'[w].pc = p /\ worker'[w].uid = worker[w].uid
        /\ worker'[w].chosen = h /\ worker'[w].staged = worker[w].staged
        /\ worker' \in [Workers -> HandlerRecord]
        /\ \A u \in Workers \ {w} : worker'[u] = worker[u]
    BY <1>0, <2>2, <2>3 DEF HandlerRecord, Steps
  <2>5. HandlerInv(w)'
    BY <1>0, <1>1, <2>2, <2>4, InventoryAssumption
    DEF HandlerInv, WorkerChose, LockNamesHandler, AllocationAsRead, ClaimsAsFound, CurrentAsRead,
        Active, AllocatedHost, ChosenHost, Unallocated, Present, Own, ReadsOnly
  <2> QED BY <1>0, <1>1, <2>4, <2>5, Typed, OnlyMoves DEF ReadsOnly
<1>3. CASE Own(Uid(w)) = {} /\ Goto(w, "finish")
  <2>1. /\ worker'[w].pc = "finish" /\ worker'[w].uid = worker[w].uid
        /\ worker'[w].chosen = worker[w].chosen /\ worker'[w].staged = worker[w].staged
        /\ worker' \in [Workers -> HandlerRecord]
        /\ \A u \in Workers \ {w} : worker'[u] = worker[u]
    BY <1>0, <1>3 DEF Goto, HandlerRecord, Steps
  <2>2. HandlerInv(w)'
    BY <1>0, <1>1, <1>3, <2>1
    DEF HandlerInv, WorkerChose, LockNamesHandler, AllocationAsRead, ClaimsAsFound, CurrentAsRead,
        Active, AllocatedHost, ChosenHost, Unallocated, Present, Own, ReadsOnly
  <2> QED BY <1>0, <1>1, <2>1, <2>2, Typed, OnlyMoves DEF ReadsOnly
<1>4. CASE Goto(w, "end")
  BY <1>0, <1>1, <1>4, Typed, EndsEarly DEF ReadsOnly
<1> QED BY <1>2, <1>3, <1>4 DEF Recover

\* release_host: a host that has no consumer is not the Machine's any more,
\* and as the allocation names it the others came late.
LEMMA MakeAvailableKeepsInv ==
  ASSUME InventoryInv, NEW w \in Workers, MakeAvailable(w)
  PROVE  InventoryInv'
<1>0. /\ HandlerInv(w) /\ worker \in [Workers -> HandlerRecord] /\ worker[w] \in HandlerRecord
      /\ TypeOK /\ OthersCameLate
  BY HandlerTyped DEF InventoryInv, ObjectsInv
<1>1. worker[w].pc = "available" /\ Active(w) /\ worker[w].pc \in AllocatedHost
  BY DEF MakeAvailable, At, Active, AllocatedHost
<1>2. Uid(w) \in Uids /\ Uid(w) # None /\ Chosen(w) \in Hosts
  BY <1>0, <1>1, InventoryAssumption DEF HandlerInv, WorkerChose
<1>3. CASE /\ host[Chosen(w)].claim = Uid(w)
           /\ PatchHost(Chosen(w), [host[Chosen(w)] EXCEPT !.phase = "Available"], {w})
           /\ Goto(w, "unclaim")
  BY <1>1, <1>3, PhaseKeepsInv DEF Phases
<1>4. CASE host[Chosen(w)].claim = None /\ Goto(w, "finish") /\ ReadsOnly
  <2>1. /\ worker'[w].pc = "finish" /\ worker'[w].uid = worker[w].uid
        /\ worker'[w].chosen = worker[w].chosen /\ worker'[w].staged = worker[w].staged
        /\ worker' \in [Workers -> HandlerRecord]
        /\ \A u \in Workers \ {w} : worker'[u] = worker[u]
    BY <1>0, <1>4 DEF Goto, HandlerRecord, Steps
  <2>2. Uid(w) \in Locked => Own(Uid(w)) \subseteq stray \ {machine[Uid(w)].allocation}
    <3>1. Uid(w) \in Locked => machine[Uid(w)].allocation = Chosen(w) /\ Chosen(w) # None
      BY <1>0, <1>1, <1>2, InventoryAssumption DEF HandlerInv, AllocationAsRead
    <3>2. Uid(w) \in Locked => Own(Uid(w)) \subseteq stray \union {Chosen(w)}
      BY <1>0, <3>1 DEF OthersCameLate
    <3> QED BY <1>2, <1>4, <3>1, <3>2 DEF Own
  <2>3. HandlerInv(w)'
    BY <1>0, <1>1, <1>4, <2>1, <2>2
    DEF HandlerInv, WorkerChose, LockNamesHandler, AllocationAsRead, ClaimsAsFound, CurrentAsRead,
        Active, AllocatedHost, ChosenHost, Unallocated, Present, Own, ReadsOnly, Uid, Chosen
  <2> QED BY <1>0, <1>1, <1>4, <2>1, <2>3, Typed, OnlyMoves DEF ReadsOnly
<1>5. CASE Goto(w, "end") /\ ReadsOnly
  BY <1>0, <1>1, <1>5, Typed, EndsEarly DEF ReadsOnly
<1> QED BY <1>3, <1>4, <1>5 DEF MakeAvailable

\* The claim is cleared on a host that is still as the handler left it.
LEMMA ClearClaimKeepsInv ==
  ASSUME InventoryInv, NEW w \in Workers, ClearClaim(w)
  PROVE  InventoryInv'
<1> USE DEF Uid, Chosen
<1> DEFINE h == Chosen(w)
<1>0. /\ HandlerInv(w) /\ worker \in [Workers -> HandlerRecord] /\ worker[w] \in HandlerRecord
      /\ TypeOK /\ ObjectsInv
  BY HandlerTyped DEF InventoryInv
<1>1. worker[w].pc = "unclaim" /\ Active(w)
  BY DEF ClearClaim, At, Active
<1>2. Uid(w) \in Uids /\ Uid(w) # None /\ h \in Hosts
  BY <1>0, <1>1, InventoryAssumption DEF HandlerInv, WorkerChose, AllocatedHost
<1>3. CASE /\ h \in current[w]
           /\ PatchHost(h, [host[h] EXCEPT !.claim = None], {})
           /\ Goto(w, "finish")
  <2>1. host[h].claim = Uid(w) /\ host[h].phase = "Available"
    BY <1>0, <1>1, <1>3 DEF HandlerInv, CurrentAsRead
  <2>2. /\ worker'[w].pc = "finish" /\ worker'[w].uid = worker[w].uid
        /\ worker'[w].chosen = h /\ worker'[w].staged = worker[w].staged
        /\ worker' \in [Workers -> HandlerRecord]
        /\ \A u \in Workers \ {w} : worker'[u] = worker[u]
    BY <1>0, <1>3 DEF Goto, HandlerRecord, Steps
  <2> HIDE DEF h
  <2>3. /\ host' \in [Hosts -> HostObject]
        /\ host'[h].claim = None /\ host'[h].phase = host[h].phase
        /\ \A i \in Hosts \ {h} : host'[i] = host[i]
        /\ UNCHANGED <<machine, lock, faults>>
    BY <1>0, <1>2, <1>3, Typed DEF PatchHost, HostObject
  <2>4. /\ current' \in [Workers -> SUBSET Hosts]
        /\ \A u \in Workers : current'[u] = current[u] \ {h}
        /\ late' \in [Hosts -> SUBSET HostObject]
        /\ late'[h] = {}
        /\ \A i \in Hosts \ {h} : late'[i] = late[i]
        /\ stray' = stray \ {h}
    <3>1. [host[h] EXCEPT !.claim = None].claim = None
      BY <1>0, <1>2, Typed DEF HostObject
    <3>2. NewVersion(h, {}) /\ stray' = stray \ {h}
      BY <1>2, <1>3, <2>1, <3>1 DEF PatchHost
    <3> QED BY <1>0, <1>2, <3>2, Typed DEF NewVersion
  <2>5. TypeOK'
    BY <1>0, <2>2, <2>3, <2>4, Typed DEF TypeOK, MachineObject, HandlerRecord
  <2>6. \A u \in Workers \ {w} : HandlerInv(u)'
    <3>1. \A i \in Hosts : \/ host'[i].claim = host[i].claim /\ (i \in stray => i \in stray')
                           \/ {host'[i].claim, host[i].claim} \subseteq {Uid(w), None}
      BY <2>1, <2>3, <2>4
    <3>2. \A u \in Workers : current'[u] \subseteq current[u] /\ current'[u] \subseteq Hosts \ {h}
      BY <1>0, <2>4, Typed
    <3> QED BY <1>1, <2>2, <2>3, <3>1, <3>2, OthersUndisturbed
  <2>7. \A m \in Uids : Own(m)' \subseteq Own(m) \ {h}
    BY <2>3, InventoryAssumption DEF Own
  <2>8. Uid(w) \in Locked =>
          Own(worker[w].uid)' \subseteq stray' \ {machine[Uid(w)].allocation}
    <3>1. Uid(w) \in Locked => machine[Uid(w)].allocation = h /\ h # None
      BY <1>0, <1>1, <1>2, InventoryAssumption
      DEF HandlerInv, AllocationAsRead, AllocatedHost, h
    <3>2. Uid(w) \in Locked => Own(Uid(w)) \subseteq stray \union {h}
      BY <1>0, <3>1 DEF ObjectsInv, OthersCameLate
    <3>3. Own(worker[w].uid)' \subseteq Own(Uid(w)) \ {h}
      BY <1>2, <2>2, <2>3, InventoryAssumption DEF Own
    <3> QED BY <2>4, <3>1, <3>2, <3>3
  <2>9. HandlerInv(w)'
    BY <1>0, <1>1, <1>2, <2>2, <2>3, <2>4, <2>8
    DEF HandlerInv, WorkerChose, LockNamesHandler, AllocationAsRead, ClaimsAsFound, CurrentAsRead,
        Active, AllocatedHost, ChosenHost, Unallocated, Present, h
  <2>10. ObjectsInv'
    <3>1. OthersCameLate' /\ GoneReleased'
      BY <1>0, <2>3, <2>4, <2>7 DEF ObjectsInv, OthersCameLate, GoneReleased, Locked
    <3>2. NoStrandedHost'
      BY <1>0, <2>1, <2>3 DEF ObjectsInv, NoStrandedHost
    <3>3. UsedIfAllocated'
      <4>1. \A m \in Uids : Own(m) \subseteq Hosts
        BY DEF Own
      <4> QED BY <1>0, <2>3, <2>7, <4>1 DEF ObjectsInv, UsedIfAllocated, Locked
    <3>4. LateAsSent'
      BY <1>0, <2>3, <2>4 DEF ObjectsInv, LateAsSent, LatePatch
    <3> QED BY <3>1, <3>2, <3>3, <3>4 DEF ObjectsInv
  <2> QED BY <2>5, <2>6, <2>9, <2>10 DEF InventoryInv, HandlersInv
<1>4. CASE Goto(w, "end") /\ ReadsOnly
  BY <1>0, <1>1, <1>4, Typed, EndsEarly DEF ReadsOnly
<1> QED BY <1>3, <1>4 DEF ClearClaim

\* The finalizer is removed when no claim is left but those that came late.
LEMMA FinishKeepsInv ==
  ASSUME InventoryInv, NEW w \in Workers, Finish(w)
  PROVE  InventoryInv'
<1> USE DEF Uid, Chosen
<1>0. /\ HandlerInv(w) /\ worker \in [Workers -> HandlerRecord] /\ worker[w] \in HandlerRecord
      /\ TypeOK /\ ObjectsInv
  BY HandlerTyped DEF InventoryInv
<1>1. worker[w].pc = "finish" /\ Active(w)
  BY DEF Finish, At, Active
<1>2. /\ Uid(w) \in Uids
      /\ Uid(w) \in Locked => Own(Uid(w)) \subseteq stray \ {machine[Uid(w)].allocation}
  BY <1>0, <1>1 DEF HandlerInv, WorkerChose, ClaimsAsFound
<1>3. /\ worker' \in [Workers -> HandlerRecord]
      /\ worker'[w] = Idle
      /\ \A u \in Workers \ {w} : worker'[u] = worker[u]
  BY <1>0, Moves DEF Finish, Steps
<1>4. /\ machine' \in [Uids -> MachineObject]
      /\ \A m \in Uids : machine'[m].allocation = machine[m].allocation
      /\ \A m \in Uids \ {Uid(w)} : machine'[m] = machine[m]
      /\ lock' \in [Uids -> Workers \union {None}]
      /\ \A m \in Uids \ {Uid(w)} : lock'[m] = lock[m]
      /\ current' \in [Workers -> SUBSET Hosts]
      /\ \A u \in Workers \ {w} : current'[u] = current[u]
      /\ UNCHANGED <<host, late, stray, faults>>
  BY <1>0, <1>2, Typed DEF Finish, Forget, MachineObject
<1>5. TypeOK'
  BY <1>0, <1>3, <1>4, Typed DEF TypeOK, MachineObject, HandlerRecord
<1>6. \A u \in Workers \ {w} : HandlerInv(u)'
  BY <1>1, <1>2, <1>3, <1>4, OthersUndisturbed
<1>7. HandlerInv(w)'
  BY <1>3, InventoryAssumption
  DEF HandlerInv, WorkerChose, LockNamesHandler, AllocationAsRead, ClaimsAsFound, CurrentAsRead,
      Active, AllocatedHost, ChosenHost, Unallocated, Idle
<1>8. ObjectsInv'
  <2>0. (\A m : Own(m)' = Own(m)) /\ Locked \subseteq Uids
    BY <1>4 DEF Own, Locked
  <2>1. UsedIfAllocated' /\ NoStrandedHost'
    BY <1>0, <1>4, <2>0 DEF ObjectsInv, UsedIfAllocated, NoStrandedHost
  <2>2. OthersCameLate' /\ GoneReleased'
    <3>1. OthersCameLate'
      BY <1>0, <1>2, <1>4, <2>0 DEF ObjectsInv, OthersCameLate
    <3>2. GoneReleased'
      BY <1>0, <1>2, <1>4, <2>0 DEF ObjectsInv, GoneReleased
    <3> QED BY <3>1, <3>2
  <2>3. \A h, object : LatePatch(h, object) => LatePatch(h, object)'
    BY <1>4, <2>0 DEF LatePatch
  <2>4. LateAsSent'
    BY <1>0, <1>4, <2>3 DEF ObjectsInv, LateAsSent
  <2> QED BY <2>1, <2>2, <2>4 DEF ObjectsInv
<1> QED BY <1>5, <1>6, <1>7, <1>8 DEF InventoryInv, HandlersInv

\* A claim that comes late is one more claim of its Machine, on a host that is
\* not its allocation; a release that comes late is one of the allocation.
LEMMA LateCommitKeepsInv ==
  ASSUME InventoryInv, NEW h \in Hosts, LateCommit(h)
  PROVE  InventoryInv'
<1>0. TypeOK /\ ObjectsInv
  BY DEF InventoryInv
<1>1. PICK object \in late[h] :
        /\ host' = [host EXCEPT ![h] = object]
        /\ stray' = IF object.claim = host[h].claim THEN stray
                    ELSE IF object.claim = None THEN stray \ {h} ELSE stray \union {h}
  BY DEF LateCommit
<1>2. LatePatch(h, object) /\ object \in HostObject
  BY <1>0, Typed DEF ObjectsInv, LateAsSent
<1>3. /\ host' \in [Hosts -> HostObject]
      /\ host'[h] = object
      /\ \A i \in Hosts \ {h} : host'[i] = host[i]
      /\ UNCHANGED <<machine, lock, worker, faults>>
  BY <1>0, <1>1, <1>2, Typed DEF LateCommit
<1>4. /\ current' \in [Workers -> SUBSET Hosts]
      /\ \A u \in Workers : current'[u] = current[u] \ {h}
      /\ late' \in [Hosts -> SUBSET HostObject]
      /\ late'[h] = {}
      /\ \A i \in Hosts \ {h} : late'[i] = late[i]
      /\ stray' \in SUBSET Hosts
      /\ \A i \in Hosts \ {h} : i \in stray' <=> i \in stray
  BY <1>0, <1>1, Typed DEF LateCommit, NewVersion
<1>5. TypeOK'
  BY <1>0, <1>3, <1>4, Typed DEF TypeOK, MachineObject, HandlerRecord
<1>6. ASSUME NEW m \in Locked
      PROVE  /\ h \in Own(m)' => \/ h \in Own(m) /\ h = machine[m].allocation
                                                    /\ (h \in stray => h \in stray')
                                \/ /\ h \in stray' /\ h # machine[m].allocation
                                   /\ object.phase = "Available"
             /\ h \in Own(m) /\ h \notin Own(m)' => h = machine[m].allocation
             /\ Own(m)' \subseteq Own(m) \union {h}
             /\ Own(m) \subseteq Own(m)' \union {h}
             /\ Own(m) \subseteq Hosts
  <2>0. m \in Uids /\ m # None
    BY InventoryAssumption DEF Locked
  <2>1. \A i \in Hosts : i \in Own(m)' <=> host'[i].claim = m
    BY DEF Own
  <2>2. \A i \in Hosts : i \in Own(m) <=> host[i].claim = m
    BY DEF Own
  <2>3. Own(m) \subseteq Hosts /\ Own(m)' \subseteq Hosts
    BY DEF Own
  <2>4. CASE host[h].claim = None
    <3>1. /\ object.claim # None /\ object.phase = "Available"
          /\ object.claim = m => machine[m].allocation # h
          /\ h \in stray'
      BY <1>1, <1>2, <1>6, <2>4, InventoryAssumption DEF LatePatch
    <3> QED BY <1>3, <2>0, <2>1, <2>2, <2>3, <2>4, <3>1
  <2>5. CASE host[h].claim # None
    <3>1. /\ object.claim = host[h].claim \/ object.claim = None
          /\ host[h].claim = m => machine[m].allocation = h
          /\ object.claim = host[h].claim => stray' = stray
      BY <1>1, <1>2, <1>6, <2>5 DEF LatePatch
    <3> QED BY <1>3, <2>0, <2>1, <2>2, <2>3, <2>5, <3>1
  <2> QED BY <2>4, <2>5
<1>7. ASSUME NEW u \in Workers PROVE HandlerInv(u)'
  <2>1. Uid(u) \in Locked => \A i \in Hosts : ClaimFollows(Uid(u), i)
    <3>1. SUFFICES ASSUME Uid(u) \in Locked, NEW i \in Hosts PROVE ClaimFollows(Uid(u), i)
      OBVIOUS
    <3>2. CASE i # h
      BY <1>3, <1>4, <3>2 DEF ClaimFollows
    <3>3. CASE i = h
      <4> DEFINE m == Uid(u)
      <4>1. m \in Locked
        BY <3>1
      <4> HIDE DEF m
      <4>2. /\ host'[h].claim = m <=> h \in Own(m)'
            /\ host[h].claim = m <=> h \in Own(m)
        <5>1. m' = m
          BY <1>3 DEF m, Uid
        <5> QED BY <5>1 DEF Own
      <4>3. machine[m].allocation = None => machine[m].allocation # h
        BY InventoryAssumption
      <4>4. ClaimFollows(m, h)
        <5>1. /\ h \in Own(m)' => \/ h \in Own(m) /\ (h \in stray => h \in stray')
                                  \/ h \in stray' /\ h # machine[m].allocation
              /\ h \in Own(m) /\ machine[m].allocation = None => h \in Own(m)'
          <6>1. \A n \in Locked :
                  /\ host'[h].claim = n =>
                       \/ host[h].claim = n /\ (h \in stray => h \in stray')
                       \/ h \in stray' /\ h # machine[n].allocation
                  /\ host[h].claim = n /\ host'[h].claim # n => h = machine[n].allocation
            BY <1>6 DEF Own
          <6> QED BY <4>1, <4>2, <4>3, <6>1
        <5> QED BY <4>2, <5>1 DEF ClaimFollows
      <4> QED BY <3>3, <4>4 DEF m
    <3> QED BY <3>2, <3>3
  <2>2. current[u] \subseteq Hosts
    BY <1>0, Typed
  <2>3. Present(Uid(u)) => Present(Uid(u))'
    BY <1>3 DEF Uid, Present
  <2> QED BY <1>3, <1>4, <2>1, <2>2, <2>3, Undisturbed
<1>8. ObjectsInv'
  <2>1. UsedIfAllocated'
    BY <1>0, <1>3, <1>6 DEF ObjectsInv, UsedIfAllocated
  <2>2. OthersCameLate'
    BY <1>0, <1>3, <1>4, <1>6 DEF ObjectsInv, OthersCameLate
  <2>3. GoneReleased'
    BY <1>0, <1>3, <1>6 DEF ObjectsInv, GoneReleased
  <2>4. NoStrandedHost'
    BY <1>0, <1>2, <1>3, InventoryAssumption DEF ObjectsInv, NoStrandedHost, LatePatch
  <2>5. LateAsSent'
    BY <1>0, <1>3, <1>4 DEF ObjectsInv, LateAsSent, LatePatch
  <2> QED BY <2>1, <2>2, <2>3, <2>4, <2>5 DEF ObjectsInv
<1> QED BY <1>5, <1>7, <1>8 DEF InventoryInv, HandlersInv

\* Every step of a handler, of a user and of the prober keeps the invariant.
LEMMA InventoryInvStep == InventoryInv /\ [Next]_vars => InventoryInv'
<1> SUFFICES ASSUME InventoryInv, [Next]_vars PROVE InventoryInv'
  OBVIOUS
<1>1. CASE (\E m \in Uids : CreateMachine(m) \/ DeleteMachine(m)) \/ (\E h \in Hosts : Probe(h))
  BY <1>1, UsersKeepInv
<1>2. ASSUME NEW w \in Workers, Handler(w) PROVE InventoryInv'
  <2>1. CASE NotFound(w)
    BY <2>1, EndsEarly DEF NotFound, ReadsOnly, Active, InventoryInv, TypeOK
  <2> QED
    BY <1>2, <2>1, EndKeepsInv, ApplyPatchKeepsInv, ListHostsKeepsInv, TryClaimKeepsInv,
       PersistKeepsInv, BindKeepsInv, PhaseStepsKeepInv, RecoverKeepsInv, MakeAvailableKeepsInv,
       ClearClaimKeepsInv, FinishKeepsInv
    DEF Handler
<1>3. ASSUME NEW w \in Workers, Raise(w) PROVE InventoryInv'
  <2>1. faults' \in 0 .. MaxFaults
    BY <1>3, InventoryAssumption DEF Raise, InventoryInv, TypeOK
  <2>2. late' \in [Hosts -> SUBSET HostObject] /\ LateAsSent'
    BY <1>3, GivesUpLate DEF Raise
  <2> QED BY <1>3, <2>1, <2>2, EndsEarly DEF Raise, Active
<1>4. ASSUME NEW w \in Workers, Crash(w) \/ \E m \in Uids : Begin(w, m) PROVE InventoryInv'
  BY <1>4, EndKeepsInv, BeginKeepsInv
<1>5. CASE UNCHANGED vars
  <2>1. TypeOK'
    BY <1>5 DEF vars, InventoryInv, TypeOK
  <2>2. HandlersInv'
    BY <1>5
    DEF vars, InventoryInv, HandlersInv, HandlerInv, WorkerChose, LockNamesHandler,
        AllocationAsRead, ClaimsAsFound, CurrentAsRead, Active, Uid, Chosen, Present, Own, Eligible
  <2>3. ObjectsInv'
    BY <1>5, ObjectsKept DEF vars
  <2> QED BY <2>1, <2>2, <2>3 DEF InventoryInv
<1> QED BY <1>1, <1>2, <1>3, <1>4, <1>5, LateCommitKeepsInv DEF Next

-----------------------------------------------------------------------------
(* What a step does to the claims and to the allocations *)

\* No claim changes; at most the host that a Machine has claimed is recorded.
ClaimsKept ==
  /\ \A h \in Hosts : host'[h].claim = host[h].claim
  /\ UNCHANGED stray
  /\ \A m \in Locked :
       \/ machine'[m].allocation = machine[m].allocation
       \/ machine[m].allocation = None /\ machine'[m].allocation \in Own(m) \ stray

\* A Machine that neither has nor had a host is bound to one whose claim came
\* late.
ClaimFound(m, h) ==
  /\ \A i \in Hosts : host'[i].claim = host[i].claim
  /\ UNCHANGED stray
  /\ m \in Locked /\ h \in Own(m) /\ Own(m) \subseteq stray
  /\ machine[m].allocation = None /\ machine'[m].allocation = h
  /\ \A n \in Locked \ {m} : machine'[n].allocation = machine[n].allocation

\* A Machine that neither has nor had a host claims a free one.
ClaimMade(m, h) ==
  /\ host[h].claim = None
  /\ host'[h].claim = m
  /\ \A i \in Hosts \ {h} : host'[i].claim = host[i].claim
  /\ stray' = stray \ {h}
  /\ UNCHANGED machine
  /\ m \in Locked => machine[m].allocation = None /\ Own(m) \subseteq stray

\* A claim comes late, on a host that is not the allocation of the Machine.
ClaimCame(m, h) ==
  /\ host[h].claim = None
  /\ host'[h].claim = m
  /\ \A i \in Hosts \ {h} : host'[i].claim = host[i].claim
  /\ stray' = stray \union {h}
  /\ UNCHANGED machine
  /\ m \in Locked => machine[m].allocation # h

\* A Machine gives back the host that its allocation names.
ClaimCleared(m, h) ==
  /\ host[h].claim = m
  /\ host'[h].claim = None
  /\ \A i \in Hosts \ {h} : host'[i].claim = host[i].claim
  /\ stray' = stray \ {h}
  /\ UNCHANGED machine
  /\ m \in Locked => machine[m].allocation = h

ClaimStep ==
  \/ ClaimsKept
  \/ \E m \in Uids, h \in Hosts :
       ClaimFound(m, h) \/ ClaimMade(m, h) \/ ClaimCame(m, h) \/ ClaimCleared(m, h)

\* Every step is one of these five.
LEMMA ClaimSteps == InventoryInv /\ [Next]_vars => ClaimStep
<1> SUFFICES ASSUME InventoryInv, [Next]_vars PROVE ClaimStep
  OBVIOUS
<1> USE Typed DEF InventoryInv
<1>1. CASE UNCHANGED <<host, stray, machine>>
  BY <1>1 DEF ClaimStep, ClaimsKept
<1>2. CASE UNCHANGED vars \/ \E w \in Workers : Raise(w) \/ Crash(w) \/ \E m \in Uids : Begin(w, m)
  BY <1>1, <1>2 DEF vars, Raise, Crash, Begin
<1>3. CASE \E m \in Uids : CreateMachine(m) \/ DeleteMachine(m)
  <2>1. PICK m \in Uids, life \in {"live", "deleting"} :
          machine' = [machine EXCEPT ![m].life = life] /\ UNCHANGED <<host, stray>>
    BY <1>3 DEF CreateMachine, DeleteMachine
  <2>2. \A n \in Uids : machine'[n].allocation = machine[n].allocation
    BY <2>1 DEF MachineObject
  <2> QED BY <2>1, <2>2 DEF ClaimStep, ClaimsKept, Locked
<1>4. CASE \E h \in Hosts : Probe(h)
  BY <1>4 DEF Probe, ClaimStep, ClaimsKept, HostObject
<1>5. ASSUME NEW h \in Hosts, LateCommit(h) PROVE ClaimStep
  <2>1. PICK object \in late[h] :
          /\ host' = [host EXCEPT ![h] = object]
          /\ stray' = IF object.claim = host[h].claim THEN stray
                      ELSE IF object.claim = None THEN stray \ {h} ELSE stray \union {h}
    BY <1>5 DEF LateCommit
  <2>2. LatePatch(h, object) /\ UNCHANGED machine
    BY <1>5, <2>1 DEF ObjectsInv, LateAsSent, LateCommit
  <2>3. host'[h] = object /\ \A i \in Hosts \ {h} : host'[i] = host[i]
    BY <2>1
  <2>4. CASE host[h].claim = None
    <3>1. object.claim \in Uids /\ ClaimCame(object.claim, h)
      BY <2>1, <2>2, <2>3, <2>4, InventoryAssumption DEF LatePatch, ClaimCame
    <3> QED BY <3>1 DEF ClaimStep
  <2>5. CASE object.claim = host[h].claim
    BY <2>1, <2>2, <2>3, <2>5 DEF ClaimStep, ClaimsKept
  <2>6. CASE host[h].claim # None /\ object.claim # host[h].claim
    <3>1. host[h].claim \in Uids /\ ClaimCleared(host[h].claim, h)
      BY <2>1, <2>2, <2>3, <2>6, InventoryAssumption DEF LatePatch, ClaimCleared
    <3> QED BY <3>1 DEF ClaimStep
  <2> QED BY <2>4, <2>5, <2>6
<1>6. ASSUME NEW w \in Workers, Handler(w) PROVE ClaimStep
  <2>0. /\ HandlerInv(w) /\ worker[w] \in HandlerRecord
        /\ worker[w].pc # "idle" => Uid(w) \in Uids /\ Uid(w) # None
    BY HandlerTyped
  <2>1. CASE End(w) \/ ListHosts(w) \/ Bind(w) \/ Recover(w) \/ NotFound(w)
    BY <1>1, <2>1 DEF End, ListHosts, Bind, Recover, NotFound, ReadsOnly
  <2>2. CASE ReadsOnly
    BY <1>1, <2>2 DEF ReadsOnly
  <2>3. CASE ApplyPatch(w)
    <3>1. Uid(w) \in Uids /\ (Uid(w) \in Locked => machine[Uid(w)].allocation = Chosen(w))
      BY <2>0, <2>3 DEF ApplyPatch, At, HandlerInv, WorkerChose, AllocationAsRead
    <3>2. \A m \in Locked : machine'[m].allocation = machine[m].allocation
      BY <2>3, <3>1 DEF ApplyPatch, MachineObject, Locked
    <3> QED BY <2>3, <3>2 DEF ApplyPatch, ClaimStep, ClaimsKept
  <2>4. CASE PersistSpec(w) \/ PersistAllocation(w)
    <3>1. worker[w].pc \in ChosenHost
      BY <2>4 DEF PersistSpec, PersistAllocation, At, ChosenHost
    <3>2. Uid(w) \in Locked =>
            /\ machine[Uid(w)].allocation = None
            /\ Chosen(w) \in Own(Uid(w)) /\ Own(Uid(w)) \subseteq stray \union {Chosen(w)}
      BY <2>0, <3>1
      DEF HandlerInv, AllocationAsRead, ClaimsAsFound, Unallocated, ChosenHost
    <3>3. /\ UNCHANGED <<host, stray>>
          /\ \A m \in Uids \ {Uid(w)} : machine'[m] = machine[m]
      BY <2>4 DEF PersistSpec, PersistAllocation, PersistMachine
    <3>4. Uid(w) \in Uids /\ Chosen(w) \in Hosts
      BY <2>0, <3>1 DEF HandlerInv, WorkerChose, ChosenHost
    <3>5. machine'[Uid(w)].allocation \in {machine[Uid(w)].allocation, Chosen(w)}
      BY <2>4, <3>4 DEF PersistSpec, PersistAllocation, PersistMachine, MachineObject
    <3>6. CASE /\ Uid(w) \in Locked /\ Chosen(w) \in stray
               /\ machine'[Uid(w)].allocation = Chosen(w)
      <4>1. ClaimFound(Uid(w), Chosen(w))
        BY <3>2, <3>3, <3>6 DEF ClaimFound, Locked
      <4> QED BY <3>4, <4>1 DEF ClaimStep
    <3> QED BY <3>2, <3>3, <3>5, <3>6 DEF ClaimStep, ClaimsKept, Locked
  <2>5. ASSUME NEW h \in Hosts, NEW phase, NEW known,
               PatchHost(h, [host[h] EXCEPT !.phase = phase], known)
        PROVE  ClaimStep
    BY <2>5 DEF PatchHost, ClaimStep, ClaimsKept, HostObject
  <2>6. CASE MarkClaimed(w) \/ Bootstrap(w) \/ MarkCleaning(w) \/ Clean(w) \/ MakeAvailable(w)
    <3>1. Chosen(w) \in Hosts
      BY <2>0, <2>6
      DEF MarkClaimed, Bootstrap, MarkCleaning, Clean, MakeAvailable, At, HandlerInv, WorkerChose,
          AllocatedHost
    <3>2. ASSUME NEW phase, NEW next, SetHostPhase(w, phase, next) PROVE ClaimStep
      BY <2>2, <2>5, <3>1, <3>2 DEF SetHostPhase
    <3> QED BY <2>2, <2>5, <2>6, <3>1, <3>2
        DEF MarkClaimed, Bootstrap, MarkCleaning, Clean, MakeAvailable
  <2>7. CASE TryClaim(w)
    <3> DEFINE c == Head(worker[w].todo)
    <3>1. worker[w].pc = "claim" /\ Uid(w) \in Uids
      BY <2>0, <2>7 DEF TryClaim, At
    <3>2. SUFFICES ASSUME /\ worker[w].todo # << >>
                          /\ c \in current[w]
                          /\ PatchHost(c, [host[c] EXCEPT !.claim = Uid(w)], {})
                   PROVE  ClaimStep
      BY <2>2, <2>7 DEF TryClaim
    <3>3. c \in Hosts /\ c = worker[w].todo[1] /\ Len(worker[w].todo) \in Nat \ {0}
      BY <2>0, <3>2, BoundedSequences, FS_CardinalityType, InventoryAssumption DEF HandlerRecord
    <3>4. host[c].claim = None
      BY <2>0, <3>1, <3>2, <3>3 DEF HandlerInv, CurrentAsRead, Eligible
    <3> HIDE DEF c
    <3>5. Uid(w) \in Locked => machine[Uid(w)].allocation = None /\ Own(Uid(w)) \subseteq stray
      BY <2>0, <3>1 DEF HandlerInv, AllocationAsRead, ClaimsAsFound, Unallocated
    <3>6. ClaimMade(Uid(w), c)
      <4>1. [host[c] EXCEPT !.claim = Uid(w)].claim = Uid(w) /\ Uid(w) # None
        BY <3>1, <3>3, InventoryAssumption DEF HostObject
      <4> QED BY <3>2, <3>3, <3>4, <3>5, <4>1 DEF ClaimMade, PatchHost, HostObject
    <3> QED BY <3>1, <3>3, <3>6 DEF ClaimStep
  <2>8. CASE ClearClaim(w)
    <3> DEFINE c == Chosen(w)
    <3>1. worker[w].pc = "unclaim" /\ Uid(w) \in Uids /\ c \in Hosts
      BY <2>0, <2>8 DEF ClearClaim, At, HandlerInv, WorkerChose, AllocatedHost
    <3>2. SUFFICES ASSUME c \in current[w], PatchHost(c, [host[c] EXCEPT !.claim = None], {})
                   PROVE  ClaimStep
      BY <2>2, <2>8 DEF ClearClaim
    <3>3. host[c].claim = Uid(w)
      BY <2>0, <3>1, <3>2 DEF HandlerInv, CurrentAsRead
    <3>4. Uid(w) \in Locked => machine[Uid(w)].allocation = c
      BY <2>0, <3>1, InventoryAssumption DEF HandlerInv, AllocationAsRead, AllocatedHost
    <3> HIDE DEF c
    <3>5. ClaimCleared(Uid(w), c)
      <4>1. [host[c] EXCEPT !.claim = None].claim = None /\ Uid(w) # None
        BY <3>1, InventoryAssumption DEF HostObject
      <4> QED BY <3>1, <3>2, <3>3, <3>4, <4>1 DEF ClaimCleared, PatchHost, HostObject
    <3> QED BY <3>1, <3>5 DEF ClaimStep
  <2>9. CASE Finish(w)
    <3>1. Uid(w) \in Uids
      BY <2>0, <2>9 DEF Finish, At
    <3> QED BY <2>9, <3>1 DEF Finish, ClaimStep, ClaimsKept, MachineObject, Locked
  <2> QED BY <1>6, <2>1, <2>3, <2>4, <2>6, <2>7, <2>8, <2>9 DEF Handler
<1> QED BY <1>2, <1>3, <1>4, <1>6, <1>5 DEF Next

-----------------------------------------------------------------------------
(* Theorems *)

\* The invariant holds of every reachable state.
THEOREM InventoryInvariant == Spec => []InventoryInv
<1> QED BY InventoryInvInit, InventoryInvStep, PTL DEF Spec

\* Hosts, Machines, locks and handlers have the fields and the phases that the
\* CRDs and inventory.py give them.
THEOREM InventoryTypeCorrect == Spec => []TypeOK
<1>1. InventoryInv => TypeOK
  BY DEF InventoryInv
<1> QED BY <1>1, InventoryInvariant, PTL

\* A claim that bind_machine recorded is the only one of its Machine but for
\* claims that timed out and came late, on hosts never used, however many
\* handlers compete for how many hosts.
THEOREM ClaimIsTheAllocation == Spec => []BoundToItsClaim
<1>1. InventoryInv => BoundToItsClaim
  <2> SUFFICES ASSUME InventoryInv PROVE BoundToItsClaim
    OBVIOUS
  <2>1. UsedIfAllocated /\ OthersCameLate
    BY DEF InventoryInv, ObjectsInv
  <2> QED BY <2>1 DEF UsedIfAllocated, OthersCameLate, BoundToItsClaim
<1> QED BY <1>1, InventoryInvariant, PTL

\* delete_machine lets the finalizer go only when every claim is released but
\* for those that timed out and came late, on hosts never used.
THEOREM ClaimsReleased == Spec => []NoOrphanedClaim
<1>1. InventoryInv => NoOrphanedClaim
  <2> SUFFICES ASSUME InventoryInv PROVE NoOrphanedClaim
    OBVIOUS
  <2>1. UsedIfAllocated /\ OthersCameLate /\ GoneReleased
    BY DEF InventoryInv, ObjectsInv
  <2>2. ASSUME NEW m \in Locked, machine[m].life = "gone", NEW h \in Own(m)
        PROVE  h \in stray /\ h # machine[m].allocation /\ host[h].phase = "Available"
    BY <2>1, <2>2 DEF UsedIfAllocated, OthersCameLate, GoneReleased
  <2> QED BY <2>2 DEF NoOrphanedClaim
<1> QED BY <1>1, InventoryInvariant, PTL

\* release_host makes a host Available before it clears its consumer, and
\* set_host_phase does nothing to a host without one: no host is lost.
THEOREM PoolKeepsItsHosts == Spec => []NoStrandedHost
<1>1. InventoryInv => NoStrandedHost
  BY DEF InventoryInv, ObjectsInv
<1> QED BY <1>1, InventoryInvariant, PTL

\* The resourceVersion of the list keeps _select_host from overwriting the
\* consumer of a host, also where locks expire.
THEOREM ClaimIsKept == Spec => ClaimNeverStolen
<1>1. ASSUME ClaimStep, NEW h \in Hosts, host[h].claim # None
      PROVE  host'[h].claim \in {host[h].claim, None}
  BY <1>1 DEF ClaimStep, ClaimsKept, ClaimFound, ClaimMade, ClaimCame, ClaimCleared
<1>2. InventoryInv /\ [Next]_vars =>
        [\A h \in Hosts : host[h].claim # None => host'[h].claim \in {host[h].claim, None}]_vars
  BY <1>1, ClaimSteps
<1> QED BY <1>2, InventoryInvariant, PTL DEF Spec, ClaimNeverStolen

\* Neither a retry nor the patch that Kopf applies after the lock is released
\* moves a Machine to another host.
THEOREM AllocationIsFinal == Spec => AllocationNeverMoves
<1>1. ASSUME ClaimStep, NEW m \in Locked, machine[m].allocation # None
      PROVE  machine'[m].allocation = machine[m].allocation
  BY <1>1 DEF ClaimStep, ClaimsKept, ClaimFound, ClaimMade, ClaimCame, ClaimCleared
<1>2. InventoryInv /\ [Next]_vars =>
        [\A m \in Locked : machine[m].allocation # None =>
           machine'[m].allocation = machine[m].allocation]_vars
  BY <1>1, ClaimSteps
<1> QED BY <1>2, InventoryInvariant, PTL DEF Spec, AllocationNeverMoves

\* inventory.py implements Allocation: claiming is Take, and so is binding to a
\* claim that came late; clearing a claim is GiveBack; and everything else,
\* recording the allocation, finding the claim again after an interruption and
\* a claim that comes late included, is a stutter.
THEOREM AllocationImplemented == Spec => ImplementsAllocation
<1> DEFINE consumer == [h \in Hosts |-> Consumer(h)]
           served   == {m \in Locked : machine[m].allocation # None \/ ~ Own(m) \subseteq stray}
<1>0. None \notin Locked /\ None \notin Hosts /\ \A m : Own(m) \subseteq Hosts
  BY InventoryAssumption DEF Locked, Own
<1>1. Init => Promise!AllocationInit
  <2> SUFFICES ASSUME Init PROVE Promise!AllocationInit
    OBVIOUS
  <2>1. consumer = [h \in Hosts |-> None]
    BY <1>0 DEF Init, Unclaimed, Consumer
  <2>2. served = {}
    BY <1>0 DEF Init, Unclaimed, Own, Locked
  <2> QED BY <2>1, <2>2 DEF Promise!AllocationInit
<1>2. ASSUME ClaimStep PROVE [Promise!AllocationNext]_<<consumer, served>>
  <2>0. /\ \A h \in Hosts, m \in Locked : h \in Own(m)' <=> host'[h].claim = m
        /\ \A h \in Hosts, m \in Locked : h \in Own(m) <=> host[h].claim = m
        /\ \A m \in Locked : Own(m) \subseteq Hosts /\ Own(m)' \subseteq Hosts
        /\ Locked' = Locked
    BY DEF Own, Locked
  <2>a. ASSUME NEW h \in Hosts, host'[h].claim = host[h].claim,
               h \in stray' <=> h \in stray,
               \A m \in Locked : host[h].claim = m =>
                 (h \notin stray \/ (machine'[m].allocation = h <=> machine[m].allocation = h))
        PROVE  consumer'[h] = consumer[h]
    BY <2>a DEF Consumer, Locked
  <2>b. \A h \in Hosts : consumer[h] = Consumer(h) /\ consumer'[h] = Consumer(h)'
    OBVIOUS
  <2>c. consumer' = [h \in Hosts |-> consumer'[h]] /\ consumer = [h \in Hosts |-> consumer[h]]
    OBVIOUS
  <2>d. \A m : m \in served' <=>
          m \in Locked /\ (machine'[m].allocation # None \/ ~ Own(m)' \subseteq stray')
    BY <2>0
  <2>e. served \subseteq Locked /\ served' \subseteq Locked
    BY <2>0
  <2>1. CASE ClaimsKept
    <3>0. ASSUME NEW h \in Hosts PROVE consumer'[h] = consumer[h]
      <4>1. ASSUME NEW m \in Locked, host[h].claim = m, h \in stray
            PROVE  machine'[m].allocation = h <=> machine[m].allocation = h
        BY <1>0, <2>1, <4>1 DEF ClaimsKept
      <4> QED BY <2>1, <2>a, <4>1 DEF ClaimsKept
    <3>1. consumer' = consumer
      <4> HIDE DEF consumer
      <4> QED BY <2>c, <3>0
    <3>2. \A m \in Locked : Own(m)' = Own(m)
      BY <2>1 DEF ClaimsKept, Own
    <3>3. served' = served
      <4>1. ASSUME NEW m \in Locked PROVE m \in served' <=> m \in served
        BY <1>0, <2>1, <2>d, <3>2 DEF ClaimsKept
      <4> QED BY <2>e, <4>1
    <3> QED BY <3>1, <3>3
  <2>2. ASSUME NEW m \in Uids, NEW h \in Hosts, ClaimMade(m, h), m \in Locked
        PROVE  Promise!AllocationNext
    <3>1. consumer[h] = None /\ consumer'[h] = m
      BY <1>0, <2>0, <2>2 DEF ClaimMade, Consumer
    <3>2. ASSUME NEW i \in Hosts \ {h} PROVE consumer'[i] = consumer[i]
      BY <2>2, <2>a DEF ClaimMade
    <3>3. consumer' = [consumer EXCEPT ![h] = m]
      <4> HIDE DEF consumer
      <4> QED BY <2>c, <3>1, <3>2
    <3>4. m \notin served
      BY <2>2 DEF ClaimMade
    <3>5. h \in Own(m)' /\ h \notin stray' /\ \A n \in Locked : h \notin Own(n)
      BY <1>0, <2>0, <2>2 DEF ClaimMade
    <3>6. \A n \in Locked \ {m} : Own(n)' = Own(n)
      <4>1. ASSUME NEW n \in Locked \ {m}, NEW i \in Hosts
            PROVE  host'[i].claim = n <=> host[i].claim = n
        BY <1>0, <2>2, <4>1 DEF ClaimMade
      <4> QED BY <4>1 DEF Own
    <3>7. served' = served \union {m}
      <4>1. m \in served'
        BY <2>2, <2>d, <3>5
      <4>2. ASSUME NEW n \in Locked \ {m} PROVE n \in served' <=> n \in served
        BY <2>2, <2>d, <3>5, <3>6 DEF ClaimMade
      <4> QED BY <2>2, <2>e, <4>1, <4>2
    <3>8. Promise!Take(m, h)
      BY <3>1, <3>3, <3>4, <3>7 DEF Promise!Take
    <3> QED BY <2>2, <3>8 DEF Promise!AllocationNext
  <2>3. ASSUME NEW m \in Uids, NEW h \in Hosts, ClaimFound(m, h)
        PROVE  Promise!AllocationNext
    <3>0. m \in Locked /\ h \in stray /\ host[h].claim = m /\ host'[h].claim = m
      BY <2>0, <2>3 DEF ClaimFound
    <3>1. consumer[h] = None /\ consumer'[h] = m
      BY <1>0, <2>0, <2>3, <3>0 DEF ClaimFound, Consumer
    <3>2. ASSUME NEW i \in Hosts \ {h} PROVE consumer'[i] = consumer[i]
      <4>1. ASSUME NEW n \in Locked
            PROVE  machine'[n].allocation = i <=> machine[n].allocation = i
        BY <1>0, <2>3 DEF ClaimFound
      <4> QED BY <2>3, <2>a, <4>1 DEF ClaimFound
    <3>3. consumer' = [consumer EXCEPT ![h] = m]
      <4> HIDE DEF consumer
      <4> QED BY <2>c, <3>1, <3>2
    <3>4. m \notin served
      BY <2>3 DEF ClaimFound
    <3>5. \A n \in Locked : Own(n)' = Own(n)
      BY <2>3 DEF ClaimFound, Own
    <3>6. served' = served \union {m}
      <4>1. m \in served'
        BY <1>0, <2>3, <2>d, <3>0 DEF ClaimFound
      <4>2. ASSUME NEW n \in Locked \ {m} PROVE n \in served' <=> n \in served
        BY <2>3, <2>d, <3>5 DEF ClaimFound
      <4> QED BY <2>e, <3>0, <4>1, <4>2
    <3>7. Promise!Take(m, h)
      BY <3>1, <3>3, <3>4, <3>6 DEF Promise!Take
    <3> QED BY <3>0, <3>7 DEF Promise!AllocationNext
  <2>4. ASSUME NEW m \in Uids, NEW h \in Hosts, ClaimCleared(m, h), m \in Locked
        PROVE  Promise!AllocationNext
    <3>1. consumer[h] # None /\ consumer'[h] = None
      BY <1>0, <2>0, <2>4 DEF ClaimCleared, Consumer
    <3>2. ASSUME NEW i \in Hosts \ {h} PROVE consumer'[i] = consumer[i]
      BY <2>4, <2>a DEF ClaimCleared
    <3>3. consumer' = [consumer EXCEPT ![h] = None]
      <4> HIDE DEF consumer
      <4> QED BY <2>c, <3>1, <3>2
    <3>4. \A n \in Locked \ {m} : Own(n)' = Own(n) /\ h \notin Own(n)
      <4>1. ASSUME NEW n \in Locked \ {m}, NEW i \in Hosts
            PROVE  host'[i].claim = n <=> host[i].claim = n
        BY <1>0, <2>4, <4>1 DEF ClaimCleared
      <4>2. \A n \in Locked \ {m} : h \notin Own(n)
        BY <2>0, <2>4 DEF ClaimCleared
      <4> QED BY <4>1, <4>2 DEF Own
    <3>5. served' = served
      <4>1. m \in served /\ m \in served'
        BY <1>0, <2>4, <2>d DEF ClaimCleared
      <4>2. ASSUME NEW n \in Locked \ {m} PROVE n \in served' <=> n \in served
        BY <2>4, <2>d, <3>4 DEF ClaimCleared
      <4> QED BY <2>e, <4>1, <4>2
    <3>6. Promise!GiveBack(h)
      BY <3>1, <3>3, <3>5 DEF Promise!GiveBack
    <3> QED BY <2>4, <3>6 DEF Promise!AllocationNext
  <2>5. ASSUME NEW m \in Uids, NEW h \in Hosts,
               \/ ClaimCame(m, h)
               \/ (ClaimMade(m, h) \/ ClaimCleared(m, h)) /\ m \notin Locked
        PROVE  UNCHANGED <<consumer, served>>
    <3>0. /\ \A i \in Hosts \ {h} : host'[i].claim = host[i].claim /\ (i \in stray' <=> i \in stray)
          /\ UNCHANGED machine
      BY <2>5 DEF ClaimCame, ClaimMade, ClaimCleared
    <3>1. consumer[h] = None /\ consumer'[h] = None
      BY <1>0, <2>0, <2>5 DEF ClaimCame, ClaimMade, ClaimCleared, Consumer
    <3>2. ASSUME NEW i \in Hosts \ {h} PROVE consumer'[i] = consumer[i]
      BY <2>a, <3>0
    <3>3. consumer' = consumer
      <4> HIDE DEF consumer
      <4> QED BY <2>c, <3>1, <3>2
    <3>4. ASSUME NEW n \in Locked PROVE Own(n)' \subseteq stray' <=> Own(n) \subseteq stray
      <4>1. h \notin Own(n) /\ (h \in Own(n)' => h \in stray')
        BY <1>0, <2>0, <2>5 DEF ClaimCame, ClaimMade, ClaimCleared
      <4>2. \A i \in Hosts \ {h} :
              (i \in Own(n)' <=> i \in Own(n)) /\ (i \in stray' <=> i \in stray)
        BY <2>0, <3>0
      <4> QED BY <2>0, <4>1, <4>2
    <3>5. served' = served
      <4>1. ASSUME NEW n \in Locked PROVE n \in served' <=> n \in served
        BY <2>d, <3>0, <3>4
      <4> QED BY <2>e, <4>1
    <3> QED BY <3>3, <3>5
  <2> QED BY <1>2, <2>1, <2>2, <2>3, <2>4, <2>5 DEF ClaimStep
<1>3. InventoryInv /\ [Next]_vars => [Promise!AllocationNext]_<<consumer, served>>
  BY <1>2, ClaimSteps
<1> QED
  BY <1>1, <1>3, InventoryInvariant, PTL DEF Spec, ImplementsAllocation, Promise!AllocationSpec

=============================================================================
