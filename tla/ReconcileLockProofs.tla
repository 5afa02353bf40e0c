------------------------- MODULE ReconcileLockProofs -------------------------
(***************************************************************************)
(* Proofs about ReconcileLock for any replicas, Machines, tasks and slots: *)
(* the asyncio.Lock of a Machine excludes the handlers of one process, the *)
(* annotation those of different ones.                                     *)
(***************************************************************************)
EXTENDS ReconcileLock, FiniteSetTheorems, SequenceTheorems, TLAPS

-----------------------------------------------------------------------------
(* The inductive invariant: the asyncio.Lock and its map *)

\* The tasks in a queue, and that none is in it twice
Elements(q) == {q[i] : i \in 1 .. Len(q)}
Distinct(q) == \A i, j \in 1 .. Len(q) : q[i] = q[j] => i = j

\* A handler that has started has the lock that the map has for its Machine,
\* also when others have come, gone and cleaned up in the meantime.
EntryIsHeld ==
  \A t \in Tasks :
    /\ pc[t] # "idle" <=> held[t] # None
    /\ held[t] # None => Entry(t) = held[t]
    /\ future[t] # "none" <=> pc[t] = "wait"

\* No entry outlives its last user, and no lock serves two Machines.
EntryInUse ==
  /\ \A p \in Processes, m \in Machines : map[p][m] # None =>
       \E t \in Tasks : Proc(t) = p /\ MachineOf[t] = m /\ held[t] = map[p][m]
  /\ \A t, u \in Tasks : held[t] # None /\ held[t] = held[u] =>
       Proc(t) = Proc(u) /\ MachineOf[t] = MachineOf[u]

\* The queue of a lock holds those who wait for it, and each of them once.
QueueIsWaiting ==
  \A l \in Locks :
    /\ Elements(lock[l].waiters) = {t \in Tasks : held[t] = l /\ pc[t] = "wait"}
    /\ Distinct(lock[l].waiters)

\* A lock is locked while one handler is inside.
LockedByOne ==
  /\ \A t \in Tasks : Inside(t) => lock[held[t]].locked
  /\ \A l \in Locks : lock[l].locked => \E t \in Tasks : held[t] = l /\ Inside(t)
  /\ \A t, u \in Tasks : Inside(t) /\ Inside(u) /\ held[t] = held[u] => t = u

\* A waiter is woken only when the lock is free, and only the first one.
WokenIsFirst ==
  \A t \in Tasks : future[t] = "set" =>
    /\ ~ lock[held[t]].locked
    /\ lock[held[t]].waiters # << >>
    /\ lock[held[t]].waiters[1] = t

LockTypeOK ==
  /\ map \in [Processes -> [Machines -> Locks \union {None}]]
  /\ lock \in [Locks -> [locked : BOOLEAN, waiters : Seq(Tasks)]]
  /\ pc \in [Tasks -> {"idle", "wait", "acquire", "body", "release"}]
  /\ held \in [Tasks -> Locks \union {None}]
  /\ future \in [Tasks -> {"none", "pending", "set", "cancelled"}]

LockInv ==
  /\ LockTypeOK
  /\ EntryIsHeld
  /\ EntryInUse
  /\ QueueIsWaiting
  /\ LockedByOne
  /\ WokenIsFirst

-----------------------------------------------------------------------------
(* The inductive invariant: the executor and the annotation *)

\* Only a handler inside its lock is in run_api, and only with a slot does it
\* have a thread.
CallsInside ==
  \A t \in Tasks :
    /\ call[t] # "none" => Inside(t)
    /\ thread[t] # "none" => call[t] = "future"

SlotsBounded == \A p \in Processes : Cardinality(SlotsTaken(p)) <= Slots

ExecutorInv == ExecutorTypeOK /\ CallsInside /\ SlotsBounded

AnnTypeOK ==
  /\ ann \in [Machines -> [holder : Processes \union {None}, live : BOOLEAN]]
  /\ fresh \in SUBSET Tasks
  /\ late \in SUBSET (Processes \X Machines \X {"acquire", "release"})
  /\ tries \in [Tasks -> 0 .. Tries - 1]

\* The annotation was set for this handler.
Holding(t) ==
  pc[t] = "body" \/ (pc[t] = "acquire" /\ thread[t] = "done" /\ result[t] = "ok")

\* From the commit of its acquire to the end of its body a handler has the
\* annotation, and no patch of the SSHMachine is under way that could commit.
AnnotationIsHeld ==
  \A t \in Tasks : Holding(t) =>
    /\ ann[MachineOf[t]] = [holder |-> Proc(t), live |-> TRUE]
    /\ \A u \in fresh : MachineOf[u] # MachineOf[t]
    /\ \A r \in late : r[2] # MachineOf[t]

-----------------------------------------------------------------------------
(* Queues *)

\* The first of a queue, and the empty queue
LEMMA QueueFirst ==
  ASSUME NEW q \in Seq(Tasks)
  PROVE  /\ q = << >> <=> Elements(q) = {}
         /\ q # << >> => Head(q) = q[1] /\ q[1] \in Elements(q)
         /\ Elements(q) \subseteq Tasks
         /\ \A P : (\A i \in 1 .. Len(q) : q[i] \in P) <=> Elements(q) \subseteq P
<1>1. q # << >> => Len(q) >= 1 /\ Head(q) = q[1]
  BY EmptySeq, HeadTailProperties
<1>2. q = << >> => Len(q) = 0
  BY EmptySeq
<1>3. Len(q) \in Nat /\ \A i \in 1 .. Len(q) : q[i] \in Tasks
  BY ElementOfSeq, LenProperties
<1> QED BY <1>1, <1>2, <1>3 DEF Elements

\* A task joins the queue at its end.
LEMMA QueueAppend ==
  ASSUME NEW q \in Seq(Tasks), NEW t \in Tasks
  PROVE  /\ Append(q, t) \in Seq(Tasks)
         /\ Append(q, t) # << >>
         /\ Elements(Append(q, t)) = Elements(q) \union {t}
         /\ q # << >> => Append(q, t)[1] = q[1]
         /\ Distinct(q) /\ t \notin Elements(q) => Distinct(Append(q, t))
<1>1. /\ Append(q, t) \in Seq(Tasks)
      /\ Len(Append(q, t)) = Len(q) + 1
      /\ \A i \in 1 .. Len(q) : Append(q, t)[i] = q[i]
      /\ Append(q, t)[Len(q) + 1] = t
      /\ Len(q) \in Nat
  BY AppendProperties, LenProperties
<1>2. Append(q, t) # << >>
  BY <1>1, EmptySeq
<1>3. Elements(Append(q, t)) = Elements(q) \union {t}
  BY <1>1 DEF Elements
<1>4. q # << >> => Append(q, t)[1] = q[1]
  BY <1>1, EmptySeq
<1>5. Distinct(q) /\ t \notin Elements(q) => Distinct(Append(q, t))
  BY <1>1 DEF Distinct, Elements
<1> QED BY <1>1, <1>2, <1>3, <1>4, <1>5

\* deque.remove: a task leaves the queue, the others stay in their order.
LEMMA QueueRemove ==
  ASSUME NEW q \in Seq(Tasks), NEW t \in Elements(q), Distinct(q)
  PROVE  /\ RemoveFirst(q, t) \in Seq(Tasks)
         /\ Elements(RemoveFirst(q, t)) = Elements(q) \ {t}
         /\ q[1] # t => RemoveFirst(q, t) # << >> /\ RemoveFirst(q, t)[1] = q[1]
         /\ Distinct(RemoveFirst(q, t))
<1>1. PICK k \in 1 .. Len(q) : q[k] = t
  BY DEF Elements
<1>2. {i \in 1 .. Len(q) : q[i] = t} = {k}
  BY <1>1 DEF Distinct
<1>3. SelectInSeq(q, LAMBDA v : v = t) = k
  <2>1. Min({k}) = k
    BY <1>1 DEF Min
  <2> QED BY <1>2, <2>1 DEF SelectInSeq
<1> DEFINE r == RemoveFirst(q, t)
           n == Len(q)
<1>4. r = SubSeq(q, 1, k - 1) \o SubSeq(q, k + 1, n)
  BY <1>1, <1>3 DEF RemoveFirst, RemoveAt
<1>5. n \in Nat /\ \A i \in 1 .. n : q[i] \in Tasks
  BY LenProperties, ElementOfSeq
<1>6. /\ SubSeq(q, 1, k - 1) \in Seq(Tasks)
      /\ Len(SubSeq(q, 1, k - 1)) = k - 1
      /\ \A i \in 1 .. k - 1 : SubSeq(q, 1, k - 1)[i] = q[i]
  BY <1>1, <1>5
<1>7. /\ SubSeq(q, k + 1, n) \in Seq(Tasks)
      /\ Len(SubSeq(q, k + 1, n)) = n - k
      /\ \A i \in 1 .. n - k : SubSeq(q, k + 1, n)[i] = q[k + i]
  BY <1>1, <1>5
<1> HIDE DEF r, n
<1>8. /\ r \in Seq(Tasks)
      /\ Len(r) = n - 1
      /\ \A i \in 1 .. n - 1 : r[i] = IF i < k THEN q[i] ELSE q[i + 1]
  <2>1. /\ r \in Seq(Tasks)
        /\ Len(r) = (k - 1) + (n - k)
        /\ \A i \in 1 .. (k - 1) + (n - k) :
             r[i] = IF i <= k - 1 THEN SubSeq(q, 1, k - 1)[i]
                                  ELSE SubSeq(q, k + 1, n)[i - (k - 1)]
    <3> DEFINE x == SubSeq(q, 1, k - 1)
               y == SubSeq(q, k + 1, n)
    <3>1. x \in Seq(Tasks) /\ y \in Seq(Tasks) /\ Len(x) = k - 1 /\ Len(y) = n - k /\ r = x \o y
      BY <1>4, <1>6, <1>7
    <3> HIDE DEF x, y
    <3>2. /\ x \o y \in Seq(Tasks)
          /\ Len(x \o y) = Len(x) + Len(y)
          /\ \A i \in 1 .. Len(x) + Len(y) :
               (x \o y)[i] = IF i <= Len(x) THEN x[i] ELSE y[i - Len(x)]
      BY <3>1, ConcatProperties
    <3>3. /\ r \in Seq(Tasks)
          /\ Len(r) = (k - 1) + (n - k)
          /\ \A i \in 1 .. (k - 1) + (n - k) :
               r[i] = IF i <= k - 1 THEN x[i] ELSE y[i - (k - 1)]
      BY <3>1, <3>2
    <3> QED BY <3>3 DEF x, y
  <2>2. (k - 1) + (n - k) = n - 1 /\ k \in 1 .. n
    BY <1>1, <1>5 DEF n
  <2>3. ASSUME NEW i \in 1 .. n - 1, i < k PROVE r[i] = q[i]
    BY <1>5, <1>6, <2>1, <2>2, <2>3
  <2>4. ASSUME NEW i \in 1 .. n - 1, ~ (i < k) PROVE r[i] = q[i + 1]
    <3>1. i - (k - 1) \in 1 .. n - k /\ k + (i - (k - 1)) = i + 1 /\ ~ (i <= k - 1)
      BY <1>5, <2>2, <2>4
    <3> QED BY <1>7, <2>1, <2>2, <3>1
  <2> QED BY <2>1, <2>2, <2>3, <2>4
<1>9. k \in 1 .. n /\ Distinct(q) /\ \A i \in 1 .. n : q[i] = t <=> i = k
  BY <1>1 DEF n, Distinct
<1>10. Elements(r) = Elements(q) \ {t}
  <2>1. ASSUME NEW i \in 1 .. Len(r)
        PROVE  \E j \in 1 .. n : j # k /\ r[i] = q[j]
    <3>1. CASE i < k
      BY <1>5, <1>8, <1>9, <3>1
    <3>2. CASE ~ (i < k)
      <4>1. i + 1 \in 1 .. n /\ i + 1 # k
        BY <1>5, <1>8, <1>9, <3>2
      <4> QED BY <1>8, <3>2, <4>1
    <3> QED BY <3>1, <3>2
  <2>2. ASSUME NEW j \in 1 .. n, j # k
        PROVE  \E i \in 1 .. Len(r) : r[i] = q[j]
    <3>1. CASE j < k
      BY <1>5, <1>8, <1>9, <3>1
    <3>2. CASE ~ (j < k)
      <4>1. j - 1 \in 1 .. n - 1 /\ ~ (j - 1 < k) /\ (j - 1) + 1 = j
        BY <1>5, <1>9, <2>2, <3>2
      <4> QED BY <1>8, <4>1
    <3> QED BY <3>1, <3>2
  <2>3. Elements(q) = {q[i] : i \in 1 .. n}
    BY DEF Elements, n
  <2>4. Elements(r) = {r[i] : i \in 1 .. Len(r)}
    BY DEF Elements
  <2>5. \A x \in Elements(r) : x \in Elements(q) \ {t}
    BY <1>9, <2>1, <2>3, <2>4
  <2>6. \A x \in Elements(q) \ {t} : x \in Elements(r)
    <3>1. ASSUME NEW x \in Elements(q) \ {t} PROVE x \in Elements(r)
      <4>1. PICK j \in 1 .. n : q[j] = x /\ j # k
        BY <1>9, <2>3
      <4> QED BY <2>2, <2>4, <4>1
    <3> QED BY <3>1
  <2> QED BY <2>5, <2>6
<1>11. q[1] # t => r # << >> /\ r[1] = q[1]
  <2>1. q[1] # t => 1 < k /\ 1 \in 1 .. n - 1
    BY <1>5, <1>9
  <2> QED BY <1>8, <2>1, EmptySeq
<1>12. Distinct(r)
  <2>1. ASSUME NEW i \in 1 .. n - 1, NEW j \in 1 .. n - 1, r[i] = r[j] PROVE i = j
    <3> DEFINE a == IF i < k THEN i ELSE i + 1
               b == IF j < k THEN j ELSE j + 1
    <3>1. a \in 1 .. n /\ b \in 1 .. n
      BY <1>5
    <3>2. q[a] = q[b]
      BY <1>8, <2>1
    <3>3. a = b
      BY <1>9, <3>1, <3>2 DEF Distinct, n
    <3> QED BY <1>5, <1>9, <3>3
  <2> QED BY <1>8, <2>1 DEF Distinct
<1> QED BY <1>8, <1>10, <1>11, <1>12 DEF r

-----------------------------------------------------------------------------
(* The asyncio.Lock and its map *)

\* A handler, inside or waiting, leaves: the entry is dropped with its last
\* user, and at most one waiter is woken, the first and when the lock is free.
LEMMA LeaveKeepsLock ==
  ASSUME LockInv, NEW t \in Tasks, pc[t] # "idle", NEW locked \in BOOLEAN, NEW q \in Seq(Tasks),
         LeaveLock(t, locked, q),
         Elements(q) = {u \in Tasks : held[u] = held[t] /\ pc[u] = "wait"} \ {t},
         Distinct(q),
         locked => \E u \in Tasks \ {t} : held[u] = held[t] /\ Inside(u),
         ~ locked => \A u \in Tasks \ {t} : held[u] = held[t] => ~ Inside(u),
         \A u \in Tasks \ {t} : held[u] = held[t] /\ future[u] = "set" =>
           ~ locked /\ q # << >> /\ q[1] = u
  PROVE  LockInv'
<1> USE ReconcileLockAssumption, ExecutorAssumption DEF Proc
<1> DEFINE l == held[t]
           p == Proc(t)
           m == MachineOf[t]
<1>1. l \in Locks /\ l # None /\ map[p][m] = l /\ p \in Processes /\ m \in Machines
  BY DEF LockInv, LockTypeOK, EntryIsHeld, Entry
<1>2. /\ lock' = [lock EXCEPT ![l] = [locked |-> locked, waiters |-> q]]
      /\ pc' = [pc EXCEPT ![t] = "idle"]
      /\ held' = [held EXCEPT ![t] = None]
      /\ map' = [map EXCEPT ![p][m] = IF ~ locked /\ q = << >> THEN None ELSE @]
  BY <1>1 DEF LeaveLock, Cleanup
<1>3. /\ q = << >> <=> Elements(q) = {}
      /\ q # << >> => Head(q) = q[1] /\ q[1] \in Elements(q)
  BY QueueFirst
<1>4. /\ future' \in [Tasks -> {"none", "pending", "set", "cancelled"}]
      /\ future'[t] = "none"
      /\ \A u \in Tasks \ {t} :
           \/ future'[u] = future[u]
           \/ future'[u] = "set" /\ future[u] = "pending" /\ ~ locked /\ q # << >> /\ q[1] = u
  <2>1. t \notin Elements(q)
    OBVIOUS
  <2> QED BY <1>3, <2>1 DEF LeaveLock, WakeFirst, LockInv, LockTypeOK
<1> HIDE DEF l, p, m
<1>5. /\ \A u \in Tasks \ {t} : pc'[u] = pc[u] /\ held'[u] = held[u]
      /\ pc'[t] = "idle" /\ held'[t] = None
      /\ \A u \in Tasks \ {t} : Inside(u)' <=> Inside(u)
      /\ ~ Inside(t)'
  BY <1>2 DEF LockInv, LockTypeOK, Inside
<1>6. /\ \A k \in Locks \ {l} : lock'[k] = lock[k]
      /\ lock'[l].locked = locked /\ lock'[l].waiters = q
      /\ lock' \in [Locks -> [locked : BOOLEAN, waiters : Seq(Tasks)]]
  BY <1>1, <1>2 DEF LockInv, LockTypeOK
<1>7. /\ \A i \in Processes, j \in Machines : i # p \/ j # m => map'[i][j] = map[i][j]
      /\ map'[p][m] = IF ~ locked /\ q = << >> THEN None ELSE l
      /\ map' \in [Processes -> [Machines -> Locks \union {None}]]
  BY <1>1, <1>2 DEF LockInv, LockTypeOK
<1>8. LockTypeOK'
  BY <1>2, <1>4, <1>6, <1>7 DEF LockInv, LockTypeOK
<1>9. EntryIsHeld'
  <2>1. ASSUME NEW u \in Tasks \ {t}, held[u] # None
        PROVE  Entry(u)' = held'[u]
    <3>1. /\ Entry(u) = held[u] /\ pc[u] # "idle"
          /\ ProcOf[u] \in Processes /\ MachineOf[u] \in Machines
      BY <2>1 DEF LockInv, EntryIsHeld, Entry
    <3>2. CASE ProcOf[u] # p \/ MachineOf[u] # m
      BY <1>5, <1>7, <3>1, <3>2 DEF Entry
    <3>3. CASE ProcOf[u] = p /\ MachineOf[u] = m
      <4>1. held[u] = l
        BY <1>1, <3>1, <3>3 DEF Entry
      <4>2. locked \/ pc[u] = "wait"
        BY <3>1, <4>1 DEF LockInv, LockTypeOK, Inside, l
      <4>3. locked \/ q # << >>
        BY <1>3, <4>1, <4>2 DEF l
      <4> QED BY <1>5, <1>7, <3>3, <4>1, <4>3 DEF Entry
    <3> QED BY <3>2, <3>3
  <2>2. ASSUME NEW u \in Tasks \ {t} PROVE future'[u] # "none" <=> pc'[u] = "wait"
    BY <1>4, <1>5 DEF LockInv, EntryIsHeld
  <2> QED BY <1>4, <1>5, <2>1, <2>2 DEF LockInv, EntryIsHeld
<1>10. EntryInUse'
  <2>1. ASSUME NEW i \in Processes, NEW j \in Machines, map'[i][j] # None
        PROVE  \E u \in Tasks : Proc(u) = i /\ MachineOf[u] = j /\ held'[u] = map'[i][j]
    <3>1. CASE i # p \/ j # m
      <4>1. map'[i][j] = map[i][j]
        BY <1>7, <3>1
      <4>2. PICK u \in Tasks : Proc(u) = i /\ MachineOf[u] = j /\ held[u] = map[i][j]
        BY <2>1, <4>1 DEF LockInv, EntryInUse
      <4>3. u # t
        BY <3>1, <4>2 DEF p, m
      <4> QED BY <1>5, <4>1, <4>2, <4>3
    <3>2. CASE i = p /\ j = m
      <4>1. map'[i][j] = l /\ (locked \/ q # << >>)
        BY <1>7, <2>1, <3>2
      <4>2. PICK u \in Tasks \ {t} : held[u] = l
        BY <1>3, <4>1 DEF l
      <4>3. Proc(u) = p /\ MachineOf[u] = m
        BY <1>1, <4>2 DEF LockInv, EntryInUse, l, p, m
      <4> QED BY <1>5, <3>2, <4>1, <4>2, <4>3
    <3> QED BY <3>1, <3>2
  <2>2. ASSUME NEW u \in Tasks, NEW v \in Tasks, held'[u] # None, held'[u] = held'[v]
        PROVE  Proc(u) = Proc(v) /\ MachineOf[u] = MachineOf[v]
    BY <1>5, <2>2 DEF LockInv, EntryInUse
  <2> QED BY <2>1, <2>2 DEF EntryInUse
<1>11. QueueIsWaiting'
  <2>1. ASSUME NEW k \in Locks \ {l}
        PROVE  /\ Elements(lock'[k].waiters) = {u \in Tasks : held'[u] = k /\ pc'[u] = "wait"}
               /\ Distinct(lock'[k].waiters)
    <3>1. /\ k # None
          /\ \A u \in Tasks : held'[u] = k /\ pc'[u] = "wait" <=> held[u] = k /\ pc[u] = "wait"
      BY <1>5, <2>1 DEF l
    <3> QED BY <1>6, <3>1 DEF LockInv, QueueIsWaiting
  <2>2. /\ Elements(lock'[l].waiters) = {u \in Tasks : held'[u] = l /\ pc'[u] = "wait"}
        /\ Distinct(lock'[l].waiters)
    BY <1>1, <1>5, <1>6 DEF l
  <2> QED BY <2>1, <2>2 DEF QueueIsWaiting
<1>12. LockedByOne'
  <2>1. ASSUME NEW u \in Tasks, Inside(u)' PROVE lock'[held'[u]].locked
    <3>1. u # t /\ Inside(u) /\ held'[u] = held[u] /\ held[u] \in Locks
      BY <1>5, <2>1 DEF LockInv, LockTypeOK, EntryIsHeld, Inside
    <3> QED BY <1>6, <3>1, ZenonT(60) DEF LockInv, LockedByOne, l
  <2>2. ASSUME NEW k \in Locks, lock'[k].locked
        PROVE  \E u \in Tasks : held'[u] = k /\ Inside(u)'
    <3>1. PICK u \in Tasks \ {t} : held[u] = k /\ Inside(u)
      <4>1. CASE k = l
        BY <1>6, <2>2, <4>1 DEF l
      <4>2. CASE k # l
        BY <1>6, <2>2, <4>2 DEF LockInv, LockedByOne, l
      <4> QED BY <4>1, <4>2
    <3> QED BY <1>5, <3>1
  <2>3. ASSUME NEW u \in Tasks, NEW v \in Tasks, Inside(u)', Inside(v)', held'[u] = held'[v]
        PROVE  u = v
    BY <1>5, <2>3 DEF LockInv, LockedByOne
  <2> QED BY <2>1, <2>2, <2>3 DEF LockedByOne
<1>13. WokenIsFirst'
  <2>1. ASSUME NEW u \in Tasks, future'[u] = "set"
        PROVE  /\ ~ lock'[held'[u]].locked
               /\ lock'[held'[u]].waiters # << >>
               /\ lock'[held'[u]].waiters[1] = u
    <3>1. u # t /\ held'[u] = held[u]
      BY <1>4, <1>5, <2>1
    <3>2. CASE held[u] = l
      BY <1>4, <1>6, <2>1, <3>1, <3>2 DEF l
    <3>3. CASE held[u] # l
      <4>1. future[u] = "set"
        BY <1>3, <1>4, <2>1, <3>1, <3>3 DEF l
      <4>2. held[u] \in Locks
        BY <4>1 DEF LockInv, LockTypeOK, EntryIsHeld
      <4> QED BY <1>6, <3>1, <3>3, <4>1, <4>2 DEF LockInv, WokenIsFirst
    <3> QED BY <3>2, <3>3
  <2> QED BY <2>1 DEF WokenIsFirst
<1> QED BY <1>8, <1>9, <1>10, <1>11, <1>12, <1>13 DEF LockInv

\* A handler that comes to wait or to enter has the lock of the map, a new one
\* or the one that others of its Machine and process have.
LEMMA HolderKeepsEntry ==
  ASSUME LockInv, NEW t \in Tasks, NEW l \in Locks,
         map' = [map EXCEPT ![Proc(t)][MachineOf[t]] = l],
         held' = [held EXCEPT ![t] = l],
         pc'[t] # "idle",
         \A u \in Tasks \ {t} : pc'[u] = pc[u],
         \A u \in Tasks \ {t} : future'[u] = future[u],
         future'[t] # "none" <=> pc'[t] = "wait",
         Entry(t) = l \/ (Entry(t) = None /\ Unused(l))
  PROVE  EntryIsHeld' /\ EntryInUse'
<1> USE ReconcileLockAssumption, ExecutorAssumption DEF Proc
<1> DEFINE p == Proc(t)
           m == MachineOf[t]
<1>1. p \in Processes /\ m \in Machines /\ l # None
  OBVIOUS
<1>2. /\ \A u \in Tasks \ {t} : held'[u] = held[u]
      /\ held'[t] = l
      /\ \A i \in Processes, j \in Machines : i # p \/ j # m => map'[i][j] = map[i][j]
      /\ map'[p][m] = l
  BY <1>1 DEF LockInv, LockTypeOK
<1> HIDE DEF p, m
<1>3. ASSUME NEW u \in Tasks, held[u] # None, Proc(u) = p, MachineOf[u] = m
      PROVE  held[u] = l
  <2>1. Entry(u) = held[u]
    BY <1>3 DEF LockInv, EntryIsHeld
  <2>2. Entry(u) = Entry(t)
    BY <1>3 DEF Entry, p, m
  <2> QED BY <1>3, <2>1, <2>2
<1>4. ASSUME NEW u \in Tasks, held[u] = l PROVE Proc(u) = p /\ MachineOf[u] = m
  <2>1. Entry(t) = l
    BY <1>4 DEF Unused
  <2>2. PICK v \in Tasks : Proc(v) = p /\ MachineOf[v] = m /\ held[v] = l
    BY <1>1, <2>1 DEF LockInv, EntryInUse, Entry, p, m
  <2> QED BY <1>1, <1>4, <2>2 DEF LockInv, EntryInUse
<1>5. EntryIsHeld'
  <2>1. ASSUME NEW u \in Tasks \ {t}, held[u] # None PROVE Entry(u)' = held'[u]
    <3>1. CASE Proc(u) = p /\ MachineOf[u] = m
      BY <1>2, <1>3, <2>1, <3>1 DEF Entry
    <3>2. CASE Proc(u) # p \/ MachineOf[u] # m
      BY <1>2, <2>1, <3>2 DEF Entry, LockInv, EntryIsHeld
    <3> QED BY <3>1, <3>2
  <2>2. Entry(t)' = held'[t]
    BY <1>2 DEF Entry, p, m
  <2> QED BY <1>1, <1>2, <2>1, <2>2 DEF LockInv, EntryIsHeld
<1>6. EntryInUse'
  <2>1. ASSUME NEW i \in Processes, NEW j \in Machines, map'[i][j] # None
        PROVE  \E u \in Tasks : Proc(u) = i /\ MachineOf[u] = j /\ held'[u] = map'[i][j]
    <3>1. CASE i # p \/ j # m
      <4>1. PICK u \in Tasks : Proc(u) = i /\ MachineOf[u] = j /\ held[u] = map[i][j]
        BY <1>2, <2>1, <3>1 DEF LockInv, EntryInUse
      <4>2. u # t
        BY <3>1, <4>1 DEF p, m
      <4> QED BY <1>2, <3>1, <4>1, <4>2
    <3>2. CASE i = p /\ j = m
      BY <1>2, <3>2 DEF p, m
    <3> QED BY <3>1, <3>2
  <2>2. ASSUME NEW u \in Tasks, NEW v \in Tasks, held'[u] # None, held'[u] = held'[v]
        PROVE  Proc(u) = Proc(v) /\ MachineOf[u] = MachineOf[v]
    <3>1. CASE held'[u] = l
      BY <1>2, <1>4, <2>2, <3>1 DEF p, m
    <3>2. CASE held'[u] # l
      BY <1>2, <2>2, <3>2 DEF LockInv, EntryInUse
    <3> QED BY <3>1, <3>2
  <2> QED BY <2>1, <2>2 DEF EntryInUse
<1> QED BY <1>5, <1>6

\* A handler enters a lock that nobody is inside of and that no other waiter
\* has been woken for.
LEMMA EnterKeepsLock ==
  ASSUME LockInv, NEW t \in Tasks, NEW l \in Locks, NEW q \in Seq(Tasks),
         map' = [map EXCEPT ![Proc(t)][MachineOf[t]] = l],
         held' = [held EXCEPT ![t] = l],
         Entry(t) = l \/ (Entry(t) = None /\ Unused(l)),
         EnterLock(t, l, q),
         held[t] \in {l, None}, ~ Inside(t),
         Elements(q) = {u \in Tasks : held[u] = l /\ pc[u] = "wait"} \ {t},
         Distinct(q),
         \A u \in Tasks : held[u] = l => ~ Inside(u),
         \A u \in Tasks \ {t} : held[u] = l => future[u] # "set"
  PROVE  LockInv'
<1> USE ReconcileLockAssumption, ExecutorAssumption
<1>1. /\ \A u \in Tasks \ {t} : pc'[u] = pc[u] /\ future'[u] = future[u] /\ held'[u] = held[u]
      /\ pc'[t] = "acquire" /\ future'[t] = "none" /\ held'[t] = l
      /\ \A u \in Tasks \ {t} : Inside(u)' <=> Inside(u)
      /\ Inside(t)'
  BY DEF EnterLock, LockInv, LockTypeOK, Inside
<1>2. /\ \A k \in Locks \ {l} : lock'[k] = lock[k]
      /\ lock'[l].locked = TRUE /\ lock'[l].waiters = q
      /\ lock' \in [Locks -> [locked : BOOLEAN, waiters : Seq(Tasks)]]
  BY DEF EnterLock, LockInv, LockTypeOK
<1>3. LockTypeOK'
  BY <1>2 DEF EnterLock, LockInv, LockTypeOK, Proc
<1>4. EntryIsHeld' /\ EntryInUse'
  BY <1>1, HolderKeepsEntry
<1>5. QueueIsWaiting'
  <2>1. ASSUME NEW k \in Locks \ {l}
        PROVE  /\ Elements(lock'[k].waiters) = {u \in Tasks : held'[u] = k /\ pc'[u] = "wait"}
               /\ Distinct(lock'[k].waiters)
    <3>1. \A u \in Tasks : held'[u] = k /\ pc'[u] = "wait" <=> held[u] = k /\ pc[u] = "wait"
      BY <1>1
    <3> QED BY <1>2, <3>1 DEF LockInv, QueueIsWaiting
  <2>2. /\ Elements(lock'[l].waiters) = {u \in Tasks : held'[u] = l /\ pc'[u] = "wait"}
        /\ Distinct(lock'[l].waiters)
    BY <1>1, <1>2, SMTT(30)
  <2> QED BY <2>1, <2>2 DEF QueueIsWaiting
<1>6. LockedByOne'
  <2>1. ASSUME NEW u \in Tasks, Inside(u)' PROVE lock'[held'[u]].locked
    <3>1. CASE u = t
      BY <1>1, <1>2, <3>1
    <3>2. CASE u # t
      <4>1. Inside(u) /\ held'[u] = held[u] /\ held[u] \in Locks
        BY <1>1, <2>1, <3>2 DEF LockInv, LockTypeOK, EntryIsHeld, Inside
      <4> QED BY <1>2, <4>1 DEF LockInv, LockedByOne
    <3> QED BY <3>1, <3>2
  <2>2. ASSUME NEW k \in Locks, lock'[k].locked
        PROVE  \E u \in Tasks : held'[u] = k /\ Inside(u)'
    <3>1. CASE k = l
      BY <1>1, <3>1
    <3>2. CASE k # l
      <4>1. PICK u \in Tasks : held[u] = k /\ Inside(u)
        BY <1>2, <2>2, <3>2 DEF LockInv, LockedByOne
      <4> QED BY <1>1, <3>2, <4>1
    <3> QED BY <3>1, <3>2
  <2>3. ASSUME NEW u \in Tasks, NEW v \in Tasks, Inside(u)', Inside(v)', held'[u] = held'[v]
        PROVE  u = v
    BY <1>1, <2>3 DEF LockInv, LockedByOne
  <2> QED BY <2>1, <2>2, <2>3 DEF LockedByOne
<1>7. WokenIsFirst'
  <2>1. ASSUME NEW u \in Tasks, future'[u] = "set"
        PROVE  /\ ~ lock'[held'[u]].locked
               /\ lock'[held'[u]].waiters # << >>
               /\ lock'[held'[u]].waiters[1] = u
    <3>1. u # t /\ future[u] = "set" /\ held'[u] = held[u] /\ held[u] # l
      BY <1>1, <2>1
    <3>2. held[u] \in Locks
      BY <3>1 DEF LockInv, LockTypeOK, EntryIsHeld
    <3> QED BY <1>2, <3>1, <3>2 DEF LockInv, WokenIsFirst
  <2> QED BY <2>1 DEF WokenIsFirst
<1> QED BY <1>3, <1>4, <1>5, <1>6, <1>7 DEF LockInv

\* Every entry of the map is in use, so that tasks never run out of locks.
LEMMA UnusedLock ==
  ASSUME LockInv, NEW t \in Tasks, pc[t] = "idle"
  PROVE  \E l \in Locks : Unused(l)
<1> USE ReconcileLockAssumption
<1> DEFINE T == Tasks \ {t}
           R == {held[u] : u \in T}
           f == [u \in T |-> held[u]]
<1>1. IsFiniteSet(T) /\ Cardinality(T) = Cardinality(Tasks) - 1
  BY FS_RemoveElement
<1>2. IsFiniteSet(R) /\ Cardinality(R) <= Cardinality(T)
  <2>1. f \in Surjection(T, R)
    BY DEF Surjection
  <2> HIDE DEF T, R, f
  <2> QED BY <1>1, <2>1, FS_Surjection
<1>3. PICK l \in Locks : l \notin R
  <2>1. SUFFICES ASSUME Locks \subseteq R PROVE FALSE
    OBVIOUS
  <2> HIDE DEF T, R
  <2>2. Cardinality(Locks) <= Cardinality(R)
    BY <1>2, <2>1, FS_Subset
  <2>3. Cardinality(Locks) \in Nat /\ Cardinality(R) \in Nat /\ Cardinality(Tasks) \in Nat
    BY <1>2, FS_CardinalityType
  <2>4. Cardinality(T) \in Nat
    BY <1>1, FS_CardinalityType
  <2> QED BY <1>1, <1>2, <2>2, <2>3, <2>4
<1>4. \A u \in Tasks : held[u] # l
  BY <1>3 DEF LockInv, EntryIsHeld
<1>5. \A p \in Processes, m \in Machines : map[p][m] # l
  BY <1>3, <1>4 DEF LockInv, EntryInUse
<1> QED BY <1>4, <1>5 DEF Unused

\* A handler starts: it enters a free lock or joins the queue.
LEMMA StartKeepsLock ==
  ASSUME LockInv, NEW t \in Tasks, Start(t)
  PROVE  LockInv'
<1> USE ReconcileLockAssumption, ExecutorAssumption
<1> DEFINE l == IF Entry(t) # None THEN Entry(t) ELSE CHOOSE new \in Locks : Unused(new)
           q == lock[l].waiters
<1>0. pc[t] = "idle" /\ held[t] = None /\ ~ Inside(t)
  BY DEF Start, LockInv, EntryIsHeld, Inside
<1>1. l \in Locks /\ (Entry(t) = l \/ (Entry(t) = None /\ Unused(l)))
  <2>1. Entry(t) \in Locks \union {None}
    BY DEF Entry, Proc, LockInv, LockTypeOK
  <2>2. \E new \in Locks : Unused(new)
    BY <1>0, UnusedLock
  <2> QED BY <2>1, <2>2
<1>2. /\ map' = [map EXCEPT ![Proc(t)][MachineOf[t]] = l]
      /\ held' = [held EXCEPT ![t] = l]
      /\ \/ /\ ~ lock[l].locked
            /\ \A i \in 1 .. Len(q) : future[q[i]] = "cancelled"
            /\ EnterLock(t, l, q)
         \/ /\ lock[l].locked \/ \E i \in 1 .. Len(q) : future[q[i]] # "cancelled"
            /\ lock' = [lock EXCEPT ![l].waiters = Append(@, t)]
            /\ pc' = [pc EXCEPT ![t] = "wait"]
            /\ future' = [future EXCEPT ![t] = "pending"]
  BY DEF Start
<1> HIDE DEF l
<1>3. /\ q \in Seq(Tasks)
      /\ Elements(q) = {u \in Tasks : held[u] = l /\ pc[u] = "wait"}
      /\ Distinct(q)
      /\ t \notin Elements(q)
  BY <1>0, <1>1 DEF LockInv, LockTypeOK, QueueIsWaiting
<1>4. CASE /\ ~ lock[l].locked /\ (\A i \in 1 .. Len(q) : future[q[i]] = "cancelled")
           /\ EnterLock(t, l, q)
  <2>1. \A u \in Tasks : held[u] = l => ~ Inside(u)
    BY <1>4 DEF LockInv, LockedByOne
  <2>2. \A u \in Elements(q) : future[u] = "cancelled"
    BY <1>4 DEF Elements
  <2>3. \A u \in Tasks \ {t} : held[u] = l => future[u] # "set"
    BY <1>3, <2>2 DEF LockInv, EntryIsHeld
  <2>4. Elements(q) = {u \in Tasks : held[u] = l /\ pc[u] = "wait"} \ {t}
    BY <1>0, <1>3
  <2> HIDE DEF q
  <2> QED BY <1>0, <1>1, <1>2, <1>3, <1>4, <2>1, <2>3, <2>4, EnterKeepsLock
<1>5. CASE /\ lock' = [lock EXCEPT ![l].waiters = Append(@, t)]
           /\ pc' = [pc EXCEPT ![t] = "wait"]
           /\ future' = [future EXCEPT ![t] = "pending"]
  <2>0. /\ Append(q, t) \in Seq(Tasks)
        /\ Elements(Append(q, t)) = Elements(q) \union {t}
        /\ q # << >> => Append(q, t)[1] = q[1]
        /\ Append(q, t) # << >>
        /\ Distinct(Append(q, t))
    BY <1>3, QueueAppend
  <2>1. /\ \A u \in Tasks \ {t} : pc'[u] = pc[u] /\ future'[u] = future[u] /\ held'[u] = held[u]
        /\ pc'[t] = "wait" /\ future'[t] = "pending" /\ held'[t] = l
        /\ \A u \in Tasks : Inside(u)' <=> Inside(u)
    BY <1>0, <1>2, <1>5 DEF LockInv, LockTypeOK, Inside
  <2>2. /\ \A k \in Locks \ {l} : lock'[k] = lock[k]
        /\ lock'[l].locked = lock[l].locked /\ lock'[l].waiters = Append(q, t)
        /\ lock' \in [Locks -> [locked : BOOLEAN, waiters : Seq(Tasks)]]
    <3> DEFINE n == [lock[l] EXCEPT !.waiters = Append(q, t)]
    <3>1. lock[l] \in [locked : BOOLEAN, waiters : Seq(Tasks)]
      BY <1>1 DEF LockInv, LockTypeOK
    <3>2. /\ n \in [locked : BOOLEAN, waiters : Seq(Tasks)]
          /\ n.locked = lock[l].locked /\ n.waiters = Append(q, t)
      BY <2>0, <3>1
    <3>3. lock' = [lock EXCEPT ![l] = n]
      BY <1>5
    <3> HIDE DEF n
    <3> QED BY <1>1, <3>2, <3>3 DEF LockInv, LockTypeOK
  <2>3. LockTypeOK'
    BY <1>1, <1>2, <1>5, <2>2 DEF LockInv, LockTypeOK, Proc
  <2>4. EntryIsHeld' /\ EntryInUse'
    BY <1>1, <1>2, <2>1, HolderKeepsEntry
  <2>5. QueueIsWaiting'
    <3>1. ASSUME NEW k \in Locks \ {l}
          PROVE  /\ Elements(lock'[k].waiters) = {u \in Tasks : held'[u] = k /\ pc'[u] = "wait"}
                 /\ Distinct(lock'[k].waiters)
      <4>1. \A u \in Tasks : held'[u] = k /\ pc'[u] = "wait" <=> held[u] = k /\ pc[u] = "wait"
        BY <1>0, <2>1
      <4>2. lock'[k] = lock[k]
        BY <2>2
      <4>3. /\ Elements(lock[k].waiters) = {u \in Tasks : held[u] = k /\ pc[u] = "wait"}
            /\ Distinct(lock[k].waiters)
        BY DEF LockInv, QueueIsWaiting
      <4> QED BY <4>1, <4>2, <4>3
    <3>2. /\ Elements(lock'[l].waiters) = {u \in Tasks : held'[u] = l /\ pc'[u] = "wait"}
          /\ Distinct(lock'[l].waiters)
      BY <1>3, <2>0, <2>1, <2>2
    <3> QED BY <3>1, <3>2 DEF QueueIsWaiting
  <2>6. LockedByOne'
    <3>1. \A k \in Locks : lock'[k].locked = lock[k].locked
      BY <2>2
    <3>2. \A u \in Tasks : Inside(u) => u # t /\ held'[u] = held[u] /\ held[u] \in Locks
      BY <1>0, <2>1 DEF LockInv, LockTypeOK, EntryIsHeld, Inside
    <3> QED BY <2>1, <3>1, <3>2 DEF LockInv, LockedByOne
  <2>7. WokenIsFirst'
    <3>1. ASSUME NEW u \in Tasks, future'[u] = "set"
          PROVE  /\ ~ lock'[held'[u]].locked
                 /\ lock'[held'[u]].waiters # << >>
                 /\ lock'[held'[u]].waiters[1] = u
      <4>1. u # t /\ future[u] = "set" /\ held'[u] = held[u]
        BY <2>1, <3>1
      <4>2. /\ held[u] \in Locks
            /\ ~ lock[held[u]].locked
            /\ lock[held[u]].waiters # << >>
            /\ lock[held[u]].waiters[1] = u
        <5>1. held[u] \in Locks
          BY <4>1 DEF LockInv, LockTypeOK, EntryIsHeld
        <5> QED BY <4>1, <5>1 DEF LockInv, WokenIsFirst
      <4>3. CASE held[u] = l
        BY <2>0, <2>2, <4>1, <4>2, <4>3
      <4>4. CASE held[u] # l
        BY <2>2, <4>1, <4>2, <4>4
      <4> QED BY <4>3, <4>4
    <3> QED BY <3>1 DEF WokenIsFirst
  <2> QED BY <2>3, <2>4, <2>5, <2>6, <2>7 DEF LockInv
<1> QED BY <1>2, <1>4, <1>5

\* A waiter runs: woken it enters, cancelled it leaves.
LEMMA WaiterKeepsLock ==
  ASSUME LockInv, NEW t \in Tasks, WaiterEnters(t) \/ WaiterLeaves(t)
  PROVE  LockInv'
<1> USE ReconcileLockAssumption, ExecutorAssumption
<1> DEFINE l == held[t]
           q == lock[l].waiters
           r == RemoveFirst(q, t)
<1>1. /\ pc[t] = "wait" /\ l \in Locks /\ l # None /\ Entry(t) = l /\ ~ Inside(t)
      /\ q \in Seq(Tasks) /\ Distinct(q)
      /\ Elements(q) = {u \in Tasks : held[u] = l /\ pc[u] = "wait"}
  BY DEF WaiterEnters, WaiterLeaves, LockInv, LockTypeOK, EntryIsHeld, QueueIsWaiting, Inside
<1>2. /\ r \in Seq(Tasks) /\ Distinct(r)
      /\ Elements(r) = Elements(q) \ {t}
      /\ q[1] # t => r # << >> /\ r[1] = q[1]
  BY <1>1, QueueRemove
<1>3. CASE WaiterEnters(t)
  <2>1. future[t] = "set" /\ EnterLock(t, l, r) /\ map' = map /\ held' = held
    BY <1>3 DEF WaiterEnters
  <2>2. ~ lock[l].locked /\ q[1] = t
    BY <2>1 DEF LockInv, WokenIsFirst
  <2>3. \A u \in Tasks : held[u] = l => ~ Inside(u)
    BY <2>2 DEF LockInv, LockedByOne
  <2>4. \A u \in Tasks \ {t} : held[u] = l => future[u] # "set"
    BY <2>2 DEF LockInv, WokenIsFirst
  <2>5. held' = [held EXCEPT ![t] = l]
    BY <2>1 DEF LockInv, LockTypeOK
  <2>6. map' = [map EXCEPT ![Proc(t)][MachineOf[t]] = l]
    <3>1. Proc(t) \in Processes /\ MachineOf[t] \in Machines /\ map[Proc(t)][MachineOf[t]] = l
      BY <1>1 DEF Entry, Proc
    <3> HIDE DEF l
    <3>2. map \in [Processes -> [Machines -> Locks \union {None}]]
      BY DEF LockInv, LockTypeOK
    <3> QED BY <2>1, <3>1, <3>2
  <2>7. Elements(r) = {u \in Tasks : held[u] = l /\ pc[u] = "wait"} \ {t}
    BY <1>1, <1>2
  <2> HIDE DEF r, q
  <2> QED BY <1>1, <1>2, <2>1, <2>3, <2>4, <2>5, <2>6, <2>7, EnterKeepsLock
<1>4. CASE WaiterLeaves(t)
  <2> DEFINE locked == lock[l].locked
  <2>1. LeaveLock(t, locked, r) /\ locked \in BOOLEAN
    BY <1>1, <1>4 DEF WaiterLeaves, LockInv, LockTypeOK
  <2>2. locked => \E u \in Tasks \ {t} : held[u] = held[t] /\ Inside(u)
    BY <1>1 DEF LockInv, LockedByOne
  <2>3. ~ locked => \A u \in Tasks \ {t} : held[u] = held[t] => ~ Inside(u)
    BY DEF LockInv, LockedByOne
  <2>4. \A u \in Tasks \ {t} : held[u] = held[t] /\ future[u] = "set" =>
          ~ locked /\ r # << >> /\ r[1] = u
    BY <1>2 DEF LockInv, WokenIsFirst
  <2>5. Elements(r) = {u \in Tasks : held[u] = held[t] /\ pc[u] = "wait"} \ {t}
    BY <1>1, <1>2
  <2> HIDE DEF r, q, locked, l
  <2> QED BY <1>1, <1>2, <2>1, <2>2, <2>3, <2>4, <2>5, LeaveKeepsLock
<1> QED BY <1>3, <1>4

\* async with lock is left by the handler that is inside.
LEMMA ReleaseKeepsLock ==
  ASSUME LockInv, NEW t \in Tasks, Inside(t), Leave(t)
  PROVE  LockInv'
<1> DEFINE l == held[t]
           q == lock[l].waiters
<1>1. /\ pc[t] # "idle" /\ pc[t] # "wait" /\ l \in Locks /\ l # None
      /\ q \in Seq(Tasks) /\ Distinct(q)
      /\ Elements(q) = {u \in Tasks : held[u] = l /\ pc[u] = "wait"}
  BY DEF LockInv, LockTypeOK, EntryIsHeld, QueueIsWaiting, Inside
<1>2. Elements(q) = {u \in Tasks : held[u] = held[t] /\ pc[u] = "wait"} \ {t}
  BY <1>1
<1>3. lock[l].locked /\ \A u \in Tasks \ {t} : held[u] = held[t] => ~ Inside(u)
  BY DEF LockInv, LockedByOne
<1>4. \A u \in Tasks : held[u] = held[t] => future[u] # "set"
  BY <1>3 DEF LockInv, WokenIsFirst
<1>5. LeaveLock(t, FALSE, q)
  BY DEF Leave
<1> HIDE DEF q, l
<1> QED BY <1>1, <1>2, <1>3, <1>4, <1>5, LeaveKeepsLock

\* A handler that goes on inside its lock, or whose future is cancelled, leaves
\* the locks as they are.
LEMMA LockUndisturbed ==
  ASSUME LockInv, UNCHANGED <<map, lock, held>>,
         pc' \in [Tasks -> {"idle", "wait", "acquire", "body", "release"}],
         \A t \in Tasks : \/ pc'[t] = pc[t]
                          \/ Inside(t) /\ pc'[t] \in {"acquire", "body", "release"},
         future' \in [Tasks -> {"none", "pending", "set", "cancelled"}],
         \A t \in Tasks : \/ future'[t] = future[t]
                          \/ future[t] = "pending" /\ future'[t] = "cancelled"
  PROVE  LockInv'
<1>1. \A t \in Tasks : /\ pc'[t] = "idle" <=> pc[t] = "idle"
                       /\ pc'[t] = "wait" <=> pc[t] = "wait"
                       /\ Inside(t)' <=> Inside(t)
                       /\ future'[t] = "none" <=> future[t] = "none"
                       /\ future'[t] = "set" => future[t] = "set"
  BY DEF Inside, LockInv, LockTypeOK
<1>2. LockTypeOK' /\ EntryInUse'
  BY DEF LockInv, LockTypeOK, EntryInUse, Proc
<1>3. EntryIsHeld' /\ WokenIsFirst'
  BY <1>1 DEF LockInv, EntryIsHeld, WokenIsFirst, Entry, Proc
<1>4. QueueIsWaiting'
  BY <1>1 DEF LockInv, QueueIsWaiting
<1>5. LockedByOne'
  BY <1>1 DEF LockInv, LockedByOne
<1> QED BY <1>2, <1>3, <1>4, <1>5 DEF LockInv

\* The locks of a process that dies go with it, and no others.
LEMMA CrashKeepsLock ==
  ASSUME LockInv, NEW p \in Processes, Crash(p)
  PROVE  LockInv'
<1> USE ReconcileLockAssumption, ExecutorAssumption DEF Proc
<1> DEFINE dead == {t \in Tasks : Proc(t) = p}
           lost(l) == \E t \in dead : held[t] = l
<1>1. /\ pc' = [t \in Tasks |-> IF t \in dead THEN "idle" ELSE pc[t]]
      /\ held' = [t \in Tasks |-> IF t \in dead THEN None ELSE held[t]]
      /\ future' = [t \in Tasks |-> IF t \in dead THEN "none" ELSE future[t]]
      /\ map' = [map EXCEPT ![p] = [m \in Machines |-> None]]
      /\ lock' = [l \in Locks |-> IF lost(l) THEN NewLock ELSE lock[l]]
  BY DEF Crash
<1>2. \A l \in Locks : lost(l) => \A t \in Tasks : held[t] = l => t \in dead
  BY DEF LockInv, EntryInUse
<1> HIDE DEF lost
<1>3. /\ \A t \in dead : pc'[t] = "idle" /\ held'[t] = None /\ future'[t] = "none" /\ ~ Inside(t)'
      /\ \A t \in Tasks \ dead : /\ pc'[t] = pc[t] /\ held'[t] = held[t] /\ future'[t] = future[t]
                                 /\ Inside(t)' <=> Inside(t)
                                 /\ held[t] \in Locks => lock'[held[t]] = lock[held[t]]
  BY <1>1, <1>2 DEF Inside
<1>4. LockTypeOK'
  <2>1. NewLock \in [locked : BOOLEAN, waiters : Seq(Tasks)]
    BY DEF NewLock
  <2> QED BY <1>1, <2>1 DEF LockInv, LockTypeOK
<1>5. EntryIsHeld'
  BY <1>1, <1>3 DEF LockInv, LockTypeOK, EntryIsHeld, Entry
<1>6. EntryInUse'
  <2>1. ASSUME NEW i \in Processes, NEW j \in Machines, map'[i][j] # None
        PROVE  \E u \in Tasks : Proc(u) = i /\ MachineOf[u] = j /\ held'[u] = map'[i][j]
    <3>1. i # p /\ map'[i][j] = map[i][j]
      BY <1>1, <2>1 DEF LockInv, LockTypeOK
    <3>2. PICK u \in Tasks : Proc(u) = i /\ MachineOf[u] = j /\ held[u] = map[i][j]
      BY <2>1, <3>1 DEF LockInv, EntryInUse
    <3> QED BY <1>3, <3>1, <3>2
  <2>2. ASSUME NEW u \in Tasks, NEW v \in Tasks, held'[u] # None, held'[u] = held'[v]
        PROVE  Proc(u) = Proc(v) /\ MachineOf[u] = MachineOf[v]
    BY <1>3, <2>2 DEF LockInv, EntryInUse
  <2> QED BY <2>1, <2>2 DEF EntryInUse
<1>7. QueueIsWaiting'
  <2>1. ASSUME NEW l \in Locks
        PROVE  /\ Elements(lock'[l].waiters) = {t \in Tasks : held'[t] = l /\ pc'[t] = "wait"}
               /\ Distinct(lock'[l].waiters)
    <3>1. CASE lost(l)
      <4>1. lock'[l].waiters = << >>
        BY <1>1, <3>1 DEF NewLock
      <4>2. Elements(<< >>) = {} /\ Distinct(<< >>)
        BY DEF Elements, Distinct
      <4>3. {t \in Tasks : held'[t] = l /\ pc'[t] = "wait"} = {}
        BY <1>2, <1>3, <3>1
      <4> QED BY <4>1, <4>2, <4>3
    <3>2. CASE ~ lost(l)
      <4>1. lock'[l] = lock[l]
        BY <1>1, <3>2
      <4>2. \A t \in Tasks : held'[t] = l /\ pc'[t] = "wait" <=> held[t] = l /\ pc[t] = "wait"
        BY <1>3, <3>2 DEF lost
      <4>3. /\ Elements(lock[l].waiters) = {t \in Tasks : held[t] = l /\ pc[t] = "wait"}
            /\ Distinct(lock[l].waiters)
        BY DEF LockInv, QueueIsWaiting
      <4> QED BY <4>1, <4>2, <4>3
    <3> QED BY <3>1, <3>2
  <2> QED BY <2>1 DEF QueueIsWaiting
<1>8. LockedByOne'
  <2>1. \A t \in Tasks : Inside(t)' =>
          t \notin dead /\ Inside(t) /\ held'[t] = held[t] /\ lock'[held[t]] = lock[held[t]]
    BY <1>3 DEF LockInv, LockTypeOK, EntryIsHeld, Inside
  <2>2. ASSUME NEW l \in Locks, lock'[l].locked
        PROVE  \E t \in Tasks : held'[t] = l /\ Inside(t)'
    <3>1. ~ lost(l) /\ lock[l].locked
      BY <1>1, <2>2 DEF NewLock
    <3>2. PICK t \in Tasks : held[t] = l /\ Inside(t)
      BY <3>1 DEF LockInv, LockedByOne
    <3> QED BY <1>3, <3>1, <3>2 DEF lost
  <2> QED BY <2>1, <2>2 DEF LockInv, LockedByOne
<1>9. WokenIsFirst'
  <2>1. \A t \in Tasks : future'[t] = "set" =>
          t \notin dead /\ future[t] = "set" /\ held'[t] = held[t] /\ lock'[held[t]] = lock[held[t]]
    BY <1>3 DEF LockInv, LockTypeOK, EntryIsHeld
  <2> QED BY <2>1 DEF LockInv, WokenIsFirst
<1> QED BY <1>4, <1>5, <1>6, <1>7, <1>8, <1>9 DEF LockInv

\* Every step keeps what is said of the asyncio.Locks.
LEMMA LockInvStep == LockInv /\ ExecutorInv /\ [Next]_vars => LockInv'
<1> SUFFICES ASSUME LockInv, ExecutorInv, [Next]_vars PROVE LockInv'
  OBVIOUS
<1>1. CASE UNCHANGED lockVars
  BY <1>1, LockUndisturbed DEF lockVars, LockInv, LockTypeOK
<1>2. ASSUME NEW t \in Tasks, CallReturns(t) PROVE LockInv'
  <2>1. CASE Leave(t)
    <3>1. Inside(t)
      BY <1>2 DEF CallReturns, Returns, ExecutorInv, CallsInside
    <3> QED BY <2>1, <3>1, ReleaseKeepsLock
  <2>2. CASE /\ Inside(t)
             /\ pc' = [pc EXCEPT ![t] = "body"] \/ pc' = [pc EXCEPT ![t] = "release"]
             /\ UNCHANGED <<map, lock, held, future>>
    BY <2>2, LockUndisturbed DEF LockInv, LockTypeOK
  <2> QED BY <1>2, <2>1, <2>2 DEF CallReturns, Inside
<1>3. ASSUME NEW t \in Tasks, BodyEnds(t) PROVE LockInv'
  BY <1>3, LockUndisturbed DEF BodyEnds, LockInv, LockTypeOK, Inside
<1>4. ASSUME NEW t \in Tasks, Cancel(t) PROVE LockInv'
  BY <1>4, LockUndisturbed DEF Cancel, LockInv, LockTypeOK
<1>5. ASSUME NEW t \in Tasks, Task(t) PROVE LockInv'
  BY <1>1, <1>2, <1>3, <1>5, WaiterKeepsLock DEF Task, TaskSubmits, BodyCalls
<1>6. ASSUME NEW t \in Tasks, Thread(t) PROVE LockInv'
  BY <1>1, <1>6 DEF Thread, ThreadReads, ThreadWrites, ThreadFails, ThreadWorks
<1>7. CASE (\E r \in late : LateCommit(r)) \/ (\E m \in Machines : Touch(m) \/ Expire(m))
  BY <1>1, <1>7 DEF LateCommit, Touch, Expire
<1>8. CASE UNCHANGED vars
  BY <1>1, <1>8 DEF vars
<1> QED
  BY <1>4, <1>5, <1>6, <1>7, <1>8, StartKeepsLock, CrashKeepsLock DEF Next

-----------------------------------------------------------------------------
(* The executor *)

\* A slot is taken by at most Slots tasks of a process when one submits.
LEMMA SubmitKeepsSlots ==
  ASSUME ExecutorInv, NEW t \in Tasks, Submit(t)
  PROVE  SlotsBounded'
<1> USE ReconcileLockAssumption, ExecutorAssumption
<1>1. call' = [call EXCEPT ![t] = "future"] /\ call[t] = "slot"
      /\ Cardinality(SlotsTaken(ProcOf[t])) < Slots
  BY DEF Submit
<1>2. ASSUME NEW p \in Processes PROVE Cardinality(SlotsTaken(p)') <= Slots
  <2>1. CASE p # ProcOf[t]
    <3>1. SlotsTaken(p)' = SlotsTaken(p)
      BY <1>1, <2>1 DEF SlotsTaken, ExecutorInv, ExecutorTypeOK
    <3> QED BY <3>1 DEF ExecutorInv, SlotsBounded
  <2>2. CASE p = ProcOf[t]
    <3>1. SlotsTaken(p)' = SlotsTaken(p) \union {t} /\ t \notin SlotsTaken(p)
      BY <1>1, <2>2 DEF SlotsTaken, ExecutorInv, ExecutorTypeOK
    <3>2. IsFiniteSet(SlotsTaken(p))
      BY FS_Subset DEF SlotsTaken
    <3>3. Cardinality(SlotsTaken(p)') = Cardinality(SlotsTaken(p)) + 1
      BY <3>1, <3>2, FS_AddElement
    <3>4. Cardinality(SlotsTaken(p)) \in Nat
      BY <3>2, FS_CardinalityType
    <3> QED BY <1>1, <2>2, <3>3, <3>4
  <2> QED BY <2>1, <2>2
<1> QED BY <1>2 DEF SlotsBounded, SlotsTaken

\* Nobody takes a slot in any other step.
LEMMA SlotsKept ==
  ASSUME ExecutorInv, \A t \in Tasks : call'[t] = "future" => call[t] = "future"
  PROVE  SlotsBounded'
<1> USE ReconcileLockAssumption, ExecutorAssumption
<1>1. ASSUME NEW p \in Processes PROVE Cardinality(SlotsTaken(p)') <= Slots
  <2>1. SlotsTaken(p)' \subseteq SlotsTaken(p)
    BY DEF SlotsTaken
  <2>2. IsFiniteSet(SlotsTaken(p))
    BY FS_Subset DEF SlotsTaken
  <2>3. Cardinality(SlotsTaken(p)') <= Cardinality(SlotsTaken(p)) /\ IsFiniteSet(SlotsTaken(p)')
    BY <2>1, <2>2, FS_Subset
  <2>4. Cardinality(SlotsTaken(p)) \in Nat /\ Cardinality(SlotsTaken(p)') \in Nat
    BY <2>2, <2>3, FS_CardinalityType
  <2>5. Cardinality(SlotsTaken(p)) <= Slots
    BY DEF ExecutorInv, SlotsBounded
  <2> QED BY <2>3, <2>4, <2>5
<1> QED BY <1>1 DEF SlotsBounded, SlotsTaken

\* run_api of one task: it stays inside its lock while the call or the thread
\* goes on, and the others are not concerned.
LEMMA CallKeepsExecutor ==
  ASSUME ExecutorInv, NEW t \in Tasks, ExecutorTypeOK',
         \A u \in Tasks \ {t} :
           call'[u] = call[u] /\ thread'[u] = thread[u] /\ (Inside(u) => Inside(u)'),
         call'[t] # "none" => Inside(t)',
         thread'[t] # "none" => call'[t] = "future",
         call'[t] = "future" => call[t] = "future" \/ Submit(t)
  PROVE  ExecutorInv'
<1>1. SlotsBounded'
  <2>1. CASE Submit(t)
    BY <2>1, SubmitKeepsSlots
  <2>2. CASE ~ Submit(t)
    BY <2>2, SlotsKept
  <2> QED BY <2>1, <2>2
<1>2. CallsInside'
  BY DEF ExecutorInv, CallsInside
<1> QED BY <1>1, <1>2 DEF ExecutorInv

\* Every step keeps what is said of the executor.
LEMMA ExecutorInvStep == LockInv /\ ExecutorInv /\ [Next]_vars => ExecutorInv'
<1> SUFFICES ASSUME LockInv, ExecutorInv, [Next]_vars PROVE ExecutorInv'
  OBVIOUS
<1> USE DEF ExecutorInv, LockInv
<1>1. CASE UNCHANGED <<executorVars, pc>>
  <2>1. CallsInside' /\ ExecutorTypeOK'
    BY <1>1 DEF executorVars, CallsInside, ExecutorTypeOK, Inside
  <2>2. \A t \in Tasks : call'[t] = "future" => call[t] = "future"
    BY <1>1 DEF executorVars
  <2> QED BY <2>1, <2>2, SlotsKept
<1>2. ASSUME NEW t \in Tasks, Start(t) \/ WaiterEnters(t) PROVE ExecutorInv'
  <2>1. pc[t] \in {"idle", "wait"} /\ call[t] = "none" /\ thread[t] = "none"
    BY <1>2 DEF Start, WaiterEnters, CallsInside, Inside, ExecutorTypeOK
  <2>2. /\ UNCHANGED <<thread, result, cancel>>
        /\ \/ pc' = [pc EXCEPT ![t] = "acquire"] /\ call' = [call EXCEPT ![t] = "slot"]
           \/ pc' = [pc EXCEPT ![t] = "wait"] /\ UNCHANGED call
    BY <1>2 DEF Start, WaiterEnters, EnterLock
  <2>3. ExecutorTypeOK'
    BY <2>2 DEF ExecutorTypeOK
  <2> QED BY <2>1, <2>2, <2>3, CallKeepsExecutor DEF Inside, LockTypeOK, ExecutorTypeOK
<1>3. ASSUME NEW t \in Tasks, WaiterLeaves(t) \/ Cancel(t) PROVE ExecutorInv'
  <2>1. /\ UNCHANGED <<call, thread, result>>
        /\ \/ pc[t] = "wait" /\ pc' = [pc EXCEPT ![t] = "idle"]
           \/ UNCHANGED pc
        /\ cancel' \in [Tasks -> BOOLEAN]
    BY <1>3 DEF WaiterLeaves, Cancel, LeaveLock, ExecutorTypeOK
  <2>2. ExecutorTypeOK'
    BY <2>1 DEF ExecutorTypeOK
  <2>3. pc[t] = "wait" => call[t] = "none" /\ thread[t] = "none"
    BY DEF CallsInside, Inside, ExecutorTypeOK
  <2> QED BY <2>1, <2>2, <2>3, CallKeepsExecutor DEF Inside, LockTypeOK, ExecutorTypeOK, CallsInside
<1>4. ASSUME NEW t \in Tasks, CallReturns(t) \/ BodyEnds(t) PROVE ExecutorInv'
  <2>1. Inside(t) /\ (thread[t] \in {"none", "done"})
    BY <1>4 DEF CallReturns, BodyEnds, Returns, CallsInside, Inside, ExecutorTypeOK
  <2>2. PICK next \in {"none", "slot"} :
          /\ Returned(t, next)
          /\ \/ pc' = [pc EXCEPT ![t] = "release"]
             \/ /\ next = "none"
                /\ pc' = [pc EXCEPT ![t] = "body"] \/ pc' = [pc EXCEPT ![t] = "idle"]
    BY <1>4 DEF CallReturns, BodyEnds, Leave, LeaveLock
  <2>3. /\ ExecutorTypeOK'
        /\ call'[t] = next /\ thread'[t] = "none"
        /\ \A u \in Tasks \ {t} : call'[u] = call[u] /\ thread'[u] = thread[u]
    BY <2>1, <2>2 DEF Returned, ExecutorTypeOK
  <2>4. \A u \in Tasks \ {t} : Inside(u) => Inside(u)'
    BY <2>2 DEF LockTypeOK, Inside
  <2>5. next # "none" => Inside(t)'
    BY <2>2 DEF LockTypeOK, Inside
  <2> QED BY <2>3, <2>4, <2>5, CallKeepsExecutor
<1>5. ASSUME NEW t \in Tasks, BodyCalls(t) \/ TaskSubmits(t) PROVE ExecutorInv'
  <2>1. Inside(t) /\ UNCHANGED pc /\ ExecutorTypeOK'
    BY <1>5
    DEF BodyCalls, TaskSubmits, Submit, CallsInside, Inside, lockVars, ExecutorTypeOK
  <2>2. /\ \A u \in Tasks \ {t} : call'[u] = call[u] /\ thread'[u] = thread[u]
        /\ call'[t] = "future" => Submit(t)
        /\ thread'[t] # "none" => call'[t] = "future"
    BY <1>5 DEF BodyCalls, TaskSubmits, Submit, ExecutorTypeOK, CallsInside
  <2>3. \A u \in Tasks : Inside(u)' <=> Inside(u)
    BY <2>1 DEF Inside
  <2> QED BY <2>1, <2>2, <2>3, CallKeepsExecutor
<1>6. ASSUME NEW t \in Tasks, Thread(t) PROVE ExecutorInv'
  <2>1. /\ thread[t] \in {"read", "write"} /\ UNCHANGED <<pc, call>> /\ ExecutorTypeOK'
        /\ \A u \in Tasks \ {t} : thread'[u] = thread[u]
    BY <1>6
    DEF Thread, ThreadReads, ThreadWrites, ThreadFails, ThreadWorks, ThreadEnds, ExecutorTypeOK,
        lockVars
  <2>2. call[t] = "future" /\ Inside(t)
    BY <2>1 DEF CallsInside
  <2>3. \A u \in Tasks : Inside(u)' <=> Inside(u)
    BY <2>1 DEF Inside
  <2> QED BY <2>1, <2>2, <2>3, CallKeepsExecutor
<1>7. CASE (\E r \in late : LateCommit(r)) \/ (\E m \in Machines : Touch(m) \/ Expire(m))
  BY <1>1, <1>7 DEF LateCommit, Touch, Expire, lockVars
<1>8. ASSUME NEW p \in Processes, Crash(p) PROVE ExecutorInv'
  <2> DEFINE dead == {t \in Tasks : Proc(t) = p}
  <2>1. ExecutorTypeOK'
    BY <1>8 DEF Crash, ExecutorTypeOK
  <2>2. /\ \A t \in dead : call'[t] = "none" /\ thread'[t] = "none"
        /\ \A t \in Tasks \ dead :
             call'[t] = call[t] /\ thread'[t] = thread[t] /\ (Inside(t)' <=> Inside(t))
    BY <1>8 DEF Crash, Inside
  <2>3. CallsInside'
    BY <2>2 DEF CallsInside
  <2>4. SlotsBounded'
    BY <2>2, SlotsKept
  <2> QED BY <2>1, <2>3, <2>4
<1>9. CASE UNCHANGED vars
  BY <1>1, <1>9 DEF vars, lockVars
<1> QED
  BY <1>2, <1>3, <1>4, <1>5, <1>6, <1>7, <1>8, <1>9 DEF Next, Task

-----------------------------------------------------------------------------
(* The annotation *)

\* Two handlers of a Machine in one process have the same lock.
LEMMA OneInProcess == LockInv => OneHandlerInside
<1> SUFFICES ASSUME LockInv, NEW t \in Tasks, NEW u \in Tasks, Proc(t) = Proc(u),
                    MachineOf[t] = MachineOf[u], Inside(t), Inside(u)
             PROVE  t = u
  BY DEF OneHandlerInside
<1>1. held[t] = Entry(t) /\ held[u] = Entry(u)
  BY DEF LockInv, EntryIsHeld, Inside
<1>2. Entry(t) = Entry(u)
  BY DEF Entry
<1> QED BY <1>1, <1>2 DEF LockInv, LockedByOne

\* Types of the annotation
LEMMA AnnTypeStep == AnnTypeOK /\ [Next]_vars => AnnTypeOK'
<1> SUFFICES ASSUME AnnTypeOK, [Next]_vars PROVE AnnTypeOK'
  OBVIOUS
<1> USE ReconcileLockAssumption, ExecutorAssumption DEF AnnTypeOK
<1>1. CASE UNCHANGED annVars
  BY <1>1 DEF annVars
<1>2. ASSUME NEW t \in Tasks, CallReturns(t) PROVE AnnTypeOK'
  BY <1>2 DEF CallReturns
<1>3. ASSUME NEW t \in Tasks, Start(t) \/ Task(t) \/ Cancel(t) PROVE AnnTypeOK'
  BY <1>1, <1>2, <1>3
  DEF Start, Task, Cancel, WaiterEnters, WaiterLeaves, TaskSubmits, BodyCalls, BodyEnds
<1>4. ASSUME NEW p \in Processes, NEW operation PROVE
        Patched(p, operation) \in [holder : Processes \union {None}, live : BOOLEAN]
  BY DEF Patched, Unheld
<1>5. ASSUME NEW t \in Tasks, Thread(t) PROVE AnnTypeOK'
  <2>1. CASE ThreadReads(t)
    BY <2>1 DEF ThreadReads
  <2>2. CASE ThreadWrites(t)
    <3>1. ann' \in [Machines -> [holder : Processes \union {None}, live : BOOLEAN]]
      BY <1>4, <2>2 DEF ThreadWrites, Proc
    <3>2. fresh' \in SUBSET Tasks /\ late' \subseteq late
      BY <2>2 DEF ThreadWrites, Written
    <3>3. tries' \in [Tasks -> 0 .. Tries - 1]
      BY <2>2 DEF ThreadWrites
    <3> QED BY <3>1, <3>2, <3>3
  <2>3. CASE ThreadFails(t)
    BY <2>3 DEF ThreadFails, Proc
  <2>4. CASE ThreadWorks(t)
    BY <2>4 DEF ThreadWorks, Written
  <2> QED BY <1>5, <2>1, <2>2, <2>3, <2>4 DEF Thread
<1>6. ASSUME NEW r \in late, LateCommit(r) PROVE AnnTypeOK'
  <2>1. r[1] \in Processes /\ r[2] \in Machines
    OBVIOUS
  <2> QED BY <1>4, <1>6, <2>1 DEF LateCommit, Written
<1>7. ASSUME NEW m \in Machines, Touch(m) \/ Expire(m) PROVE AnnTypeOK'
  <2>1. CASE Touch(m)
    BY <2>1 DEF Touch, Written
  <2>2. CASE Expire(m)
    BY <2>2 DEF Expire
  <2> QED BY <1>7, <2>1, <2>2
<1>8. ASSUME NEW p \in Processes, Crash(p) PROVE AnnTypeOK'
  BY <1>8 DEF Crash, Unheld
<1>9. CASE UNCHANGED vars
  BY <1>1, <1>9 DEF vars
<1> QED BY <1>3, <1>5, <1>6, <1>7, <1>8, <1>9 DEF Next

\* A handler goes on to have the annotation if nothing commits to its Machine
\* and nothing is read that could.
LEMMA StillHolding ==
  ASSUME AnnotationIsHeld, NEW t \in Tasks, Holding(t),
         ann'[MachineOf[t]] = ann[MachineOf[t]],
         \A u \in fresh' \ fresh : MachineOf[u] # MachineOf[t],
         \A r \in late' \ late : r[2] # MachineOf[t]
  PROVE  /\ ann'[MachineOf[t]] = [holder |-> Proc(t), live |-> TRUE]
         /\ \A u \in fresh' : MachineOf[u] # MachineOf[t]
         /\ \A r \in late' : r[2] # MachineOf[t]
BY DEF AnnotationIsHeld

\* A thread of another handler finds the annotation taken.
LEMMA OthersMayNotPatch ==
  ASSUME LockInv, AnnotationIsHeld, NEW t \in Tasks, NEW u \in Tasks \ {t}, Holding(t), Inside(u),
         MachineOf[u] = MachineOf[t]
  PROVE  ~ MayPatch(u)
<1> USE ReconcileLockAssumption, ExecutorAssumption
<1>1. Inside(t)
  BY DEF Holding, Inside
<1>2. Proc(u) # Proc(t)
  BY <1>1, OneInProcess DEF OneHandlerInside
<1>3. ann[MachineOf[u]] = [holder |-> Proc(t), live |-> TRUE] /\ Proc(t) # None
  BY DEF AnnotationIsHeld, Proc
<1> QED BY <1>2, <1>3 DEF MayPatch

\* While the time of the annotation exceeds that of the handler, every step
\* leaves the annotation to the handler that has it.
LEMMA AnnotationStep ==
  ASSUME LockCanExpire = FALSE
  PROVE  LockInv /\ ExecutorInv /\ AnnTypeOK /\ AnnotationIsHeld /\ [Next]_vars => AnnotationIsHeld'
<1> SUFFICES ASSUME LockInv, ExecutorInv, AnnTypeOK, AnnotationIsHeld, [Next]_vars
             PROVE  AnnotationIsHeld'
  OBVIOUS
<1> USE ReconcileLockAssumption, ExecutorAssumption DEF Proc
<1> DEFINE Kept(t) == /\ ann'[MachineOf[t]] = [holder |-> Proc(t), live |-> TRUE]
                      /\ \A u \in fresh' : MachineOf[u] # MachineOf[t]
                      /\ \A r \in late' : r[2] # MachineOf[t]
<1>0. SUFFICES ASSUME NEW t \in Tasks, Holding(t)' PROVE Kept(t)
  BY DEF AnnotationIsHeld
<1>1. CASE UNCHANGED <<ann, fresh, late>> /\ Holding(t)
  BY <1>1, StillHolding
<1>2. ASSUME UNCHANGED <<pc, executorVars>> PROVE Holding(t)
  BY <1>0, <1>2 DEF Holding, executorVars
<1>3. ASSUME NEW u \in Tasks, Start(u) \/ Task(u) \/ Cancel(u) PROVE Kept(t)
  <2>1. UNCHANGED <<ann, fresh, late>>
    BY <1>3
    DEF Start, Task, Cancel, WaiterEnters, WaiterLeaves, TaskSubmits, BodyCalls, BodyEnds,
        CallReturns, annVars
  <2>2. CASE t # u
    <3>1. pc'[t] = pc[t] /\ thread'[t] = thread[t] /\ result'[t] = result[t]
      <4> USE DEF LockInv, LockTypeOK, ExecutorInv, ExecutorTypeOK
      <4>1. CASE Start(u) \/ WaiterEnters(u) \/ WaiterLeaves(u)
        BY <2>2, <4>1, ZenonT(60) DEF Start, WaiterEnters, WaiterLeaves, EnterLock, LeaveLock
      <4>2. CASE Cancel(u) \/ TaskSubmits(u) \/ BodyCalls(u)
        BY <2>2, <4>2 DEF Cancel, TaskSubmits, BodyCalls, Submit, lockVars
      <4>3. CASE BodyEnds(u) \/ CallReturns(u)
        <5>1. pc'[t] = pc[t]
          BY <2>2, <4>3, ZenonT(60) DEF BodyEnds, CallReturns, Leave, LeaveLock
        <5>2. \E next : Returned(u, next)
          BY <4>3 DEF BodyEnds, CallReturns
        <5> QED BY <2>2, <5>1, <5>2 DEF Returned
      <4> QED BY <1>3, <4>1, <4>2, <4>3 DEF Task
    <3> QED BY <1>0, <1>1, <2>1, <3>1 DEF Holding
  <2>3. CASE t = u
    <3>1. CASE Start(t) \/ WaiterEnters(t) \/ WaiterLeaves(t)
      <4>1. thread[t] = "none" /\ UNCHANGED thread
        BY <3>1
        DEF Start, WaiterEnters, WaiterLeaves, ExecutorInv, CallsInside, Inside, ExecutorTypeOK
      <4>2. pc'[t] # "body"
        BY <3>1 DEF Start, WaiterEnters, WaiterLeaves, EnterLock, LeaveLock, LockInv, LockTypeOK
      <4> QED BY <1>0, <4>1, <4>2 DEF Holding
    <3>2. CASE Cancel(t) \/ BodyCalls(t) \/ TaskSubmits(t)
      <4>1. Holding(t)
        BY <1>0, <3>2
        DEF Holding, Cancel, BodyCalls, TaskSubmits, Submit, lockVars, ExecutorInv, ExecutorTypeOK
      <4> QED BY <1>1, <2>1, <4>1
    <3>3. CASE BodyEnds(t)
      BY <1>0, <3>3 DEF BodyEnds, Holding, LockInv, LockTypeOK
    <3>4. CASE CallReturns(t)
      <4>1. CASE pc[t] = "acquire" /\ Outcome(t) = "ok"
        BY <1>1, <2>1, <4>1 DEF Holding, Outcome
      <4>2. CASE ~ (pc[t] = "acquire" /\ Outcome(t) = "ok")
        <5>1. pc'[t] \in {"release", "idle"}
          BY <3>4, <4>2 DEF CallReturns, Leave, LeaveLock, LockInv, LockTypeOK
        <5> QED BY <1>0, <5>1 DEF Holding
      <4> QED BY <4>1, <4>2
    <3> QED BY <1>3, <2>3, <3>1, <3>2, <3>3, <3>4 DEF Task
  <2> QED BY <2>2, <2>3
<1>4. ASSUME NEW u \in Tasks, Thread(u) PROVE Kept(t)
  <2>1. Inside(u) /\ UNCHANGED pc /\ thread[u] \in {"read", "write"}
    BY <1>4
    DEF Thread, ThreadReads, ThreadWrites, ThreadFails, ThreadWorks, Inside, lockVars
  <2>2. t # u => Holding(t)
    BY <1>0, <1>4, <2>1
    DEF Thread, ThreadReads, ThreadWrites, ThreadFails, ThreadWorks, ThreadEnds, Holding,
        ExecutorInv, ExecutorTypeOK
  <2>3. CASE ThreadReads(u)
    <3>1. t # u
      BY <1>0, <2>1, <2>3 DEF ThreadReads, ThreadEnds, Holding, ExecutorInv, ExecutorTypeOK
    <3>2. UNCHANGED <<ann, late>>
      BY <2>3 DEF ThreadReads
    <3>3. \A v \in fresh' \ fresh : v = u /\ MayPatch(u)
      BY <2>3 DEF ThreadReads
    <3>4. MayPatch(u) => MachineOf[u] # MachineOf[t]
      BY <2>1, <2>2, <3>1, OthersMayNotPatch
    <3> QED BY <2>2, <3>1, <3>2, <3>3, <3>4, StillHolding
  <2>4. CASE ThreadWrites(u)
    <3>1. CASE t = u
      <4>1. pc[t] = "acquire" /\ t \in fresh
        BY <1>0, <2>1, <2>4, <3>1
        DEF ThreadWrites, ThreadEnds, Holding, ExecutorInv, ExecutorTypeOK
      <4>2. ann' = [ann EXCEPT ![MachineOf[t]] = [holder |-> Proc(t), live |-> TRUE]]
            /\ Written(MachineOf[t])
        BY <2>4, <3>1, <4>1 DEF ThreadWrites, Patched
      <4> QED BY <4>2 DEF Written, AnnTypeOK
    <3>2. CASE t # u /\ u \in fresh
      <4>1. MachineOf[u] # MachineOf[t]
        BY <2>2, <3>2 DEF AnnotationIsHeld
      <4>2. ann'[MachineOf[t]] = ann[MachineOf[t]] /\ fresh' \subseteq fresh /\ late' \subseteq late
        BY <2>4, <3>2, <4>1 DEF ThreadWrites, Written, AnnTypeOK
      <4> QED BY <2>2, <3>2, <4>2, StillHolding
    <3>3. CASE t # u /\ u \notin fresh
      <4>1. UNCHANGED <<ann, fresh, late>>
        BY <2>4, <3>3 DEF ThreadWrites
      <4> QED BY <1>1, <2>2, <3>3, <4>1
    <3> QED BY <3>1, <3>2, <3>3
  <2>5. CASE ThreadFails(u)
    <3>1. t # u
      BY <1>0, <2>1, <2>5 DEF ThreadFails, ThreadEnds, Holding, ExecutorInv, ExecutorTypeOK
    <3>2. UNCHANGED ann /\ fresh' \subseteq fresh
      BY <2>5 DEF ThreadFails
    <3>3. \A r \in late' \ late : u \in fresh /\ r[2] = MachineOf[u]
      BY <2>5 DEF ThreadFails
    <3>4. u \in fresh => MachineOf[u] # MachineOf[t]
      BY <2>2, <3>1 DEF AnnotationIsHeld
    <3> QED BY <2>2, <3>1, <3>2, <3>3, <3>4, StillHolding
  <2>6. CASE ThreadWorks(u)
    <3>1. Holding(t)
      BY <2>2, <2>6 DEF ThreadWorks, Holding
    <3>2. UNCHANGED ann /\ fresh' \subseteq fresh /\ late' \subseteq late
      BY <2>6 DEF ThreadWorks, Written
    <3> QED BY <3>1, <3>2, StillHolding
  <2> QED BY <1>4, <2>3, <2>4, <2>5, <2>6 DEF Thread
<1>5. ASSUME NEW r \in late, LateCommit(r) PROVE Kept(t)
  <2>1. Holding(t)
    BY <1>2, <1>5 DEF LateCommit, lockVars
  <2>2. r[2] # MachineOf[t] /\ r[2] \in Machines
    BY <2>1 DEF AnnotationIsHeld, AnnTypeOK
  <2>3. ann'[MachineOf[t]] = ann[MachineOf[t]] /\ fresh' \subseteq fresh /\ late' \subseteq late
    BY <1>5, <2>2 DEF LateCommit, Written, AnnTypeOK
  <2> QED BY <2>1, <2>3, StillHolding
<1>6. ASSUME NEW m \in Machines, Touch(m) \/ Expire(m) PROVE Kept(t)
  <2>1. Holding(t)
    BY <1>2, <1>6 DEF Touch, Expire, lockVars
  <2>2. CASE Touch(m)
    <3>1. UNCHANGED ann /\ fresh' \subseteq fresh /\ late' \subseteq late
      BY <2>2 DEF Touch, Written
    <3> QED BY <2>1, <3>1, StillHolding
  <2>3. CASE Expire(m)
    <3>0. ann[MachineOf[t]] = [holder |-> Proc(t), live |-> TRUE]
      BY <2>1 DEF AnnotationIsHeld
    <3>1. Inside(t) /\ ann[MachineOf[t]].holder = Proc(t)
      BY <2>1, <3>0 DEF Holding, Inside
    <3>2. m # MachineOf[t]
      BY <2>3, <3>1 DEF Expire
    <3>3. ann'[MachineOf[t]] = ann[MachineOf[t]] /\ UNCHANGED <<fresh, late>>
      BY <2>3, <3>2 DEF Expire, AnnTypeOK
    <3> QED BY <2>1, <3>3, StillHolding
  <2> QED BY <1>6, <2>2, <2>3
<1>7. ASSUME NEW p \in Processes, Crash(p) PROVE Kept(t)
  <2>1. Proc(t) # p /\ Holding(t)
    BY <1>0, <1>7 DEF Crash, Holding
  <2>2. ann[MachineOf[t]].holder = Proc(t)
    <3>1. ann[MachineOf[t]] = [holder |-> Proc(t), live |-> TRUE]
      BY <2>1 DEF AnnotationIsHeld
    <3> QED BY <3>1
  <2>3. ann'[MachineOf[t]] = ann[MachineOf[t]] /\ fresh' \subseteq fresh /\ late' \subseteq late
    BY <1>7, <2>1, <2>2 DEF Crash
  <2> QED BY <2>1, <2>3, StillHolding
<1>8. CASE UNCHANGED vars
  BY <1>1, <1>2, <1>8 DEF vars, lockVars, annVars
<1> QED BY <1>3, <1>4, <1>5, <1>6, <1>7, <1>8 DEF Next

-----------------------------------------------------------------------------
(* Theorems *)

Inv == LockInv /\ ExecutorInv /\ AnnTypeOK

\* Nobody has started.
LEMMA InvInit == Init => Inv /\ AnnotationIsHeld
<1> SUFFICES ASSUME Init PROVE Inv /\ AnnotationIsHeld
  OBVIOUS
<1> USE ReconcileLockAssumption, ExecutorAssumption DEF Init, ExecutorInit
<1>1. LockTypeOK
  <2>1. NewLock \in [locked : BOOLEAN, waiters : Seq(Tasks)]
    BY DEF NewLock
  <2> QED BY <2>1 DEF LockTypeOK
<1>2. EntryIsHeld /\ EntryInUse /\ LockedByOne /\ WokenIsFirst
  BY DEF EntryIsHeld, EntryInUse, LockedByOne, WokenIsFirst, Inside, NewLock
<1>3. QueueIsWaiting
  <2>1. Elements(<< >>) = {} /\ Distinct(<< >>)
    BY DEF Elements, Distinct
  <2> QED BY <2>1 DEF QueueIsWaiting, NewLock
<1>4. ExecutorTypeOK /\ CallsInside
  BY DEF ExecutorTypeOK, CallsInside
<1>5. SlotsBounded
  <2>1. \A p \in Processes : SlotsTaken(p) = {}
    BY DEF SlotsTaken
  <2>2. Cardinality({}) = 0 /\ Slots \in Nat
    BY FS_EmptySet
  <2> QED BY ONLY <2>1, <2>2 DEF SlotsBounded
<1>6. AnnTypeOK /\ AnnotationIsHeld
  BY DEF AnnTypeOK, AnnotationIsHeld, Unheld, Holding
<1> QED BY <1>1, <1>2, <1>3, <1>4, <1>5, <1>6 DEF Inv, LockInv, ExecutorInv

\* The invariant of the locks and the executor holds of every reachable state.
THEOREM LockInvariant == Spec => []Inv
<1>1. Init => Inv
  BY InvInit
<1>2. Inv /\ [Next]_vars => Inv'
  BY LockInvStep, ExecutorInvStep, AnnTypeStep DEF Inv
<1> QED BY <1>1, <1>2, PTL DEF Spec

\* Locks, queues, tasks, threads and annotations are what asyncio, APIExecutor
\* and the handlers make of them.
THEOREM LockTypeCorrect == Spec => []TypeOK
<1>1. Inv => TypeOK
  BY DEF Inv, LockInv, LockTypeOK, ExecutorInv, AnnTypeOK, TypeOK
<1> QED BY <1>1, LockInvariant, PTL

\* The asyncio.Lock excludes the handlers of a Machine in one process, for any
\* number of them and any order of cancellations and wake-ups.
THEOREM HandlersExcluded == Spec => []OneHandlerInside
<1>1. Inv => OneHandlerInside
  BY OneInProcess DEF Inv
<1> QED BY <1>1, LockInvariant, PTL

\* No thread outlives the time its handler is inside the lock, and there are
\* never more of them than API_WORKERS.
THEOREM ThreadsUnderLock == Spec => []WritesUnderLock
<1>1. ASSUME Inv PROVE WritesUnderLock
  <2> USE ReconcileLockAssumption, ExecutorAssumption
  <2> DEFINE atWork == {t \in Tasks : thread[t] \in {"read", "write"}}
  <2>1. \A t \in atWork : Inside(t) /\ call[t] = "future"
    BY <1>1 DEF Inv, ExecutorInv, CallsInside
  <2>2. ASSUME NEW p \in Processes PROVE Cardinality({t \in atWork : Proc(t) = p}) <= Slots
    <3>1. {t \in atWork : Proc(t) = p} \subseteq SlotsTaken(p)
      BY <2>1 DEF SlotsTaken, Proc
    <3>2. IsFiniteSet(SlotsTaken(p))
      BY FS_Subset DEF SlotsTaken
    <3> HIDE DEF atWork
    <3>3. /\ Cardinality({t \in atWork : Proc(t) = p}) <= Cardinality(SlotsTaken(p))
          /\ IsFiniteSet({t \in atWork : Proc(t) = p})
      BY <3>1, <3>2, FS_Subset
    <3>4. Cardinality(SlotsTaken(p)) <= Slots
      BY <1>1 DEF Inv, ExecutorInv, SlotsBounded
    <3>5. /\ Cardinality(SlotsTaken(p)) \in Nat
          /\ Cardinality({t \in atWork : Proc(t) = p}) \in Nat
      BY <3>2, <3>3, FS_CardinalityType
    <3> QED BY <3>3, <3>4, <3>5
  <2> QED BY <2>1, <2>2 DEF WritesUnderLock
<1> QED BY <1>1, LockInvariant, PTL

\* While the time-to-live of the annotation exceeds the handlers' run time, a
\* handler in its body has the annotation.
THEOREM AnnotationKept ==
  ASSUME LockCanExpire = FALSE
  PROVE  Spec => []HandlerHoldsAnnotation
<1>1. Init => Inv /\ AnnotationIsHeld
  BY InvInit
<1>2. Inv /\ AnnotationIsHeld /\ [Next]_vars => (Inv /\ AnnotationIsHeld)'
  BY LockInvStep, ExecutorInvStep, AnnTypeStep, AnnotationStep DEF Inv
<1>3. AnnotationIsHeld => HandlerHoldsAnnotation
  BY DEF AnnotationIsHeld, HandlerHoldsAnnotation, Holding
<1> QED BY <1>1, <1>2, <1>3, PTL DEF Spec

-----------------------------------------------------------------------------
(* The refinement *)

\* The handlers in the body of a Machine's reconcile
Busy(m) == {t \in Tasks : MachineOf[t] = m /\ pc[t] = "body"}

AtMostOneBusy == \A t, u \in Tasks :
  pc[t] = "body" /\ pc[u] = "body" /\ MachineOf[t] = MachineOf[u] => t = u

\* The annotation names the process of a handler in its body, and the process
\* has one of them.
LEMMA OneBusy == Inv /\ AnnotationIsHeld => AtMostOneBusy
<1> SUFFICES ASSUME Inv, AnnotationIsHeld, NEW t \in Tasks, NEW u \in Tasks, pc[t] = "body",
                    pc[u] = "body", MachineOf[t] = MachineOf[u]
             PROVE  t = u
  BY DEF AtMostOneBusy
<1>1. /\ ann[MachineOf[t]] = [holder |-> Proc(t), live |-> TRUE]
      /\ ann[MachineOf[u]] = [holder |-> Proc(u), live |-> TRUE]
  BY DEF AnnotationIsHeld, Holding
<1>2. Proc(t) = Proc(u) /\ Inside(t) /\ Inside(u)
  BY <1>1 DEF Inside
<1> QED BY <1>2, OneInProcess DEF Inv, OneHandlerInside

\* A step begins the work of one handler, ends that of some, or neither.
LEMMA BusySteps ==
  ASSUME Inv, [Next]_vars
  PROVE  \/ \A t \in Tasks : pc'[t] = "body" <=> pc[t] = "body"
         \/ \E t \in Tasks : /\ pc[t] # "body"
                             /\ \A u \in Tasks : pc'[u] = "body" <=> pc[u] = "body" \/ u = t
         \/ \E D \in SUBSET Tasks :
              /\ \E t \in D : pc[t] = "body"
              /\ \A u \in Tasks : pc'[u] = "body" <=> pc[u] = "body" /\ u \notin D
<1> USE DEF Inv, LockInv, LockTypeOK
<1> DEFINE Same == \A t \in Tasks : pc'[t] = "body" <=> pc[t] = "body"
<1>1. CASE UNCHANGED pc
  BY <1>1
<1>2. ASSUME NEW t \in Tasks, Start(t) \/ WaiterEnters(t) \/ WaiterLeaves(t) PROVE Same
  BY <1>2 DEF Start, WaiterEnters, WaiterLeaves, EnterLock, LeaveLock
<1>3. ASSUME NEW t \in Tasks, pc[t] = "body", pc' = [pc EXCEPT ![t] = "release"]
      PROVE  \E D \in SUBSET Tasks :
               /\ \E u \in D : pc[u] = "body"
               /\ \A u \in Tasks : pc'[u] = "body" <=> pc[u] = "body" /\ u \notin D
  <2>1. {t} \in SUBSET Tasks /\ t \in {t}
    OBVIOUS
  <2>2. \A u \in Tasks : pc'[u] = "body" <=> pc[u] = "body" /\ u \notin {t}
    BY <1>3
  <2> QED BY <1>3, <2>1, <2>2
<1>4. CASE \E t \in Tasks : BodyEnds(t)
  BY <1>3, <1>4 DEF BodyEnds
<1>5. ASSUME NEW t \in Tasks, CallReturns(t)
      PROVE  \/ Same
             \/ pc[t] # "body" /\ pc' = [pc EXCEPT ![t] = "body"]
             \/ pc[t] = "body" /\ pc' = [pc EXCEPT ![t] = "release"]
  BY <1>5 DEF CallReturns, Leave, LeaveLock
<1>6. CASE \E t \in Tasks : CallReturns(t)
  <2>1. PICK t \in Tasks : CallReturns(t)
    BY <1>6
  <2>2. CASE pc[t] # "body" /\ pc' = [pc EXCEPT ![t] = "body"]
    <3>1. \A u \in Tasks : pc'[u] = "body" <=> pc[u] = "body" \/ u = t
      BY <2>2
    <3> QED BY <2>2, <3>1
  <2> QED BY <1>3, <1>5, <2>1, <2>2
<1>7. ASSUME NEW t \in Tasks, Thread(t) \/ Cancel(t) \/ BodyCalls(t) \/ TaskSubmits(t)
      PROVE  UNCHANGED pc
  BY <1>7
  DEF Thread, ThreadReads, ThreadWrites, ThreadFails, ThreadWorks, Cancel, BodyCalls, TaskSubmits,
      lockVars
<1>8. CASE \/ \E r \in late : LateCommit(r)
           \/ \E m \in Machines : Touch(m) \/ Expire(m)
           \/ UNCHANGED vars
  BY <1>1, <1>8 DEF LateCommit, Touch, Expire, vars, lockVars
<1>9. CASE \E p \in Processes : Crash(p)
  <2>1. PICK p \in Processes : Crash(p)
    BY <1>9
  <2> DEFINE D == {t \in Tasks : Proc(t) = p}
  <2>2. \A u \in Tasks : pc'[u] = "body" <=> pc[u] = "body" /\ u \notin D
    BY <2>1 DEF Crash
  <2>3. D \in SUBSET Tasks
    OBVIOUS
  <2> HIDE DEF D
  <2>4. CASE \E t \in D : pc[t] = "body"
    BY <2>2, <2>3, <2>4
  <2>5. CASE \A t \in D : pc[t] # "body"
    BY <2>2, <2>5
  <2> QED BY <2>4, <2>5
<1> QED BY <1>1, <1>2, <1>4, <1>6, <1>7, <1>8, <1>9 DEF Next, Task

\* The two locks are one lock per Machine over all replicas: to return from
\* run_api with the annotation is Take, the end of a body or the death of its
\* process Give, and everything else a stutter.
THEOREM MachineLockImplemented ==
  ASSUME LockCanExpire = FALSE
  PROVE  Spec => ImplementsMachineLock
<1> DEFINE worker == [m \in Machines |->
                        LET busy == {t \in Tasks : MachineOf[t] = m /\ pc[t] = "body"} IN
                        IF busy = {} THEN None ELSE CHOOSE t \in busy : TRUE]
           Both   == Inv /\ AnnotationIsHeld
<1> USE ReconcileLockAssumption, ExecutorAssumption
<1>1. Init => Both
  BY InvInit
<1>2. Both /\ [Next]_vars => Both'
  BY LockInvStep, ExecutorInvStep, AnnTypeStep, AnnotationStep DEF Inv
<1>3. Both => AtMostOneBusy
  BY OneBusy
<1>4. ASSUME AtMostOneBusy, NEW m \in Machines
      PROVE  /\ Busy(m) = {} => worker[m] = None
             /\ \A t \in Busy(m) : worker[m] = t
  <2>1. worker[m] = IF Busy(m) = {} THEN None ELSE CHOOSE t \in Busy(m) : TRUE
    BY DEF Busy
  <2>2. \A t, u \in Busy(m) : t = u
    BY <1>4 DEF Busy, AtMostOneBusy
  <2> QED BY <2>1, <2>2
<1>5. Init => Promise!LockInit
  BY DEF Init, Promise!LockInit
<1>6. ASSUME Both, AtMostOneBusy, AtMostOneBusy', [Next]_vars
      PROVE  [Promise!LockNext]_worker
  <2>1. \A m \in Machines : /\ Busy(m) = {} => worker[m] = None
                            /\ \A t \in Busy(m) : worker[m] = t
    BY <1>4, <1>6
  <2>2. \A m \in Machines : /\ Busy(m)' = {} => worker'[m] = None
                            /\ \A t \in Busy(m)' : worker'[m] = t
    <3>1. AtMostOneBusy => \A m \in Machines : /\ Busy(m) = {} => worker[m] = None
                                               /\ \A t \in Busy(m) : worker[m] = t
      BY <1>4
    <3>2. ASSUME NEW m \in Machines
          PROVE  worker'[m] = IF Busy(m)' = {} THEN None ELSE CHOOSE t \in Busy(m)' : TRUE
      BY DEF Busy
    <3>3. \A m \in Machines : \A t, u \in Busy(m)' : t = u
      BY <1>6 DEF Busy, AtMostOneBusy
    <3> QED BY <3>2, <3>3
  <2>3. worker = [m \in Machines |-> worker[m]] /\ worker' = [m \in Machines |-> worker'[m]]
    OBVIOUS
  <2> HIDE DEF worker
  <2>4. CASE \A t \in Tasks : pc'[t] = "body" <=> pc[t] = "body"
    <3>1. \A m \in Machines : Busy(m)' = Busy(m)
      BY <2>4 DEF Busy
    <3>2. ASSUME NEW m \in Machines PROVE worker'[m] = worker[m]
      BY <2>1, <2>2, <3>1
    <3> QED BY <2>3, <3>2
  <2>5. ASSUME NEW t \in Tasks, pc[t] # "body",
               \A u \in Tasks : pc'[u] = "body" <=> pc[u] = "body" \/ u = t
        PROVE  Promise!LockNext
    <3> DEFINE m == MachineOf[t]
    <3>1. m \in Machines /\ t \in Busy(m)'
      BY <2>5 DEF Busy
    <3>2. Busy(m) = {}
      BY <1>6, <2>5 DEF Busy, AtMostOneBusy
    <3>3. ASSUME NEW n \in Machines \ {m} PROVE worker'[n] = worker[n]
      <4>1. Busy(n)' = Busy(n)
        BY <2>5, <3>3 DEF Busy
      <4> QED BY <2>1, <2>2, <4>1
    <3>4. worker[m] = None /\ worker'[m] = t
      BY <2>1, <2>2, <3>1, <3>2
    <3> HIDE DEF m
    <3>5. worker' = [worker EXCEPT ![m] = t]
      BY <2>3, <3>1, <3>3, <3>4
    <3>6. Promise!Take(m, t)
      BY <3>4, <3>5 DEF Promise!Take, worker
    <3> QED BY <3>1, <3>6 DEF Promise!LockNext
  <2>6. ASSUME NEW D \in SUBSET Tasks, \E t \in D : pc[t] = "body",
               \A u \in Tasks : pc'[u] = "body" <=> pc[u] = "body" /\ u \notin D
        PROVE  Promise!LockNext
    <3> DEFINE stopped == {m \in Machines : \E t \in D : t \in Busy(m)}
    <3>1. \E m \in stopped : worker[m] # None
      <4>1. PICK t \in D : pc[t] = "body"
        BY <2>6
      <4>2. MachineOf[t] \in stopped /\ t \in Busy(MachineOf[t])
        BY <4>1 DEF Busy
      <4> QED BY <2>1, <4>2
    <3>2. ASSUME NEW m \in Machines PROVE worker'[m] = IF m \in stopped THEN None ELSE worker[m]
      <4>1. CASE m \in stopped
        <5>1. Busy(m)' = {}
          BY <1>6, <2>6, <4>1 DEF Busy, AtMostOneBusy
        <5> QED BY <2>2, <4>1, <5>1
      <4>2. CASE m \notin stopped
        <5>1. Busy(m)' = Busy(m)
          BY <2>6, <4>2 DEF Busy
        <5> QED BY <2>1, <2>2, <4>2, <5>1
      <4> QED BY <4>1, <4>2
    <3>3. worker' = [m \in Machines |-> IF m \in stopped THEN None ELSE worker[m]]
      BY <2>3, <3>2
    <3>4. stopped \in SUBSET Machines
      OBVIOUS
    <3> HIDE DEF stopped
    <3>5. \E ms \in SUBSET Machines :
            /\ \E m \in ms : worker[m] # None
            /\ worker' = [m \in Machines |-> IF m \in ms THEN None ELSE worker[m]]
      BY <3>1, <3>3, <3>4
    <3> QED BY <3>5, Zenon DEF Promise!LockNext, Promise!Give, worker
  <2> QED BY <1>6, <2>4, <2>5, <2>6, BusySteps
<1>7. AtMostOneBusy /\ AtMostOneBusy' /\ Both /\ [Next]_vars => [Promise!LockNext]_worker
  BY <1>6
<1> QED
  BY <1>1, <1>2, <1>3, <1>5, <1>7, PTL DEF Spec, ImplementsMachineLock, Promise!LockSpec

=============================================================================
