----------------------------- MODULE Allocation -----------------------------
(***************************************************************************)
(* What the inventory promises of a pool of hosts: a host has one consumer *)
(* at a time, and a Machine is served by one host and only once.           *)
(***************************************************************************)
CONSTANTS Hosts, Uids, None

VARIABLES
  consumer,  \* the Machine that has a host
  served     \* Machines that have or had a host

AllocationInit ==
  /\ consumer = [h \in Hosts |-> None]
  /\ served = {}

Take(m, h) ==
  /\ consumer[h] = None
  /\ m \notin served
  /\ consumer' = [consumer EXCEPT ![h] = m]
  /\ served' = served \union {m}

GiveBack(h) ==
  /\ consumer[h] # None
  /\ consumer' = [consumer EXCEPT ![h] = None]
  /\ UNCHANGED served

AllocationNext == \E h \in Hosts : GiveBack(h) \/ \E m \in Uids : Take(m, h)

AllocationSpec == AllocationInit /\ [][AllocationNext]_<<consumer, served>>
=============================================================================
