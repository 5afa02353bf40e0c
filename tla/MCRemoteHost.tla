---------------------------- MODULE MCRemoteHost ----------------------------
(* Two Machines use the host; the first bootstraps in two attempts. *)
EXTENDS RemoteHost

CONSTANTS m1, m2, a1, a2, b1

MCUids     == {m1, m2}
MCAttempts == {a1, a2, b1}
MCUidOf    == [a \in MCAttempts |-> IF a = b1 THEN m2 ELSE m1]
=============================================================================
