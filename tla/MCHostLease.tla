----------------------------- MODULE MCHostLease -----------------------------
(* Two operations compete for one Lease; their identities are model values. *)
EXTENDS HostLease
=============================================================================
