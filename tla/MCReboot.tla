------------------------------ MODULE MCReboot ------------------------------
(* Two requests: one may be superseded while the other is unresolved. *)
EXTENDS Reboot
=============================================================================
