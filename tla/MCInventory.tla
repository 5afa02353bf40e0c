---------------------------- MODULE MCInventory ----------------------------
(* Two hosts, two concurrent handler runs, and two Machines, one of which  *)
(* may have its reconcile lock expire.                                     *)
EXTENDS Inventory

CONSTANTS m1, m2

Symmetry == Permutations(Workers)
============================================================================
