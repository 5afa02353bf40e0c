---------------------------- MODULE MCSSHCluster ----------------------------
(* Enough changes to pause a cluster, alter it and let it go on. *)
EXTENDS SSHCluster
=============================================================================
