---------------------------- MODULE MCLifecycle ----------------------------
(* Small instances of VirtualClusterLifecycle for TLC.                      *)
EXTENDS VirtualClusterLifecycle
=============================================================================
