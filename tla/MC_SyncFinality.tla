--------------------------- MODULE MC_SyncFinality ---------------------------
(* Instances of SyncFinality for TLC. *)
EXTENDS SyncFinality, MC_NgChain
=============================================================================
