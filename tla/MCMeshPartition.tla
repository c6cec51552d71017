-------------------------- MODULE MCMeshPartition --------------------------
(* Instance of MeshPartition for TLC.                                       *)
EXTENDS MeshPartition
=============================================================================
