--------------------------- MODULE MCClusterState ---------------------------
(* Model-checking instance of ClusterState.                               *)
EXTENDS ClusterState

=============================================================================
