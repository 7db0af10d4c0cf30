---------------------------- MODULE MCReplication ---------------------------
(* Model-checking instance of Replication: two nodes, two values.         *)
EXTENDS Replication

CONSTANTS n1, n2, v1, v2

MCReplicaID == {n1, n2}
MCValue == {v1, v2}

=============================================================================
