------------------------------- MODULE MCAgent -------------------------------
EXTENDS Agent, TLC

CONSTANTS n1, n2, n3, v1

MCReplicaID == {n1, n2, n3}
MCValue == {v1}

NodeSymmetry == Permutations(MCReplicaID)

=============================================================================
