\* Three nodes, two partitions, replication factor two: enough for a token
\* or replica to move between two members while a third joins or leaves.
CONSTANTS
    NodeID = {1, 2, 3}
    Partitions = 2
    ReplicationFactor = 2
SPECIFICATION Spec
INVARIANT TypeOK
INVARIANT OwnershipConsistent
PROPERTY OwnershipRefined
