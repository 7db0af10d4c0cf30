CONSTANTS
    n1 = n1
    n2 = n2
    n3 = n3
    v1 = v1
    Tombstone = Tombstone
    ReplicaID <- MCReplicaID
    Value <- MCValue
    MaxOps = 3
SPECIFICATION Spec
INVARIANT ReadSeesQuorumWrites
INVARIANT ClockOrderIsCausal
SYMMETRY NodeSymmetry
