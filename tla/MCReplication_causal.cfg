\* Two nodes, three writes, no garbage collection (the purge age exceeds
\* every timestamp).
CONSTANTS
    n1 = n1
    n2 = n2
    v1 = v1
    v2 = v2
    ReplicaID <- MCReplicaID
    Value <- MCValue
    Tombstone = Tombstone
    MaxEvents = 3
    MaxTime = 1
    PurgeAge = 5
SPECIFICATION Spec
INVARIANT TypeOK
INVARIANT ClockOrderIsCausal
PROPERTY Converges
