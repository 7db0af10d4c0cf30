\* Two nodes, three writes, tombstones purged one tick after they age.
\* Checks that clocks stay causal across a purge.
CONSTANTS
    n1 = n1
    n2 = n2
    v1 = v1
    v2 = v2
    ReplicaID <- MCReplicaID
    Value <- MCValue
    Tombstone = Tombstone
    MaxEvents = 3
    MaxTime = 2
    PurgeAge = 1
SPECIFICATION Spec
INVARIANT ClockOrderIsCausal
