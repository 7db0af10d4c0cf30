\* One partition, one replica, two proposals: queued twice, then cancelled.
CONSTANTS
    Partition = {0}
    Replica = {0}
    MaxProposals = 2
    NoCanceler = NoCanceler
SPECIFICATION Spec
PROPERTY CancelStopsEveryPending
