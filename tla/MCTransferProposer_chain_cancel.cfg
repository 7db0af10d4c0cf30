\* Sequenced transfers: (0, 0) then (0, 1) chained after it, then a cancel
\* of the first.
CONSTANTS
    Partition = {0}
    Replica = {0, 1}
    MaxProposals = 2
    NoCanceler = NoCanceler
SPECIFICATION Spec
INVARIANT ChainedSubmitsOnlyAfterPredecessor
