\* One partition with two replicas; three proposals, enough for a re-queue
\* of one replica racing the cleanup of the first proposal, for a partition
\* whose map empties while a proposal is in flight, and for chains of two
\* and three proposals.
CONSTANTS
    Partition = {0}
    Replica = {0, 1}
    MaxProposals = 3
    NoCanceler = NoCanceler
SPECIFICATION FairSpec
INVARIANT QueuedProposalsExact
PROPERTY CancelReleasesProposal
PROPERTY ResultAfterCancel
