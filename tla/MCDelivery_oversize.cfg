SPECIFICATION FairSpec
CONSTANTS
    MaxSeq = 2
    Seqs <- MCSeqs
    Capacity = 1
    QueueCap = 1
    Crashing = {}
    Blocking = {}
PROPERTY
    RetriedUntilDelivered
CHECK_DEADLOCK FALSE
