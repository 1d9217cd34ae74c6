SPECIFICATION FairSpec
CONSTANTS
    MaxSeq = 2
    Seqs <- MCSeqs
    Capacity = 1
    QueueCap = 1
    Crashing = {"sender", "receiver"}
    Blocking = {"sender"}
INVARIANTS
    NoLoss
    PacketsAreBacked
    FreshSeq
PROPERTIES
    KeepsPromise
    EventuallyAcknowledged
CHECK_DEADLOCK FALSE
