SPECIFICATION Spec
CONSTANTS
    Peers = {p1, p2}
    Listed = {p1}
    MaxEntries = 2
    MaxThreads = 2
INVARIANTS
    BlockHolds
    DaemonAgrees
    BlockCanBeUndone
PROPERTIES
    RequestsComeUp
