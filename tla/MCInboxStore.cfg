SPECIFICATION StoreSpec
CONSTANTS
    Seqs <- MCSeqs
    Capacity = 2
INVARIANTS
    InboxIsNewestWindow
    GuardIsNextWindow
    ReplayOnlyBeyondGuard
