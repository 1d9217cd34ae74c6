SPECIFICATION Spec
CONSTANTS
    MaxSeq = 4
    Seqs <- MCSeqs
    RoomSeqs = {2, 4}
    Capacity = 2
    Undecryptable = {3}
    MaxEvents = 1
INVARIANTS
    NothingLeftBehind
PROPERTY
    CursorNeverMovesBack
