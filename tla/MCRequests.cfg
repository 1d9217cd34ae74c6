SPECIFICATION Spec
CONSTANTS
    Calls = 3
    SameOp = 3
    Before = 1
    GivenUp <- MCGivenUp
    Reqs <- MCReqs
    Op <- MCOp
    MaxConns = 2
INVARIANTS
    OncePerConnection
    ForeignAnswerIsLate
PROPERTIES
    CallEndsUnlessGone
    ReconnectIsSeen
CHECK_DEADLOCK FALSE
