SPECIFICATION AttachSpec
CONSTANTS
    Total <- MCTotal
    Size <- MCSize
    Ts <- MCTs
    CapBytes = 5
INVARIANT
    BudgetRespected
PROPERTIES
    CompleteEvictedLast
    NothingEvictedInVain
