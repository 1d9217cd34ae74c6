SPECIFICATION FilesSpec
CONSTANTS
    Total <- MCTotal
    Size <- MCSize
    Ts <- MCTs
    CapBytes = 3
    MaxEvents = 2
INVARIANTS
    OnlyEvictionLoses
