SPECIFICATION Spec
CONSTANTS
    Statuses = {"here", "lunch"}
    Available = "here"
    MaxEvents = 3
INVARIANTS
    BlockedNotTold
PROPERTIES
    StatusConverges
    ClientOfflineConverges
    GoneIsSeen
