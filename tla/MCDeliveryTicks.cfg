SPECIFICATION Spec
CONSTANTS
    text = text
    picture = picture
    a0 = a0
    b0 = b0
    a1 = a1
    a2 = a2
    b1 = b1
    b2 = b2
    ann = ann
    bob = bob
    KeysOf <- MCKeysOf
    RecipientOf <- MCRecipientOf
    Files = {picture}
    Unstable = TRUE
    SeenCap = 2
INVARIANTS
    TickIsTrue
    StatusIsTrue
    OpenRowsInFlight
