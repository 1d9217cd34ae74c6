SPECIFICATION Spec
CONSTANTS
    MaxSeed = 2
    MaxNode = 2
    Seeds <- MCSeeds
    NodeKeys <- MCNodeKeys
    Passphrases = {pw1, pw2}
SYMMETRY PassphraseSymmetry
INVARIANTS
    RowsReadable
    SelfIsMe
    NodeKeyInUse
    SessionIsCurrent
CHECK_DEADLOCK FALSE
