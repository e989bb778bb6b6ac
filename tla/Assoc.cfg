SPECIFICATION FairSpec
CONSTANTS
    Keys <- MCKeys
    Hash <- MCHash
    InitialSize = 1
    MayExpand = TRUE
INVARIANTS TypeOK KeysPlaced CountExact
PROPERTIES ImplementsKeySet ExpansionEnds
CHECK_DEADLOCK FALSE
