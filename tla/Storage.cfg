SPECIFICATION Spec
CONSTANTS
    Ids = {1, 2}
    NItem <- MCNItem
    MaxSlab <- MCMaxSlab
    ITEM_LRUQ_MAX_TRIES = 2
    SLAB_LRU_MAX_TRIES = 2
    Conns = {c1, c2}
    ReservedId = 1
    MaxStray = 2
    Setups <- MCSetups
INVARIANTS RefcountsExact MemoryConsistent
PROPERTIES HeldItemsStay EvictsLast
CHECK_DEADLOCK FALSE
