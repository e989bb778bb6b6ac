SPECIFICATION FairSpec
CONSTANTS
    TCP_BUFFER_SIZE = 1
    RSIZE_HIGHWAT = 4
    Clients = {"c1", "c2"}
    MaxWorkers = 2
    SndBuf = 1
    Setups <- MCSetups
INVARIANTS RepliesInOrder RefsConsistent
PROPERTIES EveryoneServed
CHECK_DEADLOCK FALSE
