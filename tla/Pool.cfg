SPECIFICATION FairSpec
CONSTANTS
    Hosts = {"h1", "h2"}
    Threads = {"t1", "t2"}
    Maint = "maint"
    Settings <- MCSettings
    initConn = 1
    minConn = 1
    maxConn = 1
    MaxSockets = 6
INVARIANTS PoolConsistent FailedRetired
PROPERTIES Recovers ForgottenReaped ShutDownEnds
CHECK_DEADLOCK FALSE
