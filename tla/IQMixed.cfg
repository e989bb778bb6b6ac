SPECIFICATION FairSpec
CONSTANTS
    Servers = {A}
    Frags = {f1}
    NoServer = NoServer
    Readers = {r1}
    Writers = {w1, w2}
    Techniques = {"refresh", "delta"}
    MaxReads = 2
    MaxConfig = 0
    EnableMigration = FALSE
    Faults = {"crash", "abort", "no_memory"}
INVARIANTS Coherent ExclusiveQuarantine
PROPERTY ReadsEnd
