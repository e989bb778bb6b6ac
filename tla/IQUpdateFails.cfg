SPECIFICATION Spec
CONSTANTS
    Servers = {A, B}
    Frags = {f1}
    NoServer = NoServer
    Readers = {r1}
    Writers = {w1}
    Techniques = {"invalidate"}
    MaxReads = 2
    MaxConfig = 1
    EnableMigration = FALSE
    Faults = {"update_fails"}
SYMMETRY IQSymmetry
INVARIANTS NoStaleRead
