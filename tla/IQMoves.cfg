SPECIFICATION Spec
CONSTANTS
    Servers = {A, B}
    Frags = {f1}
    NoServer = NoServer
    Readers = {r1}
    Writers = {w1}
    Techniques = {"invalidate", "refresh", "delta"}
    MaxReads = 2
    MaxConfig = 2
    EnableMigration = FALSE
    Faults = {}
SYMMETRY IQSymmetry
INVARIANTS TypeOK NoStaleRead Coherent
