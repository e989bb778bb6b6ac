SPECIFICATION Spec
CONSTANTS
    Servers = {A, B}
    Frags = {f1}
    NoServer = NoServer
    Readers = {r1}
    Writers = {w1, w2}
    Techniques = {"invalidate"}
    MaxReads = 2
    MaxConfig = 1
    EnableMigration = TRUE
    Faults = {"crash", "abort"}
SYMMETRY IQSymmetry
INVARIANTS Coherent QuarantineHeld
