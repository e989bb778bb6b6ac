SPECIFICATION FairSpec
CONSTANTS
    Servers = {A, B}
    Frags = {f}
    NoServer = NoServer
    Hosts = {"h1", "h2", "h3"}
    MaxFrags = 6
    Percents = {10, 20, 30, 40, 50, 70}
    Clients = {c1, c2}
    MaxConfig = 1
    EnableMigration = FALSE
    Faults = {}
INVARIANTS TypeOK ConfigAgreement AssignmentsSound
PROPERTIES CheckedAtPublication CatchesUp
