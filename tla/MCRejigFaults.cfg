SPECIFICATION Spec
CONSTANTS
    Servers = {A, B}
    Frags = {f}
    NoServer = NoServer
    Hosts = {"h1", "h2", "h3"}
    MaxFrags = 1
    Percents = {10, 20, 30, 40, 50, 70}
    Clients = {c1}
    MaxConfig = 2
    EnableMigration = TRUE
    Faults = {"update_fails", "server_restart", "coordinator_restart"}
INVARIANT AcceptedInOwnership
