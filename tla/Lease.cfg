SPECIFICATION FairSpec
CONSTANTS
    t1 = t1
    t2 = t2
    t3 = t3
    p1 = p1
    p2 = p2
    Threads = {t1, t2, t3}
    Processes = {p1, p2}
    ProcessOf <- MCProcessOf
    MaxAcquires = 1
    Timeouts = {5000}
    MaxCasId = 2
    Faults = {"io", "evict", "crash"}
INVARIANTS HolderOwnsItem LeaseConsistent
 
CHECK_DEADLOCK FALSE
