SPECIFICATION FairSpec
CONSTANTS
    c1 = c1
    c2 = c2
    k1 = k1
    k2 = k2
    Keys = {k1, k2}
    Sids = {c1, c2}
    Prefixes = {}
    Casts <- MCCasts
    MaxTries = 2
    MaxFaults = 1
    Words <- MCWords
    MaxEntries = 3
INVARIANTS Coherent WritersConsistent ListsAreSets
PROPERTIES ValidatedReads CommitsInCache SessionsEnd
