SPECIFICATION FairSpec
CONSTANTS
    None = None
    c1 = c1
    c2 = c2
    c3 = c3
    d1 = d1
    d2 = d2
    d3 = d3
    d4 = d4
    Callers = {c1, c2, c3}
    Hasty = {c3}
    Descriptors = {d1, d2, d3, d4}
    MaxFaults = 1
INVARIANTS
    NoOrphanedGrant
PROPERTIES
    ImplementsAbstractLock
    GrantsEnd
