SPECIFICATION FairSpec
CONSTANTS
    p1 = p1
    p2 = p2
    p3 = p3
    r1 = r1
    r2 = r2
    None = None
    Procs = {p1, p2}
    Reservations = {r1, r2}
    Overlaps <- MCOverlaps
    Roles <- Writers
    Impatient = {p1}
    MaxAttempts = 2
    MaxReads = 2
    MaxGeneration = 3
    MaxResets = 0
    MaxFaults = 1
INVARIANTS
    NoOverlappingHolders
PROPERTIES
    ImplementsAtomicLedger
    EveryOperationEnds
    ReadersYieldOnlyToCommits
    HistoryKept
