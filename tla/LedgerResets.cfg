SPECIFICATION Spec
CONSTANTS
    p1 = p1
    p2 = p2
    p3 = p3
    r1 = r1
    r2 = r2
    None = None
    Procs = {p1, p2}
    Reservations = {r1, r2}
    Overlaps <- MCOverlaps
    Roles <- Resets
    Impatient = {}
    MaxAttempts = 2
    MaxReads = 2
    MaxGeneration = 2
    MaxResets = 1
    MaxFaults = 2
SYMMETRY Symmetry
INVARIANTS
    ReplayAccepts
PROPERTIES
    RepairRestores
    NothingAppendedWhileAhead
