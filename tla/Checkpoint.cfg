SPECIFICATION Spec
CONSTANTS
    f1 = f1
    f2 = f2
    f3 = f3
    q1 = q1
    None = None
    Readers = {q1}
    Inodes = {f1, f2, f3}
    ReusesInodes = FALSE
    Interval = 2
    MaxRecords = 3
    MaxKills = 1
    MaxLosses = 1
SYMMETRY Symmetry
INVARIANTS
PROPERTIES
    ReplaysWhole
    AcknowledgedSurvive
CHECK_DEADLOCK FALSE
