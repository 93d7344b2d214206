SPECIFICATION Spec
CONSTANTS
    r1 = r1
    r2 = r2
    r3 = r3
    i1 = i1
    None = None
    Reservations = {r1, r2}
    Incidents = {i1}
    Operations <- Everything
    Retention = 0
    MaxRecords = 5
    MaxTime = 2
SYMMETRY Symmetry
CHECK_DEADLOCK FALSE
INVARIANTS
    DroppableExact
    EvidenceReadable
PROPERTIES
    PublishedAgrees
    OnlyClocksRefuse
    AuditRetained
