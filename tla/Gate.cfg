SPECIFICATION GateSpec
CONSTANTS
    r1 = r1
    r2 = r2
    m1 = m1
    m2 = m2
    NoMover = NoMover
    Reservations <- TwoReservations
    Lane <- OwnLanes
    Legacy <- OneBeforeTwo
    MaximumOrderingEdges = 2
    MaxDeclarations = 2
    Movers = {m1, m2}
    Integrators = {m1}
    Integrating = {r2}
    Merging = {r2}
    Published = {r1}
    Tracking = {TRUE, FALSE}
    GateModes = {"enforce"}
    MaxPermits = 1
INVARIANTS
    PermitFactsReplay
PROPERTIES
    EntriesJudged
    DecisionStands
    UndisturbedAuditSpends
CHECK_DEADLOCK FALSE
