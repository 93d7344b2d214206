SPECIFICATION OrderingSpec
CONSTANTS
    r1 = r1
    r2 = r2
    r3 = r3
    Reservations <- ThreeReservations
    Lane <- ThreeLanes
    Legacy <- NoOrders
    MaximumOrderingEdges = 3
    MaxDeclarations = 3
INVARIANTS
    EveryDeferralOrderable
CHECK_DEADLOCK FALSE
