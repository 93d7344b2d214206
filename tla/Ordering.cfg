SPECIFICATION OrderingSpec
CONSTANTS
    r1 = r1
    r2 = r2
    r3 = r3
    Reservations <- ThreeReservations
    Lane <- TwoLanes
    Legacy <- CyclicOrders
    MaximumOrderingEdges = 3
    MaxDeclarations = 3
SYMMETRY SameLane
INVARIANTS
    OneOrder
    DetectorsAgree
    OneSidedDeferralOrderable
PROPERTIES
    NoNewCycle
    RepairExact
CHECK_DEADLOCK FALSE
