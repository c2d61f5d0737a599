\* Two tickets for one visit: one also sells a gift card, the other is paid
\* with it and with points.
SPECIFICATION Spec
CONSTANTS
    k1 = k1
    k2 = k2
    k3 = k3
    c1 = c1
    c2 = c2
    Keys = {k1, k2}
    Body <- VisitBodies
    OldCards <- OneCard
    Face <- FaceOf
    Stock = 2
    MaxUses = 1
    VisitPrice = 2
    MaxSessions = 2
    Float = 1
    Calls = {c1, c2}
    Kinds <- CallKinds
    Points = 1
    RewardCost = 1
    Toggles = {k2}
    Faults = {"cancel"}
    NoCard = NoCard
    NoCall = NoCall
    NoKey = NoKey
SYMMETRY Symmetric
\* A till with everything sold and given back may have nothing left to do.
CHECK_DEADLOCK FALSE
INVARIANTS VisitAddsUp CardAddsUp PaidVisitIsPaid DrawerCountStands
PROPERTIES CancelledVisitNotCharged
