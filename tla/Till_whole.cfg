\* A sale with points that shares its gift card and product with another.
SPECIFICATION FairSpec
CONSTANTS
    k1 = k1
    k2 = k2
    k3 = k3
    c1 = c1
    c2 = c2
    Keys = {k1, k2}
    Body <- RowBodies
    OldCards <- OneCard
    Face <- FaceOf
    Stock = 2
    MaxUses = 1
    VisitPrice = 2
    MaxSessions = 1
    Float = 1
    Calls = {c1, c2}
    Kinds = {"sale", "refund"}
    Points = 1
    RewardCost = 1
    Toggles = {}
    Faults = {}
    NoCard = NoCard
    NoCall = NoCall
    NoKey = NoKey
\* A till with everything sold and given back may have nothing left to do.
CHECK_DEADLOCK FALSE
INVARIANTS PointsAddUp WholeSaleComesBack
PROPERTIES CallsEnd
