\* Sales that want one gift card, one shelf and a promotion's last use, and
\* their refunds.
SPECIFICATION Spec
CONSTANTS
    k1 = k1
    k2 = k2
    k3 = k3
    c1 = c1
    c2 = c2
    Keys = {k1, k2, k3}
    Body <- BookBodies
    OldCards <- OneCard
    Face <- FaceOf
    Stock = 2
    MaxUses = 1
    VisitPrice = 2
    MaxSessions = 0
    Float = 1
    Calls = {c1, c2}
    Kinds = {"sale", "refund"}
    Points = 1
    RewardCost = 1
    Toggles = {}
    Faults = {"crash"}
    NoCard = NoCard
    NoCall = NoCall
    NoKey = NoKey
SYMMETRY Symmetric
\* A till with everything sold and given back may have nothing left to do.
CHECK_DEADLOCK FALSE
INVARIANTS TypeOK CardAddsUp StockAddsUp NothingGivenBackTwice
PROPERTIES LedgerSpec
