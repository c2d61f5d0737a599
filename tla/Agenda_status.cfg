\* Every path that changes a status or a place, against every other.
SPECIFICATION FairSpec
CONSTANTS
    a1 = a1
    a2 = a2
    a3 = a3
    r1 = r1
    r2 = r2
    r3 = r3
    ana = ana
    bea = bea
    Appts = {a1}
    Requests = {r1, r2}
    Pros = {ana}
    Days <- TwoDays
    Starts <- OneStart
    DayLength = 2
    Services <- JustCut
    Duration <- CutOnly
    Cleanup <- NoCleanup
    Kinds = {"online", "edit", "status", "expire", "link", "settle", "visit", "rowEdit", "drag", "remove"}
    Patches <- OneColumn
    Targets <- Statuses
    AutoConfirm = TRUE
    Faults = {"txTimeout"}
    OneEditAtATime = FALSE
    NoAppt = NoAppt
    NoReq = NoReq
    NoPlace = NoPlace
INVARIANTS CompletedOnce
PROPERTIES StatusFollowsTable CompletionsFollowed CallsEnd
