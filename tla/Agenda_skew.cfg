\* Two edits of one appointment, each planned on what it read.
SPECIFICATION Spec
CONSTANTS
    a1 = a1
    a2 = a2
    a3 = a3
    r1 = r1
    r2 = r2
    r3 = r3
    ana = ana
    bea = bea
    Appts = {a1, a2}
    Requests = {r1, r2}
    Pros = {ana, bea}
    Days <- OneDay
    Starts <- TwoStarts
    DayLength = 2
    Services <- JustCut
    Duration <- CutOnly
    Cleanup <- NoCleanup
    Kinds = {"staff", "edit"}
    Patches <- OneColumn
    Targets = {}
    AutoConfirm = FALSE
    Faults = {}
    OneEditAtATime = FALSE
    NoAppt = NoAppt
    NoReq = NoReq
    NoPlace = NoPlace
SYMMETRY Symmetric
INVARIANTS NoDoubleBooking
