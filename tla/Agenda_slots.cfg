\* Who may hold which slot, on two days: bookings online and by the panel, edits
\* and drags of the panel's visits, with crashes.
SPECIFICATION Spec
CONSTANTS
    a1 = a1
    a2 = a2
    a3 = a3
    r1 = r1
    r2 = r2
    r3 = r3
    ana = ana
    bea = bea
    Appts = {a1, a2}
    Requests = {r1, r2}
    Pros = {ana}
    Days <- TwoDays
    Starts <- TwoStarts
    DayLength = 3
    Services <- CutAndColour
    Duration <- DurationOf
    Cleanup <- CleanupOf
    Kinds = {"online", "visit", "edit", "drag"}
    Patches <- FullForm
    Targets = {}
    AutoConfirm = FALSE
    Faults = {"crash"}
    OneEditAtATime = TRUE
    NoAppt = NoAppt
    NoReq = NoReq
    NoPlace = NoPlace
SYMMETRY Symmetric
INVARIANTS TypeOK NoDoubleBooking LocksHaveOwners
