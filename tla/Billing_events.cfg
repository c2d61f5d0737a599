\* Two checkouts of one salon paid side by side; one subscription's whole life.
SPECIFICATION FairSpec
CONSTANTS
    s1 = s1
    s2 = s2
    h1 = h1
    h2 = h2
    Subs = {s1, s2}
    NoSub = NoSub
    Lines = 2
    Handlers = {h1, h2}
    Scenes <- SmallScenes
CHECK_DEADLOCK FALSE
INVARIANTS TypeOK CreditedUnlessTorn
PROPERTIES OneBills TrialIsOver
