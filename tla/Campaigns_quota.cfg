\* A client and two processes, or two clients and one; an allowance that runs out.
SPECIFICATION FairSpec
CONSTANTS
    s1 = s1
    s2 = s2
    Recipients = {1, 2}
    Senders = {s1, s2}
    Salons <- SmallSalons
    Kinds = {"schedule", "unschedule", "send", "add", "retry"}
    Cap = 1
    MaxTries = 2
    MaxMonths = 2
    Bono = 1
    MaxDeaths = 1
CHECK_DEADLOCK FALSE
INVARIANTS TypeOK EmailsAddUp OneSenderEach
PROPERTIES NeverUnsent SendingEnds
