\* A failed email retried by the panel beside the run that ends the campaign.
SPECIFICATION FairSpec
CONSTANTS
    s1 = s1
    s2 = s2
    Recipients = {1}
    Senders = {s1}
    Salons <- OneProcess
    Kinds = {"send", "add", "retry"}
    Cap = 1
    MaxTries = 2
    MaxMonths = 1
    Bono = 0
    MaxDeaths = 0
CHECK_DEADLOCK FALSE
PROPERTIES EveryoneIsHandled
