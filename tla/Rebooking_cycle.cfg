\* One client: her cadence, its dispatchers, and the salon behind them.
SPECIFICATION FairSpec
CONSTANTS
    colour = colour
    cut = cut
    w1 = w1
    w2 = w2
    c1 = c1
    c2 = c2
    Services = {colour, cut}
    Senders = {w1, w2}
    Computes = {c1, c2}
    MinChoices = {1, 3}
    History <- HerVisits
    MaxFailed = 1
    MaxVisits = 1
    Scenes <- Lives
    MaxDeaths = 1
    NoService = NoService
CHECK_DEADLOCK FALSE
INVARIANTS TypeOK OncePerCycle
PROPERTIES NobodyIsForgotten SettingsReachHer
