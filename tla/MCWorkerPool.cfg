SPECIFICATION FairSpec
CONSTANTS
    Size = 2
    Tasks = {t1, t2, t3}
    Unclonable = {t3}
    Capacity = 1
    MaxQueue = 1
    MaxRestarts = 1
    CloseTimeout = TRUE
    MaxDeaths = 4
INVARIANTS
    Accounting
    WorkConserving
    NothingStranded
PROPERTIES
    DrainNoticed
    ReadySettles
    ZombiesGo
    CloseReturns
CHECK_DEADLOCK FALSE
