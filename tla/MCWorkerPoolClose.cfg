SPECIFICATION BusySpec
CONSTANTS
    Size = 2
    Tasks = {t1, t2, t3}
    Unclonable = {t3}
    Capacity = 1
    MaxQueue = 1
    MaxRestarts = 1
    CloseTimeout = FALSE
    MaxDeaths = 1
PROPERTIES
    CloseReturns
CHECK_DEADLOCK FALSE
