SPECIFICATION FairSpec
CONSTANTS
    Overlaps = {"skip", "wait", "allow"}
    Locks = {TRUE, FALSE}
    Boots = {"nothing", "runOnStart", "catchUp"}
    Retries = 1
    MaxFires = 2
    MaxQueued = 2
    MaxStops = 2
    MaxCalls = 2
INVARIANTS
    NeverDark
    OneRunAtATime
PROPERTIES
    StopIsQuiet
    CallersAnswered
CHECK_DEADLOCK FALSE
