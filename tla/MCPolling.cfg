SPECIFICATION FairSpec
CONSTANTS
    MaxUpdate = 2
    Limit = 2
    MaxQueued = 1
    MaxCrashes = 1
    Probes = {p1, p2}
    NoProbe = NoProbe
    QuietAborts = 0
    BotInfo = FALSE
INVARIANTS
    NoLoss
    NotWaitingForCancelled
    MeKnown
PROPERTIES
    NoRepeat
    ImplementsFeed
    Delivered
    StopCompletes
CHECK_DEADLOCK TRUE
