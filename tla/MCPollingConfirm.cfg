SPECIFICATION Spec
CONSTANTS
    MaxUpdate = 2
    Limit = 2
    MaxQueued = 1
    MaxCrashes = 0
    Probes = {p1, p2}
    NoProbe = NoProbe
    QuietAborts = 1
    BotInfo = FALSE
PROPERTIES
    HandledIsConfirmed
