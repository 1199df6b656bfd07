SPECIFICATION FairSpec
CONSTANTS
    u1 = u1
    u2 = u2
    u3 = u3
    a = a
    b = b
    Updates <- MCUpdates
    Requests = {r1, r2}
    ChatOf <- MCChatOf
    Keyed <- MCKeyed
    Capacity = 1
    OnTimeout = "fail"
    OnError = "fail"
    NoUpdate = NoUpdate
    MaxFaults = 1
INVARIANTS
    OneAtATime
    NothingClobbered
    AckedIsApplied
PROPERTIES
    AppliedOnce
    TurnComes
CHECK_DEADLOCK FALSE
