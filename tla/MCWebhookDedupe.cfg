SPECIFICATION FairSpec
CONSTANTS
    u1 = u1
    u2 = u2
    u3 = u3
    a = a
    b = b
    Updates <- MCUpdates
    Requests = {r1, r2}
    ChatOf <- MCChatOf
    Keyed <- MCUnkeyed
    Capacity = 3
    OnTimeout = "fail"
    OnError = "fail"
    NoUpdate = NoUpdate
    MaxFaults = 0
INVARIANTS
    StaysRetryable
CHECK_DEADLOCK FALSE
