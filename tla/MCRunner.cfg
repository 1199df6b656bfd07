SPECIFICATION FairSpec
CONSTANTS
    MaxUpdate = 4
    Limit = 2
    Tasks = {1, 2, 3, 4}
    KeyOf <- MCKeyOf
    NoKey = NoKey
    Concurrency = 2
INVARIANTS
    CountersExact
    ConfirmedIsTaken
    LossBounded
    StopDrains
PROPERTIES
    ImplementsKeyed
    SubmittedIsHandled
    StopReturns
CHECK_DEADLOCK FALSE
