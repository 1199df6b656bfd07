SPECIFICATION FairSpec
CONSTANTS
    Delivery = {d1, d2}
    Worker = {w1, w2}
    Home = w1
    Concurrency = 1
    MaxAttempts = 2
    MaxTrouble = 1
INVARIANTS
    RepeatNeedsFault
    CountsExact
    CompletedIsFinished
PROPERTIES
    JobSettles
CHECK_DEADLOCK FALSE
