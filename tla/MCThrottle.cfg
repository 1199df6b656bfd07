SPECIFICATION FairSpec
CONSTANTS
    j1 = j1
    j2 = j2
    j3 = j3
    global = global
    chatA = chatA
    chatB = chatB
    Jobs <- MCJobs
    Bucket <- MCBucket
    BucketsOf <- MCBucketsOf
    Priority <- MCPriority
    Limit <- MCLimit
    Window <- MCWindow
    MaxQueueSize = 2
    MaxQueueDepth = 2
    Modes = {"reject", "drop-oldest"}
    RetryAfter = 2
    MaxFreezes = 1
INVARIANTS
    WindowBound
    SettledOnce
PROPERTIES
    JobsSettle
CHECK_DEADLOCK FALSE
