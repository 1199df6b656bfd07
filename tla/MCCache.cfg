SPECIFICATION FairSpec
CONSTANTS
    Calls = {c1, c2}
    NoCall = NoCall
    Options <- MCOptions
    MaxEdits = 2
INVARIANTS
    NothingOutdated
    OneFetch
PROPERTIES
    CallsReturn
CHECK_DEADLOCK FALSE
