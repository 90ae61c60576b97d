CONSTANTS
    Attempts = 2
    Attempt <- Ranks
    None = None
    Limit = 1
    MaxAttempts = 1
    MaxFaults = 1
SPECIFICATION FairSpec
CHECK_DEADLOCK FALSE
INVARIANTS OnlyErased ReadyToServe NotResurrected
PROPERTIES HoldKept CleanupEnds
