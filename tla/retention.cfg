CONSTANTS
    Attempt = {a1, a2}
    Held = {a2}
    Case = {c1}
    None = None
    Seconds = {0, 1}
    Default = 1
    Batch = 1
    MaxTime = 1
    MaxVersions = 2
SPECIFICATION FairSpec
CHECK_DEADLOCK FALSE
INVARIANT Consistent
PROPERTIES FixedExpiry ExpiredSwept
