CONSTANTS
    Job = {j1}
    Size = {1, 2}
    FirstSize = 1
    Outcome = {"COMPLETED"}
    Poller = {p1}
    None = None
    Interval = 1
    Lease = 1
    Lookback = 2
    MaxBackoff = 2
    Jitter = 0
    QueryTime = 1
    MaxDelay = 0
    MaxTime = 4
    MaxFaults = 0
    Window = 4
SPECIFICATION Spec
CHECK_DEADLOCK FALSE
INVARIANT ClaimsOnlySeen
