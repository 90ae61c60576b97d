CONSTANTS
    Job = {j1}
    Size = {1, 2}
    FirstSize = 1
    Outcome = {"TIMEOUT"}
    Poller = {p1, p2}
    None = None
    Interval = 1
    Lease = 1
    Lookback = 2
    MaxBackoff = 2
    Jitter = 0
    QueryTime = 1
    MaxDelay = 1
    MaxTime = 3
    MaxFaults = 1
    Window = 2
SPECIFICATION Spec
SYMMETRY Symmetry
CHECK_DEADLOCK FALSE
INVARIANTS Covered Settled SeenIsReported
