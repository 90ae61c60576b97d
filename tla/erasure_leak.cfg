CONSTANTS
    a1 = a1  a2 = a2  k1 = k1  k2 = k2  x = x  y = y
    Attempt = {a1}
    Stream = {x}
    Key = {k1}
    Upload <- OneSegment
    Uploader = {u1}
    Hold = {}
    Worker = {w1}
    Corruptible = {}
    None = None
    MaxReservations = 1
    MaxFaults = 0
    MaxAttempts = 2
SPECIFICATION Spec
CHECK_DEADLOCK FALSE
INVARIANT ErasureRemovesTelemetry
