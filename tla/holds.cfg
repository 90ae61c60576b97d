CONSTANTS
    a1 = a1  a2 = a2  k1 = k1  k2 = k2  x = x  y = y
    Attempt = {a1}
    Stream = {x}
    Key = {k1}
    Upload <- OneSegment
    Uploader = {u1}
    Hold = {h1, h2}
    Worker = {w1, w2}
    Corruptible = {k1}
    None = None
    MaxReservations = 2
    MaxFaults = 1
    MaxAttempts = 2
SPECIFICATION FairSpec
CHECK_DEADLOCK FALSE
INVARIANT HeldHasHold
PROPERTIES DeletionEnds HoldPreservesEvidence ImplementsLedger
