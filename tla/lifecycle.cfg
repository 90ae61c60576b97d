CONSTANTS
    a1 = a1  a2 = a2  k1 = k1  k2 = k2  x = x  y = y
    Attempt = {a1, a2}
    Stream = {x, y}
    Key = {k1, k2}
    Upload <- SharedContent
    Uploader = {u1, u2}
    Hold = {}
    Worker = {w1}
    Corruptible = {}
    None = None
    MaxReservations = 2
    MaxFaults = 1
    MaxAttempts = 2
SPECIFICATION Spec
SYMMETRY Symmetry
CHECK_DEADLOCK FALSE
INVARIANTS ManifestBacked ReceiptDurable CompletedErased NoOverlap
