CONSTANTS
    a1 = a1  s1 = s1  s2 = s2
    Attempt = {a1}
    Deletable = {a1}
    Segment = {s1, s2}
    Owner <- OneAttempt
    Worker = {w1, w2}
    None = None
    MaxFaults = 1
    MaxAttempts = 1
SPECIFICATION FairSpec
CHECK_DEADLOCK FALSE
INVARIANTS ExactlyOnce RevisionBacked HeadCovers ErasedForGood
PROPERTIES HeadAdvances ReportCaughtUp
