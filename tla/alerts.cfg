CONSTANTS
    Scope = {t1}
    Damage = {"corrupt"}
    Operator = {o1}
    Worker = {w1, w2}
    None = None
    MaxDetections = 2
    MaxAttempts = 1
    MaxRedrives = 1
    MaxFaults = 1
SPECIFICATION FairSpec
CHECK_DEADLOCK FALSE
INVARIANTS OpenAnnounced AuditUnblocked
PROPERTY AlertSettled
