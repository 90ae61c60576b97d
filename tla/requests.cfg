CONSTANTS
    Thread = {t1, t2}
    Handle = {h1, h2, e}
    Shared = {e}
    Limit = 2
    MaxRequests = 3
    MaxFailures = 1
SPECIFICATION TableSpec
SYMMETRY Symmetry
CHECK_DEADLOCK FALSE
INVARIANTS TableTypeOK NoOrphans GroupsOwned
PROPERTY Attribution
