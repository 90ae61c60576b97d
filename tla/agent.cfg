CONSTANTS
    f1 = f1  f2 = f2  f3 = f3
    Files <- TwoRanks
    StreamOf <- EventsAndSummary
    MaxRecords = 2
    MaxChunk = 2
    Quota = 6
    MaxCrashes = 1
SPECIFICATION FairSpec
INVARIANTS NothingSkipped DeliveredOnce
PROPERTY OutageReplayed
