SPECIFICATION MCSpec
CONSTANTS
    r1 = r1
    r2 = r2
    t1 = t1
    t2 = t2
    Runs <- TwoRuns
    Clients <- NoClient
    Tasks <- TwoTasks
    TaskOf <- OwnTask
    UseRedis = TRUE
    RedisFails = TRUE
    DbFails = FALSE
    Expiring = {}
    Stale = {}
    RecentCap = 1
    MaxCrashes = 1
    MaxDays = 1
SYMMETRY Exchange
INVARIANTS
    OutcomesWithinTotal
    CountedAtMostTwice
    ExecutingIsListed
