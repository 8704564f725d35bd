SPECIFICATION MCSpec
CONSTANTS
    r1 = r1
    c1 = c1
    t1 = t1
    t2 = t2
    Runs <- OneRun
    Clients <- OneClient
    Tasks <- TwoTasks
    TaskOf <- RunTask
    UseRedis = TRUE
    RedisFails = FALSE
    DbFails = FALSE
    Expiring <- TwoTasks
    Stale <- StaleTask
    ActiveLimit = 1
    RecentCap = 1
    MaxCrashes = 1
    MaxDays = 0
INVARIANTS
    ShownWasActive
    ActiveIsShown
    ExecutingIsListed
PROPERTIES
    ViewNeverGoesBack
    ProgressFallsOnRerunOnly
    ListenerSeesEnd
    ListingEnds
