SPECIFICATION FairSpec
CONSTANTS
    r1 = r1
    r2 = r2
    g1 = g1
    i1 = i1
    t1 = t1
    t2 = t2
    c1 = c1
    NoCode = NoCode
    Nobody = Nobody
    RunReqs <- TwoRuns
    InlineReqs <- None
    GenReqs <- None
    AutoCommit <- None
    Registered <- TwoTasks
    Unsupported <- OtherTask
    Codes <- OneCode
    UseRedis = TRUE
    Faults <- AllFaults
    BudgetAtStart = FALSE
    MaxCrashes = 0
PROPERTIES
    AllAnswered
