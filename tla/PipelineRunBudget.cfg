SPECIFICATION Spec
CONSTANTS
    r1 = r1
    r2 = r2
    g1 = g1
    i1 = i1
    t1 = t1
    t2 = t2
    c1 = c1
    NoCode = NoCode
    Nobody = Nobody
    RunReqs <- TwoRuns
    InlineReqs <- OneInline
    GenReqs <- None
    AutoCommit <- None
    Registered <- TwoTasks
    Unsupported <- None
    Codes <- OneCode
    UseRedis = TRUE
    Faults <- None
    BudgetAtStart = FALSE
    MaxCrashes = 0
INVARIANTS
    UsageLogIsBestEffort
