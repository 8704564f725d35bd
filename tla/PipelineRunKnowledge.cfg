SPECIFICATION Spec
CONSTANTS
    r1 = r1
    r2 = r2
    g1 = g1
    i1 = i1
    t1 = t1
    t2 = t2
    c1 = c1
    NoCode = NoCode
    Nobody = Nobody
    RunReqs <- TwoRuns
    InlineReqs <- None
    GenReqs <- None
    AutoCommit <- None
    Registered <- OneTask
    Unsupported <- None
    Codes <- OneCode
    UseRedis = TRUE
    Faults <- None
    BudgetAtStart = TRUE
    MaxCrashes = 0
INVARIANTS
    ExecutionIndexed
