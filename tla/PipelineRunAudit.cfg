SPECIFICATION Spec
CONSTANTS
    r1 = r1
    r2 = r2
    g1 = g1
    i1 = i1
    t1 = t1
    t2 = t2
    c1 = c1
    NoCode = NoCode
    Nobody = Nobody
    RunReqs <- None
    InlineReqs <- None
    GenReqs <- OneGenerate
    AutoCommit <- None
    Registered <- TwoTasks
    Unsupported <- None
    Codes <- OneCode
    UseRedis = TRUE
    Faults <- AgentFaults
    BudgetAtStart = FALSE
    MaxCrashes = 0
INVARIANTS
    FailedCallIsRecorded
