SPECIFICATION Spec
CONSTANTS
    g1 = g1
    g2 = g2
    g3 = g3
    c1 = c1
    c2 = c2
    a1 = a1
    r1 = r1
    v1 = v1
    f1 = f1
    prose = prose
    blank = blank
    good = good
    plain = plain
    long = long
    head = head
    Unlocked = Unlocked
    Stale = Stale
    Generates <- ThreeGenerates
    GitFails = FALSE
    MaxCrashes = 0
    Nobody = Nobody
    Spenders = {}
    Admins = {}
    TaskLengths <- SomeTasks
    CodeLengths <- SomeCode
    Providers = {"local", "anthropic"}
    Budgets <- SomeBudgets
    DefaultBudget = 7
    Cent <- OneCent
    Sources <- AllSources
    Blank = blank
    Parsing <- SomeParse
    Defining <- SomeDefine
    TopLevel <- SomeTop
    Naming <- SomeName
    Compiling <- SomeCompile
    Conforming <- SomeConforming
    SandboxUrl = TRUE
    Runs = {}
    Reviews = {}
    Fixes = {}
    Languages <- SomeLanguages
    Outputs <- SomeOutputs
    Cut <- CutLong
    Quota = 1
    Faults = {"agent", "sandbox", "db"}
SYMMETRY Symmetry
INVARIANT
    SkippedIsCommitted
