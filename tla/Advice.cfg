SPECIFICATION Spec
CONSTANTS
    edge = edge
    below = below
    zero = zero
    far1 = far1
    far2 = far2
    far3 = far3
    far4 = far4
    i1 = i1
    i2 = i2
    i3 = i3
    i4 = i4
    i5 = i5
    s1 = s1
    g1 = g1
    d1 = d1
    r1 = r1
    r2 = r2
    r3 = r3
    r4 = r4
    k1 = k1
    k2 = k2
    k3 = k3
    nan = nan
    NaN = nan
    Old <- SomeOld
    Indexings <- SomeIndexings
    Searches <- SomeSearches
    Suggests <- SomeSuggests
    TopK = 2
    Dist <- SomeDist
    Success <- SomeSuccess
    Passed <- SomePassed
    Signature <- SomeSignature
    Debates <- OneDebate
    Lines <- SomeLines
    Words <- SomeWords
    Answers <- SomeAnswers
    Requests <- FourRequests
    Keys <- ThreeKeys
    KeyOf <- MixedKeys
    Description <- Descriptions
    DescLimit = 4
    BadType <- WrongType
    Caching <- TwoCaching
    UseRedis = TRUE
    Faults = {"redis", "llm", "ontology", "db"}
    MaxCrashes = 1
INVARIANTS
    PatternsCount
    SearchIsNearest
    SuggestionFollowsSearch
    DecisionIsRecorded
    FormIsRead
    HitHasOrigin
    AnsweredIsRecorded
