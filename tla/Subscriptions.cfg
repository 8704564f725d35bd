SPECIFICATION FairSpec
CONSTANTS
    u = u
    w = w
    v1 = v1
    v2 = v2
    g1 = g1
    g2 = g2
    done = done
    again = again
    gone = gone
    late = late
    other = other
    forged = forged
    Users <- TwoUsers
    Visits <- SomeVisits
    Grants <- SomeGrants
    Events <- SomeEvents
    UserOf <- SomeUserOf
    KindOf <- SomeKindOf
    PlanOf <- SomePlanOf
    Offered <- FourPlans
    Price <- Prices
    Together <- SomeTogether
    MaxFailures = 1
INVARIANTS
    RevenueCountsEachOnce
    AcknowledgedIsKept
PROPERTIES
    KeepsASubscription
    EventsSettle
