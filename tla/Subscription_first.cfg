\* The tenant had no subscription: two first payments run concurrently.
SPECIFICATION SubscriptionSpec
CONSTANTS
    c1 = c1
    c2 = c2
    c3 = c3
    k1 = k1
    k2 = k2
    p1 = p1
    p2 = p2
    t1 = t1
    t2 = t2
    Call = {c1, c2}
    call <- FirstPayments
    Transfer = {t1, t2}
    NoTransfer = NoTransfer
    Check = {}
    home <- NoChecks
    Replica = {p1, p2}
    InitialPaidThrough <- Unsubscribed
    UnsubscribedAllows = FALSE
    GraceSeconds = 1
    TtlSeconds = 2
    MaxClock = 2
INVARIANTS
    PeriodsDisjoint
CHECK_DEADLOCK FALSE
