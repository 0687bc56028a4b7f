\* Two claims of one transfer and a grant for a subscribed tenant, while two
\* checks on one replica read, cache and expire the row.  Three requests of two
\* wallets that together exceed a cap, against a store whose replies get lost
\* and whose releases are resent.
SPECIFICATION StoreSpec
CONSTANTS
    c1 = c1
    c2 = c2
    c3 = c3
    k1 = k1
    k2 = k2
    p1 = p1
    p2 = p2
    t1 = t1
    t2 = t2
    Call = {c1, c2, c3}
    call <- Renewals
    Transfer = {t1}
    NoTransfer = NoTransfer
    Check = {k1, k2}
    home <- Checks
    Replica = {p1, p2}
    InitialPaidThrough = 0
    UnsubscribedAllows = FALSE
    GraceSeconds = 0
    TtlSeconds = 2
    MaxClock = 2
    r1 = r1
    r2 = r2
    r3 = r3
    w1 = w1
    w2 = w2
    Request = {r1, r2, r3}
    request <- MCRequests
    Quota = {1, 2}
    quota <- MCQuotas
    Subject = {w1, w2}
    NoSubject = NoSubject
    Policy = {{1, 2}}
    WeiPerGwei = 2
    WindowSeconds = 1
    Fault = {"consumeReplyLost", "consumeResent",
             "releaseRefused", "releaseResent"}
    MaxFaults = 2
    MaxEdits = 0
    MaxTime = 1
INVARIANTS
    PaidTimeExact
    ServiceFollowsPayment
    CountersCover
SYMMETRY Symmetry
CHECK_DEADLOCK FALSE
