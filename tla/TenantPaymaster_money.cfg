\* Two tenants, three operations, one of which makes the unused-gas penalty
\* exceed the slack in postOp's charge.  No controllers.
SPECIFICATION MoneySpec
CONSTANTS
    t1 = t1
    t2 = t2
    s1 = s1
    s2 = s2
    o1 = o1
    o2 = o2
    o3 = o3
    a1 = a1
    a2 = a2
    a3 = a3
    Tenant = {t1, t2}
    Account = {a1}
    NoAccount = NoAccount
    Signer = {s1}
    Op = {o1, o2, o3}
    userOp <- MoneyOps
    PenaltyPercent = 10
    ClaimDelay = 1
    AssignmentTtl = 1
    Amount = {4, 12}
    MaxDeposited = 16
    MaxDeposit = 4
    MaxOwnerTook = 4
    MaxNonce = 0
    MaxIssued = 0
    MaxTime = 0
INVARIANTS
    TypeOK
    CountersAgree
    SolventButForLeaks
    EventsExplainBalances
PROPERTY
    ImplementsTenantAccounts
CHECK_DEADLOCK FALSE
