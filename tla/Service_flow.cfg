\* Two requests, a quota one of them does not carry, a policy that is edited,
\* and every failure but those of releases and of the store's replies.
SPECIFICATION FlowSpec
CONSTANTS
    Chain = {1}
    Enabled = {1}
    MaxCalls = 2
    NoBalance = NoBalance
    FailureThreshold = 2
    OpenTime = 2
    HalfOpenMaxCalls = 1
    CacheTtl = 2
    Latency = 2
    Amount = {0, 1}
    MaxUnknown = 1
    MaxOutages = 1
    MaxMoves = 1
    Estimates = {1, 2, 3}
    MaxPolls = 2
    MaxSends = 3
    People = {"alice", "bob"}
    Tenants = {"t1", "t2", "t3"}
    Founded <- MCFounded
    Tabs = {1}
    NoOne = NoOne
    Requests = {1, 2}
    BodyOf <- MCBodies
    Part = 2
    Capacity = 2
    PerTick = 1
    Attempts = 2
    MaxTicks = 2
    Chains = {1, 2}
    MaxLoads = 3
    Runs = {1, 2}
    r1 = r1
    r2 = r2
    r3 = r3
    w1 = w1
    w2 = w2
    Request = {r1, r2}
    request <- SkipRequests
    Quota = {1, 2}
    quota <- SkipQuotas
    Subject = {w1}
    NoSubject = NoSubject
    Policy = {{1, 2}, {2}}
    WeiPerGwei = 2
    WindowSeconds = 1
    Fault = {"consumeRefused", "attest", "insertRefused", "insertReplyLost", "neverReturns", "replicaDies"}
    MaxFaults = 1
    MaxEdits = 1
    MaxTime = 1
INVARIANTS
    CountersExact
    BreakerAndCacheTellTheTruth
    SubmittedIsSound
    ShownIsActing
    RoutesFairly
PROPERTIES
    ImplementsBudget
    NeverBack
    EveryWaitEnds
    OutagesPass
CHECK_DEADLOCK FALSE
