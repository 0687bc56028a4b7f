\* A change through one of two replicas with two failures; two replicas that
\* page one condition with one failure; two transfers that are claimed, and
\* reorganisations of one block.
SPECIFICATION ReplicasSpec
CONSTANTS
    p1 = p1
    p2 = p2
    c1 = c1
    Replica = {p1, p2}
    Call = {c1}
    call <- Change
    Fault = {"query fails", "announcement lost", "replica dies"}
    MaxFaults = 2
    MaxPlanChanges = 1
    Process = {p1, p2}
    None = None
    Orphan = Orphan
    Low = {"deposit-low"}
    ReadError = "funding-read-error"
    Reading <- Readings
    Paged = {"deposit-low", "funding-read-error"}
    Ttl = 2
    ReAlert = 1
    Retries = 1
    AlertFault = {"shutdown", "stall", "replica dies", "pager refuses",
                  "pager reply lost", "redis reply lost", "redis unreachable",
                  "pager unreachable", "local read error"}
    MaxAlertFaults = 1
    MaxChanges = 1
    Transfers = {"t1", "t2"}
    NoTransfer = "no transfer"
    reference <- References
    valueOf <- Values
    PageTenant = "a"
    Tenants = {"a"}
    priceOf <- Prices
    Claims = {"hand"}
    Confirmations = 3
    MaxPeriods = 2
    MaxAttempts = 2
    ReorgDepth = 1
    MaxLag = 1
    OperatorWrites = {"lower"}
    MaxHead = 5
INVARIANTS
    DistributionInOrder
    OneLeaderUnlessStalled
    CreditsAreRight
PROPERTIES
    
    ConditionsReachThePager
    PageSettles
CHECK_DEADLOCK FALSE
