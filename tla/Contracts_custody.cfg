\* One tenant, one operation, two accounts: controllers, signer rotation, the
\* emergency stop and ownership, interleaved with funding and sponsorship;
\* every environment of the deploy script; two contracts, keys and tenants.
SPECIFICATION ContractsSpec
CONSTANTS
    t1 = t1
    t2 = t2
    s1 = s1
    s2 = s2
    o1 = o1
    o2 = o2
    o3 = o3
    a1 = a1
    a2 = a2
    a3 = a3
    k1 = k1
    k2 = k2
    u1 = u1
    u2 = u2
    Tenant = {t1}
    Account = {a1, a2}
    NoAccount = NoAccount
    Signer = {s1}
    Op = {o1}
    userOp <- CustodyOps
    PenaltyPercent = 10
    ClaimDelay = 1
    AssignmentTtl = 1
    Amount = {3}
    MaxDeposited = 3
    MaxDeposit = 0
    MaxOwnerTook = 0
    MaxNonce = 3
    MaxIssued = 2
    MaxTime = 2
    Deployer = "deployer"
    Safe = "safe"
    Typo = "typo"
    NewSigners = {"k1", "k2"}
    MaxSigners = 3
    Paymasters <- Contracts
    Governed <- Administered
    Ops <- ClientOps
    Tenants = {u1, u2}
    Keys = {k1, k2}
    Replicas = {"r1"}
    GasLimits <- WireLimits
    Validity = 1
    MaxClock = 2
    MaxAttested = 2
INVARIANTS
    NoReplay
    GovernanceSafe
    AttestationsMatch
PROPERTIES
    ClaimedControllerWaits
    DrainedRemovalDropsNothing
SYMMETRY Symmetry
CHECK_DEADLOCK FALSE
