\* Each component in its instance of MCAdministration.
SPECIFICATION AdministrationSpec
CONSTANTS
    c1 = c1
    c2 = c2
    k1 = k1
    k2 = k2
    Customers = {"acme"}
    DefaultTenant = "default"
    Subjects = {"alice"}
    Bootstrap = "boot"
    KeyIds = {k1, k2}
    RoleSets = {{"sponsor", "tenant_admin"}, {"platform"}}
    Policies = {"strict"}
    Default = "strict"
    Ttl = 1
    AccessUntil = 1
    MaxSessions = 1
    Requests = {c1, c2, "third"}
    Rate = 3
    Threshold = 2
    BlockWindow = 2
    MaxSkew = 1
    ThrottleUntil = 2
    Mine = "mine"
    Others = {"other"}
    PolicyIds = {"default"}
    FreshIds = {1, 2}
    PaidFor <- MCPaidFor
    Contents = {"a", "invalid"}
    Fleet = {c1, c2}
    Environments <- MCEnvironments
    Seeded = "default"
    OtherRows = {"theirs"}
    MaxBoots = 4
    Replicas = {c1, c2}
    FirstPaidThrough = 2
    Graces = {1, 2}
    NoticeSeconds = 1
    Interval = 2
    Period = 3
    LastSecond = 6
    DefaultTenantId = "default"
    Tenant = {"default", "acme"}
    Address = {"a", "b"}
    Mistyped = "A"
    Selector = {"approve", "transfer"}
    Bare = "0x"
    Chain = {1, 2}
    StoredPolicies <- MCPolicies
    Plans <- MCPlans
    DefaultPlan = "basic"
    PlanIds = {"pro", "gone"}
    Operations <- MCOperations
    Holders <- MCHolders
    MaxOperations = 2
    TracedRequests = {1, 2}
    MaxQueue = 3
    MaxBatch = 2
    Chains = {c1, c2}
    Bounds <- MCBounds
    Latencies = {1, 2, 3}
    MaxEvents = 2
    MaxStarts = 1
    MaxSamples = 3
    Keys = {k1, k2}
    MaxLoads = 3
    None = "none"
INVARIANTS
    CredentialsBounded
    BlockedOnce
    CountedAndShownIsSo
    AnswersArePrivate
    NoticesInTime
    ApprovedIsPermitted
PROPERTY
    BootIsSafe
VIEW View
SYMMETRY Symmetry
CHECK_DEADLOCK FALSE
