\* Two replicas replay three blocks of two tenants; one dies, a balance cannot
\* be read, or the leader changes.
SPECIFICATION FairSpec
CONSTANTS
    t1 = t1
    t2 = t2
    p1 = p1
    p2 = p2
    Tenant = {t1, t2}
    Replica = {p1, p2}
    Delta <- Movements
    Loss <- Losses
    MaxBlockRange = 2
    InitialLookback = 9
    Fault = {"replica dies", "balance unreadable", "leader changes"}
    MaxFaults = 1
    MaxBlocks = 3
PROPERTY
    SilentMovesSurface
INVARIANTS
    BooksRight
CHECK_DEADLOCK FALSE
