\* A follower notices a loss, rebases, and the leader finds nothing to report.
SPECIFICATION FairSpec
CONSTANTS
    t1 = t1
    t2 = t2
    p1 = p1
    p2 = p2
    Tenant = {t1}
    Replica = {p1, p2}
    Delta <- Movements
    Loss <- Losses
    MaxBlockRange = 2
    InitialLookback = 9
    Fault = {}
    MaxFaults = 0
    MaxBlocks = 3
PROPERTY
    NoticedIsPaged
CHECK_DEADLOCK FALSE
