\* Two attestations for one operation and a second operation, two replicas that
\* scan the chain, one of which may die.
SPECIFICATION FairSpec
CONSTANTS
    r1 = r1
    r2 = r2
    r3 = r3
    p1 = p1
    p2 = p2
    w1 = w1
    Request = {r1, r2, r3}
    request <- CapRequests
    Quota = {1}
    quota <- CapQuotas
    Subject = {w1}
    NoSubject = NoSubject
    Policy = {{1}}
    WeiPerGwei = 2
    WindowSeconds = 1
    Fault = {"replicaDies"}
    MaxFaults = 1
    MaxEdits = 0
    MaxTime = 0
    Replica = {p1, p2}
    Cost = {1, 4, 6}
    ValiditySeconds = 1
    MaxBlockRange = 2
    InitialLookback = 9
INVARIANTS
    SpendWithinCap
    CheckpointTellsTheTruth
PROPERTY
    ScanGoesOn
CHECK_DEADLOCK FALSE
