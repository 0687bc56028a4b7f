\* Three requests around the end of a window.
SPECIFICATION Spec
CONSTANTS
    r1 = r1
    r2 = r2
    r3 = r3
    p1 = p1
    p2 = p2
    w1 = w1
    Request = {r1, r2, r3}
    request <- WindowRequests
    Quota = {1}
    quota <- RoomyQuotas
    Subject = {w1}
    NoSubject = NoSubject
    Policy = {{1}}
    WeiPerGwei = 2
    WindowSeconds = 1
    Fault = {}
    MaxFaults = 0
    MaxEdits = 0
    MaxTime = 1
    Replica = {p1}
    Cost = {1, 4}
    ValiditySeconds = 1
    MaxBlockRange = 2
    InitialLookback = 9
INVARIANT
    SpendWithinLimit
CHECK_DEADLOCK FALSE
