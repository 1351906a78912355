CONSTANTS
    g1 = g1  c1 = c1  c2 = c2  c3 = c3  c4 = c4
    None = None
    Gateways = {g1}
    Calls = {c1, c2, c3, c4}
    Requests <- MCRequests
    MaxFailed = 2
    LockTicks = 1
    AccessTTL = 4
    RefreshTTL = 2
    CacheTTL = 1
    RPCTimeout = 1
    MaxTime = 4
    MaxFaults = 1
SPECIFICATION MCSpec
INVARIANTS RevocationTakesHold RotatedIsDead LockoutAlone
CHECK_DEADLOCK FALSE
