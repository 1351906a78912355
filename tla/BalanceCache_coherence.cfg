CONSTANTS
    p1 = p1  p2 = p2  w1 = w1  w2 = w2  c1 = c1  c2 = c2  c3 = c3  c4 = c4
    None = None
    Pods = {p1, p2}
    Wallets = {w1, w2}
    Calls = {c1, c2, c3, c4}
    Requests <- MCRequests
    MaxEntries = 1
    TTL = 1
    Pause = 1
    MaxFaults = 1
SPECIFICATION Spec
INVARIANTS TypeOK StalenessBounded CoherentWithoutRaces
CHECK_DEADLOCK FALSE
