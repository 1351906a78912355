CONSTANTS
    p1 = p1  p2 = p2  q1 = q1  q2 = q2  k1 = k1  k2 = k2
    c1 = c1  c2 = c2  c3 = c3  c4 = c4
    None = None
    Pods = {p1, p2}
    Calls = {c1, c2, c3, c4}
    Requests <- MCRequests
    Quotes = {q1, q2}
    Keys = {k1, k2}
    Baseline <- MCBaseline
    LiveRates <- MCLiveRates
    FeeBps = 3000
    SpreadBps = 1000
    QuoteTTL = 1
    MaxTime = 2
    MaxFaults = 1
    MaxSyncs = 1
SPECIFICATION Spec
INVARIANTS OneConversionPerQuote LockedAnswersAgree ConsumedIsConverted
CHECK_DEADLOCK FALSE
