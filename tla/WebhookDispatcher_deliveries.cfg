CONSTANTS
    g1 = g1  g2 = g2  w1 = w1  s1 = s1  e1 = e1  e2 = e2
    None = None
    Pods = {g1, g2, w1}
    Gateways = {g1, g2}
    Subs = {s1}
    Events = {e1, e2}
    Home <- MCHome
    Interest <- MCInterest
    BatchLimit = 1
    MaxAttempts = 3
    MaxFaults = 1
SPECIFICATION Spec
INVARIANTS TypeOK NoSilentLoss LimitKeptAlone
PROPERTY DeliveriesSettle
CHECK_DEADLOCK FALSE
