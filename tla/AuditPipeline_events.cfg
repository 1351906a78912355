CONSTANTS
    e1 = e1  e2 = e2  e3 = e3
    Logger = Logger  Torn = Torn  None = None  r1 = r1  r2 = r2
    Events = {e1, e2, e3}
    Audit = {e1, e3}
    Outboxed = {e3}
    Malformed = {e3}
    Relays = {r1, r2}
    BufferSize = 1
    Size <- MCSize
    Estimate <- MCEstimate
    MaxSpool = 3
    SpoolTarget = 1
    MaxAttempts = 2
    MaxRetries = 1
    MaxFaults = 1
SPECIFICATION MCSpec
INVARIANTS TypeOK AccountedFor OutboxHonest
CHECK_DEADLOCK FALSE
PROPERTY EventsSettle
