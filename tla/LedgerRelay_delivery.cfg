CONSTANTS
    p1 = p1  p2 = p2  None = None
    Pods = {p1, p2}
    NTasks = 2
    BatchSize = 1
    MaxRetries = 2
    TTL = 1
    Skew <- MCSkew
    Rejected = {1}
    MaxFaults = 2
SPECIFICATION MCSpec
INVARIANTS CompletedIsRecorded GivenUpAfterMaxRetries RetriesBounded
PROPERTIES LeaseLostFairly EveryTaskSettles
