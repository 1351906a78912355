CONSTANTS
    c1 = c1  c2 = c2  c3 = c3  p1 = p1  p2 = p2
    k1 = k1  k2 = k2  t1 = t1  t2 = t2  t3 = t3
    alice = alice  bob = bob  USD = USD  EUR = EUR
    Accounts = {alice, bob}
    Currencies = {USD, EUR}
    NoCurrency = NoCurrency
    None = None
    Calls = {c1, c2, c3}
    Pods = {p1, p2}
    PodOf <- MCTwoPods
    Requests <- MCRequests
    Keys = {k1, k2}
    Txns = {t1, t2, t3}
    MaxInsertRetries = 2
    Faults = FALSE
SPECIFICATION FairSpec
INVARIANTS CollisionsComeFromOtherPods VerifiedCoversLedger
PROPERTY CallsReturn
