CONSTANTS
    alice = alice  bob = bob  root = root  ops = ops
    g1 = g1  g2 = g2  r1 = r1  r2 = r2
    None = None
    Gateways = {g1, g2}
    Detached = {g2}
    Callers = {alice, bob, root, ops}
    Admins = {root}
    WalletAdmins = {ops}
    KYCAdmins = {ops}
    Wallets <- MCWallets
    Requests = {r1, r2}
    Offered <- MCOffered
    TTL = 1
    ReadTime = 1
    CallTime = 1
    MaxFailovers = 2
    MaxFaults = 1
SPECIFICATION Spec
INVARIANTS FencedWritesFollowTarget
PROPERTIES RefusalsExplained AccessMatchesOwnership
CHECK_DEADLOCK FALSE
