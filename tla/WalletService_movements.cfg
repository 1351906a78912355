CONSTANTS
    a = a  b = b  k1 = k1  k2 = k2  USD = USD  EUR = EUR
    External = External  None = None
    Handlers = {h1, h2}
    Wallets = {a, b}
    Currencies = {USD, EUR}
    Keys = {k1, k2}
    Primary <- MCPrimary
    Opening <- MCOpening
    Statuses = {"ACTIVE"}
    Tiers = {"TIER_2"}
    BasicTier = "TIER_2"
    Limits <- MCLimits
    USDRate <- MCUSDRate
    Rates <- MCRates
    CallSet <- AllCalls
    FXConfigured = TRUE
    Faults = TRUE
    MaxCalls = 3
SPECIFICATION Spec
INVARIANTS TypeOK NoOverdraft OutboxExplainsBalances AnswersAgree
SYMMETRY HandlerSymmetry
CHECK_DEADLOCK FALSE
