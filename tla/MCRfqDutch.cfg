SPECIFICATION Spec
CONSTANTS
    m1 = m1
    m2 = m2
    alice = alice
    relay = relay
    rfq = rfq
    k1 = k1
    k2 = k2
    kt = kt
    kh = kh
    RWA = RWA
    USD = USD
    None = None
    RFQ = rfq
    Accounts <- MCAccounts
    Submitters = {alice, m1}
    Keys <- MCKeys
    OwnKey <- MCOwnKey
    Signatures = {}
    Delegations = {}
    Tokens = {RWA, USD}
    Skewed = {RWA}
    RfqOrders = {}
    FixedOrders = {}
    DutchOrders <- MCDutchOrders
    Markets <- TwoRates
    Configs <- DutchConfigs
    MaxAsks = {4, 6}
    InitialBalances <- DutchBalances
    ONE = 1
    DENOM = 10
    BPS = 10
    MaxTime = 3
    MaxListings = 2
INVARIANTS
    EscrowCovered
    SellerCanCancel
PROPERTIES
    AskOnlyFalls
    SellerMadeWhole
