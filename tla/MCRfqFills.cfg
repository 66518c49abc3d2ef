SPECIFICATION Spec
CONSTANTS
    m1 = m1
    m2 = m2
    alice = alice
    relay = relay
    rfq = rfq
    k1 = k1
    k2 = k2
    kt = kt
    kh = kh
    RWA = RWA
    USD = USD
    None = None
    RFQ = rfq
    Accounts <- MCAccounts
    Submitters = {alice, relay}
    Keys <- MCKeys
    OwnKey <- MCOwnKey
    Signatures <- FillSignatures
    Delegations <- FillDelegations
    Tokens = {RWA, USD}
    Skewed = {RWA}
    RfqOrders <- FillRfqOrders
    FixedOrders <- FillFixedOrders
    DutchOrders = {}
    Markets <- TwoRates
    Configs <- FeeConfigs
    MaxAsks = {}
    InitialBalances <- FillBalances
    ONE = 1
    DENOM = 10
    BPS = 10
    MaxTime = 2
    MaxListings = 0
INVARIANTS
    NoOverfill
    MakerProRata
    TakerProRata
PROPERTIES
    CancelledNeverFills
    OfflineDebitsAreSigned
