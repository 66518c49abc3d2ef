CONSTANTS
    ann = ann  usd = usd  rwa = rwa  pro = pro  par = par
    venue = venue  target = target  fac = fac  None = None
    ROUTER = router  DEX = dexagg  FACILITIES = facagg  MARKET = market
    Tokens = {usd, rwa}
    Users = {ann}
    Recipients = {pro, par}
    Venues = {venue}
    Targets = {target, usd}
    FeeConfigs <- NewFees
    InitialFees <- Start
    BPS = 2
    MAX_PROTOCOL_FEE = 1
    MAX_PARTNER_FEE = 1
    MAX_VENUES = 2
    MAX_SPLITS = 2
    MAX_HOPS = 2
    InitialBalances <- Wallets
    Base = usd
    Facilities = {fac}
    AggregatorFees = {0, 1}
    InitialFee = 1
    MAX_FEE = 1
    MAX_ACTIVE = 1
    Protocol = pro
    Amounts = {2}
    Payees <- SomePayees
    Partners <- SomePartners
    SplitRoutes <- SomeSplits
    CallRoutes <- SomeCalls
    Legs <- AllLegs
    MaxLegs = 2
    MaxChanges = 1
SPECIFICATION Spec
INVARIANTS OwedCovered NothingLeftBehind
