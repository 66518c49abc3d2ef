CONSTANTS
    ann = ann  bob = bob  cur = cur  queue = queue  usd = usd  gold = gold
    None = None
    Lps = {ann, bob}
    Curator = cur
    QUEUE = queue
    Base = usd
    Rwas = {gold}
    AllTerms <- NewTerms
    InitialTerms <- GoldListed
    InitialQueue = queue
    InitialVest = 2
    Fees = {1}
    Vests = {1}
    MAX_FEE = 1
    BPS = 2
    DENOM = 3
    ONE = 1
    VIRTUAL = 2
    Horizons = {1}
    Prices = {0, 1, 3}
    Amounts = {1, 2, 3}
    Lots = {1, 2}
    MaxAssets = 3
    MaxUnits = 1
    InitialPrice = 3
    MaxShares = 3
    MaxEvents = 1
    MaxTime = 1
    MaxPositions = 2
    MaxServed = 2
SPECIFICATION QueueSpec
INVARIANT ProcessServes
