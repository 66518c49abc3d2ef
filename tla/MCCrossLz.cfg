CONSTANTS
    taker = taker  maker = maker  fee = fee  fund = fund  relay = relay
    v1 = v1  v2 = v2  me = me  ka = ka  kh = kh
    RWA = RWA  USD = USD  EUR = EUR  CT = CT  rwa = rwa  usd = usd
    None = None
    Accounts <- MCAccounts
    ME = me
    Relayers = {relay}
    Cctp = FALSE
    Tokens <- MCTokens
    Away <- MCAway
    Unit <- MCUnit
    Link <- MCLink
    Requests <- LzRequests
    Bids <- LzBids
    Quotes <- OneQuote
    Keys = {ka, kh}
    OwnKey <- MCOwnKey
    Signatures <- LzSignatures
    Delegations <- LzDelegations
    Cancels <- LzCancels
    Vaults = {v1, v2}
    PaysIn <- MCPaysIn
    Ct <- MCCt
    Redemptions <- NoDust
    Fussy <- NoChanges
    Changes <- NoChanges
    InitialSettings <- LzSettings
    InitialBalances <- LzBalances
    InitialXlm <- LzXlm
    Sweeps = {1}
    FEE = 1
    RETURN_FEE = 1
    MaxXlm = 1
    MaxTime = 1
    MaxTries = 2
SPECIFICATION LiveSpec
INVARIANTS PaymentCoversQuote
PROPERTIES ImplementsSwap OrdersResolve PaidSettles
CHECK_DEADLOCK FALSE
