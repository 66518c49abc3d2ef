CONSTANTS
    taker = taker  maker = maker  fee = fee  fund = fund  relay = relay
    v1 = v1  v2 = v2  me = me  ka = ka  kh = kh
    RWA = RWA  USD = USD  EUR = EUR  CT = CT  rwa = rwa  usd = usd
    None = None
    Accounts <- MCAccounts
    ME = me
    Relayers = {relay}
    Cctp = TRUE
    Tokens <- MCTokens
    Away <- MCAway
    Unit <- MCUnit
    Link <- MCLink
    Requests <- CctpRequests
    Bids <- CctpBids
    Quotes <- DearQuotes
    Keys = {ka}
    OwnKey <- MCOwnKey
    Signatures <- CctpSignatures
    Delegations <- NoChanges
    Cancels <- NoChanges
    Vaults = {v1, v2}
    PaysIn <- MCPaysIn
    Ct <- MCCt
    Redemptions <- NoDust
    Fussy <- CctpFussy
    Changes <- VaultChange
    InitialSettings <- CctpSettings
    InitialBalances <- CctpBalances
    InitialXlm <- LzXlm
    Sweeps = {}
    FEE = 1
    RETURN_FEE = 0
    MaxXlm = 0
    MaxTime = 0
    MaxTries = 2
SPECIFICATION LiveSpec
INVARIANTS SwapStages Solvent MakerLossBounded
PROPERTIES TakerMadeWhole OrdersResolve PaidSettles
CHECK_DEADLOCK FALSE
