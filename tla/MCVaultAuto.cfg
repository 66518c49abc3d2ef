CONSTANTS
    ann = ann  bob = bob  vault = vault  oper = oper  issuer = issuer
    p1 = p1  p2 = p2  fees = fees  None = None
    Holders = {ann, bob}
    Burners = {ann}
    VAULT = vault
    Operator = oper
    Issuer = issuer
    Pool <- TwoAccounts
    Fees = fees
    Recipients = {}
    Gated = {ann}
    AllSettings <- NoSettings
    InitialSettings <- AutoFee
    Delays = {0}
    Navs = {0}
    InitialBalances <- AutoStart
    Amounts = {1, 2}
    BPS = 2
    MAX_FEE_BPS = 1
    Governed = {"Account", "Skim", "Delay"}
    ONE = 1
    MaxBatches = 2
    MaxTime = 0
SPECIFICATION Spec
INVARIANTS BooksBalance AccountsExclusive
PROPERTIES NothingStranded ClaimsNeverDilute
