CONSTANTS
    ann = ann  bob = bob  vault = vault  oper = oper  issuer = issuer
    p1 = p1  p2 = p2  fees = fees  None = None
    Holders = {ann, bob}
    Burners = {ann}
    VAULT = vault
    Operator = oper
    Issuer = issuer
    Pool <- OneAccount
    Fees = fees
    Recipients = {bob}
    Gated = {ann}
    AllSettings <- ModeChanges
    InitialSettings <- AutoGated
    Delays = {1}
    Navs = {0, 1}
    InitialBalances <- ModesStart
    Amounts = {1, 2}
    BPS = 2
    MAX_FEE_BPS = 1
    Governed = {"Pause", "Settings"}
    ONE = 1
    MaxBatches = 2
    MaxTime = 1
SPECIFICATION Spec
INVARIANTS SettlesAsSent HoldersCanLeave
