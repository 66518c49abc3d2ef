CONSTANTS
    ann = ann  cur = cur  a1 = a1  a2 = a2  None = None
    Holders = {ann, cur}
    Curator = cur
    Adapters = {a1, a2}
    Amounts = {1, 2}
    Lots = {3}
    Taxes = {0, 1}
    InitialFee = 0
    Fees = {1}
    Subjects = {ann}
    Caps = {2}
    MAX_FEE = 1
    MAX_VENUES = 2
    BPS = 2
    ONE = 6
    VIRTUAL = 3
    MaxRules = 1
    MaxNav = 3
    MaxShares = 4
SPECIFICATION Spec
INVARIANTS SharesAccountedFor MaxWithdrawHonest
PROPERTIES PriceNeverFalls MarkNeverFalls
SYMMETRY Alike
