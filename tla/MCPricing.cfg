CONSTANTS
    rwa = rwa  usd = usd  eur = eur  None = None
    Admin = admin  Keeper = keeper  Updater = updater
    Rwas = {rwa}
    References = {usd, eur}
    Pairs <- InUsd
    Prices = {0, 2, 3, 4}
    Configs <- NewConfigs
    InitialConfig <- Start
    AllSchedules <- EdgeSchedules
    Ages = {1}
    Deviations = {1}
    ONE = 2
    BPS = 2
    MAX_SECONDS = 3
    MaxChanges = 2
    MaxPushes = 2
    MaxTime = 4
SPECIFICATION Spec
INVARIANTS NeverRetiredPrice PushersPaced HorizonForGood
