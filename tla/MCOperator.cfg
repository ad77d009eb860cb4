CONSTANTS
    u1 = u1
    o1 = o1
    o2 = o2
    batch = batch
    batchAta = batchAta
    collateralAcct = collateralAcct
    operatorAcct = operatorAcct
    vaultAcct = vaultAcct
    reserveAcct = reserveAcct
    adminAcct = adminAcct
    VaultAcct = vaultAcct
    ReserveAcct = reserveAcct
    AdminAcct = adminAcct
    Batch = batch
    BatchAta = batchAta
    CollateralAcct = collateralAcct
    OperatorAcct = operatorAcct
    TokenAccounts <- MCAccounts
    InitialTokens <- MCTokens
    Depositors = {batch}
    Wallets = {}
    Users = {u1}
    Amounts = {}
    GrowthPerTick = 1
    Stakes = {40}
    ApyBps = 65000
    Slates = {{0, 1}}
    Kickoffs = {1, 2}
    Odds = {1000}
    Overpay = {0, 2}
    MaxBets = 2
    VoteCutoff = 0
    ProofWindow = 1
    LobbyExpiry = 1
    MaxTime = 2
    Instances = {o1, o2}
    LobbyDuration = 1
    MinBatchUsers = 1
    Lookback = 0
    Provable = {0}
SPECIFICATION OperatorSpec
CONSTRAINT FewPenalties
SYMMETRY Interchangeable
CHECK_DEADLOCK FALSE
INVARIANTS
    LockKeepsApart
    CoveredBetIsDescribed
PROPERTIES
    LobbyRunsItsCourse
