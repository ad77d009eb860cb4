CONSTANTS
    u1 = u1
    batch = batch
    batchAta = batchAta
    collateralAcct = collateralAcct
    operatorAcct = operatorAcct
    vaultAcct = vaultAcct
    reserveAcct = reserveAcct
    adminAcct = adminAcct
    VaultAcct = vaultAcct
    ReserveAcct = reserveAcct
    AdminAcct = adminAcct
    Batch = batch
    BatchAta = batchAta
    CollateralAcct = collateralAcct
    OperatorAcct = operatorAcct
    TokenAccounts <- MCAccounts
    InitialTokens <- MCTokens
    Depositors = {batch}
    Wallets = {}
    Users = {u1}
    Amounts = {}
    GrowthPerTick = 1
    Stakes = {40}
    ApyBps = 65000
    Slates = {{1}}
    Kickoffs = {2, 3}
    Odds = {5000, 10000}
    Overpay = {0, 1}
    MaxBets = 5
    VoteCutoff = 1
    ProofWindow = 1
    LobbyExpiry = 1
    MaxTime = 4
SPECIFICATION FairSpec
CHECK_DEADLOCK FALSE
INVARIANTS
    RoundLedger
    EscrowMatchesBet
PROPERTIES
    ImplementsLifecycle
    EveryStakerClaims
    AppSeesCore
