CONSTANTS
    u1 = u1
    u2 = u2
    saver = saver
    batch = batch
    batchAta = batchAta
    collateralAcct = collateralAcct
    operatorAcct = operatorAcct
    vaultAcct = vaultAcct
    reserveAcct = reserveAcct
    adminAcct = adminAcct
    VaultAcct = vaultAcct
    ReserveAcct = reserveAcct
    AdminAcct = adminAcct
    Batch = batch
    BatchAta = batchAta
    CollateralAcct = collateralAcct
    OperatorAcct = operatorAcct
    TokenAccounts <- MCAccounts
    InitialTokens <- MCTokens
    Depositors = {batch, saver}
    Wallets = {saver}
    Users = {u1, u2}
    Amounts = {2}
    GrowthPerTick = 5
    Stakes = {4, 5}
    ApyBps = 65535
    Slates = {{0}}
    Kickoffs = {1}
    Odds = {10000, 30000}
    Overpay = {0}
    MaxBets = 1
    VoteCutoff = 0
    ProofWindow = 1
    LobbyExpiry = 0
    MaxTime = 2
SPECIFICATION ClaimsSpec
CHECK_DEADLOCK FALSE
INVARIANTS
    ClaimNeverFails
    ClaimLossIsRounding
    PreviewIsHonoured
PROPERTIES
    CoverageNeverFalls
    GrowthIsPaidIn
