CONSTANTS
    u1 = u1
    u2 = u2
    saver = saver
    batch = batch
    batchAta = batchAta
    collateralAcct = collateralAcct
    operatorAcct = operatorAcct
    vaultAcct = vaultAcct
    reserveAcct = reserveAcct
    adminAcct = adminAcct
    VaultAcct = vaultAcct
    ReserveAcct = reserveAcct
    AdminAcct = adminAcct
    Batch = batch
    BatchAta = batchAta
    CollateralAcct = collateralAcct
    OperatorAcct = operatorAcct
    TokenAccounts <- MCAccounts
    InitialTokens <- MCTokens
    Depositors = {batch, saver}
    Wallets = {saver}
    Users = {u1, u2}
    Amounts = {1, 2}
    GrowthPerTick = 3
    Stakes = {1, 2, 3}
    ApyBps = 100
    Slates = {{0}}
    Kickoffs = {1}
    Odds = {10000}
    Overpay = {0}
    MaxBets = 5
    VoteCutoff = 0
    ProofWindow = 1
    LobbyExpiry = 1
    MaxTime = 2
SPECIFICATION Spec
CHECK_DEADLOCK FALSE
INVARIANTS
    UnderlyingIsHeld
    PriceAtLeastOne
    EveryPositionRedeemable
    RoundTripNeverGains
    BooksAgree
    LobbyCanBeLeft
PROPERTIES
    PriceNeverFalls
