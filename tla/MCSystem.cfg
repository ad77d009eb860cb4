CONSTANTS
    u1 = u1
    u2 = u2
    batch = batch
    batchAta = batchAta
    collateralAcct = collateralAcct
    operatorAcct = operatorAcct
    vaultAcct = vaultAcct
    reserveAcct = reserveAcct
    adminAcct = adminAcct
    jackpot1 = jackpot1
    VaultAcct = vaultAcct
    ReserveAcct = reserveAcct
    AdminAcct = adminAcct
    Batch = batch
    BatchAta = batchAta
    CollateralAcct = collateralAcct
    OperatorAcct = operatorAcct
    TokenAccounts <- MCAccounts
    InitialTokens <- MCTokens
    Depositors = {batch}
    Wallets = {}
    Users = {u1, u2}
    Amounts = {}
    GrowthPerTick = 3
    Stakes = {4}
    ApyBps = 65535
    Slates = {{0}}
    Kickoffs = {1}
    Odds = {30000}
    Overpay = {0}
    MaxBets = 1
    VoteCutoff = 0
    ProofWindow = 1
    LobbyExpiry = 0
    MaxTime = 2
    Buyers = {u1, u2}
    Jackpot <- MCJackpot
    MaxRounds = 1
    RoundDuration = 1
    TicketAmounts = {1}
    RandomValues = {0, 3}
SPECIFICATION SettledFirstSpec
CHECK_DEADLOCK FALSE
INVARIANTS
    BooksBalance
PROPERTIES
    WagerIsReward
