CONSTANTS
    u1 = u1
    u2 = u2
    u3 = u3
    batch = batch
    batchAta = batchAta
    collateralAcct = collateralAcct
    operatorAcct = operatorAcct
    vaultAcct = vaultAcct
    reserveAcct = reserveAcct
    adminAcct = adminAcct
    VaultAcct = vaultAcct
    ReserveAcct = reserveAcct
    AdminAcct = adminAcct
    Batch = batch
    BatchAta = batchAta
    CollateralAcct = collateralAcct
    OperatorAcct = operatorAcct
    TokenAccounts <- MCAccounts
    InitialTokens <- MCTokens
    Depositors = {batch}
    Wallets = {}
    Users = {u1, u2, u3}
    Amounts = {}
    GrowthPerTick = 1
    Stakes = {40, 80}
    ApyBps = 65000
    Slates = {{0, 1, 3}}
    Kickoffs = {2, 3}
    Odds = {15000}
    Overpay = {0}
    MaxBets = 2
    VoteCutoff = 1
    ProofWindow = 1
    LobbyExpiry = 0
    MaxTime = 4
    SettleDefaultAfter = 1
SPECIFICATION StayingSpec
CHECK_DEADLOCK FALSE
SYMMETRY Twins
INVARIANTS
    TypeOK
    BallotDecides
    NoPhantomVotes
    PanelTellsTheBet
