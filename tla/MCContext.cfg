CONSTANTS
    w1 = w1
    noWallet = noWallet
    Wallets = {w1}
    NoWallet = noWallet
    Batches = {0, 1, 2}
    Slates = {{0}}
    MaxBets = 1
    Readable = {1, 2}
    Unstamped = {}
    Asked <- MCAsked
    Starts <- MCStarts
    MaxLoads = 2
    MaxChanges = 1
SPECIFICATION ContextFairSpec
CHECK_DEADLOCK FALSE
INVARIANTS
    ReadYourWrites
PROPERTIES
    ViewSettles
