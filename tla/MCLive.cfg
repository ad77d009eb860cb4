CONSTANTS
    w1 = w1
    noWallet = noWallet
    Wallets = {w1}
    NoWallet = noWallet
    Batches = {0, 1}
    Slates = {{0}}
    MaxBets = 2
    Readable = {0, 1}
    Unstamped = {}
    Asked = {}
    Starts <- MCStarts
    MaxLoads = 1
    MaxDescribing = 2
    MaxChanges = 1
SPECIFICATION LiveSpec
CHECK_DEADLOCK FALSE
INVARIANTS
    ProposalsAreLive
    OnlyCutoffRefusesVote
