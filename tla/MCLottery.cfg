CONSTANTS
    b1 = b1
    b2 = b2
    b3 = b3
    jackpot1 = jackpot1
    jackpot2 = jackpot2
    Buyers <- MCBuyers
    TokenAccounts <- MCAccounts
    InitialTokens <- MCTokens
    Jackpot <- MCJackpot
    MaxRounds = 2
    RoundDuration = 1
    TicketAmounts = {1, 2}
    RandomValues = {0, 1, 2, 3, 4, 5}
    MaxTime = 1
SPECIFICATION LotteryFairSpec
CHECK_DEADLOCK FALSE
INVARIANTS
    JackpotIsPool
    PoolIsTickets
    WinnerExists
    TicketsAreKept
    OffersAreKept
PROPERTIES
    DrawIsBlind
    PrizeIsPaid
