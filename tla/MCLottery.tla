----------------------------- MODULE MCLottery ------------------------------
\* Two rounds, open one after the other or together, and three buyers who can
\* each buy more than once in any order; every number of every pool is drawn.
EXTENDS LotteryPage

CONSTANTS b1, b2, b3, jackpot1, jackpot2

MCBuyers == {b1, b2, b3}
MCAccounts == MCBuyers \cup {jackpot1, jackpot2}
MCTokens == [a \in MCAccounts |-> CASE a \in {b1, b2} -> 2 [] a = b3 -> 1 [] OTHER -> 0]
MCJackpot == <<jackpot1, jackpot2>>
=============================================================================
