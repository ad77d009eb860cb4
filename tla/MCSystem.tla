------------------------------ MODULE MCSystem ------------------------------
\* One bet, two depositors who may claim either way and buy tickets of their
\* own, and a lottery round.
EXTENDS UndegenSystem

CONSTANTS u1, u2,
          batch, batchAta, collateralAcct, operatorAcct,
          vaultAcct, reserveAcct, adminAcct, jackpot1

MCAccounts == {u1, u2,
               batchAta, collateralAcct, operatorAcct,
               vaultAcct, reserveAcct, adminAcct, jackpot1}
MCTokens ==
    [a \in MCAccounts |->
        CASE a = u1 -> 5
          [] a = u2 -> 4
          [] a = operatorAcct -> 3
          [] a = reserveAcct -> 3
          [] OTHER -> 0]
MCJackpot == <<jackpot1>>

\* Bounds: nobody leaves the lobby (MCLobby explores that), only one user
\* votes (MCVoting explores more), and the lottery opens once the batch is
\* Settled (until then the two share only the clock).
SettledFirstSpec ==
    SystemInit /\ [][/\ SystemNext
                     /\ status = "Lobby" => totalDeposited' >= totalDeposited
                     /\ ~pos'[u2].hasVoted
                     /\ currentRound' > 0 => status = "Settled"]_systemVars
=============================================================================
