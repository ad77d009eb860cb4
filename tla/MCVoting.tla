----------------------------- MODULE MCVoting -----------------------------
\* Three users with stakes 40, 40 and 80 vote on two bets; the vault pays no
\* yield, so the rounds are what is explored: ties, switched votes, slates
\* proposed again, votes of an earlier round, missed deadlines.
EXTENDS VotingPanel, TLC

CONSTANTS u1, u2, u3,
          batch, batchAta, collateralAcct, operatorAcct,
          vaultAcct, reserveAcct, adminAcct

MCAccounts == {u1, u2, u3,
               batchAta, collateralAcct, operatorAcct,
               vaultAcct, reserveAcct, adminAcct}
MCTokens ==
    [a \in MCAccounts |->
        CASE a \in {u1, u2} -> 40
          [] a = u3 -> 80
          [] a = operatorAcct -> 12
          [] OTHER -> 0]

\* u1 and u2 are interchangeable: equal wallets, nothing else tells them apart.
Twins == Permutations({u1, u2})

\* Bound: nobody leaves the lobby (MCLobby explores that).
StayingSpec == Init /\ [][Next /\ (status = "Lobby" => totalDeposited' >= totalDeposited)]_vars
=============================================================================
