----------------------------- MODULE MCClaims -----------------------------
\* The money of a one-bet batch from the lobby to the last claim: two users,
\* another wallet in the same vault, and a reserve whose growth gives the
\* share odd prices before, between and after the claims, with the history page
\* reading and showing its preview in between.
EXTENDS HistoryPage

CONSTANTS u1, u2, saver,
          batch, batchAta, collateralAcct, operatorAcct,
          vaultAcct, reserveAcct, adminAcct

MCAccounts == {u1, u2, saver,
               batchAta, collateralAcct, operatorAcct,
               vaultAcct, reserveAcct, adminAcct}
MCTokens ==
    [a \in MCAccounts |->
        CASE a = u1 -> 4
          [] a = u2 -> 5
          [] a = saver -> 2
          [] a = operatorAcct -> 3
          [] a = reserveAcct -> 7
          [] OTHER -> 0]

\* Bounds: nobody leaves the lobby (MCLobby explores that), only one user
\* votes (MCVoting explores more), the stakes are 4 and 5 or one of them, the operator is slashed at most once, the
\* other wallet rests between start and settlement, the clock stops at the
\* settlement, after which nothing looks at it, and the history page is u1's.
ClaimsSpec ==
    HistoryInit /\ [][/\ HistoryNext
                      /\ status = "Lobby" => totalDeposited' >= totalDeposited
                      /\ ~pos'[u2].hasVoted /\ pos'[u2].deposited # 4
                      /\ operatorYieldBps' >= 8000
                      /\ status \notin {"Lobby", "Settled"} => shares'[saver] = shares[saver]
                      /\ status = "Settled" => now' = now
                      /\ stage' # "idle" => shown'.user = u1]_<<vars, pageVars>>
=============================================================================
