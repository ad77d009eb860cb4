------------------------------ MODULE MCLobby ------------------------------
\* The vault and the lobby (the stakes are too small for start_batch): two
\* users who join, top up and leave in parts and in full, another wallet in
\* the same vault, and a reserve that the admin funds and that pays uneven
\* growth, so that every share price with a small denominator is reached.
EXTENDS LobbyPage

CONSTANTS u1, u2, saver,
          batch, batchAta, collateralAcct, operatorAcct,
          vaultAcct, reserveAcct, adminAcct

MCAccounts == {u1, u2, saver,
               batchAta, collateralAcct, operatorAcct,
               vaultAcct, reserveAcct, adminAcct}
MCTokens ==
    [a \in MCAccounts |->
        CASE a = u1 -> 5
          [] a = u2 -> 3
          [] a = saver -> 2
          [] a = reserveAcct -> 1
          [] a = adminAcct -> 2
          [] OTHER -> 0]
=============================================================================
