----------------------------- MODULE MCRounds -----------------------------
\* All five bets of a batch with one depositor: every order of proposals,
\* missed collateral, skips, proofs and defaults, with odds low enough that
\* the required collateral rounds to nothing, and an operator whose money
\* can run out.
EXTENDS CoreAsSeen

CONSTANTS u1,
          batch, batchAta, collateralAcct, operatorAcct,
          vaultAcct, reserveAcct, adminAcct

MCAccounts == {u1,
               batchAta, collateralAcct, operatorAcct,
               vaultAcct, reserveAcct, adminAcct}
MCTokens ==
    [a \in MCAccounts |->
        CASE a = u1 -> 40
          [] a = operatorAcct -> 3
          [] OTHER -> 0]
=============================================================================
