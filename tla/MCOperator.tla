----------------------------- MODULE MCOperator -----------------------------
\* Two instances of the operator, one depositor, two bets.
EXTENDS Operator, TLC

CONSTANTS u1, o1, o2,
          batch, batchAta, collateralAcct, operatorAcct,
          vaultAcct, reserveAcct, adminAcct

MCAccounts == {u1,
               batchAta, collateralAcct, operatorAcct,
               vaultAcct, reserveAcct, adminAcct}
MCTokens ==
    [a \in MCAccounts |->
        CASE a = u1 -> 40
          [] a = operatorAcct -> 4
          [] OTHER -> 0]

Interchangeable == Permutations({o1, o2})

\* Bound: at most one penalty or default.
FewPenalties == operatorYieldBps >= 8000
=============================================================================
