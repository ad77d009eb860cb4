------------------------------- MODULE Tokens -------------------------------
(***************************************************************************)
(* The part of the SPL token program (external) the handlers use: balances *)
(* of the accounts of one mint, and transfer_checked, which fails when the *)
(* source holds less than the amount.  Nothing is minted or burned.        *)
(***************************************************************************)
EXTENDS Naturals

CONSTANTS
    TokenAccounts,   \* every token account of the mint
    InitialTokens    \* the balances when the programs are deployed

VARIABLE tok         \* balances of the token accounts

CanPay(balances, from, amount) == balances[from] >= amount

Moved(balances, from, to, amount) ==
    [balances EXCEPT ![from] = @ - amount, ![to] = @ + amount]
=============================================================================
