----------------------------- MODULE YieldVault -----------------------------
(***************************************************************************)
(* The yield_vault program: a share-based vault over one mint.             *)
(*                                                                         *)
(* VaultConfig.total_shares and total_underlying are the two counters of   *)
(* the vault; a Position PDA holds the shares of one depositor (a wallet,  *)
(* or the batch PDA of undegen_core that deposits by CPI).  Token accounts *)
(* live in tok, the part of the SPL token program the handlers use.        *)
(*                                                                         *)
(* VaultDeposit and VaultWithdraw are what the deposit and withdraw        *)
(* handlers do to the vault's own accounts; a caller (the wallet here, the *)
(* handlers of undegen_core in UndegenCore) adds the token movements of    *)
(* its whole transaction.                                                  *)
(***************************************************************************)
EXTENDS Tokens, FiniteSets, FiniteSetsExt

CONSTANTS
    Depositors,      \* owners of a Position PDA
    Wallets,         \* the depositors that are plain wallets
    VaultAcct,       \* vault_config.vault_token_account
    ReserveAcct,     \* vault_config.reserve_token_account
    AdminAcct,       \* the vault admin's own token account
    Amounts,         \* amounts a wallet deposits, or the admin funds
    GrowthPerTick    \* MOCK_GROWTH_PER_TICK

ASSUME VaultConstants ==
    /\ Wallets \subseteq Depositors
    /\ Wallets \cup {VaultAcct, ReserveAcct, AdminAcct} \subseteq TokenAccounts
    /\ VaultAcct # ReserveAcct /\ VaultAcct # AdminAcct /\ ReserveAcct # AdminAcct
    /\ {VaultAcct, ReserveAcct, AdminAcct} \cap Wallets = {}
    /\ Amounts \subseteq Nat
    /\ GrowthPerTick \in Nat \ {0}
    /\ InitialTokens \in [TokenAccounts -> Nat]
    /\ InitialTokens[VaultAcct] = 0

ASSUME FiniteDepositors == IsFiniteSet(Depositors)

VARIABLES
    totalShares,       \* VaultConfig.total_shares
    totalUnderlying,   \* VaultConfig.total_underlying
    shares             \* Position.shares of each depositor, 0 before it exists

vaultVars == <<totalShares, totalUnderlying, shares>>
vaultSystemVars == <<totalShares, totalUnderlying, shares, tok>>

(***************************************************************************)
(* The two conversions, both rounding down.                                *)
(***************************************************************************)
\* Mutant of MintedFor: the division rounded up.
MintedForRoundedUp(amount) ==
    IF totalShares = 0 \/ totalUnderlying = 0
    THEN amount
    ELSE (amount * totalShares + totalUnderlying - 1) \div totalUnderlying

\* Mutant of MintedFor: the conversion turned upside down.
MintedForInverted(amount) ==
    IF totalShares = 0 \/ totalUnderlying = 0
    THEN amount
    ELSE (amount * totalUnderlying) \div totalShares

MintedFor(amount) ==
    IF totalShares = 0 \/ totalUnderlying = 0
    THEN amount
    ELSE (amount * totalShares) \div totalUnderlying

\* Mutant of Worth: the division rounded up.
WorthRoundedUp(s) == (s * totalUnderlying + totalShares - 1) \div totalShares

Worth(s) == (s * totalUnderlying) \div totalShares

VaultDeposit(d, amount) ==
    /\ amount > 0
    /\ MintedFor(amount) > 0                                \* DepositTooSmall
    /\ shares' = [shares EXCEPT ![d] = @ + MintedFor(amount)]
    /\ totalShares' = totalShares + MintedFor(amount)
    /\ totalUnderlying' = totalUnderlying + amount

\* What withdraw_handler requires of its caller, checked_sub included.
CanWithdraw(d, s) ==
    /\ s > 0
    /\ s <= shares[d]
    /\ totalShares > 0
    /\ s <= totalShares
    /\ Worth(s) > 0                                         \* WithdrawTooSmall
    /\ Worth(s) <= totalUnderlying

VaultWithdraw(d, s) ==
    /\ CanWithdraw(d, s)
    /\ shares' = [shares EXCEPT ![d] = @ - s]
    /\ totalShares' = totalShares - s
    /\ totalUnderlying' = totalUnderlying - Worth(s)

(***************************************************************************)
(* The handlers, called directly.                                          *)
(***************************************************************************)
VaultInit ==
    /\ totalShares = 0
    /\ totalUnderlying = 0
    /\ shares = [d \in Depositors |-> 0]
    /\ tok = InitialTokens

Deposit(w, amount) ==
    /\ CanPay(tok, w, amount)
    /\ VaultDeposit(w, amount)
    /\ tok' = Moved(tok, w, VaultAcct, amount)

Withdraw(w, s) ==
    /\ CanPay(tok, VaultAcct, Worth(s))
    /\ VaultWithdraw(w, s)
    /\ tok' = Moved(tok, VaultAcct, w, Worth(s))

Growth == IF GrowthPerTick > tok[ReserveAcct] THEN tok[ReserveAcct] ELSE GrowthPerTick

\* Mutant of TickYield: the counter grows by the constant, not by what the
\* reserve could still pay.
TickYieldUnclamped ==
    /\ totalUnderlying > 0
    /\ Growth > 0
    /\ tok' = Moved(tok, ReserveAcct, VaultAcct, Growth)
    /\ totalUnderlying' = totalUnderlying + GrowthPerTick
    /\ UNCHANGED <<totalShares, shares>>

TickYield ==
    /\ totalUnderlying > 0                                  \* NothingToGrow
    /\ Growth > 0                                           \* ReserveDepleted
    /\ tok' = Moved(tok, ReserveAcct, VaultAcct, Growth)
    /\ totalUnderlying' = totalUnderlying + Growth
    /\ UNCHANGED <<totalShares, shares>>

FundReserve(amount) ==
    /\ amount > 0
    /\ CanPay(tok, AdminAcct, amount)
    /\ tok' = Moved(tok, AdminAcct, ReserveAcct, amount)
    /\ UNCHANGED vaultVars

VaultNext ==
    \/ \E w \in Wallets, a \in Amounts : Deposit(w, a)
    \/ \E w \in Wallets : \E s \in 1..totalShares : Withdraw(w, s)
    \/ TickYield
    \/ \E a \in Amounts : FundReserve(a)

VaultSpec == VaultInit /\ [][VaultNext]_vaultSystemVars

-----------------------------------------------------------------------------
(***************************************************************************)
(* Properties.                                                             *)
(***************************************************************************)
SharesIssued == MapThenSumSet(LAMBDA d : shares[d], Depositors)

\* The vault's counters, positions and balances are naturals: no checked_sub
\* of deposit, withdraw or tick_yield ever drives one below zero.
VaultTypeOK ==
    /\ totalShares \in Nat
    /\ totalUnderlying \in Nat
    /\ shares \in [Depositors -> Nat]
    /\ tok \in [TokenAccounts -> Nat]

\* total_underlying is the real balance of vault_token_account: each handler
\* moves the tokens it books, so transfer_checked of a withdrawal is funded.
UnderlyingIsHeld == tok[VaultAcct] = totalUnderlying

\* The positions add up to total_shares: nobody holds unissued shares and no
\* issued share is without an owner.
SharesAreOwned == SharesIssued = totalShares

\* A share is worth at least one base unit, and the vault is never left with
\* shares and no underlying or the other way round (which would make
\* deposit's first-depositor branch hand the remainder to a newcomer).
PriceAtLeastOne ==
    /\ totalShares <= totalUnderlying
    /\ totalShares = 0 => totalUnderlying = 0

\* Nobody is locked in: any part of any position can be redeemed on its own
\* (withdraw never ends in WithdrawTooSmall or a failed checked_sub), and
\* redeeming every position at today's price is covered by the underlying.
EveryPositionRedeemable ==
    /\ \A d \in Depositors : \A s \in 1..shares[d] : CanWithdraw(d, s)
    /\ totalShares > 0 =>
         MapThenSumSet(LAMBDA d : Worth(shares[d]), Depositors) <= totalUnderlying

\* Depositing and redeeming the minted shares at once never pays more than
\* was put in, whatever the price the vault has reached.
RoundTripNeverGains ==
    \A a \in Amounts :
        LET m == MintedFor(a)
        IN  m > 0 => (m * (totalUnderlying + a)) \div (totalShares + m) <= a

\* The share price never falls while shares are outstanding: the roundings
\* of deposit and withdraw are always in favour of those who stay.
PriceNeverFalls ==
    [][totalShares > 0 /\ totalShares' > 0 =>
         totalUnderlying * totalShares' <= totalUnderlying' * totalShares]_vaultSystemVars

=============================================================================
