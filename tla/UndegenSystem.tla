---------------------------- MODULE UndegenSystem ---------------------------
(***************************************************************************)
(* The three programs together: undegen_core and yield_vault (UndegenCore) *)
(* and lottery (Lottery) over the same token accounts and the same clock.  *)
(* The one instruction that crosses all three is claim_and_join_lottery,   *)
(* which claims like claim and, by CPI, spends the user's part of the      *)
(* claim pool on a ticket in the same transaction.                         *)
(***************************************************************************)
EXTENDS UndegenCore, Lottery

ASSUME SystemConstants ==
    /\ Users \subseteq Buyers
    /\ Buyers \cap {VaultAcct, BatchAta, CollateralAcct} = {}
    /\ \A r \in RoundIds :
        Jackpot[r] \notin {VaultAcct, ReserveAcct, AdminAcct, BatchAta,
                           CollateralAcct, OperatorAcct} \cup Wallets

systemVars == <<vars, lotteryVars>>

SystemInit == Init /\ LotteryInit

\* The payout the vault leg of a claim has.
PrincipalPayout(u) == IF ClaimShares(u) > 0 THEN Worth(ClaimShares(u)) ELSE 0

\* Mutant of Wager: all that is claimed is wagered.
WagerAll(u) == RewardShare(u) + PrincipalPayout(u)

Wager(u) == RewardShare(u)

\* The reward passes through the user's account to the jackpot; without a
\* reward the round is not looked at.
ClaimAndJoinLottery(u, r) ==
    LET s == ClaimShares(u)
    IN  /\ CanClaim(u)
        /\ CanPay(tok, VaultAcct, PrincipalPayout(u))
        /\ IF s > 0 THEN VaultWithdraw(Batch, s) ELSE UNCHANGED vaultVars
        /\ IF RewardShare(u) > 0
           THEN TicketSold(r, u, Wager(u))
           ELSE UNCHANGED lotteryVars
        /\ tok' = LET paid == Moved(Moved(tok, VaultAcct, u, PrincipalPayout(u)),
                                    BatchAta, u, RewardShare(u))
                  IN  IF RewardShare(u) > 0 THEN Moved(paid, u, Jackpot[r], Wager(u)) ELSE paid
        /\ totalDeposited' = totalDeposited - pos[u].deposited
        /\ pos' = [pos EXCEPT ![u] = [@ EXCEPT !.claimed = TRUE]]
        /\ UNCHANGED <<now, status, lobbyVars, participantCount, tallyVars, roundVars>>

SystemNext ==
    \/ Next /\ UNCHANGED lotteryVars
    \/ LotteryOp /\ UNCHANGED <<batchVars, vaultVars>>
    \/ \E u \in Users, r \in RoundIds : ClaimAndJoinLottery(u, r)

SystemSpec == SystemInit /\ [][SystemNext]_systemVars

-----------------------------------------------------------------------------
(***************************************************************************)
(* Properties.                                                             *)
(***************************************************************************)
Tickets(u) == MapThenSumSet(LAMBDA r : entry[r][u].amount, RoundIds)

\* Whichever door a user claims through, wallet and new tickets together gain
\* what claim pays, and the tickets are paid from the claim pool alone: the
\* principal always reaches the wallet (README.md: "roll earned rewards (never
\* principal)").
WagerIsReward ==
    [][\A u \in Users :
        (~pos[u].claimed /\ pos'[u].claimed) =>
            LET bought == Tickets(u)' - Tickets(u)
            IN  /\ (tok'[u] + bought) - tok[u] = PrincipalPayout(u) + RewardShare(u)
                /\ bought <= tok[BatchAta] - tok'[BatchAta]
                /\ tok'[u] - tok[u] >= PrincipalPayout(u)]_systemVars

\* Claims, wagers, tickets and prizes of any users, in whatever order, never
\* take what the vault, the escrow or a jackpot holds for somebody else.
BooksBalance ==
    /\ UnderlyingIsHeld
    /\ EscrowMatchesBet
    /\ JackpotIsPool
    /\ PoolIsTickets

=============================================================================
