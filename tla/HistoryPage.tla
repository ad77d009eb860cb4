---------------------------- MODULE HistoryPage -----------------------------
(***************************************************************************)
(* The history page on a settled batch: what it tells a user the claim     *)
(* will pay, and the final figures of the batch.  The app computes the     *)
(* preview itself, from two reads of the chain with anything in between    *)
(* (previewClaimAmount): the accounts first, then the balance of the       *)
(* batch's token account.  The page keeps the answer as long as it is      *)
(* open.  Amounts are in base units; the page divides by 10^6 only to      *)
(* print them.                                                             *)
(***************************************************************************)
EXTENDS UndegenCore

VARIABLES
    stage,  \* "idle", "half" between the two reads, "shown"
    shown,  \* the preview: whose, from which stake in which pool, and the figures
    swept   \* history: the operator claimed its yield since the first read

pageVars == <<stage, shown, swept>>

NoPreview == <<>>

-----------------------------------------------------------------------------
(***************************************************************************)
(* previewClaimAmount.                                                     *)
(***************************************************************************)
\* The page asks for a preview of the focused batch of a user with stake who
\* has not claimed.
Previewed(u) ==
    /\ status = "Settled"
    /\ pos[u].deposited > 0
    /\ ~pos[u].claimed
    /\ totalDeposited > 0

\* Mutant of PreviewPrincipal: the cap at the deposit is forgotten.
PreviewUncapped(u) ==
    IF totalShares = 0 \/ totalUnderlying = 0
    THEN 0
    ELSE Worth((shares[Batch] * pos[u].deposited) \div totalDeposited)

PreviewPrincipal(u) ==
    IF totalShares = 0 \/ totalUnderlying = 0
    THEN 0
    ELSE SmallerOf(Worth((shares[Batch] * pos[u].deposited) \div totalDeposited),
                   pos[u].deposited)

\* The first read: the batch, the vault, the batch's position and the user's.
ReadAccounts(u) ==
    /\ stage = "idle"
    /\ Previewed(u)
    /\ stage' = "half"
    /\ shown' = [user |-> u, stake |-> pos[u].deposited, pool |-> totalDeposited,
                 principal |-> PreviewPrincipal(u), earnings |-> 0]
    /\ swept' = FALSE
    /\ UNCHANGED vars

\* The second read: the user's part of what the batch holds by now, of the
\* pool as it was at the first read.  A read that fails counts as nothing.
ReadPool ==
    /\ stage = "half"
    /\ stage' = "shown"
    /\ \E balance \in {0, tok[BatchAta]} :
          shown' = [shown EXCEPT !.earnings = (balance * shown.stake) \div shown.pool]
    /\ UNCHANGED <<vars, swept>>

\* The page is left, or turns to another batch or wallet: an answer that is
\* still to come is dropped.
Close ==
    /\ stage # "idle"
    /\ stage' = "idle"
    /\ shown' = NoPreview
    /\ swept' = FALSE
    /\ UNCHANGED vars

ChainStep ==
    /\ Next
    /\ swept' = (stage # "idle" /\ (swept \/ ClaimOperatorYield))
    /\ UNCHANGED <<stage, shown>>

HistoryInit == Init /\ stage = "idle" /\ shown = NoPreview /\ swept = FALSE

HistoryNext ==
    \/ \E u \in Users : ReadAccounts(u)
    \/ ReadPool
    \/ Close
    \/ ChainStep

HistorySpec == HistoryInit /\ [][HistoryNext]_<<vars, pageVars>>

-----------------------------------------------------------------------------
(***************************************************************************)
(* The batch summary.                                                      *)
(***************************************************************************)
WeeklyYieldPool == betSize * MaxBets

\* Mutant of RemainingBudget: a skipped bet counts as played.
RemainingAfterAllBets == WeeklyYieldPool - betsCompleted * betSize

\* A skip is not a bet: its part of the budget counts as remaining.
RemainingBudget == WeeklyYieldPool - (winsCount + lossesCount) * betSize

TotalFundGrowth == accumulatedWinnings + RemainingBudget

-----------------------------------------------------------------------------
(***************************************************************************)
(* Properties.                                                             *)
(***************************************************************************)
\* What the page shows is never more than what the user gets: however long it
\* stays open, and whatever the other users, the operator and the vault do
\* between its two reads and after them, the claim still pays the principal
\* shown, but for its roundings to whole shares (ClaimLossIsRounding), and the
\* earnings shown, unless the operator has taken its yield, which takes the
\* winnings with it.  It may pay more: a claim between the reads has left the
\* pool, whose balance is then divided by the stake it was held for before.
PreviewIsHonoured ==
    (stage = "shown" /\ ~pos[shown.user].claimed) =>
        LET s    == ClaimShares(shown.user)
            paid == IF s > 0 THEN Worth(s) ELSE 0
        IN  /\ CanClaim(shown.user)
            /\ shown.principal * totalShares
                  <= paid * totalShares + 2 * totalUnderlying + 2 * totalShares
            /\ ~swept => shown.earnings <= RewardShare(shown.user)

\* The growth the summary reports is real: when the last bet is settled, it
\* is what the operator has paid in and not got back over all bets, and at
\* most one bet size per skip above it (the page takes every skip to have paid
\* its prize, which one finalized without a match does not).
GrowthIsPaidIn ==
    [][status # "Settled" /\ status' = "Settled" =>
         LET paid == InitialTokens[OperatorAcct] - tok'[OperatorAcct]
         IN  Overpay = {0} =>
                paid <= TotalFundGrowth' /\ TotalFundGrowth' <= paid + betSize * skipsCount']_vars
=============================================================================
