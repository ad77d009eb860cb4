---------------------------- MODULE UndegenCore -----------------------------
(***************************************************************************)
(* The undegen_core program: one batch from its lobby to its claims.       *)
(*                                                                         *)
(* Depositors pool their stake in the yield vault (module YieldVault, by   *)
(* CPI under the batch PDA), vote on MaxBets matches, and the operator     *)
(* covers each chosen bet with collateral.  Every action is one            *)
(* instruction, executed atomically as a Solana transaction is: a failed   *)
(* require! aborts it and nothing changes, so the requires are guards.     *)
(* Instructions of different signers, other users of the vault and the     *)
(* clock interleave freely.                                                *)
(*                                                                         *)
(* The oracle (TxOdds) is external: what it can answer is the odds in Odds *)
(* and a Boolean outcome.  A slate is the set of the bet_terms slots whose *)
(* fixture_id is not 0.  Batches only meet in the vault: another batch is, *)
(* to this one, another depositor.                                         *)
(***************************************************************************)
EXTENDS YieldVault, Clock

CONSTANTS
    Users,           \* signers that may join
    Batch,           \* the batch PDA, a depositor of the vault
    BatchAta,        \* batch_token_account, the claim pool
    CollateralAcct,  \* collateral_token_account, the escrow
    OperatorAcct,    \* operator_token_account
    Stakes,          \* amounts of join_batch and leave_batch
    ApyBps,          \* apy_bps of initialize_batch
    Slates,          \* slates the operator may propose
    Kickoffs,        \* kickoff timestamps the operator may propose
    Odds,            \* verified odds the oracle may attest
    Overpay,         \* what the operator may pay above the required collateral
    MaxBets,         \* MAX_BETS
    VoteCutoff,      \* the 3600 seconds before kickoff
    ProofWindow,     \* PROOF_DEADLINE_SECONDS
    LobbyExpiry      \* LOBBY_EXPIRY_SECONDS

ASSUME CoreConstants ==
    /\ Batch \in Depositors \ Wallets
    /\ Users \cup {BatchAta, CollateralAcct, OperatorAcct} \subseteq TokenAccounts
    /\ Users \cap {VaultAcct, BatchAta, CollateralAcct} = {}
    /\ BatchAta \notin {VaultAcct, CollateralAcct, OperatorAcct, ReserveAcct, AdminAcct} \cup Wallets
    /\ CollateralAcct \notin {VaultAcct, OperatorAcct, ReserveAcct, AdminAcct} \cup Wallets
    /\ OperatorAcct # VaultAcct
    /\ Stakes \subseteq Nat
    /\ ApyBps \in 1..65535
    /\ Slates \subseteq SUBSET (0..3)
    /\ Kickoffs \subseteq Nat
    /\ Odds \subseteq Nat
    /\ Overpay \subseteq Nat
    /\ MaxBets \in Nat \ {0}
    /\ VoteCutoff \in Nat /\ ProofWindow \in Nat /\ LobbyExpiry \in Nat /\ MaxTime \in Nat
    /\ InitialTokens[CollateralAcct] = 0
    /\ InitialTokens[BatchAta] = 0

ASSUME FiniteUsers == IsFiniteSet(Users)

VARIABLES
    status,               \* Batch.status, "None" before the account exists
    createdAt,
    totalDeposited,
    participantCount,
    pos,                  \* the UserPosition of each user
    betSize,
    betsCompleted, winsCount, lossesCount, skipsCount,
    accumulatedWinnings,
    operatorYieldBps,
    slate,                \* the filled slots of bet_terms
    kickoff, winPrize, voteWeights, winningVote,
    collateralDeposited, proofDeadline

lobbyVars == <<createdAt, betSize>>
stakeVars == <<totalDeposited, participantCount, pos>>
tallyVars == <<betsCompleted, winsCount, lossesCount, skipsCount,
               accumulatedWinnings, operatorYieldBps>>
roundVars == <<slate, kickoff, winPrize, voteWeights, winningVote,
               collateralDeposited, proofDeadline>>
batchVars == <<status, lobbyVars, stakeVars, tallyVars, roundVars>>
vars == <<now, batchVars, vaultSystemVars>>

-----------------------------------------------------------------------------
Options == 0..4
Skip == 4
NoWinner == 5                       \* winning_vote_index = None

\* Mutant of Monus: the plain subtraction.
PlainMinus(a, b) == a - b

Monus(a, b) == IF a >= b THEN a - b ELSE 0          \* saturating_sub

NoVotes == [i \in Options |-> 0]

\* A UserPosition; open tells whether the account was ever initialized.
Position ==
    [open : BOOLEAN, deposited : Nat, shares : Nat, hasVoted : BOOLEAN,
     voteIndex : Options, votedRound : Nat, claimed : BOOLEAN]

ClosedPosition ==
    [open |-> FALSE, deposited |-> 0, shares |-> 0, hasVoted |-> FALSE,
     voteIndex |-> 0, votedRound |-> 0, claimed |-> FALSE]

Init ==
    /\ VaultInit
    /\ now = 0
    /\ status = "None"
    /\ createdAt = 0 /\ betSize = 0
    /\ totalDeposited = 0 /\ participantCount = 0
    /\ pos = [u \in Users |-> ClosedPosition]
    /\ betsCompleted = 0 /\ winsCount = 0 /\ lossesCount = 0 /\ skipsCount = 0
    /\ accumulatedWinnings = 0
    /\ operatorYieldBps = 10000
    /\ slate = {} /\ kickoff = 0 /\ winPrize = 0
    /\ voteWeights = NoVotes /\ winningVote = NoWinner
    /\ collateralDeposited = 0 /\ proofDeadline = 0

\* The fields initialize_batch writes besides these already hold the values
\* it gives them.
InitializeBatch ==
    /\ status = "None"
    /\ status' = "Lobby"
    /\ createdAt' = now
    /\ UNCHANGED <<now, betSize, stakeVars, tallyVars, roundVars, vaultSystemVars>>

-----------------------------------------------------------------------------
(***************************************************************************)
(* Lobby: stake goes in and out of the vault.                              *)
(***************************************************************************)
LobbyOpen == now <= createdAt + LobbyExpiry

\* Mutant of Joined: the deposited amount is tracked as shares.
JoinedTracksAmount(u, amount) ==
    LET p == IF pos[u].deposited = 0 THEN [ClosedPosition EXCEPT !.open = TRUE] ELSE pos[u]
    IN  [p EXCEPT !.deposited = @ + amount, !.shares = @ + amount]

\* The UserPosition after a join; one without stake is initialized first.
Joined(u, amount) ==
    LET p == IF pos[u].deposited = 0 THEN [ClosedPosition EXCEPT !.open = TRUE] ELSE pos[u]
    IN  [p EXCEPT !.deposited = @ + amount, !.shares = @ + MintedFor(amount)]

\* The user pays batch_token_account, which the vault drains in the same
\* transaction: seen from outside, user to vault.
JoinBatch(u, amount) ==
    /\ amount > 0
    /\ status = "Lobby"
    /\ LobbyOpen
    /\ CanPay(tok, u, amount)
    /\ VaultDeposit(Batch, amount)
    /\ tok' = Moved(tok, u, VaultAcct, amount)
    /\ totalDeposited' = totalDeposited + amount
    /\ participantCount' = IF pos[u].deposited = 0 THEN participantCount + 1 ELSE participantCount
    /\ pos' = [pos EXCEPT ![u] = Joined(u, amount)]
    /\ UNCHANGED <<now, status, lobbyVars, tallyVars, roundVars>>

\* Mutant of SharesLeaving: the fraction rounded up.
SharesLeavingRoundedUp(u, amount) ==
    IF amount = pos[u].deposited
    THEN pos[u].shares
    ELSE (pos[u].shares * amount + pos[u].deposited - 1) \div pos[u].deposited

\* The shares that leave with amount: all of them on a full exit, else the
\* same fraction as the amount, rounded down.
SharesLeaving(u, amount) ==
    IF amount = pos[u].deposited
    THEN pos[u].shares
    ELSE (pos[u].shares * amount) \div pos[u].deposited

\* The UserPosition after an exit.
Left(u, amount) ==
    [pos[u] EXCEPT !.deposited = @ - amount,
                   !.shares = Monus(@, SharesLeaving(u, amount))]

\* Everything batch_token_account holds after the vault paid it s shares goes
\* to one account.
Swept(s, to) ==
    LET paid == Moved(tok, VaultAcct, BatchAta, Worth(s))
    IN  Moved(paid, BatchAta, to, paid[BatchAta])

LeaveBatch(u, amount) ==
    LET s == SharesLeaving(u, amount)
    IN  /\ status = "Lobby"
        /\ amount > 0 /\ amount <= pos[u].deposited
        /\ VaultWithdraw(Batch, s)
        /\ CanPay(tok, VaultAcct, Worth(s))
        /\ tok' = Swept(s, u)
        /\ totalDeposited' = Monus(totalDeposited, amount)
        /\ pos' = [pos EXCEPT ![u] = Left(u, amount)]
        /\ participantCount' = IF amount = pos[u].deposited
                               THEN Monus(participantCount, 1) ELSE participantCount
        /\ UNCHANGED <<now, status, lobbyVars, tallyVars, roundVars>>

BetSize(total) == ((((total * ApyBps) \div 10000) \div 52) \div MaxBets)

StartBatch ==
    /\ status = "Lobby"
    /\ totalDeposited > 0
    /\ LobbyOpen
    /\ BetSize(totalDeposited) > 0
    /\ betSize' = BetSize(totalDeposited)
    /\ status' = "Locked"
    /\ UNCHANGED <<now, createdAt, stakeVars, tallyVars, roundVars, vaultSystemVars>>

-----------------------------------------------------------------------------
(***************************************************************************)
(* A round: propose, vote, finalize.                                       *)
(***************************************************************************)
\* Proposing again while Locked replaces the slate and clears the weights.
ProposeMatch(filled, k) ==
    /\ status = "Locked"
    /\ k > 0
    /\ betSize > 0
    /\ betsCompleted < MaxBets
    /\ filled # {}
    /\ slate' = filled
    /\ kickoff' = k
    /\ winPrize' = betSize
    /\ voteWeights' = NoVotes
    /\ winningVote' = NoWinner
    /\ collateralDeposited' = 0
    /\ proofDeadline' = k + ProofWindow
    /\ UNCHANGED <<now, status, lobbyVars, stakeVars, tallyVars, vaultSystemVars>>

\* A vote the weights of this round are taken to contain.
VotedThisRound(u) == pos[u].hasVoted /\ pos[u].votedRound = betsCompleted

\* Mutant of Unvoted: a switched vote stays on its old option.
UnvotedNever(u) == voteWeights

\* The weights without the vote of u in this round.
Unvoted(u) ==
    IF VotedThisRound(u)
    THEN [voteWeights EXCEPT ![pos[u].voteIndex] = Monus(@, pos[u].deposited)]
    ELSE voteWeights

\* The UserPosition after a vote.
Voted(u, i) ==
    [pos[u] EXCEPT !.hasVoted = TRUE, !.voteIndex = i, !.votedRound = betsCompleted]

CastVote(u, i) ==
    /\ pos[u].open
    /\ status = "Locked"
    /\ i = Skip \/ i \in slate
    /\ now < Monus(kickoff, VoteCutoff)
    /\ pos' = [pos EXCEPT ![u] = Voted(u, i)]
    /\ voteWeights' = [Unvoted(u) EXCEPT ![i] = @ + pos[u].deposited]
    /\ UNCHANGED <<now, status, lobbyVars, totalDeposited, participantCount, tallyVars,
                   slate, kickoff, winPrize, winningVote, collateralDeposited,
                   proofDeadline, vaultSystemVars>>

\* Mutant of Scan: a new maximum does not end an earlier tie.
ScanKeepsTie(weights, acc, i) ==
    LET w == weights[i]
    IN  CASE w > acc.max -> [acc EXCEPT !.max = w, !.win = i]
          [] w = acc.max /\ w > 0 -> [acc EXCEPT !.tie = TRUE]
          [] OTHER -> acc

\* The loop of finalize_consensus over vote_weights, one slot at a time.
Scan(weights, acc, i) ==
    LET w == weights[i]
    IN  CASE w > acc.max -> [max |-> w, win |-> i, tie |-> FALSE]
          [] w = acc.max /\ w > 0 -> [acc EXCEPT !.tie = TRUE]
          [] OTHER -> acc

Consensus(weights) ==
    LET step(acc, i) == Scan(weights, acc, i)
        scan == step(step(step(step(step(
                  [max |-> 0, win |-> Skip, tie |-> FALSE], 0), 1), 2), 3), 4)
    IN  IF scan.max = 0 \/ scan.tie THEN Skip ELSE scan.win

FinalizeConsensus ==
    /\ status = "Locked"
    /\ now >= Monus(kickoff, VoteCutoff)
    /\ winningVote' = Consensus(voteWeights)
    /\ status' = "AwaitingCollateral"
    /\ UNCHANGED <<now, lobbyVars, stakeVars, tallyVars, slate, kickoff, winPrize,
                   voteWeights, collateralDeposited, proofDeadline, vaultSystemVars>>

-----------------------------------------------------------------------------
(***************************************************************************)
(* Collateral, settlement and penalties.                                   *)
(***************************************************************************)
\* Mutant of ClearBet: collateral_deposited is not reset.
ClearBetKeepsCollateral ==
    /\ slate' = {}
    /\ voteWeights' = NoVotes
    /\ winningVote' = NoWinner
    /\ kickoff' = 0
    /\ winPrize' = 0
    /\ UNCHANGED collateralDeposited

ClearBet ==
    /\ slate' = {}
    /\ voteWeights' = NoVotes
    /\ winningVote' = NoWinner
    /\ kickoff' = 0
    /\ winPrize' = 0
    /\ collateralDeposited' = 0

\* Mutant of Slashed: a wrapping u16 subtraction.
SlashedWrapping == (operatorYieldBps + 65536 - 2000) % 65536

Slashed == Monus(operatorYieldBps, 2000)

\* proof_deadline is left as it was.
PenalizeMissedCollateral ==
    /\ status = "AwaitingCollateral"
    /\ now >= kickoff
    /\ status' = "Locked"
    /\ ClearBet
    /\ operatorYieldBps' = Slashed
    /\ UNCHANGED <<now, lobbyVars, stakeVars, betsCompleted, winsCount, lossesCount,
                   skipsCount, accumulatedWinnings, proofDeadline, vaultSystemVars>>

\* Mutant of CompleteBet: MAX_BETS is compared with the count before this bet.
CompleteBetOffByOne ==
    /\ betsCompleted' = betsCompleted + 1
    /\ ClearBet
    /\ proofDeadline' = 0
    /\ status' = IF betsCompleted >= MaxBets THEN "Settled" ELSE "Locked"

\* The end of every bet that counts.
CompleteBet ==
    /\ betsCompleted' = betsCompleted + 1
    /\ ClearBet
    /\ proofDeadline' = 0
    /\ status' = IF betsCompleted + 1 >= MaxBets THEN "Settled" ELSE "Locked"

CollateralRequired(odds) ==
    IF winningVote = Skip THEN winPrize ELSE (winPrize * odds) \div 10000

\* deposit_collateral on Skip: the prize goes through the escrow straight to
\* the claim pool and the bet is complete.
DepositCollateralSkip(extra) ==
    LET amount == winPrize + extra
    IN  /\ status = "AwaitingCollateral"
        /\ collateralDeposited = 0
        /\ winningVote = Skip
        /\ CanPay(tok, OperatorAcct, amount)
        /\ tok' = Moved(tok, OperatorAcct, BatchAta, amount)
        /\ CompleteBet
        /\ skipsCount' = skipsCount + 1
        /\ UNCHANGED <<now, lobbyVars, stakeVars, winsCount, lossesCount,
                       accumulatedWinnings, operatorYieldBps, vaultVars>>

\* deposit_collateral on a bet whose odds the oracle attests.
DepositCollateralBet(odds, extra) ==
    LET amount == CollateralRequired(odds) + extra
    IN  /\ status = "AwaitingCollateral"
        /\ collateralDeposited = 0
        /\ winningVote \in slate
        /\ CanPay(tok, OperatorAcct, amount)
        /\ tok' = Moved(tok, OperatorAcct, CollateralAcct, amount)
        /\ collateralDeposited' = amount
        /\ status' = "Active"
        /\ proofDeadline' = kickoff + ProofWindow
        /\ UNCHANGED <<now, lobbyVars, stakeVars, tallyVars, slate, kickoff, winPrize,
                       voteWeights, winningVote, vaultVars>>

ProofAccepted ==
    /\ status = "Active"
    /\ now >= kickoff
    /\ now < proofDeadline
    /\ winningVote \in slate

\* settle_with_proof, outcome true: the escrow is compounded into the vault.
SettleUsersWon ==
    LET c == tok[CollateralAcct]
    IN  /\ ProofAccepted
        /\ CompleteBet
        /\ winsCount' = winsCount + 1
        /\ accumulatedWinnings' = accumulatedWinnings + c
        /\ IF c > 0 THEN VaultDeposit(Batch, c) ELSE UNCHANGED vaultVars
        /\ tok' = Moved(tok, CollateralAcct, VaultAcct, c)
        /\ UNCHANGED <<now, lobbyVars, stakeVars, lossesCount, skipsCount, operatorYieldBps>>

\* settle_with_proof, outcome false: the escrow goes back to the operator.
SettleOperatorWon ==
    /\ ProofAccepted
    /\ CompleteBet
    /\ lossesCount' = lossesCount + 1
    /\ tok' = Moved(tok, CollateralAcct, OperatorAcct, tok[CollateralAcct])
    /\ UNCHANGED <<now, lobbyVars, stakeVars, winsCount, skipsCount,
                   accumulatedWinnings, operatorYieldBps, vaultVars>>

\* collateral_token_account exists: the first deposit_collateral creates it,
\* nothing closes it, and no bet is completed before that deposit.
EscrowOpen == status = "Active" \/ betsCompleted > 0

\* Mutant of CanDefault: only a bet with collateral can default.
CanDefaultIfActive ==
    /\ status = "Active"
    /\ now >= proofDeadline
    /\ EscrowOpen

CanDefault ==
    /\ status \in {"Active", "AwaitingCollateral"}
    /\ now >= proofDeadline
    /\ EscrowOpen

\* Anyone, once the proof deadline has passed and if collateral was ever put
\* up: the users win by default.
SettleDefault ==
    LET c == tok[CollateralAcct]
    IN  /\ CanDefault
        /\ CompleteBet
        /\ winsCount' = winsCount + 1
        /\ operatorYieldBps' = Slashed
        /\ accumulatedWinnings' = accumulatedWinnings + c
        /\ tok' = Moved(tok, CollateralAcct, BatchAta, c)
        /\ UNCHANGED <<now, lobbyVars, stakeVars, lossesCount, skipsCount, vaultVars>>

-----------------------------------------------------------------------------
(***************************************************************************)
(* Claims.                                                                 *)
(***************************************************************************)
SmallerOf(a, b) == IF a <= b THEN a ELSE b

\* Mutant of ClaimShares: the pro-rata division before the multiplication.
ClaimSharesDividesFirst(u) ==
    LET d          == pos[u].deposited
        userShares == (shares[Batch] \div totalDeposited) * d
        underlying == SmallerOf(Worth(userShares), d)
    IN  (underlying * totalShares) \div totalUnderlying

\* Shares a claim redeems: the pro-rata part of the batch's position, capped
\* at the principal, converted back to shares; every step rounds down.
ClaimShares(u) ==
    LET d          == pos[u].deposited
        userShares == (shares[Batch] * d) \div totalDeposited
        underlying == SmallerOf(Worth(userShares), d)
    IN  (underlying * totalShares) \div totalUnderlying

\* The pro-rata part of the claim pool.
RewardShare(u) == (tok[BatchAta] * pos[u].deposited) \div totalDeposited

CanClaim(u) ==
    /\ status = "Settled"
    /\ ~pos[u].claimed
    /\ pos[u].deposited > 0
    /\ totalShares > 0
    /\ totalUnderlying > 0
    /\ totalDeposited > 0                              \* checked_div
    /\ pos[u].deposited <= totalDeposited              \* checked_sub

Claim(u) ==
    LET s      == ClaimShares(u)
        payout == IF s > 0 THEN Worth(s) ELSE 0
    IN  /\ CanClaim(u)
        /\ CanPay(tok, VaultAcct, payout)
        /\ IF s > 0 THEN VaultWithdraw(Batch, s) ELSE UNCHANGED vaultVars
        /\ tok' = Moved(Moved(tok, VaultAcct, u, payout), BatchAta, u, RewardShare(u))
        /\ totalDeposited' = totalDeposited - pos[u].deposited
        /\ pos' = [pos EXCEPT ![u] = [@ EXCEPT !.claimed = TRUE]]
        /\ UNCHANGED <<now, status, lobbyVars, participantCount, tallyVars, roundVars>>

\* Mutant of YieldAmount: the unclaimed principal is not subtracted.
YieldWithPrincipal == Worth(shares[Batch])

\* Everything the batch holds in the vault above the unclaimed principal.
YieldAmount == Monus(Worth(shares[Batch]), totalDeposited)

OperatorYield == (YieldAmount * operatorYieldBps) \div 10000

\* Mutant of OperatorShares: rounded up, at the cost of the claimants.
OperatorSharesRoundedUp ==
    (OperatorYield * totalShares + totalUnderlying - 1) \div totalUnderlying

OperatorShares == (OperatorYield * totalShares) \div totalUnderlying

\* The operator may call this any number of times.
ClaimOperatorYield ==
    /\ status = "Settled"
    /\ totalShares > 0
    /\ shares[Batch] > 0
    /\ YieldAmount > 0
    /\ OperatorYield > 0
    /\ OperatorShares > 0
    /\ VaultWithdraw(Batch, OperatorShares)
    /\ CanPay(tok, VaultAcct, Worth(OperatorShares))
    /\ tok' = Swept(OperatorShares, OperatorAcct)
    /\ UNCHANGED <<now, batchVars>>

-----------------------------------------------------------------------------
\* Everything else that moves: the clock, and other users of the vault.
ClockTick ==
    /\ TimePasses
    /\ UNCHANGED <<batchVars, vaultSystemVars>>

OthersUseVault == VaultNext /\ UNCHANGED <<now, batchVars>>

Next ==
    \/ InitializeBatch
    \/ \E u \in Users, a \in Stakes : JoinBatch(u, a) \/ LeaveBatch(u, a)
    \/ StartBatch
    \/ \E filled \in Slates, k \in Kickoffs : ProposeMatch(filled, k)
    \/ \E u \in Users, i \in Options : CastVote(u, i)
    \/ FinalizeConsensus
    \/ PenalizeMissedCollateral
    \/ \E x \in Overpay : DepositCollateralSkip(x)
    \/ \E o \in Odds, x \in Overpay : DepositCollateralBet(o, x)
    \/ SettleUsersWon
    \/ SettleOperatorWon
    \/ SettleDefault
    \/ \E u \in Users : Claim(u)
    \/ ClaimOperatorYield
    \/ ClockTick
    \/ OthersUseVault

Spec == Init /\ [][Next]_vars

(***************************************************************************)
(* Fairness.  Transactions of different signers are independent, so all    *)
(* that can be asked is that someone keeps cranking the permissionless     *)
(* instructions and that users come for their money.  settle_default needs *)
(* strong fairness: finalize_consensus and penalize_missed_collateral,     *)
(* open to anyone, can take the batch in and out of AwaitingCollateral.    *)
(***************************************************************************)
Fairness ==
    /\ WF_vars(ClockTick)
    /\ WF_vars(FinalizeConsensus)
    /\ SF_vars(SettleDefault)
    /\ \A u \in Users : WF_vars(Claim(u))

FairSpec == Spec /\ Fairness

-----------------------------------------------------------------------------
(***************************************************************************)
(* Properties.                                                             *)
(***************************************************************************)
Phases == {"None", "Lobby", "Locked", "AwaitingCollateral", "Active", "Settled"}

\* Every field stays in its domain; the u64 and u8 counters never go below
\* zero and the Option fields only hold values the handlers can unwrap.
LobbyTypeOK ==
    /\ now \in Nat /\ createdAt \in Nat /\ betSize \in Nat
    /\ status \in Phases

StakeTypeOK ==
    /\ totalDeposited \in Nat /\ participantCount \in Nat
    /\ pos \in [Users -> Position]

TallyTypeOK ==
    /\ betsCompleted \in Nat
    /\ winsCount \in Nat /\ lossesCount \in Nat /\ skipsCount \in Nat
    /\ accumulatedWinnings \in Nat
    /\ operatorYieldBps \in Nat

RoundTypeOK ==
    /\ slate \subseteq 0..3
    /\ kickoff \in Nat /\ winPrize \in Nat
    /\ voteWeights \in [Options -> Nat]
    /\ winningVote \in Options \cup {NoWinner}
    /\ collateralDeposited \in Nat /\ proofDeadline \in Nat

TypeOK == VaultTypeOK /\ LobbyTypeOK /\ StakeTypeOK /\ TallyTypeOK /\ RoundTypeOK

\* Every completed bet is counted exactly once as a win, a loss or a skip
\* (state.rs: "wins + losses + skipped always sums to bets_completed"), there
\* are at most MAX_BETS of them, and the batch is Settled exactly when all of
\* them are done: no round is played after the last, none is lost.
RoundLedger ==
    /\ winsCount + lossesCount + skipsCount = betsCompleted
    /\ betsCompleted <= MaxBets
    /\ status = "Settled" <=> betsCompleted = MaxBets

\* The escrow account holds exactly the collateral of the current bet: it is
\* empty unless the bet is Active, so settling one bet never pays out the
\* collateral of another, and no collateral is stranded by a reset.
EscrowMatchesBet ==
    /\ tok[CollateralAcct] = collateralDeposited
    /\ status # "Active" => collateralDeposited = 0
    /\ winningVote # NoWinner <=> status \in {"AwaitingCollateral", "Active"}

\* The bet the collateral is put on is the one the weights decide: the option
\* with strictly more weight than every other, Skip when there is none; and
\* it is an option that was on the slate.
BallotDecides ==
    status \in {"AwaitingCollateral", "Active"} =>
        LET leads(i) == \A j \in Options \ {i} : voteWeights[i] > voteWeights[j]
        IN  /\ \A i \in Options : leads(i) => winningVote = i
            /\ (\A i \in Options : ~leads(i)) => winningVote = Skip
            /\ winningVote \in slate \cup {Skip}
            /\ status = "Active" => winningVote \in slate

StakeOf(S) == MapThenSumSet(LAMBDA u : pos[u].deposited, S)

\* Nobody's stake counts twice: the weight of an option is never more than
\* the stake of the users whose vote of this round is for it, however often
\* they switch and the operator proposes again.
NoPhantomVotes ==
    \A i \in Options :
        voteWeights[i] <= StakeOf({u \in Users : VotedThisRound(u) /\ pos[u].voteIndex = i})

Unclaimed == {u \in Users : ~pos[u].claimed}

\* total_deposited is the stake of the users who have not claimed,
\* participant_count the users with stake.
StakeIsBooked ==
    /\ totalDeposited = StakeOf(Unclaimed)
    /\ participantCount = Cardinality({u \in Users : pos[u].deposited > 0})

\* The shares tracked per user are the batch's vault position while the lobby
\* is open, and are covered by it until the first claim.
SharesAreBooked ==
    LET tracked == MapThenSumSet(LAMBDA u : pos[u].shares, Users)
    IN  /\ status = "Lobby" => tracked = shares[Batch]
        /\ status \in {"Locked", "AwaitingCollateral", "Active"} => tracked <= shares[Batch]

\* The batch's books agree with the positions, and the positions with the
\* vault's, however users join, top up and leave in parts: nobody's stake or
\* share is counted twice, and none is counted for nobody.
BooksAgree == StakeIsBooked /\ SharesAreBooked /\ SharesAreOwned

\* Once the batch is Settled, claim aborts for nobody who has stake in it:
\* neither other users' claims nor the operator's can use up the shares, the
\* tokens or the denominators a later claim needs.
ClaimNeverFails ==
    status = "Settled" =>
        \A u \in Users : pos[u].deposited > 0 /\ ~pos[u].claimed =>
            /\ CanClaim(u)
            /\ ClaimShares(u) > 0 => /\ CanWithdraw(Batch, ClaimShares(u))
                                     /\ CanPay(tok, VaultAcct, Worth(ClaimShares(u)))

\* What a claim takes out of the vault falls short of the user's pro-rata
\* part of the position, capped at the principal, by less than two shares and
\* two base units: the four roundings of claim never cost more than that.
ClaimLossIsRounding ==
    status = "Settled" =>
        \A u \in Users : CanClaim(u) =>
            LET d    == pos[u].deposited
                s    == ClaimShares(u)
                paid == IF s > 0 THEN Worth(s) ELSE 0
                due  == SmallerOf(d, (shares[Batch] * d * totalUnderlying)
                                        \div (totalDeposited * totalShares))
            IN  due * totalShares <= paid * totalShares + 2 * totalUnderlying + 2 * totalShares

\* Once the lobby is over, no step (a claim, the operator's yield claim, a
\* settlement, another depositor of the vault) lowers the part of the
\* unclaimed principal that the batch's vault position covers, unless all of
\* it stays covered: whoever claims last is covered no worse than the first.
CoverageNeverFalls ==
    [][(status \notin {"None", "Lobby"} /\ totalDeposited' > 0 /\ totalShares' > 0) =>
         \/ shares'[Batch] * totalUnderlying' >= totalDeposited' * totalShares'
         \/ shares'[Batch] * totalUnderlying' * (totalDeposited * totalShares)
               >= shares[Batch] * totalUnderlying * (totalDeposited' * totalShares')]_vars

\* The batch implements its abstract lifecycle: every instruction is one of
\* the lifecycle's steps or changes nothing it sees.
Lifecycle == INSTANCE BatchLifecycle WITH
    phase <- status,
    wins <- winsCount, losses <- lossesCount, skips <- skipsCount,
    escrow <- tok[CollateralAcct],
    winnings <- accumulatedWinnings,
    entitlement <- operatorYieldBps

ImplementsLifecycle == Lifecycle!Spec

\* Once the operator has put its first collateral up, everyone who has stake
\* in the batch is paid in the end, even if the operator then disappears in
\* any phase of any bet, as long as someone cranks the permissionless
\* instructions.  The operator may go on for as long as it likes, but not for
\* ever: one that replaces the match by a later one again and again keeps the
\* kickoff ahead of the clock.  Before the first collateral there is no escrow
\* account, and settle_default is refused.
EveryStakerClaims ==
    <>[][~\E filled \in Slates, k \in Kickoffs : ProposeMatch(filled, k)]_vars =>
        \A u \in Users : (EscrowOpen /\ pos[u].deposited > 0) ~> pos[u].claimed

=============================================================================
