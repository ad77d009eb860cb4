# A verification of the Undegen protocol

TLA+ models of the three Solana programs of this repository (`yield_vault`,
`undegen_core`, `lottery`), of the operator service that drives a batch, and of what
the web app reads, shows and sends, with the TLC configurations that check them on
small instances, and TLAPS proofs of their main safety properties for every instance.
Every definition is translated from the source; `PROJECT.json` maps each one to its
lines.

## 1. The system

| Part | State it keeps | Operations | Talks to |
|---|---|---|---|
| `programs/yield_vault` | `VaultConfig` (`total_shares`, `total_underlying`), one `Position` per depositor, the vault's and the reserve's token accounts | `deposit`, `withdraw`, `tick_yield`, `fund_reserve` | called by wallets and, by CPI, by `undegen_core` |
| `programs/undegen_core` | `ProtocolConfig`, one `Batch` and one `UserPosition` per batch and user, the batch's claim pool (`batch_token_account`) and escrow (`collateral_token_account`) | lobby: `initialize_batch`, `join_batch`, `leave_batch`, `start_batch`; rounds: `propose_match`, `cast_vote`, `finalize_consensus`, `deposit_collateral`, `settle_with_proof`, `settle_default`, `penalize_missed_collateral`; claims: `claim`, `claim_operator_yield`, `claim_and_join_lottery` | CPI into `yield_vault`, `lottery`, TxOdds |
| `programs/lottery` | `LotteryConfig`, one `Round` with its jackpot per round id, one `Entry` per round and buyer | `start_round`, `buy_ticket`, `request_randomness`, `reveal_winner`, `claim_prize` | Switchboard; called by `undegen_core` |
| `operator` | nothing in memory; Redis locks, timestamps and match metadata | the tick loop: one step of each batch and of the lottery per tick | drives the programs; TxOdds over HTTP |
| `app`: context and service | React state: the batches as last loaded, the selected one, the wallet's balance, the loads and the transaction in flight | loads (mount, 15 s poll, account push, wallet change, after a transaction), the users' requests | the programs over RPC; the pages |
| `app`: pages | proposals and panel of the live page; the rest are views | describe the live batch's proposals, choose, vote, settle a default; stake and unstake; claim; buy and claim tickets | the context; `/api/txodds`; the operator's Redis through `/api/batch-mapping` |

On chain an instruction is atomic: a failed `require!` or CPI aborts the whole
transaction. Concurrency is the interleaving of instructions of independent signers
(users, the operator, anyone for the permissionless ones, other depositors of the
vault) with the clock. Time matters in five places (lobby expiry, vote cut-off,
kickoff, proof deadline, round duration), arithmetic rounds down everywhere, and
three programs share token accounts. Off chain the operator awaits a call between any
two of its steps: it acts on what it read earlier, may crash in between, and may lose
the answer of a transaction that landed. The app's loads overlap, are torn (three
reads, three moments) and answer in any order, its proposals are described in the
background, and chain, feed and Redis tell it different stories of one match. Those are
the hard behaviours; `PROJECT.json` lists each under `hazards` at the line where it bites. What makes each part correct:

* vault: what is booked is held; positions add up; no rounding moves value from
  those who stay to those who come or go; nobody is locked in.
* batch: stakes and shares agree with the books; a stake votes once; the
  collateral goes on what the weights decide; every bet is counted once and paid
  from its own escrow; an operator that vanishes once it has put collateral up cannot
  hold stakes; no order of claims makes a later one fail or lowers its cover.
* lottery: jackpots do not mix; a drawn number always has an owner; nothing can
  change after the commit; a requested draw gets paid.
* system: the wager is the reward, never the principal; all books still balance.
* operator: the lock keeps apart the instances that have not outlived it; what Redis
  says of a match is true of the bet that was covered, as long as none that had lost its
  lock interfered; no stale read does harm.
* context: a confirmed request is not taken off the screen again; whatever overlaps,
  the screen ends up showing the chain, to the connected wallet.
* pages: what is shown of a match is the bet the chain holds, and what is promised is
  paid; what is offered is accepted, up to the exceptions that section 5 lists.

## 2. Modules

| Module | Models | Notes |
|---|---|---|
| `Tokens` | the SPL token program (external) | `tok[a]` is the balance of account `a`; `Moved` is `transfer_checked`, `CanPay` its balance check |
| `Clock` | `Clock::get()` (external) | `now` counts up to `MaxTime` |
| `YieldVault` | all of `yield_vault` | `VaultDeposit` and `VaultWithdraw` are the handlers' effect on the vault's accounts; `Deposit`, `Withdraw` add a wallet's transfer, `UndegenCore` adds its own |
| `UndegenCore` | all of `undegen_core` but `claim_and_join_lottery`, for one batch | extends `YieldVault`: the batch PDA is one depositor, other batches and wallets are `OthersUseVault` |
| `BatchLifecycle` | nothing of its own: the abstract specification of a batch | phases, tallies, who gets the escrow, when the operator's entitlement is cut |
| `Lottery` | all of `lottery` | rounds may overlap; the oracle's reveal is part of `RevealWinner` |
| `UndegenSystem` | the three programs over one set of token accounts | adds `claim_and_join_lottery` |
| `Operator` | the operator service (`processor.rs`, `state.rs`, what they need of `solana.rs`, `api.rs`) for one batch | extends `UndegenCore`: instances are signers of its instructions |
| `AppChain` | the accounts of `undegen_core` as the app decodes them, and its requests | several batches, no tokens or weights, of the clock only whether a batch's voting is over; `CoreAsSeen` shows that `UndegenCore` implements it |
| `CoreAsSeen` | nothing of its own: the refinement mapping from `UndegenCore` to `AppChain` | `AppSeesCore` is `AppChain`'s specification under it |
| `AppContext` | `UndegenProgramContext.tsx` with the reads and writes of `undegenProgram.ts` | extends `AppChain`: one browser tab beside a chain that moves |
| `LivePage` | `page.tsx` and the state of `ConsensusVoting.tsx` | extends `AppContext`: the page re-renders with every step of the context |
| `VotingPanel` | what `ConsensusVoting.tsx` computes of weights, winner and kickoff | a view of `UndegenCore` |
| `LobbyPage` | what `LobbyPhase.tsx` offers | a view of `UndegenCore` |
| `HistoryPage` | `previewClaimAmount` and the figures of `history/page.tsx` | extends `UndegenCore`: a page that reads twice and keeps what it shows, beside the program |
| `LotteryPage` | what `lottery/page.tsx` shows, sells and claims | a view of `Lottery` |
| `BetTerms` | the coding of a priced option as a predicate over scores (operator) and its recovery (app) | pure: no state |
| `MatchFeed` | slate on chain, mapping in Redis and feed, and how the app names a match, a slot and a vote | extends `BetTerms` |
| `YieldVaultProofs`, `UndegenCoreProofs`, `UndegenBooksProofs`, `SystemProofs`, `OperatorProofs`, `AppViewProofs`, `AppContextProofs`, `FeedProofs` | | theorems; the sums over finite sets that all totals rest on are in the first |
| `MC*` | | instances for TLC |

**State.** Variables carry the names of the account fields they stand for
(`total_shares` is `totalShares`, `bet_terms` is `slate`, the set of filled slots,
`operator_yield_bps` is `operatorYieldBps`). `status = "None"` is a batch account
that does not exist yet; a `UserPosition` that was never initialized has
`open = FALSE`; an `Entry` of amount 0 has not been created. `winningVote = 5` is
`winning_vote_index = None`; option 4 is Skip, as in the code.

**Actions.** One per instruction, with the handler's requires as guards.
`deposit_collateral` is two actions because its Skip branch ends the bet, and
`settle_with_proof` is two because of the oracle's answer. A transfer through an
intermediate account within one instruction (user to `batch_token_account` to vault
in `join_batch`) is modelled by its net effect; where the code forwards *everything*
an account holds (`leave_batch`, `claim_operator_yield`) the model does too
(`Swept`). `saturating_sub` is `Monus`; `checked_sub` is a guard.

**The operator.** `pc[o]` is where instance `o` is in its tick: `FetchBatch` reads the
account (`view[o]`), `AcquireLock` takes the lock without reading again, one of the
`Handle*` actions chooses by the status that was *read*, `*Lands` is the instruction
happening on chain, `StoreMetadata` the write to Redis after it, `ReleaseLock` the
deletion. Every await is a step: everything else may move in between, `Crash` loses
what the instance knew, `GiveUp` is any call that fails, and `Landed` lets the answer of
a transaction that landed be lost. `seen` and `meta` are the Redis keys
`created_at` and `undegen:batch:{id}`. Simplifications: a fixture is its kickoff; a
transaction lands while its sender waits for it or never (the client waits until the
blockhash has expired; an RPC error while polling for the signature would return
earlier, and is not distinguished); instances that die do so when their transaction has
landed or no longer can. `LockExpires` may happen at any moment: the lock's 25 seconds
are not compared with how long a tick takes. Two history variables name what the lock
cannot help: `lost`, the instances at work whose lock has expired or was deleted by one
of these, and `strayed`, that one of them has covered a bet or stored metadata since.

**The app.** A tab's view of the chain is named by *versions*: `ledger` is every state the
chain went through, and a load records which version each of its reads saw (`next`, the
batches, the positions). `loads` holds the calls of `loadState` in flight in the order
they started, which is the order of their request ids; `superseded` is "older than the
latest applied". `Poll`, `Push`, `ChangeWallet` and a transaction's refresh start
loads, `ReadNext` is one read after one await, `Apply`, `Drop` and `Fail` end it.
`tx` takes a request through signing, preflight, execution (`Land`, or `Revert` when it
was included and aborted), confirmation and refresh. Asynchronous effects of React
are part of the step that triggers them (`Describe` and `Render` in every step of
the context); the component remembers the last seed of its local vote, as `useEffect`
does. A page of the programs' state (`VotingPanel`, `LobbyPage`, `LotteryPage`) has no
state of its own: its operators are what it computes from the accounts, and its
properties compare that with what the instructions do next. The claim preview of the
history page is read in two calls (`ReadAccounts`, `ReadPool`) and then stays on the page
(`shown`) while the chain goes on. Amounts pass through floats on their way to the lobby's
instructions: `Floored` is `Math.floor` with a base unit missing or not.
Simplifications: the lobby soonest to close is the lowest id, as all lobbies last
the same; amounts are base units; `MatchFeed` has goals only, and its markets are
those the operator can encode and those the app can recover. What the two sides make of
a name or a line is kept: an outcome is spelled as the app compares it, in another case,
or as `1`, `2`, `x`; a line can be read or not; the operator stores the index that
`get_outcome_index` gives the *name*, while the feed, the archive and the app count the
*position* in the message, and nothing ties the two.

**Oracles.** `deposit_collateral` may see any odds of `Odds`, `settle_with_proof` any
outcome, `reveal_winner` any value of `RandomValues`. Merkle proofs and Switchboard's
commitment are assumed sound: they are data of external programs.

**Abstractions.** A vault with an admin and a reserve, a batch with its operator and
token accounts are fixed by constants (`initialize_vault`, `initialize_protocol` and
`initialize_lottery` run once, first, and are the initial states). Left out: PDA
seeds and signer checks, fields that no handler reads
(`collateral_required`, `outcome`), the u64 ceilings (every amount is a part of a
token supply that fits u64, products are taken in u128, and shares never exceed
underlying, which is proved) and transfers that somebody makes into a program's
token account unasked.

## 3. Runs

| Run | Asks | Instance and why it is enough |
|---|---|---|
| `lobby` | is the vault solvent, fair and never locked, share by share? do the batch's books match the positions, and can everyone leave? | two users joining and leaving in parts, another wallet in the vault with amounts 1 and 2, ticks of 3 from a reserve that starts at 1 and can be funded, between any two steps: prices above 1 with small denominators, the last clamped tick, the empty vault again after profit; stakes too small to start, so all of the state space is lobby, before and after its expiry. Is every exit the lobby page offers paid that takes a share along or is full, and can what the page's rounding leaves behind be left too? |
| `voting` | does a stake vote once, does the ballot decide, and does the app's panel tell it? | stakes 40, 40, 80 (ties, majorities, a third that breaks them), three-option slate and Skip, two bets, so that a vote of an earlier bet or of a replaced slate is still stamped. `u1` and `u2` are interchangeable (symmetry; no liveness here) |
| `rounds` | is every bet counted and paid once, is the abstract lifecycle implemented, does a batch whose operator has covered a bet always end in claims, whenever the operator stops? is the chain as the app's modules see it implemented? | all five bets, one depositor, odds that round the collateral to zero, overpayment, an operator who can run out of money; `FairSpec` |
| `claims` | does any order of claims hurt a claimer? are the preview and the growth on the history page true? | two users with coprime stakes, an outside depositor, ticks of 5 then 2, an operator claiming at any time and any number of times, at most one slash, the outside depositor at rest between start and settlement; the page of one user opened and closed at any time, with anything between its two reads and after them |
| `lottery` | do jackpots mix, does every draw have a winner, is the draw blind and paid? does the lottery page keep what it offers? | two rounds that may overlap, three buyers who can each buy again in any order, all residues of all pools; `LotteryFairSpec` |
| `system` | is only the reward wagered, and do all books still balance? | one bet, two users claiming either way and buying tickets of their own, one round; the round opens once the batch is settled, before which the programs share only the clock |
| `operator` | what does the lock keep apart, is a lobby started in time, does the metadata fit the covered bet? | two interchangeable instances (one working, one with a stale read or locked out), two kickoffs and two bets, so that a match of the first bet, a replaced proposal and the second bet's match can be confused; a duration and an expiry of one clock step; one option and Skip, one depositor (ballots and stakes are other runs'). Locks expire at any time, crashes leave them behind, and the permissionless instructions race with it; at most one penalty or default (`FewPenalties`) |
| `feed` | is a label, a vote, a decision that of the bet on chain? | eight priced options of two fixtures (a draw and an away win in the order the operator does not number them by, totals at one half line with the over capitalised, a total without a readable line, a result named `2`, a handicap that derives the term of a result, a first-half market), slates of one or two of them proposed by the operator or the page, one republication, a kickoff of either fixture and a mapping that is current, missing or left over; scores with 0 or 2 goals per side and half tell all these bets apart |
| `context` | do overlapping loads ever take back a confirmed request, and does the view settle? | one wallet that connects and disconnects, three batches (one settled and undecodable, one settled, one in its lobby or in its last bet), two loads in flight, one change of the chain (the request itself, or somebody else's): a late load, an old wallet's load and a torn load each need two loads and one change; `ContextFairSpec` |
| `live` | are the proposals and the vote buttons those of the live batch? | two live batches that the user staked in, one bet covered, the other voted on; one load and two descriptions in flight, one change of the chain |
| `docs_vote`, `docs_badge` | does the live page do what its comments say? | the instance of `live`, for `docs_vote` with the last bet of the selected batch covered; each ends in a counterexample |

Bounds, all named constants or constraints in the MC modules: `MaxTime` lets the
deadlines of the slowest kickoff pass; `MaxBets` is 5, as in the code, in `rounds`,
and 1 or 2 where five bets would only repeat the same rounds;
`ApyBps`, the stakes and `Odds` are scaled so that the bet size is a few units;
`VoteCutoff`, `ProofWindow` and `LobbyExpiry` are 0 or 1 clock steps. Lobbies in
`voting`, `claims` and `system` exclude leaving, which `lobby` explores, and in the
last two only one user votes, as ballots are what `voting` explores.
`CHECK_DEADLOCK FALSE` is given where the program really stops: a settled batch with
all claims made and a clock at its bound, a batch whose lobby has expired and
emptied, or a tab with no load in flight while chain and user rest at their bounds.

### Properties worth a word

* `NoPhantomVotes`, `BallotDecides`: the weight of an option never exceeds the stake
  currently voting for it, and the collateral goes on its strict maximum or on Skip.
  The converse, that all of the stake is in the weights, is *not* true: see section 5.
* `EscrowMatchesBet`: relates the escrow's balance, `collateral_deposited`, the phase
  and the decided option through every race of deposit, penalty, proof and default.
* `LobbyCanBeLeft`, `ClaimNeverFails`: state that an instruction would *succeed*, so
  they cover the vault's `WithdrawTooSmall`, `InsufficientShares` and `checked_sub`
  of the callee under every price. `LobbyCanBeLeft` is about exits, full ones and those
  that take a share along; that a stake is *refused* when it is nothing or less than a
  share, and an exit when it is less than a share, is in section 5.
* `EveryStakerClaims`: the operator may stop in any phase of any bet, but has to have put
  collateral up once, and to stop proposing: both conditions are real (section 5).
* `CoverageNeverFalls`: once the lobby is over, no step of anybody lowers the covered
  part of the unclaimed principal below full cover; it bounds the repeatable
  operator claim.
* `LockKeepsApart`: the lock has no owner and is deleted by whoever finishes. An
  instance at work that has not outlived it, and was not robbed by one that had, has it
  to itself; those on time never rob each other. More cannot be said: a confirmation
  can take longer than the lock's 25 seconds, and nothing renews it.
* `CoveredBetIsDescribed`: instances may *propose* on stale reads, and chain and
  metadata may disagree for as long as they like, but not once collateral is down:
  the program compares the fixture of the odds with the bet's, and nobody with the
  lock changes the metadata meanwhile. An instance that has lost its lock can
  (section 5); the promise is off until one that has it stores metadata again between bets.
* `LobbyRunsItsCourse`: relates the two clocks of a lobby, Redis' and the chain's, whatever
  happens to the lock: the timestamp may be reset under an instance that is about to
  start, but never to before the creation.
* `WinnerExists` with `TicketsAreKept`: ranges of buyers who buy again overlap (see
  section 5) but leave no gap.
* `BooksAgree`: three sums, of stakes, tracked shares and vault positions, against
  three totals that different handlers of two programs update.
* `PreviewIsHonoured`: over the time a page stays open, its two reads included: the
  user's claim never pays less than is shown, but for the roundings of the principal,
  unless the operator's yield claim has taken the winnings meanwhile. It may pay more
  (section 5), because the second read is divided by what was read first.
* `GrowthIsPaidIn`: relates the page's figure, built from the batch's tallies, with the
  operator's money over the whole life of the batch. The slack of a bet size per skip
  is real: a round finalized without a match counts as a skip and pays nothing.
* `PanelTellsTheBet`: the leader the browser computes is what `finalize_consensus`
  would decide, or Skip on a tie, which the panel does not show; the default button
  appears exactly when `settle_default` accepts. The latter holds because 4 hours
  (`ConsensusVoting.tsx`) are the program's proof window; the button is missing in
  `AwaitingCollateral`, where the program takes defaults too.
* `OffersAreKept`: of a drawn round somebody is offered the prize and nobody in vain.
* `LabelIsTheBet`, `VoteIsTheBet`: two options are the same bet if they win on the same
  scores. What is recovered from the terms on chain is right whatever Redis says, lost,
  left over or misnumbered: a label reads as the bet it stands next to even if it is not
  the one proposed. A stored label is right if the mapping is of the slate on chain
  (`MappingIsCurrent`); a price, and a vote for an option that the mapping names, if
  besides the indices stored are the places in the feed (`MappingIsTrue`). Nothing in
  the app checks either (section 5).
* `FullTimeIsRecovered`: no full-time slot is left without a label, unless only the
  proposer can read its outcome or its line. Half-time ones are: the recovery only
  knows full-time keys.
* `ReadYourWrites`: not about the request id of one load but about every load in flight
  when the refresh is applied; the mutant that drops the comparison breaks it with two
  loads.
* `ViewSettles`: no load has to be the last one to be answered, and none may leave
  another wallet's positions, a connected wallet another's balance, or the loading
  skeleton, for good. Without a wallet the balance is not loaded again (section 5).
* `OnlyCutoffRefusesVote`: once the screen is up to date the program has nothing to hold
  against a vote that is offered but the time. The panel does not look at the cut-off
  (section 5); before the screen is up to date a vote may be refused for other reasons.
* `AppSeesCore`: ties the two views of a batch together: what the program does, `AppContext`
  and `LivePage` allow. The other direction, that what they accept the program accepts,
  is not part of it: a lobby's expiry, a deadline or an amount can refuse what `Accepts`
  lets through, and the app's modules have a failing transaction for it (`Revert`, `Throw`).

### Fairness

No signer is forced to act except as follows. `ClockTick` is weakly fair: time passes.
`FinalizeConsensus` (weak) and `SettleDefault` (strong) are permissionless and assumed
to be cranked by somebody; strong, because `penalize_missed_collateral`, open to
anyone too, can take the batch out of `AwaitingCollateral` again and again. Users come
for their claim (weak). Of the operator `EveryStakerClaims` assumes that it has covered a
bet or a Skip once, which creates the escrow account that `settle_default` asks for, and that
it does not propose for ever; it may vanish at any later point. The second is a
hypothesis and not a bound: in the run the kickoffs end, on the chain an operator can
replace a match by a later one for as long as it likes. In the lottery `reveal_winner` is permissionless and the
oracle answers, and a holder of the winning number claims. `request_randomness` is
the admin's alone and not assumed, so `PrizeIsPaid` starts at the request; a round
whose admin vanishes keeps its jackpot for ever. In the app the interval timer keeps
firing (`Poll`), a request is answered or fails in the end, the oldest in flight
included, and a transaction is confirmed or given up (all weak): what a browser and
an RPC node do. Nothing is assumed of the user, and `ViewSettles` speaks of runs in
which chain and wallet come to rest and requests stop failing.

## 4. Proofs

TLAPS proves these for every value of the constants that satisfies the named
assumptions (`VaultConstants`, `CoreConstants`, `LotteryConstants`,
`SystemConstants`, `OperatorConstants`, `ChainConstants`, `ContextConstants`,
`FeedConstants`, `OneBetPerIdentity`: accounts
that are distinct on chain are distinct, amounts and durations are naturals, the
accounts of the programs start empty, a slate fills its slots from the first, the
feed's message and index are the key of one bet, as which the app uses them) and that depositors, users and buyers are finitely many
(`FiniteDepositors`, `FiniteUsers`, `FiniteBuyers`: accounts have to be created one by
one).

| Module | Theorem | Property |
|---|---|---|
| `YieldVaultProofs` | `VaultTypeCorrect`, `UnderlyingAlwaysHeld`, `SharesNeverUnderWater`, `PriceIsMonotone` | `VaultTypeOK`, `UnderlyingIsHeld`, `PriceAtLeastOne`, `PriceNeverFalls` |
| `YieldVaultProofs` | `SharesAlwaysOwned`, `PositionsAlwaysRedeemable`, `RoundTripsNeverGain` | `SharesAreOwned`, `EveryPositionRedeemable`, `RoundTripNeverGains` |
| `UndegenCoreProofs` | `TypeCorrect`, `RoundsAreCounted`, `EscrowIsTheBets`, `BallotIsDecisive`, `LifecycleIsImplemented` | `TypeOK`, `RoundLedger`, `EscrowMatchesBet`, `BallotDecides`, `ImplementsLifecycle` |
| `UndegenCoreProofs` | `VaultIsSafeWithBatches`, `PriceIsMonotoneWithBatches` | the vault's properties with a batch as depositor |
| `UndegenBooksProofs` | `BooksAlwaysAgree`, `ClaimsNeverFail`, `ClaimsLoseRoundingOnly`, `CoverageIsKept`, `VotesAreNeverPhantom` | `BooksAgree`, `ClaimNeverFails`, `ClaimLossIsRounding`, `CoverageNeverFalls`, `NoPhantomVotes` |
| `OperatorProofs` | `ServiceTypeCorrect`, `InstancesWorkApart`, `CoveredBetsAreDescribed`, `LobbiesRunTheirCourse` | `OperatorTypeOK`, `LockKeepsApart`, `CoveredBetIsDescribed`, `LobbyRunsItsCourse` |
| `OperatorProofs` | `ServiceIsASigner`, `BatchIsSafeWithService` | `OperatorSpec => Spec`, and with it the batch's theorems |
| `SystemProofs` | `LotteryTypeCorrect`, `JackpotsAreKept`, `TicketsAlwaysKept`, `DrawnRoundsHaveWinners`, `DrawsAreBlind`, `PoolsAreTickets`, `OffersAlwaysKept` | `LotteryTypeOK`, `JackpotIsPool`, `TicketsAreKept`, `WinnerExists`, `DrawIsBlind`, `PoolIsTickets`, `OffersAreKept` |
| `SystemProofs` | `SystemImplementsBoth` | `SystemSpec => OpenSpec /\ OpenLotterySpec`: the three programs together implement each |
| `SystemProofs` | `BooksAlwaysBalance`, `WagersAreRewards` | `BooksBalance`, `WagerIsReward` |
| `SystemProofs` | `BatchIsSafeInSystem`, `LotteryIsSafeInSystem` | what was proved of the batch and of the lottery alone, of `SystemSpec` |
| `AppContextProofs` | `ContextTyped`, `WritesAreRead` | `ContextTypeOK`, `ReadYourWrites` |
| `AppContextProofs` | `LiveProposals`, `OnlyCutoffRefusesVotes` | `ProposalsAreLive`, `OnlyCutoffRefusesVote` (of `LiveSpec`) |
| `FeedProofs` | `EncodingSettlesAsOption`, `RecoverySettlesAsTerm` | what `LabelIsTheBet` and `VoteIsTheBet` rest on, for any line, spelling and number of goals |
| `FeedProofs` | `LabelsAreBets`, `VotesAreBets`, `FullTimeAlwaysRecovered` | `LabelIsTheBet`, `VoteIsTheBet`, `FullTimeIsRecovered` (of `FeedSpec`) |
| `AppViewProofs` | `PanelIsTrue` | `PanelTellsTheBet`, when the app's waiting time is the proof window |
| `AppViewProofs` | `LobbiesCanBeLeft`, `AppChainIsImplemented` | `LobbyCanBeLeft`, `AppSeesCore` |
| `AppViewProofs` | `GrowthIsReal` | `GrowthIsPaidIn`, when the operator's account serves nothing else (`OperatorOnlyCovers`) |
| `AppViewProofs` | `PreviewsAreHonoured` | `PreviewIsHonoured` (of `HistorySpec`) |

*The vault.* Types, `UnderlyingIsHeld` and `PriceAtLeastOne` are inductive together:
that a share is worth at least one unit is what keeps the amount minted below the
amount paid, and that both counters vanish together is what makes the
first-depositor branch harmless. Monotony of the price is arithmetic over the two
roundings: `MintedFor` and `Worth` are characterised by lemmas about `\div`, from
which each step's cross-multiplied inequality follows.

*The batch.* Its inductive invariant joins the vault's with the types of the batch,
`RoundLedger`, `EscrowMatchesBet` and `BallotDecides`. `RoundLedger` needs that a
batch with a current bet has bets left, since a handler compares the count only
after adding one; `EscrowMatchesBet` needs that every handler that resets
`collateral_deposited` finds the escrow empty or empties it, which depends on the
phase. The refinement of `BatchLifecycle` uses the same invariant: an instruction
maps to a lifecycle step (`propose_match` and `cast_vote` to stuttering), and
`settle_default` in `AwaitingCollateral` maps to a default with an empty escrow.

*Sums.* The totals are folds of the community modules over a set in an order that
`CHOOSE` picks. The first part of
`YieldVaultProofs` takes the fold as a recursive function on the subsets of a
finite set (`Total`) and proves, by a minimal counterexample on the cardinality
(`SetInduction`), that it exists, is a natural number and that any element may be
taken out first (`TotalRemove`: the order does not matter). From that follow the two
facts the handlers need: an update of one entry changes the sum by the difference
(`TotalChange`), and a bound on every addend bounds the sum (`TotalBound`).

*The vault's holders.* That positions add up to `total_shares` (`SharesAddUp`) is
inductive and gives the rest: no position exceeds the total, so its worth is at most
what the vault holds, and all the worths together are too.

*The batch's books.* Four invariants, each needing the ones before it. `StakeInv`: the
stakes of those who have not claimed add up to `total_deposited`, and nobody has
claimed before the batch is settled, so that `leave_batch` never finds the counter
below the stake. `SharesInv`: the shares tracked per user add up to the batch's
position until it starts and are covered by it until it settles, and whoever has stake has
a share; the latter is why a partial exit, which rounds the shares down, is
harmless. `EntitlementBounded`: the operator's entitlement never exceeds 10000 basis
points, so `claim_operator_yield` takes at most what exceeds the unclaimed principal.
`Backed`: while stake is left to claim the batch holds shares; a claim redeems at most
its pro-rata part, and with other claims outstanding never all of it. `ClaimNeverFails`
follows; `ClaimLossIsRounding` chains the four floors of `claim`, each short by less
than its divisor (`RoundingChain`); `CoverageNeverFalls` is, step by step, a
cross-multiplied inequality over the position, the principal and the price
(`CoverageRises`, when neither the shares per unclaimed unit nor the price of a share
falls; the operator's claim, which does lower the former, leaves full cover). `NoPhantomVotes` (`VoteInv`) needs that there are no weights before the start, while
stakes still change; from then on a vote moves the voter's whole stake, and one cast
for a slate that was replaced meanwhile can only take away from the weights.

*The lottery.* `JackpotIsPool` and the types need that rounds beyond the current one
are blank (`FutureRoundsBlank`: `start_round` resets nothing that is in use) and that
a round past `Open` has a non-empty pool (`PoolsNonEmpty`: the modulo of
`reveal_winner` is defined). That a drawn round has a winner needs the strengthening
`RangesCover`: every number below the pool lies in the range of some entry. A top-up
only extends a range, so a cover stays a cover; and an entry is only marked claimed
by the claim that settles the round (`UnclaimedUntilSettled`).

*The three programs.* Nothing is proved twice. The invariants of the batch are proved of
an open program (`OpenSpec`), in which a claim may send on at once what it pays
(`ClaimEffect`) and others may move any token account but the vault's, the claim pool and
the escrow (`TokensElsewhere`); those of the lottery of an open lottery, in which a
ticket may be paid from anywhere (`TicketPaid`) and every account but the jackpots may
move (`JackpotsUntouched`). `Spec` and `LotterySpec` are the cases in which nothing else
moves. `SystemImplementsBoth` shows that a step of the system is a step of both: an
instruction of one program leaves the accounts of the other alone (the only place where
it matters that a jackpot is nobody else's account), and
`claim_and_join_lottery` is a `ClaimEffect` to the batch and a `TicketPaid`, or nothing
when there is no reward, to the lottery. `WagersAreRewards` needs in addition that only
a claim marks a position claimed (`OnlyClaimsClaim`) and that a ticket changes one
addend of the user's tickets (`TotalChange`).

*The operator.* `ServiceIsASigner` is a refinement: every step of an instance is a
step of `undegen_core` or stutters, so that all that is proved of a batch holds with
any number of instances. None of the three properties assumes that a tick ends in time.
`LockKeepsApart` is inductive with `lost` naming only instances at work (`Apart`): an
instance on time finds the lock set, a free lock means that all at work are lost, and
deleting a lock that is not one's own makes its owner lost. `CoveredBetIsDescribed` needs
`Described`: as long as nothing has strayed, no bet is covered while an instance with the
lock is about to store metadata, and the odds of one about to deposit are those of
the metadata; both follow from it being the only one. `LobbyRunsItsCourse` needs no lock,
but `StartIsDue`: what Redis holds as the time of a lobby is never before its creation, and
an instance about to start one found the duration over, which a later timestamp
does not undo.

*The app.* `ReadYourWrites` speaks of the screen, but what endangers it is in flight. Its
inductive invariant says of every load: what it has read is at least as old as the
acknowledged version when it started after the acknowledgement (`after`), and once
such a load has been applied (`ackSeen`) every older one is `superseded` and will be
dropped. It needs that versions only grow, that the order of `loads` is that of their
starts, and that a load's reads follow its start. Each action disturbs one of
appending, removing or advancing a load, for which there is a lemma each.

*The feed.* That an option wins when its predicate holds splits on market, outcome and
whether the line is whole or half: what is left is linear arithmetic with the floor
and the ceiling (at the line the operator takes, when it cannot read one). `FeedInv` then says where the app's sources come from: `bet_terms` are
the encoded options of the last proposal (or empty with it), and whatever Redis holds or
is about to hold carries, under the edition of its day, the identity of the option stored
with it, at the index its proposer gives it. An option that is found in the feed under a
stored identity is therefore the stored one if that index is its place in the feed (`MappingIsTrue`),
however often the feed was published again; and one that recovers a slot must be
a full-time one, since the stat keys of the others carry their period. What its label
reads as is the term's bet even where name and term part (`RecoverySettlesAsTerm` is
about `ReadAs`): the app words a label and derives a term by the same comparison.

*The live page.* `ProposalsAreLive` speaks of the moment at which no description is in
flight. `DescriptionsOK` says what leads there: the last description asked for is of the
batch and version on screen and not superseded, or it has been applied and all others
still in flight are superseded, so that none of them will undo it. That it survives a
change of the chain needs that the ledger only grows: what a version shows does not
depend on when it is looked at (`LiveNow`). `OnlyCutoffRefusesVote` adds that a mounted
panel has a batch to show, and from the types that a position with a stake is an open
account.

*The pages.* `PanelIsTrue` puts the panel's scan of the weights beside that of
`finalize_consensus`, which `BallotDecides` characterises, and uses `DeadlineInv`: a
slate comes with a kickoff, and the deadline of a covered bet counts from it. That
there is a leader is shown by going through the five slots. `OffersAlwaysKept` adds
to the lottery's invariants `PaidOnce`: a settled round was claimed by exactly one
buyer, a holder of its number. `LobbiesCanBeLeft` takes `SharesInv` and `SharesAddUp`: a
user's tracked shares are part of the batch's position, which the vault can pay; an
exit that is not full takes a rounded-down part of them, so that what is left of the
stake keeps a share.

*The history page.* `GrowthIsPaidIn` compares the tallies of a settled batch with the
operator's account. Its inductive invariant `GrowthInv` says before settlement that what
the operator paid in is what the escrow and the winnings keep, and at most a bet size more
for every skip: a collateral moves from the account to the escrow, a win from the
escrow to the winnings, a Skip pays its prize (at most a bet size) from the account to the
claim pool. At the last settlement the escrow is empty, and `RoundLedger` leaves
as skips what wins and losses do not count. The hypothesis is that of the run: an operator who also
stakes, or funds the reserve, from the same account moves it for other reasons.
`PreviewIsHonoured` is about a preview that is half read, or shown, while the chain goes on.
Its invariant (`ShownInv`, `ShownIsOwed`) says that the stake read is still the user's, that
the unclaimed part of the batch's position covers the principal read in proportion to the
stake (`Covers`), and that the earnings shown are at most the user's part of the claim
pool, as long as the operator has not claimed. The cover holds when it is read
(`PrincipalIsCovered`) and stays, since no step lowers the batch's cover below full
(`CoverKept`, from the proof of `CoverageNeverFalls`); a claim takes its part of the claim
pool rounded down, so the others' parts stay (`PoolKept`); and what is covered is paid
(`CoveredIsPaid`). Between the reads claims only lower the unclaimed principal, so that
dividing the pool's balance by the principal of before shows too little, never too much. The user's own
claim redeems whole shares where the preview multiplies first.

*The chain as the app sees it.* `AppChainIsImplemented` is a refinement with the
mapping of `CoreAsSeen`: each instruction is matched with the step of `AppChain` that
has its effect on the decoded fields. A partial exit stutters,
and so does the clock except when it passes a cut-off (`TickIsSeen`); a start needs
`SomeStaker` (a positive total has a positive addend), `propose_match` that no winner
is set while `Locked` (`EscrowMatchesBet`), and `finalize_consensus` that only options of
the slate or Skip win (`BallotInv`). With it `ReadYourWrites`, which is proved over
`AppChain`, holds of an app beside the program.

Only model-checked: liveness (`EveryStakerClaims`, `PrizeIsPaid`, `ViewSettles`), which
is out of the prover's reach. Every other property of a passing run is stated by one of
the theorems above.

## 5. Where the code and its documents differ

Shown by a counterexample of a run:

| Run | Document | Code |
|---|---|---|
| `docs_vote` | `page.tsx:89`: the live page only ever shows the batch currently in consensus voting; `UndegenProgramContext.tsx:77`: the slot of a described proposal is already known | proposals, rights and weights are those of the live batch, but the vote is sent to the selected one, which is another as soon as the selected one settles (`UndegenProgramContext.tsx:351`); the default button passes the live batch's id |
| `docs_badge` | `ConsensusVoting.tsx:292`: seeded from the real on-chain vote, not just this session's local state; `UndegenProgramContext.tsx:369`: the on-chain write already succeeded | `signAndSend` does not look at the error a confirmation carries (`undegenProgram.ts:945`): an aborted vote is marked as voted until the round ends |

Met on the way, each by a property that had to be stated more weakly
than the document:

| Document | Code |
|---|---|
| `cast_vote.rs:28`: a vote stamped with an earlier round is stale | proposing again or a penalty clears the weights within a round, so a voter of the replaced slate takes weight away from the new one (never adds: `NoPhantomVotes`) |
| `penalize_missed_collateral.rs:6`: callable after kickoff passes | between bets `kickoff_timestamp` is 0: anyone can finalize and penalize at once |
| `claim_and_join_lottery.rs:11`: principal plus a share of the accumulated winnings | proven winnings are compounded into the vault, where `claim` is capped at the deposit; they become the operator's yield |
| `settle_default.rs:52`: forfeited collateral is for users to claim | `claim_operator_yield` forwards everything in the claim pool (`PreviewIsHonoured` has to leave that step out) |
| `settle_default.rs:8`: callable by anyone after the proof deadline | only if the escrow account exists (`settle_default.rs:96`), which the operator's first `deposit_collateral` creates: a batch whose operator vanishes before is finalized and penalized for ever. And an operator that keeps replacing the match by a later one (`propose_match.rs:13`) keeps the stakes as long as it likes. `EveryStakerClaims` assumes a first collateral, and that the proposals end |
| `processor.rs:77`: a lock around each batch | it lasts 25 seconds, is not renewed and has no owner; an instance that has lost it and stores its metadata late leaves a covered bet whose proof is asked for another match (`CoveredBetIsDescribed` is off until the next metadata stored with the lock) |
| `undegenProgram.ts:1751`: slots are stored by the raw TxOdds identity | the operator stores the index of the outcome's *name* (`processor.rs:849`, a draw is 2), the app and the feed count *positions*; a multiplier or a vote can go to another outcome of the same message. `LabelIsTheBet` and `VoteIsTheBet` hold of prices and mapped options only where the two agree, and only with a mapping of the slate on chain: one left over misdirects votes and prices |
| `LobbyPhase.tsx:20`: MAX hands back the exact balance | the amount is a float on its way to the program and floored (`undegenProgram.ts:2038`): 1.005 sends 1004999, and one base unit stays. `LobbyCanBeLeft` has what is left be leavable |
| `HowItWorks.tsx:164`: a range of numbers proportional to the ticket's size | a buyer who comes back after others gets a range that includes theirs; when the number drawn lies in both, both read "Claimable" and only the first claim is paid |

Met on the way in the app: the history page's growth counts every skip as a prize paid
(`GrowthIsPaidIn` allows for it); the lottery page shows the first open round while the
purchase goes to the current one (`lottery/page.tsx:119`, `undegenProgram.ts:660`); after
a prize is claimed another holder of the winning number is shown the claim button for
ever; no minimum deposit is enforced, so a stake of 0 or of less than a share can be
sent and is refused, and so is an exit of less than a share; the claim preview may show less
than is paid (25 for 50: another claim between its two reads,
`undegenProgram.ts:2269` and `:2312`, or a second read that failed); a refresh still in
flight when the wallet disconnects leaves that wallet's balance on screen for good
(`UndegenProgramContext.tsx:209`, `:374`); a full-time slot whose outcome the operator read
from `1`, `2` or `x`, or whose line it could not read and took as 2.5, is not recovered;
an over spelled with a capital is encoded as an over and labelled as an under; the page offers no default in `AwaitingCollateral`; the vote
cut-off is not looked at before a vote is sent; half-time proposals are never
recovered from bet terms; the claim preview of batch 0 is never loaded
(`history/page.tsx:88` tests the id for truth); whether a lottery round is open is asked
once per visit; the automatic selection is spent by the first load that finds batches,
also by one made without a wallet.

In the programs and the service: through the same door as the early penalty,
`settle_default` counts a win for a round without a match, although `state.rs:81`
calls the tallies "real results"; the configuration as shipped (`operator/config.yml:2`,
86400 seconds, next to `constants.rs:22`, 24 hours) leaves no moment between the two
bounds of `LobbyRunsItsCourse`, since the service sees a lobby only after its
creation: no lobby is ever started, and as its batch stays the latest one in `Lobby`
(`processor.rs:112`) no other is initialized, while `docs/operator_architecture.md:69`
says "Detects initialized batches with sufficient users; triggers `start_batch`"; the service pays
`bet_size * odds / 1000` where the program asks for a tenth of it
(`processor.rs:457`, `deposit_collateral.rs:81`); the answer lost after
`propose_match` leaves no metadata, and the service never covers that bet; a second
instance with a stale read replaces a proposal and clears its votes, next to "Caches
active batch stages to avoid duplicate transaction submissions"
(`docs/operator_architecture.md:50`); second-half markets are proposed but
`resolve_sequence_number` never resolves them; the branch that claims the operator's
yield is skipped (`processor.rs:72`); the lottery driver knows three of the program's
four round states and calls a `draw_winner` the program does not have; `claim` pays a few base units less than the
principal at a fractional share price (bounded by `ClaimLossIsRounding`; nothing at
all for a stake worth less than one share), next to `README.md:15`, "100% protected"; the
forfeited part of the operator's yield (`claim_operator_yield.rs:58`, "stays in vault
for users") can be claimed by calling again; `constants.rs:15` says "1hr" of four hours; a
Skip uses one of the five bets, while `README.md:39` says that liquidity is saved.

## 6. Not modelled, and the plan

1. *Operator, the rest*: the lottery driver (`process_lottery_inner`, its own lock and
   timestamp) against `Lottery`; the scheduling of `initialize_batch` over several
   batches; progress of a healthy instance under fairness (a lobby with users is started
   when the duration is shorter than the expiry, a covered bet is settled); transactions
   that outlive their tick.
2. *Lottery page*: its own unguarded poll (`loadRounds` has no request counter) and
   the wager of a settled batch against the round it joins.
3. *Proofs*: what the history page promises is proved of a batch alone; of
   `UndegenSystem`, in which a claim may become a ticket at once, it would follow from the
   same lemmas over `OpenSpec`.

Left out for good: presentation (backgrounds, banners, news, scores, layout, the mobile
drawer's copies of the lists), the app's test pages, the news and validation routes
(stateless proxies), the operator's HTTP requests, the byte layout of accounts and
instructions, TxOdds and Switchboard accounts, generated IDL, error codes.

Running: `tlc -config MCVoting.cfg MCVoting` (and so on for each cfg), `tlapm
UndegenCoreProofs.tla` for the proofs.
