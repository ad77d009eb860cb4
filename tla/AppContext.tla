---------------------------- MODULE AppContext -----------------------------
(***************************************************************************)
(* The web app's program context (context/UndegenProgramContext.tsx) and   *)
(* the reads and writes of its service (services/undegenProgram.ts): what  *)
(* a browser tab shows of the chain while loads overlap, the wallet and    *)
(* the selection change and a transaction is in flight.                    *)
(*                                                                         *)
(* A load is three reads (the next batch id, all batches, all positions of *)
(* one wallet) with an await before each.  It may be answered late, out of *)
(* order or not at all.  What a read returned is named by the version of   *)
(* the chain it saw: an index of ledger.  Request ids are the order of     *)
(* loads; "older than the latest applied" is the flag superseded.          *)
(***************************************************************************)
EXTENDS AppChain, Sequences, FiniteSetsExt

CONSTANTS
    NoWallet,        \* no wallet is connected
    Readable,        \* batches whose account size decodeBatchAccount knows
    Unstamped,       \* batches whose positions are too old for voted_at_round
    Asked,           \* requests the user may make
    Starts,          \* states of the chain when the tab is opened
    MaxLoads,        \* bound: loads in flight
    MaxChanges       \* bound: changes of the chain

ASSUME ContextConstants ==
    /\ NoWallet \notin Wallets
    /\ Readable \subseteq Batches /\ Unstamped \subseteq Batches
    /\ Asked \subseteq Requests /\ Starts \subseteq ChainState
    /\ MaxLoads \in Nat \ {0} /\ MaxChanges \in Nat

VARIABLES
    ledger,          \* every state the chain went through, the last is chain
    wallet,
    selected,        \* selectedBatchId
    autoSelected,    \* didAutoSelectLiveBatch
    shown,           \* batches, as the reads they were built from
    isLoading,
    balanceOf,       \* whose balance usdcBalance is
    loads,           \* calls of loadState in flight, in the order they started
    tx,              \* the user's transaction in flight
    acked,           \* history: the version that holds the last acknowledged transaction
    ackSeen          \* history: a load started after that was applied

chainVars == <<chain, ledger>>
viewVars == <<selected, autoSelected, shown, isLoading, loads>>
historyVars == <<acked, ackSeen>>
contextVars == <<chainVars, wallet, viewVars, balanceOf, tx, historyVars>>

Version == Len(ledger)

-----------------------------------------------------------------------------
(***************************************************************************)
(* What the service makes of the accounts it read.                         *)
(***************************************************************************)
\* batchStatusToPhase: a batch in any of its rounds is Active to the app.
Phase(status) ==
    CASE status = "Lobby" -> "Lobby"
      [] status = "Settled" -> "Ended"
      [] OTHER -> "Active"

\* decodeUserPositionAccount: an 84-byte account reads as a vote of round 0.
VotedRound(b, p) == IF b \in Unstamped THEN 0 ELSE p.round

\* userVotedIndex: the vote, if it is of the batch's current round.
VotedIndex(b, account, p) ==
    IF p.voted /\ VotedRound(b, p) = account.bets THEN p.vote ELSE NoneYet

\* buildBatchState, what the pages decide by.
BatchState(b, account, p) ==
    [phase |-> Phase(account.status), rawStatus |-> account.status,
     filled |-> account.filled, bets |-> account.bets, winner |-> account.winner,
     deposited |-> p.stake, votedIndex |-> VotedIndex(b, account, p),
     withdrawn |-> p.claimed]

\* The batches in a load's answer: ids below the next id it read that exist
\* and decode; accounts of unknown size are left out.
Known(v) ==
    IF v.batches = 0 THEN {}
    ELSE {b \in Readable : b < v.next /\ b < ledger[v.batches].next}

\* fetchAllBatchesOnChain: one entry.
Fetched(v, b) ==
    BatchState(b, ledger[v.batches].batch[b],
               IF v.positions = 0 THEN NoPosition ELSE ledger[v.positions].pos[v.wallet][b])

\* The batches a page lists: the live page those in their rounds, the lobby
\* page those before them, the history page those after them.
Listed(v, phase) == {b \in Known(v) : Phase(ledger[v.batches].batch[b].status) = phase}
LiveBatches(v) == Listed(v, "Active")
LobbyBatches(v) == Listed(v, "Lobby")
EndedBatches(v) == Listed(v, "Ended")

Highest(bs) == IF bs = {} THEN NoBatch ELSE Max(bs)
Lowest(bs) == IF bs = {} THEN NoBatch ELSE Min(bs)

\* The one batch a page shows of those it lists: the selected one, else the
\* highest id, or the lobby soonest to close; a lobby lasts the same for all,
\* so that is the lowest id.
LiveBatch(v, s) ==
    IF s \in LiveBatches(v) THEN s ELSE Highest(LiveBatches(v))

FocusedLobby(v, s) ==
    IF s \in LobbyBatches(v) THEN s ELSE Lowest(LobbyBatches(v))

FocusedEnded(v, s) ==
    IF s \in EndedBatches(v) THEN s ELSE Highest(EndedBatches(v))

-----------------------------------------------------------------------------
NotRead == -1                         \* of a next batch id, which is never negative

\* A load as it starts; with the wallet of the render that made its closure.
NewLoad(w, silent, refresh, after) ==
    [wallet |-> w, silent |-> silent, refresh |-> refresh, after |-> after,
     next |-> NotRead, batches |-> 0, positions |-> 0, superseded |-> FALSE]

NothingShown == [wallet |-> NoWallet, next |-> NotRead, batches |-> 0, positions |-> 0]

NoTx == [stage |-> "none", wallet |-> NoWallet,
         request |-> VoteRequest(NoBatch, 0), at |-> 0]

\* The tab opens, with or without a connected wallet, and loads.
ContextInit ==
    /\ chain \in Starts
    /\ ledger = <<chain>>
    /\ wallet \in Wallets \cup {NoWallet}
    /\ selected = NoBatch /\ autoSelected = FALSE
    /\ shown = NothingShown
    /\ isLoading = TRUE
    /\ balanceOf = NoWallet
    /\ loads = <<NewLoad(wallet, FALSE, FALSE, FALSE)>>
    /\ tx = NoTx
    /\ acked = 0 /\ ackSeen = FALSE

HasRoom == Len(loads) < MaxLoads

\* The chain moves under the app.
ChainMoves ==
    /\ Version <= MaxChanges
    /\ \/ OperatorNext
       \/ \E u \in Wallets, r \in Requests : u # wallet /\ Execute(u, r)
    /\ chain' # chain
    /\ ledger' = Append(ledger, chain')
    /\ UNCHANGED <<wallet, viewVars, balanceOf, tx, historyVars>>

-----------------------------------------------------------------------------
(***************************************************************************)
(* Loads.                                                                  *)
(***************************************************************************)
\* One more silent load.
LoadSilently ==
    /\ HasRoom
    /\ loads' = Append(loads, NewLoad(wallet, TRUE, FALSE, TRUE))
    /\ UNCHANGED <<chainVars, wallet, selected, autoSelected, shown, isLoading, balanceOf, tx,
                   historyVars>>

\* The 15 s poll.
Poll == LoadSilently

\* The debounced push of the subscription to the selected batch.
Push == selected # NoBatch /\ LoadSilently

\* Another account, or none: the effects that depend on the wallet run again,
\* one of them with the loading skeleton; loads in flight are not cancelled.
ChangeWallet(w) ==
    /\ w # wallet
    /\ HasRoom
    /\ wallet' = w
    /\ loads' = Append(loads, NewLoad(w, FALSE, FALSE, TRUE))
    /\ isLoading' = TRUE
    /\ balanceOf' = IF w = NoWallet THEN NoWallet ELSE balanceOf
    /\ UNCHANGED <<chainVars, selected, autoSelected, shown, tx, historyVars>>

ReadIds(k) ==
    /\ loads[k].next = NotRead
    /\ loads' = [loads EXCEPT ![k].next = chain.next]

ReadBatches(k) ==
    /\ loads[k].next # NotRead /\ loads[k].batches = 0
    /\ loads' = [loads EXCEPT ![k].batches = Version]

ReadPositions(k) ==
    /\ loads[k].batches > 0 /\ loads[k].positions = 0 /\ loads[k].wallet # NoWallet
    /\ loads' = [loads EXCEPT ![k].positions = Version]

ReadNext(k) ==
    /\ ReadIds(k) \/ ReadBatches(k) \/ ReadPositions(k)
    /\ UNCHANGED <<chainVars, wallet, selected, autoSelected, shown, isLoading, balanceOf, tx,
                   historyVars>>

Answered(l) == l.batches > 0 /\ (l.wallet # NoWallet => l.positions > 0)

\* The loads without the k-th.
Without(k) == [i \in 1..(Len(loads) - 1) |-> IF i < k THEN loads[i] ELSE loads[i + 1]]

\* Mutant of Overtaken: every answer is applied, in the order of arrival.
OvertakenNever(k) == Without(k)

\* The k-th load is applied: those with a smaller request id are superseded.
Overtaken(k) ==
    [i \in 1..(Len(loads) - 1) |-> [Without(k)[i] EXCEPT !.superseded = @ \/ i < k]]

\* Mutant of Stale: the latest started, not the latest applied, wins.
StaleByStart(k) == k < Len(loads)

\* requestId < latestAppliedLoadStateRequestId.
Stale(k) == loads[k].superseded

\* The finally block, and the caller of a refresh goes on.
LoadEnds(k) ==
    /\ isLoading' = (isLoading /\ loads[k].silent)
    /\ tx' = IF loads[k].refresh THEN [tx EXCEPT !.stage = "balance"] ELSE tx

\* The selection after the answer v: once only, the highest Active batch,
\* else the first batch there is.
AutoSelection(v) ==
    CASE autoSelected -> selected
      [] ~autoSelected /\ LiveBatches(v) # {} -> Max(LiveBatches(v))
      [] ~autoSelected /\ LiveBatches(v) = {} /\ Known(v) # {} -> Min(Known(v))
      [] OTHER -> selected

Answer(l) == [wallet |-> l.wallet, next |-> l.next, batches |-> l.batches, positions |-> l.positions]

Apply(k) ==
    /\ Answered(loads[k])
    /\ ~Stale(k)
    /\ shown' = Answer(loads[k])
    /\ selected' = AutoSelection(Answer(loads[k]))
    /\ autoSelected' = TRUE
    /\ loads' = Overtaken(k)
    /\ LoadEnds(k)
    /\ ackSeen' = (ackSeen \/ (acked > 0 /\ loads[k].after))
    /\ UNCHANGED <<chainVars, wallet, balanceOf, acked>>

Drop(k) ==
    /\ Answered(loads[k])
    /\ Stale(k)
    /\ loads' = Without(k)
    /\ LoadEnds(k)
    /\ UNCHANGED <<chainVars, wallet, selected, autoSelected, shown, balanceOf, historyVars>>

\* A fetch throws: caught and logged.
Fail(k) ==
    /\ ~Answered(loads[k])
    /\ loads' = Without(k)
    /\ LoadEnds(k)
    /\ UNCHANGED <<chainVars, wallet, selected, autoSelected, shown, balanceOf, historyVars>>

\* The balance effect of the present wallet, again every 20 s; those of earlier
\* wallets are cancelled, and without a wallet there is none.
BalanceArrives ==
    /\ wallet # NoWallet
    /\ balanceOf # wallet
    /\ balanceOf' = wallet
    /\ UNCHANGED <<chainVars, wallet, viewVars, tx, historyVars>>

-----------------------------------------------------------------------------
(***************************************************************************)
(* The user.                                                               *)
(***************************************************************************)
\* A row of the sidebar is clicked, on any of the three pages; the row of the
\* batch the page shows is disabled, and while it loads a page has no rows.
Select(b) ==
    /\ ~isLoading
    /\ \/ b \in LiveBatches(shown) \ {LiveBatch(shown, selected)}
       \/ b \in LobbyBatches(shown) \ {FocusedLobby(shown, selected)}
       \/ b \in EndedBatches(shown) \ {FocusedEnded(shown, selected)}
    /\ selected' = b
    /\ UNCHANGED <<chainVars, wallet, autoSelected, shown, isLoading, balanceOf, loads, tx,
                   historyVars>>

\* A handler of the context starts its transaction, with the wallet of the
\* render it was made in; the checks that are not the handler's are the
\* program's.  One transaction at a time.
Submit(r) ==
    /\ tx = NoTx
    /\ wallet # NoWallet
    /\ tx' = [stage |-> "sending", wallet |-> wallet, request |-> r, at |-> 0]
    /\ UNCHANGED <<chainVars, wallet, viewVars, balanceOf, historyVars>>

\* From a page that is not loading.
Ask(r) == r \in Asked /\ ~isLoading /\ Submit(r)

Deposit(b) ==
    /\ Ask(JoinRequest(b))
    /\ b = FocusedLobby(shown, selected)

Withdraw(b) ==
    /\ Ask(LeaveRequest(b))
    /\ b = FocusedLobby(shown, selected)
    /\ Fetched(shown, b).deposited

Claim(b) ==
    /\ Ask(ClaimRequest(b))
    /\ b = FocusedEnded(shown, selected)
    /\ Fetched(shown, b).deposited /\ ~Fetched(shown, b).withdrawn

\* The history page asks once, when it opens, whether a round is open: the
\* answer may be true of no round any more.
ClaimAndJoinLottery(b) ==
    /\ Ask(WagerRequest(b))
    /\ b = FocusedEnded(shown, selected)
    /\ Fetched(shown, b).deposited /\ ~Fetched(shown, b).withdrawn

\* For the selected batch, whichever the live page shows (LivePage says when
\* its panel offers this).
VoteBySlotIndex(i) == Ask(VoteRequest(selected, i))

SettleDefault(b) ==
    /\ Ask(DefaultRequest(b))
    /\ b = LiveBatch(shown, selected)

UserAsks(b) ==
    \/ Deposit(b) \/ Withdraw(b)
    \/ Claim(b) \/ ClaimAndJoinLottery(b)
    \/ SettleDefault(b)

\* signAndSend: signed, and the preflight simulation accepts it.
Send ==
    /\ tx.stage = "sending"
    /\ Accepts(tx.wallet, tx.request)
    /\ tx' = [tx EXCEPT !.stage = "sent"]
    /\ UNCHANGED <<chainVars, wallet, viewVars, balanceOf, historyVars>>

\* Executed.
Land ==
    /\ tx.stage = "sent"
    /\ Version <= MaxChanges
    /\ Execute(tx.wallet, tx.request)
    /\ ledger' = Append(ledger, chain')
    /\ tx' = [NoTx EXCEPT !.stage = "landed", !.wallet = tx.wallet, !.at = Version + 1]
    /\ UNCHANGED <<wallet, viewVars, balanceOf, historyVars>>

\* Included but aborted: the chain moved after the preflight, or a deadline
\* passed.  The confirmation comes all the same; its error is not looked at.
Revert ==
    /\ tx.stage = "sent"
    /\ tx' = [NoTx EXCEPT !.stage = "landed", !.wallet = tx.wallet]
    /\ UNCHANGED <<chainVars, wallet, viewVars, balanceOf, historyVars>>

\* An exception: declined by the wallet or the preflight, dropped by the
\* cluster, or landed with a confirmation that timed out.
Throw ==
    /\ tx.stage \in {"sending", "sent", "landed"}
    /\ tx' = NoTx
    /\ UNCHANGED <<chainVars, wallet, viewVars, balanceOf, historyVars>>

\* confirmTransaction returned: refreshState loads again, silently.
Acknowledge ==
    /\ tx.stage = "landed"
    /\ HasRoom
    /\ tx' = [tx EXCEPT !.stage = "refreshing", !.at = 0]
    /\ acked' = IF tx.at > 0 THEN tx.at ELSE acked
    /\ ackSeen' = IF tx.at > 0 THEN FALSE ELSE ackSeen
    /\ loads' = Append([k \in 1..Len(loads) |-> [loads[k] EXCEPT !.after = @ /\ tx.at = 0]],
                       NewLoad(tx.wallet, TRUE, TRUE, TRUE))
    /\ UNCHANGED <<chainVars, wallet, selected, autoSelected, shown, isLoading, balanceOf>>

\* The balance the refresh fetched last; nothing cancels it.
RefreshBalance ==
    /\ tx.stage = "balance"
    /\ balanceOf' = tx.wallet
    /\ tx' = NoTx
    /\ UNCHANGED <<chainVars, wallet, viewVars, historyVars>>

-----------------------------------------------------------------------------
AnswerNext(k) == ReadNext(k) \/ Apply(k) \/ Drop(k)

ContextNext ==
    \/ ChainMoves
    \/ Poll \/ Push
    \/ \E w \in Wallets \cup {NoWallet} : ChangeWallet(w)
    \/ \E k \in 1..Len(loads) : ReadNext(k) \/ Apply(k) \/ Drop(k) \/ Fail(k)
    \/ BalanceArrives
    \/ \E b \in Batches : Select(b) \/ UserAsks(b)
    \/ \E i \in 0..4 : VoteBySlotIndex(i)
    \/ Send \/ Land \/ Revert \/ Throw \/ Acknowledge \/ RefreshBalance

ContextSpec == ContextInit /\ [][ContextNext]_contextVars

(***************************************************************************)
(* Fairness: the interval timer keeps firing, every request is answered or *)
(* fails in the end (the oldest one in flight too), and a transaction is   *)
(* confirmed or given up.  Nothing is assumed of the user or the chain.    *)
(***************************************************************************)
ContextFairness ==
    /\ WF_contextVars(Poll)
    /\ WF_contextVars(loads # <<>> /\ AnswerNext(1))
    /\ WF_contextVars(BalanceArrives)
    /\ WF_contextVars(Acknowledge \/ Throw)
    /\ WF_contextVars(RefreshBalance)

ContextFairSpec == ContextSpec /\ ContextFairness

-----------------------------------------------------------------------------
(***************************************************************************)
(* Properties.                                                             *)
(***************************************************************************)
Versions == 0..Version

\* Positions are read for a wallet only.
Load ==
    {l \in [wallet : Wallets \cup {NoWallet}, silent : BOOLEAN, refresh : BOOLEAN, after : BOOLEAN,
            next : Nat \cup {NotRead}, batches : Nat, positions : Nat, superseded : BOOLEAN] :
        l.positions = 0 \/ l.wallet # NoWallet}

View ==
    {v \in [wallet : Wallets \cup {NoWallet}, next : Nat \cup {NotRead}, batches : Nat,
            positions : Nat] :
        v.positions = 0 \/ v.wallet # NoWallet}

Transaction ==
    [stage : {"none", "sending", "sent", "landed", "refreshing", "balance"},
     wallet : Wallets \cup {NoWallet}, request : Requests, at : Nat]

\* Every variable stays in its domain, and every read of a load in flight or
\* on screen is of a version that exists: nothing is shown that was never on
\* chain.
ContextTypeOK ==
    /\ ledger \in Seq(ChainState) /\ Version > 0 /\ chain = ledger[Version]
    /\ wallet \in Wallets \cup {NoWallet} /\ balanceOf \in Wallets \cup {NoWallet}
    /\ selected \in Batches \cup {NoBatch}
    /\ autoSelected \in BOOLEAN /\ isLoading \in BOOLEAN
    /\ shown \in View /\ {shown.batches, shown.positions} \subseteq Versions
    /\ loads \in Seq(Load)
    /\ \A k \in 1..Len(loads) :
          {loads[k].batches, loads[k].positions} \subseteq Versions
    /\ tx \in Transaction /\ tx.at \in Versions
    /\ acked \in Versions /\ ackSeen \in BOOLEAN

\* Once a load that started after the confirmation of the user's transaction
\* has been applied, no answer takes the screen back to before it: neither an
\* older load that was slow, nor one of another wallet, nor one torn by a
\* change between its reads (the refresh of loadState and its request ids).
ReadYourWrites ==
    ackSeen =>
        /\ shown.batches >= acked
        /\ shown.wallet # NoWallet => shown.positions >= acked

UpToDate(version) == version = Version

\* The screen shows the chain as it is, to the wallet that is connected.
\* Without one nothing corrects the balance that a refresh left behind.
Settled ==
    /\ shown.next = chain.next /\ UpToDate(shown.batches)
    /\ shown.wallet = wallet
    /\ wallet # NoWallet => UpToDate(shown.positions)
    /\ ~isLoading
    /\ wallet # NoWallet => balanceOf = wallet

Failing == \E k \in 1..Len(loads) : Fail(k)

\* When the chain and the wallet stop changing and requests stop failing, the
\* screen ends up showing the chain as it is, for good: overlapping loads
\* neither starve one another nor leave an old answer, an old wallet's
\* positions or the loading skeleton on it, nor its balance on that of another
\* wallet.
ViewSettles ==
    <>[][UNCHANGED <<chain, wallet>> /\ ~Failing]_contextVars => <>[]Settled
=============================================================================
