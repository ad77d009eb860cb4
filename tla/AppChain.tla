----------------------------- MODULE AppChain ------------------------------
(***************************************************************************)
(* The undegen_core accounts as the web app sees them: the protocol        *)
(* configuration's next batch id, every Batch and every UserPosition,      *)
(* without tokens and vote weights, and of the clock only whether a        *)
(* batch's voting is over.  A user's instruction is accepted or aborts by  *)
(* what is here alone; the operator's, the passage of deadlines and the    *)
(* lottery's rounds are free choices.                                      *)
(*                                                                         *)
(* UndegenCore is shown to implement this for its one batch (module        *)
(* CoreAsSeen), so what the app modules learn about the chain is what the  *)
(* program really lets them see.                                           *)
(***************************************************************************)
EXTENDS Integers

CONSTANTS
    Wallets,         \* signers
    Batches,         \* ids of batches
    Slates,          \* slots the operator may fill
    MaxBets          \* MAX_BETS

ASSUME ChainConstants ==
    /\ 0 \in Batches /\ Batches \subseteq Nat
    /\ \A b \in Batches \ {0} : b - 1 \in Batches
    /\ Slates \subseteq (SUBSET (0..3)) \ {{}}
    /\ MaxBets \in Nat \ {0}

VARIABLE chain

SkipVote == 4
NoneYet == 5                          \* null: no winner, no vote

\* The batch accounts, Settled when no bet is left; those from id next on do
\* not exist.  closed: the cut-off before the kickoff has passed, as it has
\* when there is no kickoff.
BatchAccount ==
    {b \in [status : {"Lobby", "Locked", "AwaitingCollateral", "Active", "Settled"},
            bets : 0..MaxBets, filled : SUBSET (0..3), winner : 0..5, closed : BOOLEAN] :
        b.status = "Settled" \/ b.bets < MaxBets}

\* The position accounts; stake tells whether deposited_amount is positive,
\* which takes an account.
PositionAccount ==
    {p \in [open : BOOLEAN, stake : BOOLEAN, voted : BOOLEAN, vote : 0..4,
            round : 0..MaxBets, claimed : BOOLEAN] : p.stake => p.open}

NewAccount == [status |-> "Lobby", bets |-> 0, filled |-> {}, winner |-> NoneYet,
               closed |-> TRUE]
NoPosition == [open |-> FALSE, stake |-> FALSE, voted |-> FALSE, vote |-> 0,
               round |-> 0, claimed |-> FALSE]

ChainState ==
    [next : Nat, batch : [Batches -> BatchAccount], pos : [Wallets -> [Batches -> PositionAccount]]]

Genesis ==
    [next |-> 0, batch |-> [b \in Batches |-> NewAccount],
     pos |-> [u \in Wallets |-> [b \in Batches |-> NoPosition]]]

Exists(b) == b < chain.next

-----------------------------------------------------------------------------
(***************************************************************************)
(* A user's instructions.                                                  *)
(***************************************************************************)
NoBatch == -1                         \* no batch is selected, or none is listed

\* What a user can ask for; slot is the index of a vote.
Requests ==
    [kind : {"join", "leave", "claim", "wager", "default"}, batch : Batches \cup {NoBatch}, slot : {0}]
        \cup [kind : {"vote"}, batch : Batches \cup {NoBatch}, slot : 0..4]

\* The transactions the service builds, without their amounts: whether an
\* account they name exists is left to the preflight.
JoinRequest(b) == [kind |-> "join", batch |-> b, slot |-> 0]
LeaveRequest(b) == [kind |-> "leave", batch |-> b, slot |-> 0]
ClaimRequest(b) == [kind |-> "claim", batch |-> b, slot |-> 0]
WagerRequest(b) == [kind |-> "wager", batch |-> b, slot |-> 0]    \* claim_and_join_lottery
VoteRequest(b, i) == [kind |-> "vote", batch |-> b, slot |-> i]
DefaultRequest(b) == [kind |-> "default", batch |-> b, slot |-> 0]

\* What cast_vote asks for besides the time.
Votable(b, p, slot) == p.open /\ b.status = "Locked" /\ slot \in b.filled \cup {SkipVote}

\* Whether the program takes the request of u now.  A lobby that has expired, a
\* default that is not due or an amount may still refuse it (AppContext:
\* Revert, Throw).
Accepts(u, r) ==
    /\ r.batch \in Batches
    /\ Exists(r.batch)
    /\ LET b == chain.batch[r.batch]
           p == chain.pos[u][r.batch]
       IN  CASE r.kind = "join" -> b.status = "Lobby"
             [] r.kind = "leave" -> b.status = "Lobby" /\ p.stake
             [] r.kind = "vote" -> Votable(b, p, r.slot) /\ ~b.closed
             [] r.kind \in {"claim", "wager"} -> b.status = "Settled" /\ p.stake /\ ~p.claimed
             [] r.kind = "default" -> b.status \in {"AwaitingCollateral", "Active"}

\* The batch after a bet that counts.
BetEnded(b) ==
    [b EXCEPT !.bets = @ + 1, !.filled = {}, !.winner = NoneYet, !.closed = TRUE,
              !.status = IF b.bets + 1 >= MaxBets THEN "Settled" ELSE "Locked"]

\* The position after the request; one without stake is initialized by a join.
PositionAfter(p, b, r) ==
    CASE r.kind = "join" -> IF p.stake THEN p ELSE [NoPosition EXCEPT !.open = TRUE, !.stake = TRUE]
      [] r.kind = "leave" -> [p EXCEPT !.stake = FALSE]
      [] r.kind = "vote" -> [p EXCEPT !.voted = TRUE, !.vote = r.slot, !.round = b.bets]
      [] r.kind \in {"claim", "wager"} -> [p EXCEPT !.claimed = TRUE]
      [] OTHER -> p

\* The request of u is executed.
Execute(u, r) ==
    /\ Accepts(u, r)
    /\ chain' = [chain EXCEPT
                    !.pos[u][r.batch] = PositionAfter(@, chain.batch[r.batch], r),
                    !.batch[r.batch] = IF r.kind = "default" THEN BetEnded(@) ELSE @]

-----------------------------------------------------------------------------
(***************************************************************************)
(* The operator's instructions, and those anyone may crank.                *)
(***************************************************************************)
NewBatch ==
    /\ chain.next \in Batches
    /\ chain' = [chain EXCEPT !.next = @ + 1]

Start(b) ==
    /\ Exists(b) /\ chain.batch[b].status = "Lobby"
    /\ \E u \in Wallets : chain.pos[u][b].stake
    /\ chain' = [chain EXCEPT !.batch[b].status = "Locked"]

\* Proposing again replaces the slate, and the kickoff, which may be past.
Propose(b, filled) ==
    /\ Exists(b) /\ chain.batch[b].status = "Locked"
    /\ \E late \in BOOLEAN :
          chain' = [chain EXCEPT !.batch[b].filled = filled, !.batch[b].closed = late]

\* Time passes the cut-off of a batch that has a kickoff.
CutOff(b) ==
    /\ ~chain.batch[b].closed
    /\ chain' = [chain EXCEPT !.batch[b].closed = TRUE]

Finalize(b, w) ==
    /\ Exists(b) /\ chain.batch[b].status = "Locked" /\ chain.batch[b].closed
    /\ w \in chain.batch[b].filled \cup {SkipVote}
    /\ chain' = [chain EXCEPT !.batch[b].winner = w, !.batch[b].status = "AwaitingCollateral"]

Cover(b) ==
    /\ Exists(b) /\ chain.batch[b].status = "AwaitingCollateral"
    /\ chain.batch[b].winner # SkipVote
    /\ chain' = [chain EXCEPT !.batch[b].status = "Active"]

\* A covered Skip, a proof or a default.
EndBet(b) ==
    /\ Exists(b) /\ chain.batch[b].status \in {"AwaitingCollateral", "Active"}
    /\ chain' = [chain EXCEPT !.batch[b] = BetEnded(@)]

\* Collateral that never came: the round is played again.
MissBet(b) ==
    /\ Exists(b) /\ chain.batch[b].status = "AwaitingCollateral"
    /\ chain' = [chain EXCEPT !.batch[b].status = "Locked", !.batch[b].filled = {},
                              !.batch[b].winner = NoneYet, !.batch[b].closed = TRUE]

OperatorNext ==
    \/ NewBatch
    \/ \E b \in Batches :
          \/ Start(b)
          \/ \E filled \in Slates : Propose(b, filled)
          \/ CutOff(b)
          \/ \E w \in 0..4 : Finalize(b, w)
          \/ Cover(b)
          \/ EndBet(b)
          \/ MissBet(b)

ChainNext == OperatorNext \/ \E u \in Wallets, r \in Requests : Execute(u, r)

ChainSpec == chain = Genesis /\ [][ChainNext]_chain
=============================================================================
