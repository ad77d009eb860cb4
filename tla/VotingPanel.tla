---------------------------- MODULE VotingPanel -----------------------------
(***************************************************************************)
(* The voting panel of the live page on one batch: the option it shows as  *)
(* leading or decided, and the default it lets anybody settle, against     *)
(* what finalize_consensus and settle_default then do with the batch.      *)
(***************************************************************************)
EXTENDS UndegenCore

CONSTANT SettleDefaultAfter      \* SETTLE_DEFAULT_AFTER_MS

ASSUME PanelConstants == SettleDefaultAfter \in Nat

-----------------------------------------------------------------------------
NoSlot == -1

TotalWeight == MapThenSumSet(LAMBDA i : voteWeights[i], Options)

\* Mutant of LeadingSlot: only the options of the slate can lead.
LeadingSlotOfSlate ==
    IF TotalWeight = 0 THEN NoSlot
    ELSE CHOOSE i \in 0..3 :
            /\ \A j \in 0..3 : voteWeights[j] <= voteWeights[i]
            /\ \A j \in 0..3 : j < i => voteWeights[j] < voteWeights[i]

\* The first of the greatest weights, NoSlot before any vote.
LeadingSlot ==
    IF TotalWeight = 0 THEN NoSlot
    ELSE CHOOSE i \in Options :
            /\ \A j \in Options : voteWeights[j] <= voteWeights[i]
            /\ \A j \in Options : j < i => voteWeights[j] < voteWeights[i]

VotingCompleted == status \in {"AwaitingCollateral", "Active"}

\* decidedSlot: the option on chain, with the leader as a fallback.
DecidedSlot ==
    CASE ~VotingCompleted -> NoSlot
      [] VotingCompleted /\ winningVote # NoWinner -> winningVote
      [] OTHER -> LeadingSlot

\* The button of an active bet, some time after its kickoff (a batch without
\* a kickoff has no active bet).
DefaultOffered ==
    /\ status = "Active"
    /\ kickoff > 0
    /\ now >= kickoff + SettleDefaultAfter

-----------------------------------------------------------------------------
(***************************************************************************)
(* Properties.                                                             *)
(***************************************************************************)
\* Another option has the weight of the leading one.
Tied == Cardinality({i \in Options : voteWeights[i] = voteWeights[LeadingSlot]}) > 1

\* The ballot as the panel shows it is the ballot the program counts: the
\* option shown as leading is the one finalizing now would decide, or Skip is
\* if another ties with it; and the option shown as decided is that option.
LeaderIsConsensus ==
    LeadingSlot # NoSlot =>
        /\ Consensus(voteWeights) = IF Tied THEN Skip ELSE LeadingSlot
        /\ VotingCompleted => DecidedSlot = IF Tied THEN Skip ELSE LeadingSlot

\* A default the panel offers is one settle_default accepts, and an active
\* bet whose proof deadline has passed is offered: nobody is told to wait
\* for an operator who can no longer answer.
DefaultIsDue == status = "Active" => (DefaultOffered <=> CanDefault)

\* What the panel says of the bet is what the program does with it.
PanelTellsTheBet == LeaderIsConsensus /\ DefaultIsDue
=============================================================================
