------------------------------ MODULE LivePage -----------------------------
(***************************************************************************)
(* The live page (app/page.tsx) and its voting panel                       *)
(* (components/ConsensusVoting.tsx) over the program context.              *)
(*                                                                         *)
(* The page shows the selected batch when it is Active, else the highest   *)
(* Active one; it describes that batch's bet_terms asynchronously, once    *)
(* per change, and hands the result to the panel.  The panel keeps its own *)
(* copy of the user's vote, seeded from the chain, and is thrown away      *)
(* whenever the loading skeleton takes its place.  Other pages are not     *)
(* open: what the user asks for here is votes.                             *)
(***************************************************************************)
EXTENDS AppContext

CONSTANT MaxDescribing   \* bound: descriptions in flight

VARIABLES
    proposals,       \* betTermProposals, as the batch state they describe
    describing,      \* calls of describeBatchBetTerms in flight, in order
    panel,           \* the panel's state, NoPanel while it is not mounted
    voteSlot         \* votingSlot: the slot the panel is voting for

pageVars == <<proposals, describing, panel, voteSlot>>
liveVars == <<contextVars, pageVars>>

NoProposals == [batch |-> NoBatch, version |-> 0]

NoPanel == [mounted |-> FALSE, seed |-> NoneYet, voted |-> NoneYet, chosen |-> NoneYet]
FreshPanel(seed) == [mounted |-> TRUE, seed |-> seed, voted |-> seed, chosen |-> seed]

-----------------------------------------------------------------------------
Live == LiveBatch(shown, selected)
LiveState == Fetched(shown, Live)

\* The slots of the batch state the proposals were made from.
ProposedSlots ==
    IF proposals.batch = NoBatch THEN {}
    ELSE ledger[proposals.version].batch[proposals.batch].filled

\* Mutant of VotingCompleted: only while collateral is awaited.
VotingCompletedAwaiting == LiveState.rawStatus = "AwaitingCollateral"

VotingCompleted == LiveState.rawStatus \in {"AwaitingCollateral", "Active"}

CanVote == wallet # NoWallet /\ LiveState.deposited

\* What handleVoteSlot checks, and that the button is there at all.
VoteEnabled ==
    /\ panel.mounted
    /\ ProposedSlots # {}
    /\ panel.chosen # NoneYet
    /\ CanVote
    /\ ~VotingCompleted
    /\ voteSlot = NoneYet

-----------------------------------------------------------------------------
(***************************************************************************)
(* The effects that follow a change of the context.                        *)
(***************************************************************************)
\* The description effect: no live batch clears the proposals, a changed one
\* starts another description.
Describe ==
    LET live == LiveBatch(shown', selected')
    IN  CASE live = NoBatch -> proposals' = NoProposals /\ UNCHANGED describing
          [] live # NoBatch /\ (shown' # shown \/ live # Live) ->
                /\ Len(describing) < MaxDescribing
                /\ describing' = Append(describing,
                      [batch |-> live, version |-> shown'.batches, superseded |-> FALSE])
                /\ UNCHANGED proposals
          [] OTHER -> UNCHANGED <<proposals, describing>>

\* The seed effect: on mount, and when userVotedIndex changes.
Seeded(p, seed) == IF p.mounted /\ p.seed = seed THEN p ELSE FreshPanel(seed)

\* The panel is rendered unless the page is loading or has no live batch.
Render ==
    LET live == LiveBatch(shown', selected')
    IN  IF isLoading' \/ live = NoBatch
        THEN panel' = NoPanel /\ voteSlot' = NoneYet
        ELSE panel' = Seeded(panel, Fetched(shown', live).votedIndex) /\ UNCHANGED voteSlot

\* What the context does, when no vote of the panel ends with it.
ContextMoves ==
    /\ ContextNext
    /\ ~(Throw \/ RefreshBalance)
    /\ Describe
    /\ Render

-----------------------------------------------------------------------------
(***************************************************************************)
(* The page's own steps.                                                   *)
(***************************************************************************)
\* Mutant of Superseding: descriptions are applied in the order of arrival.
SupersedingNever(k) ==
    [i \in 1..(Len(describing) - 1) |-> IF i < k THEN describing[i] ELSE describing[i + 1]]

\* The descriptions left when the k-th is applied: the older ones are
\* superseded.
Superseding(k) ==
    [i \in 1..(Len(describing) - 1) |->
        IF i < k THEN [describing[i] EXCEPT !.superseded = TRUE] ELSE describing[i + 1]]

ProposalsArrive(k) ==
    LET d == describing[k]
    IN  /\ IF d.superseded
           THEN /\ describing' = [i \in 1..(Len(describing) - 1) |->
                                    IF i < k THEN describing[i] ELSE describing[i + 1]]
                /\ UNCHANGED proposals
           ELSE /\ proposals' = [batch |-> d.batch, version |-> d.version]
                /\ describing' = Superseding(k)
        /\ UNCHANGED <<contextVars, panel, voteSlot>>

\* A row of the panel is clicked: chosen, or not any more.
Choose(i) ==
    /\ panel.mounted /\ ProposedSlots # {}
    /\ i \in ProposedSlots \cup {SkipVote}
    /\ CanVote /\ ~VotingCompleted
    /\ i # panel.voted
    /\ panel' = [panel EXCEPT !.chosen = IF i = @ THEN NoneYet ELSE i]
    /\ UNCHANGED <<contextVars, proposals, describing, voteSlot>>

\* handleVoteSlot: the request is for the selected batch.
Vote ==
    /\ VoteEnabled
    /\ Submit(VoteRequest(selected, panel.chosen))
    /\ voteSlot' = panel.chosen
    /\ UNCHANGED <<proposals, describing, panel>>

\* The vote ended: recorded by the panel that asked, if it is still there.
VoteEnds ==
    /\ \/ RefreshBalance /\ panel' = [panel EXCEPT !.voted = IF voteSlot = NoneYet THEN @ ELSE voteSlot]
       \/ Throw /\ UNCHANGED panel
    /\ voteSlot' = NoneYet
    /\ UNCHANGED <<proposals, describing>>

LiveInit ==
    /\ ContextInit
    /\ proposals = NoProposals /\ describing = <<>>
    /\ panel = NoPanel /\ voteSlot = NoneYet

LiveNext ==
    \/ ContextMoves
    \/ \E k \in 1..Len(describing) : ProposalsArrive(k)
    \/ \E i \in 0..4 : Choose(i)
    \/ Vote
    \/ VoteEnds

LiveSpec == LiveInit /\ [][LiveNext]_liveVars

-----------------------------------------------------------------------------
(***************************************************************************)
(* Properties.                                                             *)
(***************************************************************************)
\* When every description has been answered, the proposals on the page are
\* those of the batch it shows, in the version it shows: answers out of order
\* never leave the match of another batch, or of an earlier round, above the
\* vote buttons.
ProposalsAreLive ==
    describing = <<>> /\ Live # NoBatch =>
        proposals = [batch |-> Live, version |-> shown.batches]

\* With the screen up to date and the selected batch on it, the program refuses
\* the vote the panel offers on a proposed slot for nothing but the cut-off
\* before the kickoff, which the panel does not look at: whoever may click
\* has a position, the batch is Locked and the slot is on its slate.
OnlyCutoffRefusesVote ==
    (/\ Settled /\ describing = <<>> /\ selected = Live
     /\ VoteEnabled /\ panel.chosen \in ProposedSlots \cup {SkipVote})
        => \/ Accepts(wallet, VoteRequest(selected, panel.chosen))
           \/ /\ chain.batch[selected].closed
              /\ Votable(chain.batch[selected], chain.pos[wallet][selected], panel.chosen)

\* At rest the panel marks as voted what the chain holds: "Seed from the real
\* on-chain vote, not just this session's local state".
VotedBadgeIsReal ==
    Settled /\ tx = NoTx /\ panel.mounted => panel.voted = LiveState.votedIndex

\* Whoever can click Vote votes on the batch whose proposals are on the page:
\* "For proposals recovered straight from bet_terms (describeBatchBetTerms) -
\* the slot index (0-3) is already known".
VoteIsForTheShownBatch == VoteEnabled => selected = Live
=============================================================================
