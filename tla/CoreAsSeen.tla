---------------------------- MODULE CoreAsSeen -----------------------------
(***************************************************************************)
(* What the app sees of the undegen_core program (module UndegenCore).     *)
(***************************************************************************)
EXTENDS UndegenCore

SeenPosition(u) ==
    [open |-> pos[u].open, stake |-> pos[u].deposited > 0, voted |-> pos[u].hasVoted,
     vote |-> pos[u].voteIndex, round |-> pos[u].votedRound, claimed |-> pos[u].claimed]

\* The cut-off has passed; with the kickoff at 0 it has.
VotingClosed == now >= Monus(kickoff, VoteCutoff)

SeenBatch ==
    [status |-> IF status = "None" THEN "Lobby" ELSE status,
     bets |-> betsCompleted, filled |-> slate, winner |-> winningVote,
     closed |-> VotingClosed]

Seen ==
    [next |-> IF status = "None" THEN 0 ELSE 1,
     batch |-> [b \in {0} |-> SeenBatch],
     pos |-> [u \in Users |-> [b \in {0} |-> SeenPosition(u)]]]

App == INSTANCE AppChain WITH
    Wallets <- Users, Batches <- {0}, chain <- Seen

\* Every instruction of undegen_core is, on the fields the app decodes, one of
\* the steps the app's own model of the chain allows: the two sides agree on
\* what a request changes and on when it is accepted.
AppSeesCore == App!ChainSpec
=============================================================================
