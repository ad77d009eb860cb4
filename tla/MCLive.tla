------------------------------- MODULE MCLive ------------------------------
EXTENDS LivePage, TLC

CONSTANTS w1, noWallet

Joined == [NoPosition EXCEPT !.open = TRUE, !.stake = TRUE]
Round(status, bets, filled) ==
    [NewAccount EXCEPT !.status = status, !.bets = bets, !.filled = filled,
                       !.closed = (status # "Locked")]

\* Both batches are live and the user staked in both: the bet of batch 0, on
\* which the user voted, is covered, and batch 1 is being voted on.
TwoLive ==
    [Genesis EXCEPT
        !.next = 2,
        !.batch = (0 :> [Round("Active", 0, {0}) EXCEPT !.winner = 0]) @@ (1 :> Round("Locked", 0, {0})),
        !.pos[w1] = (0 :> [Joined EXCEPT !.voted = TRUE]) @@ (1 :> Joined)]

MCStarts == {TwoLive}

\* Batch 0 is being voted on, and the last bet of batch 1 is covered.
LastBet ==
    [TwoLive EXCEPT
        !.batch = (0 :> Round("Locked", 0, {0})) @@ (1 :> [Round("Active", 1, {0}) EXCEPT !.winner = 0]),
        !.pos[w1] = [b \in Batches |-> Joined]]

MCLastBetStarts == {LastBet}
=============================================================================
