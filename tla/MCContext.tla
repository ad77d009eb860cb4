----------------------------- MODULE MCContext -----------------------------
EXTENDS AppContext, TLC

CONSTANTS w1, noWallet

Over == [NewAccount EXCEPT !.status = "Settled"]

\* w1 has a stake in batch 1 once it left its lobby; the others are over, and
\* the account of batch 0 is of a size the app does not know.
With(status, filled) ==
    [Genesis EXCEPT
        !.next = 3,
        !.batch = (0 :> Over) @@ (2 :> Over) @@
                  (1 :> [NewAccount EXCEPT !.status = status, !.filled = filled]),
        !.pos[w1][1] = IF status = "Lobby" THEN NoPosition
                       ELSE [NoPosition EXCEPT !.open = TRUE, !.stake = TRUE]]

\* Batch 1 is in its lobby, or has its last bet running.
MCStarts == {With("Lobby", {}), With("Active", {0})}

MCAsked ==
    {JoinRequest(1), LeaveRequest(1), VoteRequest(1, 0), DefaultRequest(1), ClaimRequest(1),
     WagerRequest(1)}
=============================================================================
