--------------------------- MODULE BatchLifecycle ---------------------------
(***************************************************************************)
(* What a batch promises, without votes, clocks, vault or token accounts:  *)
(* the order of its phases, what may end a bet, who gets the escrow of a   *)
(* bet that ends, and when the operator's entitlement is cut.  UndegenCore *)
(* implements it (Lifecycle!Spec there).                                   *)
(***************************************************************************)
EXTENDS Naturals

CONSTANT MaxBets

VARIABLES
    phase,         \* "None", "Lobby", "Locked", "AwaitingCollateral", "Active", "Settled"
    wins, losses, skips,
    escrow,        \* collateral of the bet being played
    winnings,      \* escrow the users have won
    entitlement    \* operator's share of the yield, in basis points

lifecycleVars == <<phase, wins, losses, skips, escrow, winnings, entitlement>>

Init ==
    /\ phase = "None"
    /\ wins = 0 /\ losses = 0 /\ skips = 0
    /\ escrow = 0 /\ winnings = 0
    /\ entitlement = 10000

Cut == IF entitlement >= 2000 THEN entitlement - 2000 ELSE 0

\* A phase change that touches nothing else.
Enter(from, to) ==
    /\ phase = from
    /\ phase' = to
    /\ UNCHANGED <<wins, losses, skips, escrow, winnings, entitlement>>

Open == Enter("None", "Lobby")
Lock == Enter("Lobby", "Locked")
Decide == Enter("Locked", "AwaitingCollateral")

\* The operator covers the bet.
Cover ==
    /\ phase = "AwaitingCollateral"
    /\ phase' = "Active"
    /\ escrow' \in Nat
    /\ UNCHANGED <<wins, losses, skips, winnings, entitlement>>

\* The operator does not cover it: the bet is void and does not count.
Miss ==
    /\ phase = "AwaitingCollateral"
    /\ phase' = "Locked"
    /\ entitlement' = Cut
    /\ UNCHANGED <<wins, losses, skips, escrow, winnings>>

\* A bet ends: its escrow is gone and the batch goes on or is settled.
End ==
    /\ phase' = IF wins + losses + skips + 1 = MaxBets THEN "Settled" ELSE "Locked"
    /\ escrow' = 0

Win ==
    /\ phase = "Active"
    /\ End
    /\ wins' = wins + 1
    /\ winnings' = winnings + escrow
    /\ UNCHANGED <<losses, skips, entitlement>>

Lose ==
    /\ phase = "Active"
    /\ End
    /\ losses' = losses + 1
    /\ UNCHANGED <<wins, skips, winnings, entitlement>>

Pass ==
    /\ phase = "AwaitingCollateral"
    /\ End
    /\ skips' = skips + 1
    /\ UNCHANGED <<wins, losses, winnings, entitlement>>

Default ==
    /\ phase \in {"AwaitingCollateral", "Active"}
    /\ End
    /\ wins' = wins + 1
    /\ winnings' = winnings + escrow
    /\ entitlement' = Cut
    /\ UNCHANGED <<losses, skips>>

Next == Open \/ Lock \/ Decide \/ Cover \/ Miss \/ Win \/ Lose \/ Pass \/ Default

Spec == Init /\ [][Next]_lifecycleVars
=============================================================================
