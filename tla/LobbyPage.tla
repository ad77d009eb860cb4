----------------------------- MODULE LobbyPage ------------------------------
(***************************************************************************)
(* The stake panel of a batch in its lobby: which stakes and exits the app *)
(* lets a user send, against what join_batch and leave_batch then accept.  *)
(* Amounts are in base units, as the app sends them.                       *)
(***************************************************************************)
EXTENDS UndegenCore

-----------------------------------------------------------------------------
\* The countdown has reached lobbyExpiresAt.
Expired == now >= createdAt + LobbyExpiry

\* handleDeposit, of any amount: minimumDeposit is always 0.
CanStake == status = "Lobby" /\ ~Expired

\* handleWithdraw: an expired lobby can still be left, in parts or in full.
CanUnstake(u, amount) ==
    /\ status = "Lobby"
    /\ amount > 0
    /\ amount <= pos[u].deposited

\* Math.floor of an amount in tokens times 10 ** 6: the amount is a float, so
\* that one base unit may be missing (1.005 gives 1004999).
Floored(amount) == {amount, Monus(amount, 1)}

\* calcPercentageAmount: the quick-select buttons round down; MAX is exact.
Percentage(balance, pct) ==
    IF pct >= 100 THEN {balance} ELSE Floored((balance * pct) \div 100)

\* The exits a user can ask for: any amount, or a quick-select button.
UnstakeAmounts(u) ==
    Stakes \cup UNION {Percentage(pos[u].deposited, pct) : pct \in {25, 50, 75, 100}}

\* The exits the panel offers, as leave_batch receives them.
Exits(u) == UNION {Floored(a) : a \in {b \in UnstakeAmounts(u) : CanUnstake(u, b)}}

-----------------------------------------------------------------------------
(***************************************************************************)
(* Properties.                                                             *)
(***************************************************************************)
\* No stake the panel takes is refused for being late.  In an open or expired
\* lobby, whatever others staked or left with before, an exit it offers is
\* paid if it is full or takes a share along, however the app has rounded it;
\* and a full exit that lost a base unit on the way (MAX) leaves a share for
\* it, so that the rest can be left in full.  Stakes of nothing or of less
\* than a share, and exits of less than a share, are offered and refused.
LobbyCanBeLeft ==
    /\ CanStake => LobbyOpen
    /\ \A u \in Users : \A a \in Exits(u) :
         LET s == SharesLeaving(u, a)
         IN  /\ s > 0 \/ a = pos[u].deposited =>
                   CanWithdraw(Batch, s) /\ CanPay(tok, VaultAcct, Worth(s))
             /\ a < pos[u].deposited => s < pos[u].shares
=============================================================================
