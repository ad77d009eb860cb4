---------------------------- MODULE LotteryPage -----------------------------
(***************************************************************************)
(* The lottery page: what the app shows a buyer of each round, decoded     *)
(* from the same accounts the program reads.  The page polls them; it has  *)
(* no state of its own here, and the properties compare what it offers     *)
(* with what the instructions accept.                                      *)
(***************************************************************************)
EXTENDS Lottery

-----------------------------------------------------------------------------
\* The rounds fetchAllLotteryRoundsOnChain decodes: 1 to current_round_id.
Rounds == {r \in RoundIds : round[r].status # "None"}

\* An entry account without tickets is not shown.
HasEntry(r, b) == entry[r][b].amount > 0

\* Mutant of IsWinner: the range includes its end.
IsWinnerInclusive(r, b) ==
    /\ HasEntry(r, b)
    /\ entry[r][b].start <= round[r].winningNumber
    /\ round[r].winningNumber <= entry[r][b].end

IsWinner(r, b) ==
    /\ HasEntry(r, b)
    /\ entry[r][b].start <= round[r].winningNumber
    /\ round[r].winningNumber < entry[r][b].end

\* roundRowBadge: a round not drawn yet never shows a winner, although its
\* winning number, 0, lies in somebody's range.
Badge(r, b) ==
    CASE round[r].status = "Open" -> "Buy Ticket"
      [] round[r].status = "RandomnessRequested" -> "Drawing"
      [] OTHER -> IF IsWinner(r, b)
                  THEN IF entry[r][b].claimed THEN "Claimed" ELSE "Claimable"
                  ELSE "View"

\* The panel of a round chosen from the list; one on sale is chosen to buy.
Result(r, b) ==
    CASE ~HasEntry(r, b) -> "Did not play"
      [] HasEntry(r, b) /\ round[r].status = "RandomnessRequested" -> "Drawing"
      [] HasEntry(r, b) /\ round[r].status # "RandomnessRequested" ->
            IF IsWinner(r, b)
            THEN IF entry[r][b].claimed THEN "Claimed" ELSE "Claim Prize"
            ELSE "Not a winner"

-----------------------------------------------------------------------------
(***************************************************************************)
(* What the page sends.                                                    *)
(***************************************************************************)
\* The round the page sells: the first open one it has.
OpenRound ==
    LET open == {r \in Rounds : round[r].status = "Open"}
    IN  IF open = {} THEN 0 ELSE Min(open)

CanBuy(b, amount) ==
    /\ OpenRound # 0
    /\ amount > 0 /\ amount <= tok[b]

\* fetchActiveLotteryRound: the current round, while it is open.
ActiveRound ==
    IF currentRound > 0 /\ round[currentRound].status = "Open" THEN currentRound ELSE 0

\* buyTicketOnChain takes the round from the chain, not from the page, and
\* throws when there is none; claimPrizeOnChain takes it from the page.
TicketOf(b, amount) == [round |-> ActiveRound, buyer |-> b, amount |-> amount]
ClaimOf(r, b) == [round |-> r, buyer |-> b]

\* What the program asks of them (BuyTicket, ClaimPrize).
Sold(t) == t.amount > 0 /\ CanPay(tok, t.buyer, t.amount) /\ OnSale(t.round)
Paid(c) == HoldsWinner(c.round, c.buyer) /\ tok[Jackpot[c.round]] > 0

-----------------------------------------------------------------------------
(***************************************************************************)
(* Properties.                                                             *)
(***************************************************************************)
\* Of a drawn round the prize is offered to somebody and to nobody whose claim
\* would be refused; of a settled round exactly one buyer is told to have
\* claimed it.  The list of rounds and the panel of a round say the same.
PrizeReachesWinner ==
    \A r \in Rounds :
        LET told(b) == Badge(r, b)
        IN  /\ round[r].status = "Drawn" =>
                 /\ \E b \in Buyers : told(b) = "Claimable"
                 /\ \A b \in Buyers : told(b) = "Claimable" => Paid(ClaimOf(r, b))
                 /\ \A b \in Buyers : told(b) # "Claimed"
            /\ round[r].status = "Settled" =>
                 \E b \in Buyers : \A c \in Buyers : told(c) = "Claimed" <=> c = b
            /\ \A b \in Buyers : round[r].status # "Open" =>
                 /\ told(b) = "Claimable" <=> Result(r, b) = "Claim Prize"
                 /\ told(b) = "Claimed" <=> Result(r, b) = "Claimed"

\* A ticket the page offers is sold, unless the service finds no open round.
OfferedTicketIsSold ==
    \A b \in Buyers, amount \in TicketAmounts :
        CanBuy(b, amount) /\ ActiveRound # 0 => Sold(TicketOf(b, amount))

\* The chance shown, the tickets' part of the pool, is not above that of the
\* range drawn from: what the buyer paid for is in the range, whole.
ChanceIsHonest ==
    \A r \in Rounds, b \in Buyers :
        HasEntry(r, b) =>
            /\ entry[r][b].amount <= entry[r][b].end - entry[r][b].start
            /\ entry[r][b].end <= round[r].totalPool

\* What the lottery page offers and promises, the program keeps.
OffersAreKept == PrizeReachesWinner /\ OfferedTicketIsSold /\ ChanceIsHonest
=============================================================================
