------------------------------ MODULE Lottery -------------------------------
(***************************************************************************)
(* The lottery program: numbered rounds with one jackpot each.             *)
(*                                                                         *)
(* The LotteryConfig is created once; Init is the state after that.  A     *)
(* round is a Round account with its jackpot token account, an entry the   *)
(* Entry account of one buyer in one round (amount 0 before it exists).    *)
(*                                                                         *)
(* Switchboard (external) commits and reveals the randomness: what it can  *)
(* answer is any value of RandomValues, in the slot in which reveal_winner *)
(* runs, so that the oracle's reveal is part of RevealWinner.              *)
(***************************************************************************)
EXTENDS Tokens, Clock, FiniteSetsExt

CONSTANTS
    Buyers,          \* signers that may buy tickets, with their token accounts
    MaxRounds,       \* bound of current_round_id
    Jackpot,         \* jackpot_token_account of each round
    RoundDuration,   \* ROUND_DURATION_SECONDS
    TicketAmounts,   \* amounts of buy_ticket
    RandomValues     \* the first eight bytes the oracle may reveal

RoundIds == 1..MaxRounds

ASSUME LotteryConstants ==
    /\ MaxRounds \in Nat
    /\ Buyers \subseteq TokenAccounts
    /\ Jackpot \in [RoundIds -> TokenAccounts \ Buyers]
    /\ \A r, q \in RoundIds : Jackpot[r] = Jackpot[q] => r = q
    /\ RoundDuration \in Nat
    /\ TicketAmounts \subseteq Nat
    /\ RandomValues \subseteq Nat
    /\ InitialTokens \in [TokenAccounts -> Nat]
    /\ \A r \in RoundIds : InitialTokens[Jackpot[r]] = 0

ASSUME FiniteBuyers == IsFiniteSet(Buyers)

VARIABLES
    currentRound,    \* LotteryConfig.current_round_id
    round,           \* the Round account of each round id
    entry            \* the Entry account of each round id and buyer

lotteryVars == <<currentRound, round, entry>>
lotterySystemVars == <<currentRound, round, entry, tok, now>>

RoundPhases == {"None", "Open", "RandomnessRequested", "Drawn", "Settled"}

Round == [status : RoundPhases, totalPool : Nat, winningNumber : Nat, startTime : Nat]

Entry == [amount : Nat, start : Nat, end : Nat, claimed : BOOLEAN]

NoRound == [status |-> "None", totalPool |-> 0, winningNumber |-> 0, startTime |-> 0]

NoEntry == [amount |-> 0, start |-> 0, end |-> 0, claimed |-> FALSE]

LotteryInit ==
    /\ currentRound = 0
    /\ round = [r \in RoundIds |-> NoRound]
    /\ entry = [r \in RoundIds |-> [b \in Buyers |-> NoEntry]]

-----------------------------------------------------------------------------
\* The admin may open a round while earlier ones are still running.
StartRound ==
    /\ currentRound < MaxRounds
    /\ currentRound' = currentRound + 1
    /\ round' = [round EXCEPT ![currentRound + 1] =
                    [NoRound EXCEPT !.status = "Open", !.startTime = now]]
    /\ UNCHANGED <<entry, tok, now>>

\* Mutants of Ticket: a top-up moves the start of the range; a top-up
\* replaces the amount; the range ends one number short.
TicketRestarted(r, b, amount) ==
    [amount |-> entry[r][b].amount + amount,
     start |-> round[r].totalPool,
     end |-> round[r].totalPool + amount,
     claimed |-> FALSE]

TicketReplaced(r, b, amount) ==
    [amount |-> amount,
     start |-> IF entry[r][b].amount = 0 THEN round[r].totalPool ELSE entry[r][b].start,
     end |-> round[r].totalPool + amount,
     claimed |-> FALSE]

TicketShort(r, b, amount) ==
    [amount |-> entry[r][b].amount + amount,
     start |-> IF entry[r][b].amount = 0 THEN round[r].totalPool + 1 ELSE entry[r][b].start,
     end |-> round[r].totalPool + amount,
     claimed |-> FALSE]

\* The entry of b after a purchase: a buyer who buys again keeps the start of
\* the first ticket and gets the end of the last.
Ticket(r, b, amount) ==
    [amount |-> entry[r][b].amount + amount,
     start |-> IF entry[r][b].amount = 0 THEN round[r].totalPool ELSE entry[r][b].start,
     end |-> round[r].totalPool + amount,
     claimed |-> FALSE]

\* Mutant of OnSale: a round sells until its winner is drawn.
OnSaleUntilDrawn(r) == round[r].status \in {"Open", "RandomnessRequested"}

OnSale(r) == round[r].status = "Open"

\* What buy_ticket does to the lottery's accounts; its callers (BuyTicket
\* here, claim_and_join_lottery by CPI) add the transfer to the jackpot.
TicketSold(r, b, amount) ==
    /\ amount > 0
    /\ OnSale(r)
    /\ entry' = [entry EXCEPT ![r][b] = Ticket(r, b, amount)]
    /\ round' = [round EXCEPT ![r].totalPool = @ + amount]
    /\ UNCHANGED currentRound

BuyTicket(r, b, amount) ==
    /\ CanPay(tok, b, amount)
    /\ TicketSold(r, b, amount)
    /\ tok' = Moved(tok, b, Jackpot[r], amount)
    /\ UNCHANGED now

RequestRandomness(r) ==
    /\ round[r].status = "Open"
    /\ round[r].totalPool > 0
    /\ now >= round[r].startTime + RoundDuration
    /\ round' = [round EXCEPT ![r].status = "RandomnessRequested"]
    /\ UNCHANGED <<currentRound, entry, tok, now>>

\* Mutant of RevealWinner: the random value is not reduced to the pool.
RevealUnreduced(r, value) ==
    /\ round[r].status = "RandomnessRequested"
    /\ round' = [round EXCEPT ![r].status = "Drawn", ![r].winningNumber = value]
    /\ UNCHANGED <<currentRound, entry, tok, now>>

RevealWinner(r, value) ==
    /\ round[r].status = "RandomnessRequested"
    /\ round' = [round EXCEPT ![r].status = "Drawn",
                              ![r].winningNumber = value % round[r].totalPool]
    /\ UNCHANGED <<currentRound, entry, tok, now>>

Covers(e, n) == e.start <= n /\ n < e.end

\* What claim_prize requires of its caller.
HoldsWinner(r, b) ==
    /\ round[r].status = "Drawn"
    /\ ~entry[r][b].claimed
    /\ Covers(entry[r][b], round[r].winningNumber)

\* Mutant of Prize: the winner gets the own stake back.
PrizeIsStake(r, b) == entry[r][b].amount

Prize(r, b) == tok[Jackpot[r]]

\* The first caller whose range holds the number takes the whole jackpot.
ClaimPrize(r, b) ==
    /\ HoldsWinner(r, b)
    /\ tok[Jackpot[r]] > 0
    /\ tok' = Moved(tok, Jackpot[r], b, Prize(r, b))
    /\ entry' = [entry EXCEPT ![r][b].claimed = TRUE]
    /\ round' = [round EXCEPT ![r].status = "Settled"]
    /\ UNCHANGED <<currentRound, now>>

LotteryOp ==
    \/ StartRound
    \/ \E r \in RoundIds :
        \/ \E b \in Buyers, a \in TicketAmounts : BuyTicket(r, b, a)
        \/ RequestRandomness(r)
        \/ \E v \in RandomValues : RevealWinner(r, v)
        \/ \E b \in Buyers : ClaimPrize(r, b)

LotteryTick == TimePasses /\ UNCHANGED <<lotteryVars, tok>>

LotteryNext == LotteryOp \/ LotteryTick

LotteryAloneInit ==
    /\ tok = InitialTokens
    /\ now = 0
    /\ LotteryInit

LotterySpec == LotteryAloneInit /\ [][LotteryNext]_lotterySystemVars

(***************************************************************************)
(* Fairness: reveal_winner is permissionless and the oracle is assumed to  *)
(* answer; the owner of a winning range comes for the prize.  Nobody is    *)
(* assumed to open rounds, buy tickets or, as only the admin can, to       *)
(* request the randomness.                                                 *)
(***************************************************************************)
LotteryFairness ==
    \A r \in RoundIds :
        /\ WF_lotterySystemVars(\E v \in RandomValues : RevealWinner(r, v))
        /\ \A b \in Buyers : WF_lotterySystemVars(ClaimPrize(r, b))

LotteryFairSpec == LotterySpec /\ LotteryFairness

-----------------------------------------------------------------------------
(***************************************************************************)
(* Properties.                                                             *)
(***************************************************************************)
\* Every account holds a value of its type.
LotteryTypeOK ==
    /\ currentRound \in 0..MaxRounds
    /\ round \in [RoundIds -> Round]
    /\ entry \in [RoundIds -> [Buyers -> Entry]]
    /\ tok \in [TokenAccounts -> Nat]
    /\ now \in Nat

\* The jackpot of a round holds exactly what its tickets cost until it is
\* paid, and nothing after: no round pays with the money of another, and the
\* winner leaves nothing behind.
JackpotIsPool ==
    \A r \in RoundIds :
        tok[Jackpot[r]] = IF round[r].status = "Settled" THEN 0 ELSE round[r].totalPool

\* The amounts of the entries add up to the pool the numbers are drawn from.
PoolIsTickets ==
    \A r \in RoundIds :
        round[r].totalPool = MapThenSumSet(LAMBDA b : entry[r][b].amount, Buyers)

\* A drawn round can be claimed: the ranges leave no gap, whatever order the
\* buyers bought and bought again in, so that some entry holds the winning
\* number, and the jackpot is not empty.
WinnerExists ==
    \A r \in RoundIds :
        round[r].status = "Drawn" =>
            /\ \E b \in Buyers : HoldsWinner(r, b)
            /\ tok[Jackpot[r]] > 0

\* Buying again never costs a chance: the range of an entry holds at least as
\* many numbers as its owner paid for, all of them below the pool.
TicketsAreKept ==
    \A r \in RoundIds, b \in Buyers :
        LET e == entry[r][b]
        IN  e.start + e.amount <= e.end /\ e.end <= round[r].totalPool

\* Once the randomness is committed nothing it decides about can change: the
\* pool and every range stay what they were, so nobody can act on the value.
DrawIsBlind ==
    [][\A r \in RoundIds :
        round[r].status \notin {"None", "Open"} =>
            /\ round'[r].totalPool = round[r].totalPool
            /\ \A b \in Buyers : /\ entry'[r][b].start = entry[r][b].start
                                 /\ entry'[r][b].end = entry[r][b].end]_lotterySystemVars

\* A round whose randomness is requested is paid in the end.
PrizeIsPaid ==
    \A r \in RoundIds : round[r].status = "RandomnessRequested" ~> round[r].status = "Settled"

=============================================================================
