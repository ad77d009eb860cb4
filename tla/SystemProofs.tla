---------------------------- MODULE SystemProofs ----------------------------
(***************************************************************************)
(* The lottery and its page for every set of buyers, every number of       *)
(* rounds, every ticket size and every value the oracle may reveal; then   *)
(* the three programs together.                                            *)
(*                                                                         *)
(* The invariant behind WinnerExists is RangesCover: the ranges of the     *)
(* entries leave no number of the pool out.  It is inductive only together *)
(* with TicketsAreKept and BlankEntries (a range ends inside the pool, and *)
(* an entry without tickets is blank), because a purchase extends a range  *)
(* from where it starts and so must not start it beyond a gap.  That the   *)
(* pool is the sum of the tickets rests on the sums of YieldVaultProofs;   *)
(* what the page offers rests on all of these.                             *)
(*                                                                         *)
(* The composition: a step of the system is a step of the open batch       *)
(* program (OpenSpec of UndegenCoreProofs) and of the open lottery         *)
(* (OpenLotterySpec below), so that what was proved of each of them holds  *)
(* of the system, and nothing is proved twice.                             *)
(***************************************************************************)
EXTENDS UndegenSystem, LotteryPage, UndegenBooksProofs

\* The Entry and Round accounts hold values of their types.
EntriesTyped == entry \in [RoundIds -> [Buyers -> Entry]]
RoundsTyped == round \in [RoundIds -> Round]

\* The randomness is only ever requested for a pool that can be divided by.
PoolsNonEmpty ==
    \A r \in RoundIds : round[r].status \notin {"None", "Open"} => round[r].totalPool > 0

\* The entry a purchase writes is one.
LEMMA TicketTypes ==
    ASSUME EntriesTyped, RoundsTyped,
           NEW r \in RoundIds, NEW b \in Buyers, NEW amount \in Nat
    PROVE  Ticket(r, b, amount) \in Entry
<1>1. entry[r][b] \in Entry /\ round[r] \in Round
  BY DEF EntriesTyped, RoundsTyped
<1>2. /\ entry[r][b].amount \in Nat /\ entry[r][b].start \in Nat
      /\ round[r].totalPool \in Nat
  BY <1>1 DEF Entry, Round
<1> QED BY <1>2 DEF Ticket, Entry

\* A purchase keeps the accounts typed.
LEMMA SoldTypes ==
    ASSUME EntriesTyped, RoundsTyped,
           NEW r \in RoundIds, NEW b \in Buyers, NEW amount \in Nat,
           TicketSold(r, b, amount)
    PROVE  EntriesTyped' /\ RoundsTyped'
<1>1. Ticket(r, b, amount) \in Entry
  BY TicketTypes
<1>2. EntriesTyped'
  BY <1>1 DEF TicketSold, EntriesTyped
<1>3. [round[r] EXCEPT !.totalPool = @ + amount] \in Round
  BY DEF RoundsTyped, Round
<1>4. RoundsTyped'
  BY <1>3 DEF TicketSold, RoundsTyped
<1> QED BY <1>2, <1>4

\* A change of status keeps the rounds typed.
LEMMA PhaseTypes ==
    ASSUME RoundsTyped,
           NEW r \in RoundIds, NEW phase \in RoundPhases,
           round' = [round EXCEPT ![r].status = phase]
    PROVE  RoundsTyped'
<1>1. [round[r] EXCEPT !.status = phase] \in Round
  BY DEF RoundsTyped, Round
<1> QED BY <1>1 DEF RoundsTyped

\* A transfer the source can pay keeps the balances natural numbers.
LEMMA MovedIsTyped ==
    ASSUME NEW t \in [TokenAccounts -> Nat],
           NEW x \in TokenAccounts, NEW y \in TokenAccounts, NEW n \in Nat,
           t[x] >= n
    PROVE  Moved(t, x, y, n) \in [TokenAccounts -> Nat]
BY DEF Moved

\* Jackpots and buyers have token accounts, and never the same.
LEMMA Accounts ==
    ASSUME NEW r \in RoundIds, NEW b \in Buyers
    PROVE  /\ Jackpot[r] \in TokenAccounts
           /\ b \in TokenAccounts
           /\ b # Jackpot[r]
           /\ \A q \in RoundIds : Jackpot[q] \in TokenAccounts /\ (Jackpot[q] = Jackpot[r] => q = r)
BY LotteryConstants

\* What holds of the types in every state, strengthened so that it is
\* inductive: reveal_winner divides by the pool.
LotteryTypeInv == LotteryTypeOK /\ PoolsNonEmpty

-----------------------------------------------------------------------------
(***************************************************************************)
(* The open lottery.  Nothing below depends on who pays for a ticket, or   *)
(* on the accounts that are no jackpot: OpenLotterySpec allows a ticket of *)
(* any amount to be paid in any way that fills the jackpot, as             *)
(* claim_and_join_lottery does by CPI, and other programs to move every    *)
(* other account.                                                          *)
(***************************************************************************)
TicketPaid(r, b, amount) ==
    /\ TicketSold(r, b, amount)
    /\ tok' \in [TokenAccounts -> Nat]
    /\ \A q \in RoundIds :
          tok'[Jackpot[q]] = IF q = r THEN tok[Jackpot[q]] + amount ELSE tok[Jackpot[q]]
    /\ UNCHANGED now

JackpotsUntouched ==
    /\ UNCHANGED lotteryVars
    /\ tok' \in [TokenAccounts -> Nat]
    /\ \A q \in RoundIds : tok'[Jackpot[q]] = tok[Jackpot[q]]
    /\ now' \in Nat

OpenLotteryNext ==
    \/ LotteryNext
    \/ \E r \in RoundIds, b \in Buyers, amount \in Nat : TicketPaid(r, b, amount)
    \/ JackpotsUntouched

OpenLotterySpec == LotteryAloneInit /\ [][OpenLotteryNext]_lotterySystemVars

LEMMA LotteryIsOpen == LotterySpec => OpenLotterySpec
<1>1. [LotteryNext]_lotterySystemVars => [OpenLotteryNext]_lotterySystemVars
  BY DEF OpenLotteryNext
<1> QED BY <1>1, PTL DEF LotterySpec, OpenLotterySpec

\* A ticket bought at the counter is paid like any other.
LEMMA BoughtIsPaid ==
    ASSUME LotteryTypeOK, NEW r \in RoundIds, NEW b \in Buyers, NEW amount \in TicketAmounts,
           BuyTicket(r, b, amount)
    PROVE  amount \in Nat /\ TicketPaid(r, b, amount)
<1>1. /\ amount \in Nat /\ tok \in [TokenAccounts -> Nat]
      /\ b \in TokenAccounts
      /\ \A q \in RoundIds : /\ Jackpot[q] \in TokenAccounts /\ b # Jackpot[q]
                             /\ Jackpot[q] = Jackpot[r] => q = r
  BY Accounts, LotteryConstants DEF LotteryTypeOK
<1>2. /\ tok' = Moved(tok, b, Jackpot[r], amount) /\ tok[b] >= amount
      /\ TicketSold(r, b, amount) /\ UNCHANGED now
  BY DEF BuyTicket, CanPay
<1>3. tok' \in [TokenAccounts -> Nat]
  BY <1>1, <1>2, MovedIsTyped
<1>4. ASSUME NEW q \in RoundIds
      PROVE  tok'[Jackpot[q]] = IF q = r THEN tok[Jackpot[q]] + amount ELSE tok[Jackpot[q]]
  BY <1>1, <1>2 DEF Moved
<1> QED BY <1>1, <1>2, <1>3, <1>4 DEF TicketPaid

\* The kinds of step the invariants are checked against.
LEMMA LotteryStepKinds ==
    ASSUME LotteryTypeOK, [OpenLotteryNext]_lotterySystemVars
    PROVE  \/ StartRound
           \/ \E r \in RoundIds, b \in Buyers, amount \in Nat : TicketPaid(r, b, amount)
           \/ \E r \in RoundIds : RequestRandomness(r)
           \/ \E r \in RoundIds, value \in RandomValues : RevealWinner(r, value)
           \/ \E r \in RoundIds, b \in Buyers : ClaimPrize(r, b)
           \/ JackpotsUntouched
<1>1. LotteryTick => JackpotsUntouched
  BY DEF LotteryTypeOK, LotteryTick, TimePasses, JackpotsUntouched
<1>2. UNCHANGED lotterySystemVars => JackpotsUntouched
  BY DEF LotteryTypeOK, lotterySystemVars, lotteryVars, JackpotsUntouched
<1> QED BY <1>1, <1>2, BoughtIsPaid DEF OpenLotteryNext, LotteryNext, LotteryOp

\* No account ever leaves its type and no draw divides by zero.
LEMMA LotteryTypeStep ==
    ASSUME LotteryTypeInv, [OpenLotteryNext]_lotterySystemVars
    PROVE  LotteryTypeInv'
<1>0. /\ EntriesTyped /\ RoundsTyped /\ PoolsNonEmpty
      /\ tok \in [TokenAccounts -> Nat] /\ now \in Nat
      /\ currentRound \in 0..MaxRounds
  BY DEF LotteryTypeInv, LotteryTypeOK, EntriesTyped, RoundsTyped
<1>a. SUFFICES /\ EntriesTyped' /\ RoundsTyped' /\ PoolsNonEmpty'
               /\ tok' \in [TokenAccounts -> Nat] /\ now' \in Nat
               /\ currentRound' \in 0..MaxRounds
  BY DEF LotteryTypeInv, LotteryTypeOK, EntriesTyped, RoundsTyped
<1>1. CASE StartRound
  <2>1. [NoRound EXCEPT !.status = "Open", !.startTime = now] \in Round
    BY <1>0 DEF NoRound, Round, RoundPhases
  <2>2. RoundsTyped'
    BY <1>0, <1>1, <2>1 DEF StartRound, RoundsTyped
  <2>4. currentRound' \in 0..MaxRounds
    BY <1>0, <1>1, LotteryConstants DEF StartRound
  <2>3. PoolsNonEmpty'
    BY <1>0, <1>1 DEF StartRound, PoolsNonEmpty, RoundsTyped, NoRound
  <2> QED BY <1>0, <1>1, <2>2, <2>3, <2>4 DEF StartRound, EntriesTyped
<1>2. ASSUME NEW r \in RoundIds, NEW b \in Buyers, NEW amount \in Nat,
             TicketPaid(r, b, amount)
      PROVE  /\ EntriesTyped' /\ RoundsTyped' /\ PoolsNonEmpty'
             /\ tok' \in [TokenAccounts -> Nat] /\ now' \in Nat
             /\ currentRound' \in 0..MaxRounds
  <2>1. EntriesTyped' /\ RoundsTyped'
    BY <1>0, <1>2, SoldTypes DEF TicketPaid
  <2>2. PoolsNonEmpty'
    BY <1>0, <1>2 DEF TicketPaid, TicketSold, OnSale, PoolsNonEmpty, RoundsTyped
  <2> QED BY <1>0, <1>2, <2>1, <2>2 DEF TicketPaid, TicketSold
<1>3. ASSUME NEW r \in RoundIds, RequestRandomness(r)
      PROVE  /\ EntriesTyped' /\ RoundsTyped' /\ PoolsNonEmpty'
             /\ tok' \in [TokenAccounts -> Nat] /\ now' \in Nat
             /\ currentRound' \in 0..MaxRounds
  <2>1. RoundsTyped'
    BY <1>0, <1>3, PhaseTypes DEF RequestRandomness, RoundPhases
  <2>2. PoolsNonEmpty'
    BY <1>0, <1>3 DEF RequestRandomness, PoolsNonEmpty, RoundsTyped
  <2> QED BY <1>0, <1>3, <2>1, <2>2 DEF RequestRandomness, EntriesTyped
<1>4. ASSUME NEW r \in RoundIds, NEW value \in RandomValues, RevealWinner(r, value)
      PROVE  /\ EntriesTyped' /\ RoundsTyped' /\ PoolsNonEmpty'
             /\ tok' \in [TokenAccounts -> Nat] /\ now' \in Nat
             /\ currentRound' \in 0..MaxRounds
  <2>1. round[r] \in Round
    BY <1>0 DEF RoundsTyped
  <2>2. round[r].totalPool \in Nat /\ round[r].totalPool > 0
    BY <1>0, <1>4, <2>1 DEF RevealWinner, PoolsNonEmpty, Round
  <2>3. value % round[r].totalPool \in Nat
    BY <2>2, LotteryConstants
  <2>4. [round[r] EXCEPT !.status = "Drawn",
                         !.winningNumber = value % round[r].totalPool] \in Round
    BY <2>1, <2>3 DEF Round, RoundPhases
  <2>5. round' = [round EXCEPT ![r] = [round[r] EXCEPT
                      !.status = "Drawn", !.winningNumber = value % round[r].totalPool]]
    BY <1>0, <1>4 DEF RevealWinner, RoundsTyped, Round
  <2>6. RoundsTyped'
    BY <1>0, <2>4, <2>5 DEF RoundsTyped
  <2>7. PoolsNonEmpty'
    BY <1>0, <2>2, <2>5 DEF PoolsNonEmpty, RoundsTyped, Round
  <2> QED BY <1>0, <1>4, <2>6, <2>7 DEF RevealWinner, EntriesTyped
<1>5. ASSUME NEW r \in RoundIds, NEW b \in Buyers, ClaimPrize(r, b)
      PROVE  /\ EntriesTyped' /\ RoundsTyped' /\ PoolsNonEmpty'
             /\ tok' \in [TokenAccounts -> Nat] /\ now' \in Nat
             /\ currentRound' \in 0..MaxRounds
  <2>1. RoundsTyped'
    BY <1>0, <1>5, PhaseTypes DEF ClaimPrize, RoundPhases
  <2>2. [entry[r][b] EXCEPT !.claimed = TRUE] \in Entry
    <3>1. entry[r][b] \in Entry
      BY <1>0 DEF EntriesTyped
    <3> QED BY <3>1 DEF Entry
  <2>3. EntriesTyped'
    BY <1>0, <1>5, <2>2 DEF ClaimPrize, EntriesTyped
  <2>4. tok[Jackpot[r]] \in Nat
    BY <1>0, Accounts
  <2>5. tok' \in [TokenAccounts -> Nat]
    BY <1>0, <1>5, <2>4, MovedIsTyped, Accounts DEF ClaimPrize, Prize
  <2>6. PoolsNonEmpty'
    BY <1>0, <1>5 DEF ClaimPrize, HoldsWinner, PoolsNonEmpty, RoundsTyped
  <2> QED BY <1>0, <1>5, <2>1, <2>3, <2>5, <2>6 DEF ClaimPrize
<1>6. CASE JackpotsUntouched
  BY <1>0, <1>6 DEF JackpotsUntouched, lotteryVars,
                    EntriesTyped, RoundsTyped, PoolsNonEmpty
<1> QED BY <1>1, <1>2, <1>3, <1>4, <1>5, <1>6, LotteryStepKinds DEF LotteryTypeInv

LEMMA LotteryTypeInit ==
    ASSUME LotteryAloneInit
    PROVE  LotteryTypeInv
<1>1. NoRound \in Round /\ NoEntry \in Entry
  BY DEF NoRound, Round, RoundPhases, NoEntry, Entry
<1>2. LotteryTypeOK
  BY <1>1, LotteryConstants DEF LotteryAloneInit, LotteryInit, LotteryTypeOK
<1>3. PoolsNonEmpty
  BY DEF LotteryAloneInit, LotteryInit, PoolsNonEmpty, NoRound
<1> QED BY <1>2, <1>3 DEF LotteryTypeInv

\* LotteryTypeInv holds in every state: no account ever leaves its type and
\* no draw divides by zero.
LEMMA LotteryTypeInvariant == OpenLotterySpec => []LotteryTypeInv
  BY LotteryTypeInit, LotteryTypeStep, PTL DEF OpenLotterySpec

LEMMA OpenLotteryTypes == OpenLotterySpec => []LotteryTypeOK
<1>1. LotteryTypeInv => LotteryTypeOK
  BY DEF LotteryTypeInv
<1> QED BY <1>1, LotteryTypeInvariant, PTL

\* Every account holds a value of its type, whatever is bought and drawn.
THEOREM LotteryTypeCorrect == LotterySpec => []LotteryTypeOK
  BY OpenLotteryTypes, LotteryIsOpen

-----------------------------------------------------------------------------
\* A round that was not started yet is blank, so a new round starts with an
\* empty pool and an empty jackpot.
FutureRoundsBlank == \A r \in RoundIds : r > currentRound => round[r] = NoRound

LEMMA FutureRounds == OpenLotterySpec => []FutureRoundsBlank
<1>1. LotteryAloneInit => FutureRoundsBlank
  BY DEF LotteryAloneInit, LotteryInit, FutureRoundsBlank
<1>2. LotteryTypeInv /\ FutureRoundsBlank /\ [OpenLotteryNext]_lotterySystemVars
        => FutureRoundsBlank'
  <2> SUFFICES ASSUME LotteryTypeInv, FutureRoundsBlank, [OpenLotteryNext]_lotterySystemVars,
                      NEW q \in RoundIds, q > currentRound'
               PROVE  round'[q] = NoRound
    BY DEF FutureRoundsBlank
  <2>0. /\ round \in [RoundIds -> Round] /\ currentRound \in Nat /\ q \in Nat
        /\ q > currentRound => round[q] = NoRound
    BY LotteryConstants DEF LotteryTypeInv, LotteryTypeOK, FutureRoundsBlank, RoundIds
  <2>a. NoRound.status = "None"
    BY DEF NoRound
  <2>1. CASE StartRound
    BY <2>0, <2>1 DEF StartRound
  <2>2. ASSUME NEW r \in RoundIds, NEW b \in Buyers, NEW amount \in Nat,
               TicketPaid(r, b, amount)
        PROVE  round'[q] = NoRound
    BY <2>0, <2>a, <2>2 DEF TicketPaid, TicketSold, OnSale
  <2>3. ASSUME NEW r \in RoundIds, RequestRandomness(r)
        PROVE  round'[q] = NoRound
    BY <2>0, <2>a, <2>3 DEF RequestRandomness
  <2>4. ASSUME NEW r \in RoundIds, NEW value \in RandomValues, RevealWinner(r, value)
        PROVE  round'[q] = NoRound
    BY <2>0, <2>a, <2>4 DEF RevealWinner
  <2>5. ASSUME NEW r \in RoundIds, NEW b \in Buyers, ClaimPrize(r, b)
        PROVE  round'[q] = NoRound
    BY <2>0, <2>a, <2>5 DEF ClaimPrize, HoldsWinner
  <2>6. CASE JackpotsUntouched
    BY <2>0, <2>6 DEF JackpotsUntouched, lotteryVars
  <2> QED BY <2>1, <2>2, <2>3, <2>4, <2>5, <2>6, LotteryStepKinds DEF LotteryTypeInv
<1> QED BY <1>1, <1>2, LotteryTypeInvariant, PTL DEF OpenLotterySpec

LEMMA OpenJackpots == OpenLotterySpec => []JackpotIsPool
<1>1. LotteryAloneInit => JackpotIsPool
  BY LotteryConstants DEF LotteryAloneInit, LotteryInit, JackpotIsPool, NoRound
<1>2. LotteryTypeInv /\ FutureRoundsBlank /\ JackpotIsPool /\ [OpenLotteryNext]_lotterySystemVars
        => JackpotIsPool'
  <2> SUFFICES ASSUME LotteryTypeInv, FutureRoundsBlank, JackpotIsPool, [OpenLotteryNext]_lotterySystemVars,
                      NEW q \in RoundIds
               PROVE  tok'[Jackpot[q]] = IF round'[q].status = "Settled" THEN 0
                                         ELSE round'[q].totalPool
    BY DEF JackpotIsPool
  <2>0. /\ round \in [RoundIds -> Round] /\ tok \in [TokenAccounts -> Nat]
        /\ tok[Jackpot[q]] = IF round[q].status = "Settled" THEN 0 ELSE round[q].totalPool
        /\ round[q] \in Round
        /\ Jackpot[q] \in TokenAccounts
    BY Accounts, LotteryConstants DEF LotteryTypeInv, LotteryTypeOK, JackpotIsPool
  <2>1. CASE StartRound
    <3>1. CASE q = currentRound + 1
      <4>1. round[q] = NoRound
        BY <3>1, LotteryConstants DEF FutureRoundsBlank, LotteryTypeInv, LotteryTypeOK, RoundIds
      <4>2. tok[Jackpot[q]] = 0
        BY <2>0, <4>1 DEF NoRound
      <4>3. round'[q].totalPool = 0 /\ tok' = tok
        BY <2>0, <2>1, <3>1 DEF StartRound, NoRound
      <4> QED BY <4>2, <4>3
    <3>2. CASE q # currentRound + 1
      BY <2>0, <2>1, <3>2 DEF StartRound
    <3> QED BY <3>1, <3>2
  <2>2. ASSUME NEW r \in RoundIds, NEW b \in Buyers, NEW amount \in Nat,
               TicketPaid(r, b, amount)
        PROVE  tok'[Jackpot[q]] = IF round'[q].status = "Settled" THEN 0
                                  ELSE round'[q].totalPool
    <3>1. round' = [round EXCEPT ![r].totalPool = @ + amount] /\ round[r].status = "Open"
      BY <2>2 DEF TicketPaid, TicketSold, OnSale
    <3>2. tok'[Jackpot[q]] = IF q = r THEN tok[Jackpot[q]] + amount ELSE tok[Jackpot[q]]
      BY <2>2 DEF TicketPaid
    <3>3. CASE q = r
      <4>1. round'[q].totalPool = round[q].totalPool + amount /\ round'[q].status = "Open"
        BY <2>0, <3>1, <3>3 DEF Round
      <4> QED BY <2>0, <3>1, <3>2, <3>3, <4>1
    <3>4. CASE q # r
      BY <2>0, <3>1, <3>2, <3>4
    <3> QED BY <3>3, <3>4
  <2>3. ASSUME NEW r \in RoundIds, RequestRandomness(r)
        PROVE  tok'[Jackpot[q]] = IF round'[q].status = "Settled" THEN 0
                                  ELSE round'[q].totalPool
    BY <2>0, <2>3 DEF RequestRandomness, Round
  <2>4. ASSUME NEW r \in RoundIds, NEW value \in RandomValues, RevealWinner(r, value)
        PROVE  tok'[Jackpot[q]] = IF round'[q].status = "Settled" THEN 0
                                  ELSE round'[q].totalPool
    BY <2>0, <2>4 DEF RevealWinner, Round
  <2>5. ASSUME NEW r \in RoundIds, NEW b \in Buyers, ClaimPrize(r, b)
        PROVE  tok'[Jackpot[q]] = IF round'[q].status = "Settled" THEN 0
                                  ELSE round'[q].totalPool
    <3>1. /\ round' = [round EXCEPT ![r].status = "Settled"]
          /\ tok' = Moved(tok, Jackpot[r], b, tok[Jackpot[r]])
          /\ b # Jackpot[q]
      BY <2>5, Accounts DEF ClaimPrize, Prize
    <3>2. CASE q = r
      BY <2>0, <3>1, <3>2 DEF Moved, Round
    <3>3. CASE q # r
      <4>1. Jackpot[q] # Jackpot[r]
        BY <3>3, Accounts
      <4> QED BY <2>0, <3>1, <3>3, <4>1 DEF Moved
    <3> QED BY <3>2, <3>3
  <2>6. CASE JackpotsUntouched
    BY <2>0, <2>6 DEF JackpotsUntouched, lotteryVars
  <2> QED BY <2>1, <2>2, <2>3, <2>4, <2>5, <2>6, LotteryStepKinds DEF LotteryTypeInv
<1> QED BY <1>1, <1>2, LotteryTypeInvariant, FutureRounds, PTL DEF OpenLotterySpec

\* The jackpots are only touched by the purchases and the claim of their own
\* round: what the step does to one jackpot it does to its pool.
THEOREM JackpotsAreKept == LotterySpec => []JackpotIsPool
  BY OpenJackpots, LotteryIsOpen

-----------------------------------------------------------------------------
\* An entry without tickets has an empty range.
BlankEntries ==
    \A r \in RoundIds, b \in Buyers :
        entry[r][b].amount = 0 => entry[r][b].end <= entry[r][b].start

\* Every number of the pool lies in the range of some entry.
RangesCover ==
    \A r \in RoundIds : \A n \in Nat :
        n < round[r].totalPool => \E b \in Buyers : Covers(entry[r][b], n)

\* Nobody has claimed before the round is Settled.
UnclaimedUntilSettled ==
    \A r \in RoundIds, b \in Buyers : round[r].status # "Settled" => ~entry[r][b].claimed

\* The number drawn is one of the pool.
DrawnFromPool ==
    \A r \in RoundIds : round[r].status = "Drawn" => round[r].winningNumber < round[r].totalPool

RangeInv ==
    /\ TicketsAreKept /\ BlankEntries /\ RangesCover
    /\ UnclaimedUntilSettled /\ DrawnFromPool

\* What an entry and its round are made of, and how a purchase changes them.
LEMMA SoldFacts ==
    ASSUME EntriesTyped, RoundsTyped,
           NEW r \in RoundIds, NEW b \in Buyers, NEW amount \in Nat,
           TicketSold(r, b, amount)
    PROVE  /\ amount > 0
           /\ round[r].status = "Open" /\ round'[r].status = "Open"
           /\ round[r].totalPool \in Nat
           /\ round'[r].totalPool = round[r].totalPool + amount
           /\ \A q \in RoundIds : q # r => round'[q] = round[q]
           /\ entry'[r][b] = Ticket(r, b, amount)
           /\ \A q \in RoundIds, c \in Buyers : (q # r \/ c # b) => entry'[q][c] = entry[q][c]
<1>1. round[r] \in Round
  BY DEF RoundsTyped
<1> QED BY <1>1 DEF TicketSold, OnSale, EntriesTyped, RoundsTyped, Round

\* The fields of an entry are numbers.
LEMMA EntryFields ==
    ASSUME EntriesTyped, NEW r \in RoundIds, NEW b \in Buyers
    PROVE  /\ entry[r][b].amount \in Nat
           /\ entry[r][b].start \in Nat
           /\ entry[r][b].end \in Nat
<1>1. entry[r][b] \in Entry
  BY DEF EntriesTyped
<1> QED BY <1>1 DEF Entry

\* A purchase leaves no gap and gives up no number: the new range starts
\* where the old one did and ends at the new end of the pool.
LEMMA SoldKeepsRanges ==
    ASSUME EntriesTyped, RoundsTyped, RangeInv,
           NEW r \in RoundIds, NEW b \in Buyers, NEW amount \in Nat,
           TicketSold(r, b, amount)
    PROVE  RangeInv'
<1>1. /\ amount > 0
      /\ round[r].status = "Open" /\ round'[r].status = "Open"
      /\ round[r].totalPool \in Nat
      /\ round'[r].totalPool = round[r].totalPool + amount
      /\ \A q \in RoundIds : q # r => round'[q] = round[q]
      /\ entry'[r][b] = Ticket(r, b, amount)
      /\ \A q \in RoundIds, c \in Buyers : (q # r \/ c # b) => entry'[q][c] = entry[q][c]
  BY SoldFacts
<1>2. /\ entry[r][b].amount \in Nat /\ entry[r][b].start \in Nat /\ entry[r][b].end \in Nat
      /\ entry[r][b].start + entry[r][b].amount <= entry[r][b].end
      /\ entry[r][b].end <= round[r].totalPool
      /\ entry[r][b].amount = 0 => entry[r][b].end <= entry[r][b].start
  BY EntryFields DEF RangeInv, TicketsAreKept, BlankEntries
<1>3. /\ entry'[r][b].amount = entry[r][b].amount + amount
      /\ entry'[r][b].start = IF entry[r][b].amount = 0 THEN round[r].totalPool
                              ELSE entry[r][b].start
      /\ entry'[r][b].end = round[r].totalPool + amount
      /\ entry'[r][b].claimed = FALSE
  BY <1>1 DEF Ticket
<1>4. TicketsAreKept'
  <2> SUFFICES ASSUME NEW q \in RoundIds, NEW c \in Buyers
               PROVE  /\ entry'[q][c].start + entry'[q][c].amount <= entry'[q][c].end
                      /\ entry'[q][c].end <= round'[q].totalPool
    BY DEF TicketsAreKept
  <2>1. CASE q = r /\ c = b
    BY <1>1, <1>2, <1>3, <2>1
  <2>2. CASE q # r \/ c # b
    <3>1. /\ entry[q][c].start + entry[q][c].amount <= entry[q][c].end
          /\ entry[q][c].end <= round[q].totalPool
          /\ entry[q][c].end \in Nat
      BY EntryFields DEF RangeInv, TicketsAreKept
    <3>2. CASE q = r
      BY <1>1, <2>2, <3>1, <3>2
    <3>3. CASE q # r
      BY <1>1, <2>2, <3>1, <3>3
    <3> QED BY <3>2, <3>3
  <2> QED BY <2>1, <2>2
<1>5. BlankEntries'
  BY <1>1, <1>2, <1>3 DEF RangeInv, BlankEntries
<1>6. RangesCover'
  <2> SUFFICES ASSUME NEW q \in RoundIds, NEW n \in Nat, n < round'[q].totalPool
               PROVE  \E c \in Buyers : Covers(entry'[q][c], n)
    BY DEF RangesCover
  <2>1. CASE q # r
    <3>1. PICK c \in Buyers : Covers(entry[q][c], n)
      BY <1>1, <2>1 DEF RangeInv, RangesCover
    <3> QED BY <1>1, <2>1, <3>1
  <2>2. CASE q = r /\ n < round[r].totalPool
    <3>1. PICK c \in Buyers : Covers(entry[r][c], n)
      BY <2>2 DEF RangeInv, RangesCover
    <3>2. CASE c # b
      BY <1>1, <2>2, <3>1, <3>2
    <3>3. CASE c = b
      <4>1. entry[r][b].amount # 0
        BY <1>2, <3>1, <3>3 DEF Covers
      <4>2. Covers(entry'[r][b], n)
        BY <1>1, <1>2, <1>3, <2>2, <3>1, <3>3, <4>1 DEF Covers
      <4> QED BY <2>2, <4>2
    <3> QED BY <3>2, <3>3
  <2>3. CASE q = r /\ n >= round[r].totalPool
    <3>1. Covers(entry'[r][b], n)
      BY <1>1, <1>2, <1>3, <2>3 DEF Covers
    <3> QED BY <2>3, <3>1
  <2> QED BY <1>1, <2>1, <2>2, <2>3
<1>7. UnclaimedUntilSettled'
  <2> SUFFICES ASSUME NEW q \in RoundIds, NEW c \in Buyers, round'[q].status # "Settled"
               PROVE  ~entry'[q][c].claimed
    BY DEF UnclaimedUntilSettled
  <2>1. round[q].status # "Settled"
    BY <1>1
  <2> QED BY <1>1, <1>3, <2>1 DEF RangeInv, UnclaimedUntilSettled
<1>8. DrawnFromPool'
  BY <1>1 DEF RangeInv, DrawnFromPool
<1> QED BY <1>4, <1>5, <1>6, <1>7, <1>8 DEF RangeInv

\* A step that changes no range and no pool keeps what only depends on them.
LEMMA RangesUntouched ==
    ASSUME RangeInv,
           \A q \in RoundIds : round'[q].totalPool = round[q].totalPool,
           \A q \in RoundIds, c \in Buyers :
               /\ entry'[q][c].amount = entry[q][c].amount
               /\ entry'[q][c].start = entry[q][c].start
               /\ entry'[q][c].end = entry[q][c].end
    PROVE  TicketsAreKept' /\ BlankEntries' /\ RangesCover'
<1>1. TicketsAreKept'
  BY DEF RangeInv, TicketsAreKept
<1>2. BlankEntries'
  BY DEF RangeInv, BlankEntries
<1>3. RangesCover'
  <2> SUFFICES ASSUME NEW q \in RoundIds, NEW n \in Nat, n < round'[q].totalPool
               PROVE  \E c \in Buyers : Covers(entry'[q][c], n)
    BY DEF RangesCover
  <2>1. PICK c \in Buyers : Covers(entry[q][c], n)
    BY DEF RangeInv, RangesCover
  <2> QED BY <2>1 DEF Covers
<1> QED BY <1>1, <1>2, <1>3

\* RangeInv holds in every state.
LEMMA RangeInvariant == OpenLotterySpec => []RangeInv
<1>1. LotteryAloneInit => RangeInv
  BY DEF LotteryAloneInit, LotteryInit, RangeInv, TicketsAreKept, BlankEntries, RangesCover,
         UnclaimedUntilSettled, DrawnFromPool, NoRound, NoEntry
<1>2. LotteryTypeInv /\ FutureRoundsBlank /\ RangeInv /\ [OpenLotteryNext]_lotterySystemVars
        => RangeInv'
  <2> SUFFICES ASSUME LotteryTypeInv, FutureRoundsBlank, RangeInv,
                      [OpenLotteryNext]_lotterySystemVars
               PROVE  RangeInv'
    OBVIOUS
  <2>0. /\ EntriesTyped /\ RoundsTyped /\ PoolsNonEmpty
        /\ round \in [RoundIds -> Round]
        /\ entry \in [RoundIds -> [Buyers -> Entry]]
    BY DEF LotteryTypeInv, LotteryTypeOK, EntriesTyped, RoundsTyped
  <2>1. CASE StartRound
    <3>1. /\ \A q \in RoundIds : q = currentRound + 1 => round[q] = NoRound
          /\ \A q \in RoundIds : round'[q].totalPool = round[q].totalPool
      <4>1. \A q \in RoundIds : q = currentRound + 1 => round[q] = NoRound
        BY LotteryConstants DEF FutureRoundsBlank, LotteryTypeInv, LotteryTypeOK, RoundIds
      <4> QED BY <2>0, <2>1, <4>1 DEF StartRound, NoRound
    <3>2. TicketsAreKept' /\ BlankEntries' /\ RangesCover'
      BY <2>1, <3>1, RangesUntouched DEF StartRound
    <3>3. /\ \A q \in RoundIds : round'[q].status = "Drawn" => round'[q] = round[q]
          /\ \A q \in RoundIds : round'[q].status # "Settled" => round[q].status # "Settled"
      BY <2>0, <2>1, <3>1 DEF StartRound, NoRound
    <3>4. UnclaimedUntilSettled' /\ DrawnFromPool'
      BY <2>1, <3>3 DEF StartRound, RangeInv, UnclaimedUntilSettled, DrawnFromPool
    <3> QED BY <3>2, <3>4 DEF RangeInv
  <2>2. ASSUME NEW r \in RoundIds, NEW b \in Buyers, NEW amount \in Nat,
               TicketPaid(r, b, amount)
        PROVE  RangeInv'
    BY <2>0, <2>2, SoldKeepsRanges DEF TicketPaid
  <2>3. ASSUME NEW r \in RoundIds, RequestRandomness(r)
        PROVE  RangeInv'
    <3>1. TicketsAreKept' /\ BlankEntries' /\ RangesCover'
      BY <2>0, <2>3, RangesUntouched DEF RequestRandomness
    <3>2. UnclaimedUntilSettled' /\ DrawnFromPool'
      BY <2>0, <2>3 DEF RequestRandomness, RangeInv, UnclaimedUntilSettled, DrawnFromPool
    <3> QED BY <3>1, <3>2 DEF RangeInv
  <2>4. ASSUME NEW r \in RoundIds, NEW value \in RandomValues, RevealWinner(r, value)
        PROVE  RangeInv'
    <3>1. round[r].totalPool \in Nat /\ round[r].totalPool > 0 /\ value \in Nat
      BY <2>0, <2>4, LotteryConstants DEF RevealWinner, PoolsNonEmpty, Round
    <3>2. /\ round'[r].totalPool = round[r].totalPool
          /\ round'[r].winningNumber = value % round[r].totalPool
          /\ round'[r].status = "Drawn"
          /\ \A q \in RoundIds : q # r => round'[q] = round[q]
          /\ entry' = entry
      BY <2>0, <2>4 DEF RevealWinner, Round
    <3>3. TicketsAreKept' /\ BlankEntries' /\ RangesCover'
      BY <3>2, RangesUntouched
    <3>4. value % round[r].totalPool < round[r].totalPool
      BY <3>1
    <3>5. UnclaimedUntilSettled' /\ DrawnFromPool'
      BY <2>4, <3>2, <3>4 DEF RevealWinner, RangeInv, UnclaimedUntilSettled, DrawnFromPool
    <3> QED BY <3>3, <3>5 DEF RangeInv
  <2>5. ASSUME NEW r \in RoundIds, NEW b \in Buyers, ClaimPrize(r, b)
        PROVE  RangeInv'
    <3>1. /\ round' = [round EXCEPT ![r].status = "Settled"]
          /\ entry' = [entry EXCEPT ![r][b].claimed = TRUE]
      BY <2>5 DEF ClaimPrize
    <3>2. /\ \A q \in RoundIds : round'[q].totalPool = round[q].totalPool
          /\ \A q \in RoundIds : q # r => round'[q] = round[q]
          /\ round'[r].status = "Settled"
      BY <2>0, <3>1 DEF Round
    <3>3. /\ \A q \in RoundIds, c \in Buyers :
                /\ entry'[q][c].amount = entry[q][c].amount
                /\ entry'[q][c].start = entry[q][c].start
                /\ entry'[q][c].end = entry[q][c].end
          /\ \A q \in RoundIds, c \in Buyers : q # r => entry'[q][c] = entry[q][c]
      BY <2>0, <3>1 DEF Entry
    <3>4. TicketsAreKept' /\ BlankEntries' /\ RangesCover'
      BY <3>2, <3>3, RangesUntouched
    <3>5. UnclaimedUntilSettled' /\ DrawnFromPool'
      BY <3>2, <3>3 DEF RangeInv, UnclaimedUntilSettled, DrawnFromPool
    <3> QED BY <3>4, <3>5 DEF RangeInv
  <2>6. CASE JackpotsUntouched
    <3>1. TicketsAreKept' /\ BlankEntries' /\ RangesCover'
      BY <2>6, RangesUntouched DEF JackpotsUntouched, lotteryVars
    <3> QED BY <2>6, <3>1 DEF JackpotsUntouched, lotteryVars, RangeInv,
                             UnclaimedUntilSettled, DrawnFromPool
  <2> QED BY <2>1, <2>2, <2>3, <2>4, <2>5, <2>6, LotteryStepKinds DEF LotteryTypeInv
<1> QED BY <1>1, <1>2, LotteryTypeInvariant, FutureRounds, PTL DEF OpenLotterySpec

LEMMA OpenTickets == OpenLotterySpec => []TicketsAreKept
<1>1. RangeInv => TicketsAreKept
  BY DEF RangeInv
<1> QED BY <1>1, RangeInvariant, PTL

\* Buying again never costs a chance, for any buyers and amounts.
THEOREM TicketsAlwaysKept == LotterySpec => []TicketsAreKept
  BY OpenTickets, LotteryIsOpen

LEMMA OpenWinners == OpenLotterySpec => []WinnerExists
<1>1. LotteryTypeInv /\ RangeInv /\ JackpotIsPool => WinnerExists
  <2> SUFFICES ASSUME LotteryTypeInv, RangeInv, JackpotIsPool,
                      NEW r \in RoundIds, round[r].status = "Drawn"
               PROVE  /\ \E b \in Buyers : HoldsWinner(r, b)
                      /\ tok[Jackpot[r]] > 0
    BY DEF WinnerExists
  <2>1. round[r].winningNumber \in Nat /\ round[r].winningNumber < round[r].totalPool
    BY DEF LotteryTypeInv, LotteryTypeOK, Round, RangeInv, DrawnFromPool
  <2>2. PICK b \in Buyers : Covers(entry[r][b], round[r].winningNumber)
    BY <2>1 DEF RangeInv, RangesCover
  <2>3. HoldsWinner(r, b)
    BY <2>2 DEF HoldsWinner, RangeInv, UnclaimedUntilSettled
  <2>4. tok[Jackpot[r]] > 0
    BY DEF LotteryTypeInv, PoolsNonEmpty, JackpotIsPool
  <2> QED BY <2>3, <2>4
<1> QED BY <1>1, LotteryTypeInvariant, RangeInvariant, OpenJackpots, PTL

\* A drawn round has a winner who can claim a prize, whatever the oracle
\* revealed and in whatever order the tickets were bought.
THEOREM DrawnRoundsHaveWinners == LotterySpec => []WinnerExists
  BY OpenWinners, LotteryIsOpen

\* What DrawIsBlind says of a step.
BlindStep ==
    \A r \in RoundIds :
        round[r].status \notin {"None", "Open"} =>
            /\ round'[r].totalPool = round[r].totalPool
            /\ \A b \in Buyers : /\ entry'[r][b].start = entry[r][b].start
                                 /\ entry'[r][b].end = entry[r][b].end

LEMMA OpenDraws == OpenLotterySpec => DrawIsBlind
<1>1. LotteryTypeInv /\ FutureRoundsBlank /\ [OpenLotteryNext]_lotterySystemVars => BlindStep
  <2> SUFFICES ASSUME LotteryTypeInv, FutureRoundsBlank, [OpenLotteryNext]_lotterySystemVars,
                      NEW q \in RoundIds, round[q].status \notin {"None", "Open"}
               PROVE  /\ round'[q].totalPool = round[q].totalPool
                      /\ \A c \in Buyers : /\ entry'[q][c].start = entry[q][c].start
                                           /\ entry'[q][c].end = entry[q][c].end
    BY DEF BlindStep
  <2>0. /\ EntriesTyped /\ RoundsTyped
        /\ round \in [RoundIds -> Round]
        /\ entry \in [RoundIds -> [Buyers -> Entry]]
    BY DEF LotteryTypeInv, LotteryTypeOK, EntriesTyped, RoundsTyped
  <2>1. CASE StartRound
    <3>1. q # currentRound + 1
      BY LotteryConstants DEF FutureRoundsBlank, NoRound, LotteryTypeInv, LotteryTypeOK, RoundIds
    <3> QED BY <2>0, <2>1, <3>1 DEF StartRound
  <2>2. ASSUME NEW r \in RoundIds, NEW b \in Buyers, NEW amount \in Nat,
               TicketPaid(r, b, amount)
        PROVE  round'[q] = round[q] /\ entry'[q] = entry[q]
    <3>1. q # r
      BY <2>2 DEF TicketPaid, TicketSold, OnSale
    <3> QED BY <2>0, <2>2, <3>1 DEF TicketPaid, TicketSold
  <2>3. ASSUME NEW r \in RoundIds, RequestRandomness(r)
        PROVE  round'[q] = round[q] /\ entry' = entry
    BY <2>0, <2>3 DEF RequestRandomness
  <2>4. ASSUME NEW r \in RoundIds, NEW value \in RandomValues, RevealWinner(r, value)
        PROVE  round'[q].totalPool = round[q].totalPool /\ entry' = entry
    BY <2>0, <2>4 DEF RevealWinner, Round
  <2>5. ASSUME NEW r \in RoundIds, NEW b \in Buyers, ClaimPrize(r, b)
        PROVE  /\ round'[q].totalPool = round[q].totalPool
               /\ \A c \in Buyers : /\ entry'[q][c].start = entry[q][c].start
                                    /\ entry'[q][c].end = entry[q][c].end
    BY <2>0, <2>5 DEF ClaimPrize, Round, Entry
  <2>6. CASE JackpotsUntouched
    BY <2>6 DEF JackpotsUntouched, lotteryVars
  <2> QED BY <2>1, <2>2, <2>3, <2>4, <2>5, <2>6, LotteryStepKinds DEF LotteryTypeInv
<1>2. OpenLotterySpec => [][BlindStep]_lotterySystemVars
  BY <1>1, LotteryTypeInvariant, FutureRounds, PTL DEF OpenLotterySpec
<1> QED BY <1>2 DEF DrawIsBlind, BlindStep

\* Nobody can act on the committed randomness: no step changes a pool or a
\* range once it is requested.
THEOREM DrawsAreBlind == LotterySpec => DrawIsBlind
  BY OpenDraws, LotteryIsOpen

-----------------------------------------------------------------------------
(***************************************************************************)
(* The pool is what the entries paid.                                      *)
(***************************************************************************)
Paying(r) == [b \in Buyers |-> entry[r][b].amount]

\* PoolIsTickets, with the sum as a Total.
PoolAddsUp == \A r \in RoundIds : round[r].totalPool = Total(Paying(r), Buyers)

TicketSum(r) == MapThenSumSet(LAMBDA b : entry[r][b].amount, Buyers)

LEMMA TicketSumIsTotal ==
    ASSUME NEW r \in RoundIds
    PROVE  TicketSum(r) = Total(Paying(r), Buyers)
<1> DEFINE f == Paying(r)
<1>1. ASSUME NEW h
      PROVE  [s \in SUBSET Buyers |-> IF s = {} THEN 0 ELSE f[Pick(s)] + h[s \ {Pick(s)}]]
               = [s \in SUBSET Buyers |->
                     IF s = {} THEN 0 ELSE entry[r][Pick(s)].amount + h[s \ {Pick(s)}]]
  <2>1. \A s \in SUBSET Buyers : s # {} => f[Pick(s)] = entry[r][Pick(s)].amount
    BY PickIsMember DEF Paying
  <2> HIDE DEF f
  <2> QED BY <2>1
<1>2. Summed(f, Buyers) =
        CHOOSE h : h = [s \in SUBSET Buyers |->
                          IF s = {} THEN 0 ELSE entry[r][Pick(s)].amount + h[s \ {Pick(s)}]]
  <2> HIDE DEF f
  <2> QED BY <1>1 DEF Summed, Adds
<1>3. TicketSum(r) =
        (CHOOSE h : h = [s \in SUBSET Buyers |->
             IF s = {} THEN 0 ELSE entry[r][Pick(s)].amount + h[s \ {Pick(s)}]])[Buyers]
  BY DEF TicketSum, MapThenSumSet, MapThenFoldSet, Pick
<1> QED BY <1>2, <1>3 DEF Total

\* Entries that keep their amounts keep their sum.
LEMMA SameTickets ==
    ASSUME NEW r \in RoundIds, \A b \in Buyers : entry'[r][b].amount = entry[r][b].amount
    PROVE  Total(Paying(r)', Buyers) = Total(Paying(r), Buyers)
<1>1. \A b \in Buyers : Paying(r)'[b] = Paying(r)[b]
  BY DEF Paying
<1> QED BY <1>1, TotalSame

LEMMA OpenPools == OpenLotterySpec => []PoolIsTickets
<1>1. LotteryAloneInit => PoolAddsUp
  <2> SUFFICES ASSUME LotteryAloneInit, NEW r \in RoundIds
               PROVE  round[r].totalPool = Total(Paying(r), Buyers)
    BY DEF PoolAddsUp
  <2>1. \A b \in Buyers : Paying(r)[b] = 0
    BY DEF LotteryAloneInit, LotteryInit, NoEntry, Paying
  <2>2. Total(Paying(r), Buyers) = 0
    BY <2>1, FiniteBuyers, TotalZero
  <2> QED BY <2>2 DEF LotteryAloneInit, LotteryInit, NoRound
<1>2. LotteryTypeInv /\ FutureRoundsBlank /\ PoolAddsUp /\ [OpenLotteryNext]_lotterySystemVars
        => PoolAddsUp'
  <2> SUFFICES ASSUME LotteryTypeInv, FutureRoundsBlank, PoolAddsUp,
                      [OpenLotteryNext]_lotterySystemVars, NEW q \in RoundIds
               PROVE  round'[q].totalPool = Total(Paying(q)', Buyers)
    BY DEF PoolAddsUp
  <2>0. /\ EntriesTyped /\ round \in [RoundIds -> Round]
        /\ entry \in [RoundIds -> [Buyers -> Entry]]
        /\ round[q].totalPool = Total(Paying(q), Buyers)
        /\ round[q].totalPool \in Nat
    BY DEF LotteryTypeInv, LotteryTypeOK, EntriesTyped, PoolAddsUp, Round
  <2>a. ASSUME round'[q].totalPool = round[q].totalPool,
               \A b \in Buyers : entry'[q][b].amount = entry[q][b].amount
        PROVE  round'[q].totalPool = Total(Paying(q)', Buyers)
    BY <2>0, <2>a, SameTickets
  <2>1. CASE StartRound
    <3>1. round'[q].totalPool = round[q].totalPool
      <4>1. CASE q = currentRound + 1
        <5>1. round[q] = NoRound
          BY <4>1, LotteryConstants DEF FutureRoundsBlank, LotteryTypeInv, LotteryTypeOK, RoundIds
        <5> QED BY <2>0, <2>1, <4>1, <5>1 DEF StartRound, NoRound
      <4>2. CASE q # currentRound + 1
        BY <2>0, <2>1, <4>2 DEF StartRound
      <4> QED BY <4>1, <4>2
    <3> QED BY <2>1, <2>a, <3>1 DEF StartRound
  <2>2. ASSUME NEW r \in RoundIds, NEW c \in Buyers, NEW amount \in Nat,
               TicketPaid(r, c, amount)
        PROVE  round'[q].totalPool = Total(Paying(q)', Buyers)
    <3>1. /\ entry' = [entry EXCEPT ![r][c] = Ticket(r, c, amount)]
          /\ round' = [round EXCEPT ![r].totalPool = @ + amount]
          /\ amount \in Nat
      BY <2>2, LotteryConstants DEF TicketPaid, TicketSold
    <3>2. CASE q # r
      BY <2>0, <2>a, <3>1, <3>2
    <3>3. CASE q = r
      <4>1. round'[q].totalPool = round[q].totalPool + amount
        BY <2>0, <3>1, <3>3 DEF Round
      <4>2. /\ Paying(q)'[c] = Paying(q)[c] + amount
            /\ \A b \in Buyers \ {c} : Paying(q)[b] = Paying(q)'[b]
            /\ \A b \in Buyers : Paying(q)[b] \in Nat /\ Paying(q)'[b] \in Nat
        <5>1. entry'[q][c].amount = entry[q][c].amount + amount
          BY <2>0, <3>1, <3>3 DEF Ticket
        <5>2. \A b \in Buyers \ {c} : entry'[q][b] = entry[q][b]
          BY <2>0, <3>1, <3>3
        <5>3. \A b \in Buyers : entry[q][b].amount \in Nat
          BY <2>0 DEF Entry
        <5> QED BY <3>1, <5>1, <5>2, <5>3 DEF Paying
      <4>3. Total(Paying(q)', Buyers) + Paying(q)[c] = Total(Paying(q), Buyers) + Paying(q)'[c]
        BY <4>2, FiniteBuyers, TotalChange
      <4>4. /\ Total(Paying(q)', Buyers) \in Nat /\ Total(Paying(q), Buyers) \in Nat
            /\ Paying(q)[c] \in Nat
        BY <4>2, FiniteBuyers, TotalType
      <4>5. /\ amount \in Nat
            /\ Paying(q)'[c] = Paying(q)[c] + amount
        BY <3>1, <4>2
      <4>6. Total(Paying(q)', Buyers) = Total(Paying(q), Buyers) + amount
        BY <4>3, <4>4, <4>5
      <4> QED BY <2>0, <4>1, <4>6
    <3> QED BY <3>2, <3>3
  <2>3. ASSUME NEW r \in RoundIds, RequestRandomness(r)
        PROVE  round'[q].totalPool = Total(Paying(q)', Buyers)
    BY <2>0, <2>3, <2>a DEF RequestRandomness, Round
  <2>4. ASSUME NEW r \in RoundIds, NEW v \in RandomValues, RevealWinner(r, v)
        PROVE  round'[q].totalPool = Total(Paying(q)', Buyers)
    BY <2>0, <2>4, <2>a DEF RevealWinner, Round
  <2>5. ASSUME NEW r \in RoundIds, NEW c \in Buyers, ClaimPrize(r, c)
        PROVE  round'[q].totalPool = Total(Paying(q)', Buyers)
    <3>1. round'[q].totalPool = round[q].totalPool
      BY <2>0, <2>5 DEF ClaimPrize, Round
    <3>2. \A b \in Buyers : entry'[q][b].amount = entry[q][b].amount
      BY <2>0, <2>5 DEF ClaimPrize, Entry
    <3> QED BY <2>a, <3>1, <3>2
  <2>6. CASE JackpotsUntouched
    BY <2>a, <2>6 DEF JackpotsUntouched, lotteryVars
  <2> QED BY <2>1, <2>2, <2>3, <2>4, <2>5, <2>6, LotteryStepKinds DEF LotteryTypeInv
<1>3. PoolAddsUp => PoolIsTickets
  BY TicketSumIsTotal DEF PoolAddsUp, PoolIsTickets, TicketSum
<1> QED BY <1>1, <1>2, <1>3, LotteryTypeInvariant, FutureRounds, PTL DEF OpenLotterySpec

\* The amounts of the entries add up to the pool of their round, however the
\* buyers take turns.
THEOREM PoolsAreTickets == LotterySpec => []PoolIsTickets
  BY OpenPools, LotteryIsOpen

-----------------------------------------------------------------------------
(***************************************************************************)
(* What the lottery page offers and tells is kept by the program: PaidOnce *)
(* adds to the invariants above that a settled round was claimed by exactly *)
(* one buyer, whose range holds the number.                                *)
(***************************************************************************)
\* A settled round was paid to one buyer, and to a holder of its number.
PaidTo(r, b) ==
    /\ Covers(entry[r][b], round[r].winningNumber)
    /\ \A c \in Buyers : entry[r][c].claimed <=> c = b

PaidOnce ==
    \A r \in RoundIds : round[r].status = "Settled" => \E b \in Buyers : PaidTo(r, b)

\* A step that leaves a round and its claims alone leaves its payment alone.
LEMMA PaymentUntouched ==
    ASSUME NEW r \in RoundIds,
           round[r].status = "Settled" => \E b \in Buyers : PaidTo(r, b),
           round'[r] = round[r], entry'[r] = entry[r]
    PROVE  round'[r].status = "Settled" => \E b \in Buyers : PaidTo(r, b)'
<1> SUFFICES ASSUME round'[r].status = "Settled"
             PROVE  \E b \in Buyers : PaidTo(r, b)'
  OBVIOUS
<1>1. PICK b \in Buyers : PaidTo(r, b)
  OBVIOUS
<1>2. PaidTo(r, b)'
  BY <1>1 DEF PaidTo
<1> QED BY <1>2

\* A prize is paid once: claim_prize only settles a round nobody has claimed.
LEMMA PaidOnceInvariant == OpenLotterySpec => []PaidOnce
<1>1. LotteryAloneInit => PaidOnce
  BY DEF LotteryAloneInit, LotteryInit, PaidOnce, NoRound
<1>2. LotteryTypeInv /\ FutureRoundsBlank /\ RangeInv /\ PaidOnce
        /\ [OpenLotteryNext]_lotterySystemVars => PaidOnce'
  <2> SUFFICES ASSUME LotteryTypeInv, FutureRoundsBlank, RangeInv, PaidOnce,
                      [OpenLotteryNext]_lotterySystemVars,
                      NEW q \in RoundIds
               PROVE  round'[q].status = "Settled" => \E c \in Buyers : PaidTo(q, c)'
    BY DEF PaidOnce
  <2>0. /\ EntriesTyped /\ RoundsTyped
        /\ round \in [RoundIds -> Round]
        /\ entry \in [RoundIds -> [Buyers -> Entry]]
        /\ round[q].status = "Settled" => \E c \in Buyers : PaidTo(q, c)
    BY DEF LotteryTypeInv, LotteryTypeOK, EntriesTyped, RoundsTyped, PaidOnce
  <2>1. CASE StartRound
    <3>1. CASE q = currentRound + 1
      BY <2>0, <2>1, <3>1 DEF StartRound, NoRound
    <3>2. CASE q # currentRound + 1
      <4>1. round'[q] = round[q] /\ entry'[q] = entry[q]
        BY <2>0, <2>1, <3>2 DEF StartRound
      <4> QED BY <2>0, <4>1, PaymentUntouched
    <3> QED BY <3>1, <3>2
  <2>2. ASSUME NEW r \in RoundIds, NEW b \in Buyers, NEW amount \in Nat,
               TicketPaid(r, b, amount)
        PROVE  round'[q].status = "Settled" => \E c \in Buyers : PaidTo(q, c)'
    <3>1. CASE q = r
      BY <2>0, <2>2, <3>1 DEF TicketPaid, TicketSold, OnSale, Round
    <3>2. CASE q # r
      <4>1. round'[q] = round[q] /\ entry'[q] = entry[q]
        BY <2>0, <2>2, <3>2 DEF TicketPaid, TicketSold
      <4> QED BY <2>0, <4>1, PaymentUntouched
    <3> QED BY <3>1, <3>2
  <2>3. ASSUME NEW r \in RoundIds, RequestRandomness(r)
        PROVE  round'[q].status = "Settled" => \E c \in Buyers : PaidTo(q, c)'
    <3>1. CASE q = r
      BY <2>0, <2>3, <3>1 DEF RequestRandomness, Round
    <3>2. CASE q # r
      <4>1. round'[q] = round[q] /\ entry'[q] = entry[q]
        BY <2>0, <2>3, <3>2 DEF RequestRandomness
      <4> QED BY <2>0, <4>1, PaymentUntouched
    <3> QED BY <3>1, <3>2
  <2>4. ASSUME NEW r \in RoundIds, NEW value \in RandomValues, RevealWinner(r, value)
        PROVE  round'[q].status = "Settled" => \E c \in Buyers : PaidTo(q, c)'
    <3>1. CASE q = r
      BY <2>0, <2>4, <3>1 DEF RevealWinner, Round
    <3>2. CASE q # r
      <4>1. round'[q] = round[q] /\ entry'[q] = entry[q]
        BY <2>0, <2>4, <3>2 DEF RevealWinner
      <4> QED BY <2>0, <4>1, PaymentUntouched
    <3> QED BY <3>1, <3>2
  <2>5. ASSUME NEW r \in RoundIds, NEW b \in Buyers, ClaimPrize(r, b)
        PROVE  round'[q].status = "Settled" => \E c \in Buyers : PaidTo(q, c)'
    <3>0. /\ round' = [round EXCEPT ![r].status = "Settled"]
          /\ entry' = [entry EXCEPT ![r][b].claimed = TRUE]
          /\ HoldsWinner(r, b)
      BY <2>5 DEF ClaimPrize
    <3>1. CASE q = r
      <4>1. \A c \in Buyers : ~entry[r][c].claimed
        BY <3>0 DEF HoldsWinner, RangeInv, UnclaimedUntilSettled
      <4>2. /\ round'[r].winningNumber = round[r].winningNumber
            /\ entry'[r][b].start = entry[r][b].start
            /\ entry'[r][b].end = entry[r][b].end
            /\ entry'[r][b].claimed = TRUE
            /\ \A c \in Buyers : c # b => entry'[r][c] = entry[r][c]
        BY <2>0, <3>0 DEF Round, Entry
      <4>3. \A c \in Buyers : entry'[r][c].claimed <=> c = b
        BY <4>1, <4>2
      <4>4. PaidTo(r, b)'
        BY <3>0, <4>2, <4>3 DEF PaidTo, HoldsWinner, Covers
      <4> QED BY <3>1, <4>4
    <3>2. CASE q # r
      <4>1. round'[q] = round[q] /\ entry'[q] = entry[q]
        BY <2>0, <3>0, <3>2
      <4> QED BY <2>0, <4>1, PaymentUntouched
    <3> QED BY <3>1, <3>2
  <2>6. CASE JackpotsUntouched
    BY <2>0, <2>6, PaymentUntouched DEF JackpotsUntouched, lotteryVars
  <2> QED BY <2>1, <2>2, <2>3, <2>4, <2>5, <2>6, LotteryStepKinds DEF LotteryTypeInv
<1> QED BY <1>1, <1>2, LotteryTypeInvariant, FutureRounds, RangeInvariant, PTL
        DEF OpenLotterySpec

-----------------------------------------------------------------------------
\* Whose range holds the number bought tickets: the page shows the entry.
LEMMA WinnersPlayed ==
    ASSUME EntriesTyped, RoundsTyped, BlankEntries, NEW r \in RoundIds, NEW b \in Buyers
    PROVE  IsWinner(r, b) <=> Covers(entry[r][b], round[r].winningNumber)
<1>1. round[r] \in Round
  BY DEF RoundsTyped
<1>2. /\ entry[r][b].amount \in Nat /\ entry[r][b].start \in Nat /\ entry[r][b].end \in Nat
      /\ round[r].winningNumber \in Nat
      /\ entry[r][b].amount = 0 => entry[r][b].end <= entry[r][b].start
  BY <1>1, EntryFields DEF Round, BlankEntries
<1> QED BY <1>2 DEF IsWinner, HasEntry, Covers

\* The badge and the panel of a round after the draw.
LEMMA DrawnBadge ==
    ASSUME NEW r \in RoundIds, NEW b \in Buyers, round[r].status \in {"Drawn", "Settled"}
    PROVE  /\ Badge(r, b) = "Claimable" <=> IsWinner(r, b) /\ ~entry[r][b].claimed
           /\ Badge(r, b) = "Claimed" <=> IsWinner(r, b) /\ entry[r][b].claimed
           /\ Result(r, b) = "Claim Prize" <=> IsWinner(r, b) /\ ~entry[r][b].claimed
           /\ Result(r, b) = "Claimed" <=> IsWinner(r, b) /\ entry[r][b].claimed
<1>1. IsWinner(r, b) => HasEntry(r, b)
  BY DEF IsWinner
<1>2. Badge(r, b) = IF IsWinner(r, b)
                    THEN IF entry[r][b].claimed THEN "Claimed" ELSE "Claimable"
                    ELSE "View"
  BY DEF Badge
<1>3. CASE HasEntry(r, b)
  <2>1. Result(r, b) = IF IsWinner(r, b)
                       THEN IF entry[r][b].claimed THEN "Claimed" ELSE "Claim Prize"
                       ELSE "Not a winner"
    BY <1>3 DEF Result
  <2> QED BY <1>2, <2>1
<1>4. CASE ~HasEntry(r, b)
  <2>1. Result(r, b) = "Did not play"
    BY <1>4 DEF Result
  <2> QED BY <1>1, <1>2, <1>4, <2>1
<1> QED BY <1>3, <1>4

\* Before the draw neither shows a winner.
LEMMA DrawingBadge ==
    ASSUME NEW r \in RoundIds, NEW b \in Buyers, round[r].status = "RandomnessRequested"
    PROVE  Badge(r, b) = "Drawing" /\ Result(r, b) \in {"Drawing", "Did not play"}
BY DEF Badge, Result

LEMMA OpenOffers == OpenLotterySpec => []OffersAreKept
<1>1. LotteryTypeInv /\ RangeInv /\ PaidOnce /\ WinnerExists => OffersAreKept
  <2> SUFFICES ASSUME LotteryTypeInv, RangeInv, PaidOnce, WinnerExists
               PROVE  OffersAreKept
    OBVIOUS
  <2>0. /\ EntriesTyped /\ RoundsTyped /\ BlankEntries
        /\ round \in [RoundIds -> Round]
        /\ currentRound \in 0..MaxRounds
    BY DEF LotteryTypeInv, LotteryTypeOK, EntriesTyped, RoundsTyped, RangeInv
  <2>1. PrizeReachesWinner
    <3> SUFFICES ASSUME NEW r \in Rounds
                 PROVE  /\ round[r].status = "Drawn" =>
                             /\ \E b \in Buyers : Badge(r, b) = "Claimable"
                             /\ \A b \in Buyers : Badge(r, b) = "Claimable" => Paid(ClaimOf(r, b))
                             /\ \A b \in Buyers : Badge(r, b) # "Claimed"
                        /\ round[r].status = "Settled" =>
                             \E b \in Buyers : \A c \in Buyers : Badge(r, c) = "Claimed" <=> c = b
                        /\ \A b \in Buyers : round[r].status # "Open" =>
                             /\ Badge(r, b) = "Claimable" <=> Result(r, b) = "Claim Prize"
                             /\ Badge(r, b) = "Claimed" <=> Result(r, b) = "Claimed"
      BY DEF PrizeReachesWinner
    <3>0. /\ r \in RoundIds
          /\ round[r].status \in {"Open", "RandomnessRequested", "Drawn", "Settled"}
      BY <2>0 DEF Rounds, Round, RoundPhases
    <3>1. \A b \in Buyers : IsWinner(r, b) <=> Covers(entry[r][b], round[r].winningNumber)
      BY <2>0, <3>0, WinnersPlayed
    <3>2. ASSUME round[r].status = "Drawn"
          PROVE  /\ \E b \in Buyers : Badge(r, b) = "Claimable"
                 /\ \A b \in Buyers : Badge(r, b) = "Claimable" => Paid(ClaimOf(r, b))
                 /\ \A b \in Buyers : Badge(r, b) # "Claimed"
      <4>1. /\ tok[Jackpot[r]] > 0
            /\ \A b \in Buyers : ~entry[r][b].claimed
        BY <3>0, <3>2 DEF WinnerExists, RangeInv, UnclaimedUntilSettled
      <4>2. PICK b \in Buyers : HoldsWinner(r, b)
        BY <3>0, <3>2 DEF WinnerExists
      <4>3. \A c \in Buyers : Badge(r, c) = "Claimable" <=> HoldsWinner(r, c)
        BY <3>0, <3>1, <3>2, <4>1, DrawnBadge DEF HoldsWinner
      <4>4. \A c \in Buyers : HoldsWinner(r, c) => Paid(ClaimOf(r, c))
        BY <4>1 DEF Paid, ClaimOf
      <4>5. \A c \in Buyers : Badge(r, c) # "Claimed"
        BY <3>0, <3>2, <4>1, DrawnBadge
      <4> QED BY <4>2, <4>3, <4>4, <4>5
    <3>3. ASSUME round[r].status = "Settled"
          PROVE  \E b \in Buyers : \A c \in Buyers : Badge(r, c) = "Claimed" <=> c = b
      <4>1. PICK b \in Buyers : PaidTo(r, b)
        BY <3>0, <3>3 DEF PaidOnce
      <4>2. \A c \in Buyers : Badge(r, c) = "Claimed" <=> c = b
        BY <3>0, <3>1, <3>3, <4>1, DrawnBadge DEF PaidTo
      <4> QED BY <4>2
    <3>4. ASSUME NEW b \in Buyers, round[r].status # "Open"
          PROVE  /\ Badge(r, b) = "Claimable" <=> Result(r, b) = "Claim Prize"
                 /\ Badge(r, b) = "Claimed" <=> Result(r, b) = "Claimed"
      <4>1. CASE round[r].status = "RandomnessRequested"
        BY <3>0, <4>1, DrawingBadge
      <4>2. CASE round[r].status \in {"Drawn", "Settled"}
        BY <3>0, <4>2, DrawnBadge
      <4> QED BY <3>0, <3>4, <4>1, <4>2
    <3> QED BY <3>2, <3>3, <3>4
  <2>2. OfferedTicketIsSold
    <3> SUFFICES ASSUME NEW b \in Buyers, NEW amount \in TicketAmounts,
                        CanBuy(b, amount), ActiveRound # 0
                 PROVE  Sold(TicketOf(b, amount))
      BY DEF OfferedTicketIsSold
    <3>1. round[ActiveRound].status = "Open"
      BY DEF ActiveRound
    <3>2. tok[b] \in Nat /\ amount \in Nat
      BY Accounts, LotteryConstants DEF LotteryTypeInv, LotteryTypeOK
    <3> QED BY <3>1, <3>2 DEF CanBuy, Sold, TicketOf, CanPay, OnSale
  <2>3. ChanceIsHonest
    <3> SUFFICES ASSUME NEW r \in RoundIds, NEW b \in Buyers
                 PROVE  /\ entry[r][b].amount <= entry[r][b].end - entry[r][b].start
                        /\ entry[r][b].end <= round[r].totalPool
      BY DEF ChanceIsHonest, Rounds
    <3>1. /\ entry[r][b].amount \in Nat /\ entry[r][b].start \in Nat /\ entry[r][b].end \in Nat
          /\ entry[r][b].start + entry[r][b].amount <= entry[r][b].end
          /\ entry[r][b].end <= round[r].totalPool
      BY <2>0, EntryFields DEF RangeInv, TicketsAreKept
    <3> QED BY <3>1
  <2> QED BY <2>1, <2>2, <2>3 DEF OffersAreKept
<1> QED BY <1>1, LotteryTypeInvariant, RangeInvariant, PaidOnceInvariant,
           OpenWinners, PTL

\* OffersAreKept: the page offers the prize of a drawn round to winners only
\* and to some winner, tells exactly one buyer of a settled round to have
\* claimed it, offers no ticket buy_ticket refuses and shows no chance above
\* the one drawn from.
THEOREM OffersAlwaysKept == LotterySpec => []OffersAreKept
  BY OpenOffers, LotteryIsOpen

-----------------------------------------------------------------------------
(***************************************************************************)
(* The three programs together.  A step of the system is a step of the     *)
(* open batch and of the open lottery: what one program does is, to the    *)
(* other, tokens moving elsewhere, and claim_and_join_lottery is a claim   *)
(* that sends its reward on and a ticket paid by somebody.                 *)
(***************************************************************************)
\* A jackpot is none of the accounts the batch and the vault move tokens
\* between.
LEMMA JackpotsApart ==
    ASSUME NEW q \in RoundIds
    PROVE  /\ Jackpot[q] \in TokenAccounts
           /\ Jackpot[q] \notin {VaultAcct, ReserveAcct, AdminAcct, BatchAta,
                                 CollateralAcct, OperatorAcct}
           /\ Jackpot[q] \notin Wallets
           /\ Jackpot[q] \notin Users
  BY SystemConstants, LotteryConstants

LEMMA SweptMisses ==
    ASSUME VaultTypeOK, NEW s, NEW to, NEW c \in TokenAccounts,
           c \notin {VaultAcct, BatchAta}, c # to
    PROVE  Swept(s, to)[c] = tok[c]
  BY DEF Swept, Moved, VaultTypeOK

\* No instruction of the batch or the vault touches a jackpot.
LEMMA BatchMissesJackpots ==
    ASSUME TypeOK, Next, NEW q \in RoundIds
    PROVE  tok'[Jackpot[q]] = tok[Jackpot[q]]
<1> DEFINE c == Jackpot[q]
<1>0. /\ VaultTypeOK /\ tok \in [TokenAccounts -> Nat]
      /\ c \in TokenAccounts /\ c \notin Wallets /\ c \notin Users
      /\ c # VaultAcct /\ c # ReserveAcct /\ c # AdminAcct
      /\ c # BatchAta /\ c # CollateralAcct /\ c # OperatorAcct
  BY JackpotsApart DEF TypeOK, VaultTypeOK
<1> HIDE DEF c
<1> SUFFICES tok'[c] = tok[c]
  BY DEF c
<1>1. ASSUME UNCHANGED tok
      PROVE  tok'[c] = tok[c]
  BY <1>1
<1>2. ASSUME NEW u \in Users, NEW a \in Stakes, JoinBatch(u, a)
      PROVE  tok'[c] = tok[c]
  BY <1>0, <1>2, MovedElsewhere DEF JoinBatch
<1>3. ASSUME NEW u \in Users, NEW a \in Stakes, LeaveBatch(u, a)
      PROVE  tok'[c] = tok[c]
  BY <1>0, <1>3, SweptMisses DEF LeaveBatch
<1>4. ASSUME NEW x \in Overpay, DepositCollateralSkip(x)
      PROVE  tok'[c] = tok[c]
  BY <1>0, <1>4, MovedElsewhere DEF DepositCollateralSkip
<1>5. ASSUME NEW o \in Odds, NEW x \in Overpay, DepositCollateralBet(o, x)
      PROVE  tok'[c] = tok[c]
  BY <1>0, <1>5, MovedElsewhere DEF DepositCollateralBet
<1>6. CASE SettleUsersWon
  BY <1>0, <1>6, MovedElsewhere DEF SettleUsersWon
<1>7. CASE SettleOperatorWon
  BY <1>0, <1>7, MovedElsewhere DEF SettleOperatorWon
<1>8. CASE SettleDefault
  BY <1>0, <1>8, MovedElsewhere DEF SettleDefault
<1>9. ASSUME NEW u \in Users, Claim(u)
      PROVE  tok'[c] = tok[c]
  BY <1>0, <1>9 DEF Claim, Moved
<1>10. CASE ClaimOperatorYield
  BY <1>0, <1>10, SweptMisses DEF ClaimOperatorYield
<1>11. CASE OthersUseVault
  <2>1. ASSUME NEW w \in Wallets, NEW a \in Amounts, Deposit(w, a)
        PROVE  tok'[c] = tok[c]
    BY <1>0, <2>1, MovedElsewhere DEF Deposit
  <2>2. ASSUME NEW w \in Wallets, NEW s \in 1..totalShares, Withdraw(w, s)
        PROVE  tok'[c] = tok[c]
    BY <1>0, <2>2, MovedElsewhere DEF Withdraw
  <2>3. CASE TickYield
    BY <1>0, <2>3, MovedElsewhere DEF TickYield
  <2>4. ASSUME NEW a \in Amounts, FundReserve(a)
        PROVE  tok'[c] = tok[c]
    BY <1>0, <2>4, MovedElsewhere DEF FundReserve
  <2> QED BY <1>11, <2>1, <2>2, <2>3, <2>4 DEF OthersUseVault, VaultNext
<1>12. CASE \/ InitializeBatch \/ StartBatch \/ FinalizeConsensus
            \/ PenalizeMissedCollateral \/ ClockTick
  BY <1>1, <1>12 DEF InitializeBatch, StartBatch, FinalizeConsensus,
                     PenalizeMissedCollateral, ClockTick, vaultSystemVars
<1>13. ASSUME NEW filled \in Slates, NEW k \in Kickoffs, ProposeMatch(filled, k)
       PROVE  tok'[c] = tok[c]
  BY <1>1, <1>13 DEF ProposeMatch, vaultSystemVars
<1>14. ASSUME NEW u \in Users, NEW i \in Options, CastVote(u, i)
       PROVE  tok'[c] = tok[c]
  BY <1>1, <1>14 DEF CastVote, vaultSystemVars
<1> QED BY <1>2, <1>3, <1>4, <1>5, <1>6, <1>7, <1>8, <1>9, <1>10, <1>11, <1>12,
           <1>13, <1>14 DEF Next

\* The batch's and the vault's steps, seen from the lottery.
LEMMA BatchBesideLottery ==
    ASSUME TypeOK, Next, UNCHANGED lotteryVars
    PROVE  JackpotsUntouched
<1>1. TypeOK'
  BY TypeStep DEF OpenNext
<1> QED BY <1>1, BatchMissesJackpots
        DEF JackpotsUntouched, TypeOK, VaultTypeOK, LobbyTypeOK

\* The lottery's steps, seen from the batch.
LEMMA LotteryBesideBatch ==
    ASSUME TypeOK, LotteryTypeInv, LotteryOp, UNCHANGED <<batchVars, vaultVars>>
    PROVE  TokensElsewhere
<1>1. /\ tok \in [TokenAccounts -> Nat]
      /\ {VaultAcct, BatchAta, CollateralAcct} \subseteq TokenAccounts
  BY AccountFacts DEF TypeOK, VaultTypeOK
<1>2. tok' \in [TokenAccounts -> Nat]
  BY LotteryTypeStep DEF OpenLotteryNext, LotteryNext, LotteryTypeInv, LotteryTypeOK
<1>3. ASSUME NEW a \in {VaultAcct, BatchAta, CollateralAcct}
      PROVE  now' = now /\ tok'[a] = tok[a]
  <2>0. a \in TokenAccounts /\ a \notin Buyers /\ \A r \in RoundIds : Jackpot[r] # a
    BY <1>1, JackpotsApart, SystemConstants
  <2>1. ASSUME NEW r \in RoundIds, NEW b \in Buyers, NEW amount \in TicketAmounts,
               BuyTicket(r, b, amount)
        PROVE  now' = now /\ tok'[a] = tok[a]
    BY <1>1, <2>0, <2>1, MovedElsewhere DEF BuyTicket
  <2>2. ASSUME NEW r \in RoundIds, NEW b \in Buyers, ClaimPrize(r, b)
        PROVE  now' = now /\ tok'[a] = tok[a]
    BY <1>1, <2>0, <2>2, MovedElsewhere DEF ClaimPrize
  <2> QED BY <2>1, <2>2 DEF LotteryOp, StartRound, RequestRandomness, RevealWinner
<1> QED BY <1>2, <1>3 DEF TokensElsewhere

LEMMA PayoutType ==
    ASSUME VaultTypeOK, StakeTypeOK, NEW u \in Users, CanClaim(u),
           ClaimShares(u) > 0 => VaultWithdraw(Batch, ClaimShares(u))
    PROVE  Payout(u) \in Nat
<1>1. ClaimShares(u) \in Nat
  BY ClaimSharesType
<1>2. CASE ClaimShares(u) > 0
  BY <1>1, <1>2, AccountFacts, WithdrawTypes DEF Payout
<1>3. CASE ~(ClaimShares(u) > 0)
  BY <1>3 DEF Payout
<1> QED BY <1>2, <1>3

\* How claim_and_join_lottery moves the tokens: the principal stays with the
\* user, the reward ends in the jackpot.
JoinMoves(u, r) ==
    /\ tok'[VaultAcct] = tok[VaultAcct] - Payout(u)
    /\ tok'[BatchAta] = tok[BatchAta] - RewardShare(u)
    /\ tok'[u] = tok[u] + Payout(u)
    /\ tok'[Jackpot[r]] = tok[Jackpot[r]] + RewardShare(u)
    /\ \A a \in TokenAccounts \ {VaultAcct, BatchAta, u, Jackpot[r]} : tok'[a] = tok[a]

LEMMA JoinedTokens ==
    ASSUME TypeOK, NEW u \in Users, NEW r \in RoundIds, ClaimAndJoinLottery(u, r)
    PROVE  /\ Payout(u) \in Nat /\ RewardShare(u) \in Nat
           /\ tok' \in [TokenAccounts -> Nat]
           /\ JoinMoves(u, r)
<1> DEFINE v == Payout(u)
           n == RewardShare(u)
           jack == Jackpot[r]
           paid == Moved(tok, VaultAcct, u, v)
           both == Moved(paid, BatchAta, u, n)
<1>0. VaultTypeOK /\ StakeTypeOK /\ tok \in [TokenAccounts -> Nat]
  BY DEF TypeOK, VaultTypeOK
<1>1. /\ CanClaim(u)
      /\ CanPay(tok, VaultAcct, v)
      /\ ClaimShares(u) > 0 => VaultWithdraw(Batch, ClaimShares(u))
      /\ tok' = IF n > 0 THEN Moved(both, u, jack, n) ELSE both
  BY DEF ClaimAndJoinLottery, PrincipalPayout, Payout, Wager
<1>2. v \in Nat /\ n \in Nat /\ n <= tok[BatchAta]
  BY <1>0, <1>1, PayoutType, RewardShareBounds
<1>3. /\ u \in TokenAccounts /\ jack \in TokenAccounts
      /\ VaultAcct \in TokenAccounts /\ BatchAta \in TokenAccounts
      /\ u # VaultAcct /\ u # BatchAta /\ u # jack
      /\ jack # VaultAcct /\ jack # BatchAta /\ VaultAcct # BatchAta
  BY AccountFacts, JackpotsApart
<1> SUFFICES /\ tok' \in [TokenAccounts -> Nat]
             /\ tok'[VaultAcct] = tok[VaultAcct] - v
             /\ tok'[BatchAta] = tok[BatchAta] - n
             /\ tok'[u] = tok[u] + v
             /\ tok'[jack] = tok[jack] + n
             /\ \A a \in TokenAccounts \ {VaultAcct, BatchAta, u, jack} : tok'[a] = tok[a]
  BY <1>2 DEF JoinMoves
<1> HIDE DEF v, n, jack
<1>4. /\ paid \in [TokenAccounts -> Nat]
      /\ paid[VaultAcct] = tok[VaultAcct] - v /\ paid[u] = tok[u] + v
      /\ \A a \in TokenAccounts \ {VaultAcct, u} : paid[a] = tok[a]
  <2>1. paid \in [TokenAccounts -> Nat]
    BY <1>0, <1>1, <1>2, <1>3, MovedTypes
  <2> QED BY <1>0, <1>3, <2>1 DEF Moved
<1> HIDE DEF paid
<1>5. /\ both \in [TokenAccounts -> Nat]
      /\ both[BatchAta] = paid[BatchAta] - n /\ both[u] = paid[u] + n
      /\ \A a \in TokenAccounts \ {BatchAta, u} : both[a] = paid[a]
  <2>1. CanPay(paid, BatchAta, n)
    BY <1>2, <1>3, <1>4 DEF CanPay
  <2>2. both \in [TokenAccounts -> Nat]
    BY <1>2, <1>3, <1>4, <2>1, MovedTypes
  <2> QED BY <1>3, <1>4, <2>2 DEF Moved
<1> HIDE DEF both
<1>6. /\ tok[u] \in Nat /\ tok[jack] \in Nat /\ paid[u] \in Nat /\ both[jack] \in Nat
  BY <1>0, <1>3, <1>4, <1>5
<1>7. CASE n > 0
  <2>1. tok' = Moved(both, u, jack, n)
    BY <1>1, <1>7
  <2>2. CanPay(both, u, n)
    BY <1>2, <1>5, <1>6 DEF CanPay
  <2>3. /\ tok' \in [TokenAccounts -> Nat]
        /\ tok'[u] = both[u] - n /\ tok'[jack] = both[jack] + n
        /\ \A a \in TokenAccounts \ {u, jack} : tok'[a] = both[a]
    <3>1. tok' \in [TokenAccounts -> Nat]
      BY <1>2, <1>3, <1>5, <2>1, <2>2, MovedTypes
    <3> QED BY <1>3, <1>5, <2>1, <3>1 DEF Moved
  <2> QED BY <1>2, <1>3, <1>4, <1>5, <1>6, <2>3
<1>8. CASE n = 0
  <2>1. tok' = both
    BY <1>1, <1>8
  <2> QED BY <1>0, <1>2, <1>3, <1>4, <1>5, <1>6, <1>8, <2>1
<1> QED BY <1>2, <1>7, <1>8

LEMMA JoinedBesideBoth ==
    ASSUME TypeOK, LotteryTypeInv,
           NEW u \in Users, NEW r \in RoundIds, ClaimAndJoinLottery(u, r)
    PROVE  /\ ClaimEffect(u)
           /\ TicketPaid(r, u, RewardShare(u)) \/ JackpotsUntouched
<1>1. /\ CanClaim(u)
      /\ CanPay(tok, VaultAcct, Payout(u))
      /\ IF ClaimShares(u) > 0 THEN VaultWithdraw(Batch, ClaimShares(u)) ELSE UNCHANGED vaultVars
      /\ IF RewardShare(u) > 0 THEN TicketSold(r, u, RewardShare(u)) ELSE UNCHANGED lotteryVars
      /\ totalDeposited' = totalDeposited - pos[u].deposited
      /\ pos' = [pos EXCEPT ![u] = [@ EXCEPT !.claimed = TRUE]]
      /\ UNCHANGED <<now, status, lobbyVars, participantCount, tallyVars, roundVars>>
  BY DEF ClaimAndJoinLottery, PrincipalPayout, Payout, Wager
<1>2. /\ Payout(u) \in Nat /\ RewardShare(u) \in Nat
      /\ tok' \in [TokenAccounts -> Nat]
      /\ JoinMoves(u, r)
  BY JoinedTokens
<1>3. tok'[CollateralAcct] = tok[CollateralAcct]
  BY <1>2, AccountFacts, JackpotsApart DEF JoinMoves
<1>4. ClaimEffect(u)
  BY <1>1, <1>2, <1>3 DEF ClaimEffect, JoinMoves
<1>5. \A q \in RoundIds : tok'[Jackpot[q]] = IF q = r THEN tok[Jackpot[q]] + RewardShare(u)
                                             ELSE tok[Jackpot[q]]
  <2> SUFFICES ASSUME NEW q \in RoundIds, q # r
               PROVE  tok'[Jackpot[q]] = tok[Jackpot[q]]
    BY <1>2 DEF JoinMoves
  <2>1. Jackpot[q] \in TokenAccounts \ {VaultAcct, BatchAta, u, Jackpot[r]}
    BY JackpotsApart, LotteryConstants
  <2> QED BY <1>2, <2>1 DEF JoinMoves
<1>6. CASE RewardShare(u) > 0
  BY <1>1, <1>2, <1>4, <1>5, <1>6 DEF TicketPaid
<1>7. CASE RewardShare(u) = 0
  <2>1. \A q \in RoundIds : tok'[Jackpot[q]] = tok[Jackpot[q]]
    <3>1. \A q \in RoundIds : tok[Jackpot[q]] \in Nat
      BY LotteryConstants DEF TypeOK, VaultTypeOK
    <3> QED BY <1>5, <1>7, <3>1
  <2>2. now' \in Nat
    BY <1>1 DEF TypeOK, LobbyTypeOK
  <2> QED BY <1>1, <1>2, <1>4, <1>7, <2>1, <2>2 DEF JackpotsUntouched
<1> QED BY <1>2, <1>6, <1>7

LEMMA SystemStepIsOpen ==
    ASSUME TypeOK, LotteryTypeInv, [SystemNext]_systemVars
    PROVE  [OpenNext]_vars /\ [OpenLotteryNext]_lotterySystemVars
<1>1. CASE Next /\ UNCHANGED lotteryVars
  BY <1>1, BatchBesideLottery DEF OpenNext, OpenLotteryNext
<1>2. CASE LotteryOp /\ UNCHANGED <<batchVars, vaultVars>>
  BY <1>2, LotteryBesideBatch DEF OpenNext, OpenLotteryNext, LotteryNext
<1>3. ASSUME NEW u \in Users, NEW r \in RoundIds, ClaimAndJoinLottery(u, r)
      PROVE  OpenNext /\ OpenLotteryNext
  <2>1. u \in Buyers
    BY SystemConstants
  <2>2. RewardShare(u) \in Nat
    BY <1>3, JoinedTokens
  <2> QED BY <1>3, <2>1, <2>2, JoinedBesideBoth DEF OpenNext, OpenLotteryNext
<1>4. CASE UNCHANGED systemVars
  BY <1>4 DEF systemVars, vars, vaultSystemVars, lotteryVars, lotterySystemVars
<1> QED BY <1>1, <1>2, <1>3, <1>4 DEF SystemNext

\* The system implements both open programs: whatever order the instructions
\* of the three programs come in, neither sees more than its own steps and
\* tokens moving elsewhere.
THEOREM SystemImplementsBoth == SystemSpec => OpenSpec /\ OpenLotterySpec
<1>1. SystemInit => Init /\ LotteryAloneInit
  BY DEF SystemInit, Init, VaultInit, LotteryAloneInit
<1>2. Init => TypeOK
  BY TypeInit
<1>3. LotteryAloneInit => LotteryTypeInv
  BY LotteryTypeInit
<1>4. TypeOK /\ LotteryTypeInv /\ [SystemNext]_systemVars => (TypeOK /\ LotteryTypeInv)'
  <2>1. TypeOK /\ UNCHANGED vars => TypeOK'
    BY PartsUnchanged DEF vars, batchVars, TypeOK
  <2> QED BY <2>1, SystemStepIsOpen, TypeStep, LotteryTypeStep
<1>5. TypeOK /\ LotteryTypeInv /\ [SystemNext]_systemVars
        => [OpenNext]_vars /\ [OpenLotteryNext]_lotterySystemVars
  BY SystemStepIsOpen
<1> QED BY <1>1, <1>2, <1>3, <1>4, <1>5, PTL DEF SystemSpec, OpenSpec, OpenLotterySpec

\* Claims, wagers, tickets and prizes of any users, in whatever order: the
\* vault holds its underlying, the escrow its bet and each jackpot its pool.
THEOREM BooksAlwaysBalance == SystemSpec => []BooksBalance
<1>1. /\ SystemSpec => []UnderlyingIsHeld
      /\ SystemSpec => []EscrowMatchesBet
      /\ SystemSpec => []JackpotIsPool
      /\ SystemSpec => []PoolIsTickets
  <2>1. OpenSpec => []UnderlyingIsHeld
    BY OpenVault, PTL
  <2> QED BY <2>1, OpenEscrow, OpenJackpots, OpenPools, SystemImplementsBoth
<1> QED BY <1>1, PTL DEF BooksBalance

\* Everything proved of the batch program alone holds of it in the system:
\* the lottery, sharing its token accounts, weakens none of it.
THEOREM BatchIsSafeInSystem ==
    SystemSpec => /\ [](TypeOK /\ RoundLedger /\ BallotDecides /\ NoPhantomVotes)
                  /\ [](BooksAgree /\ ClaimNeverFails /\ ClaimLossIsRounding)
                  /\ CoverageNeverFalls /\ PriceNeverFalls /\ ImplementsLifecycle
<1>1. OpenSpec => [](TypeOK /\ RoundLedger /\ BallotDecides /\ NoPhantomVotes)
  BY OpenTypeCorrect, OpenRounds, OpenBallot, OpenVotes, PTL
<1>2. OpenSpec => [](BooksAgree /\ ClaimNeverFails /\ ClaimLossIsRounding)
  BY OpenBooks, OpenClaims, OpenClaimLoss, PTL
<1> QED BY <1>1, <1>2, OpenCoverage, OpenPrice, OpenLifecycle, SystemImplementsBoth

\* The same of the lottery, with tickets paid from claims beside those bought
\* at the counter.
THEOREM LotteryIsSafeInSystem ==
    SystemSpec => /\ [](WinnerExists /\ TicketsAreKept /\ OffersAreKept)
                  /\ DrawIsBlind
<1>1. OpenLotterySpec => [](WinnerExists /\ TicketsAreKept /\ OffersAreKept)
  BY OpenWinners, OpenTickets, OpenOffers, PTL
<1> QED BY <1>1, OpenDraws, SystemImplementsBoth

-----------------------------------------------------------------------------
(***************************************************************************)
(* What a claim pays, through either door.                                 *)
(***************************************************************************)
Spent(u) == [r \in RoundIds |-> entry[r][u].amount]

TicketsSpent == \A u \in Users : Tickets(u) = Total(Spent(u), RoundIds)

LEMMA TicketsAreTotals == TicketsSpent
<1> SUFFICES ASSUME NEW u \in Users
             PROVE  Tickets(u) = Total(Spent(u), RoundIds)
  BY DEF TicketsSpent
<1> DEFINE f == Spent(u)
<1>1. ASSUME NEW h
      PROVE  [s \in SUBSET RoundIds |-> IF s = {} THEN 0 ELSE f[Pick(s)] + h[s \ {Pick(s)}]]
               = [s \in SUBSET RoundIds |->
                     IF s = {} THEN 0 ELSE entry[Pick(s)][u].amount + h[s \ {Pick(s)}]]
  <2>1. \A s \in SUBSET RoundIds : s # {} => f[Pick(s)] = entry[Pick(s)][u].amount
    BY PickIsMember DEF Spent
  <2> HIDE DEF f
  <2> QED BY <2>1
<1>2. Summed(f, RoundIds) =
        CHOOSE h : h = [s \in SUBSET RoundIds |->
                          IF s = {} THEN 0 ELSE entry[Pick(s)][u].amount + h[s \ {Pick(s)}]]
  <2> HIDE DEF f
  <2> QED BY <1>1 DEF Summed, Adds
<1>3. Tickets(u) =
        (CHOOSE h : h = [s \in SUBSET RoundIds |->
             IF s = {} THEN 0 ELSE entry[Pick(s)][u].amount + h[s \ {Pick(s)}]])[RoundIds]
  BY DEF Tickets, MapThenSumSet, MapThenFoldSet, Pick
<1> QED BY <1>2, <1>3 DEF Total

\* A position becomes claimed by a claim of its owner and by nothing else the
\* batch program does.
LEMMA OnlyClaimsClaim ==
    ASSUME StakeTypeOK, Next, NEW u \in Users, ~pos[u].claimed, pos'[u].claimed
    PROVE  Claim(u)
<1>0. pos \in [Users -> Position] /\ pos[u] \in Position
  BY DEF StakeTypeOK
<1>1. pos' # pos
  OBVIOUS
<1>2. ASSUME NEW w \in Users, NEW p, pos' = [pos EXCEPT ![w] = p], ~p.claimed \/ w # u
      PROVE  FALSE
  BY <1>0, <1>2
<1>3. ASSUME NEW w \in Users, NEW a \in Stakes, JoinBatch(w, a)
      PROVE  FALSE
  <2>1. CASE w = u
    <3>1. ClosedPosition.claimed = FALSE /\ Joined(u, a).claimed = FALSE
      BY <1>0 DEF Joined, ClosedPosition, Position
    <3> QED BY <1>2, <1>3, <2>1, <3>1 DEF JoinBatch
  <2>2. CASE w # u
    BY <1>2, <1>3, <2>2 DEF JoinBatch
  <2> QED BY <2>1, <2>2
<1>4. ASSUME NEW w \in Users, NEW a \in Stakes, LeaveBatch(w, a)
      PROVE  FALSE
  <2>1. w = u => ~Left(w, a).claimed
    BY <1>0 DEF Left, Position
  <2> QED BY <1>2, <1>4, <2>1 DEF LeaveBatch
<1>5. ASSUME NEW w \in Users, NEW i \in Options, CastVote(w, i)
      PROVE  FALSE
  <2>1. w = u => ~Voted(w, i).claimed
    BY <1>0 DEF Voted, Position
  <2> QED BY <1>2, <1>5, <2>1 DEF CastVote
<1>6. ASSUME NEW w \in Users, Claim(w)
      PROVE  w = u
  BY <1>2, <1>6 DEF Claim
<1>7. \A filled \in Slates, k \in Kickoffs : ~ProposeMatch(filled, k)
  BY <1>1 DEF ProposeMatch, stakeVars
<1>8. \A x \in Overpay :
        ~DepositCollateralSkip(x) /\ \A o \in Odds : ~DepositCollateralBet(o, x)
  BY <1>1 DEF DepositCollateralSkip, DepositCollateralBet, stakeVars
<1>9. ~InitializeBatch /\ ~StartBatch /\ ~FinalizeConsensus /\ ~PenalizeMissedCollateral
  BY <1>1 DEF InitializeBatch, StartBatch, FinalizeConsensus, PenalizeMissedCollateral, stakeVars
<1>10. ~SettleUsersWon /\ ~SettleOperatorWon /\ ~SettleDefault
  BY <1>1 DEF SettleUsersWon, SettleOperatorWon, SettleDefault, stakeVars
<1>11. ~ClaimOperatorYield /\ ~ClockTick /\ ~OthersUseVault
  BY <1>1 DEF ClaimOperatorYield, ClockTick, OthersUseVault, batchVars, stakeVars
<1> QED BY <1>3, <1>4, <1>5, <1>6, <1>7, <1>8, <1>9, <1>10, <1>11 DEF Next

\* The conclusion of WagerIsReward for one user.
ClaimPays(u) ==
    LET bought == Tickets(u)' - Tickets(u)
    IN  /\ (tok'[u] + bought) - tok[u] = PrincipalPayout(u) + RewardShare(u)
        /\ bought <= tok[BatchAta] - tok'[BatchAta]
        /\ tok'[u] - tok[u] >= PrincipalPayout(u)

\* The payment in full, of which bought went into tickets.
LEMMA PaidInFull ==
    ASSUME NEW u \in Users, NEW bought \in Nat, NEW kept \in Nat,
           tok[u] \in Nat, tok[BatchAta] \in Nat, PrincipalPayout(u) \in Nat,
           Tickets(u) \in Nat, Tickets(u)' = Tickets(u) + bought,
           bought + kept = RewardShare(u),
           tok'[u] = tok[u] + PrincipalPayout(u) + kept,
           tok'[BatchAta] = tok[BatchAta] - RewardShare(u)
    PROVE  ClaimPays(u)
<1>1. Tickets(u)' - Tickets(u) = bought
  OBVIOUS
<1>2. (tok'[u] + bought) - tok[u] = PrincipalPayout(u) + RewardShare(u)
  OBVIOUS
<1>3. bought <= tok[BatchAta] - tok'[BatchAta]
  OBVIOUS
<1>4. tok'[u] - tok[u] >= PrincipalPayout(u)
  OBVIOUS
<1> QED BY <1>1, <1>2, <1>3, <1>4 DEF ClaimPays

LEMMA WagerStep ==
    ASSUME TypeOK, LotteryTypeInv, TicketsSpent, TicketsSpent',
           [SystemNext]_systemVars,
           NEW u \in Users, ~pos[u].claimed, pos'[u].claimed
    PROVE  ClaimPays(u)
<1>0. /\ VaultTypeOK /\ StakeTypeOK /\ tok \in [TokenAccounts -> Nat]
      /\ pos \in [Users -> Position]
      /\ entry \in [RoundIds -> [Buyers -> Entry]]
      /\ u \in Buyers /\ u \in TokenAccounts /\ BatchAta \in TokenAccounts
  BY AccountFacts, SystemConstants
  DEF TypeOK, VaultTypeOK, StakeTypeOK, LotteryTypeInv, LotteryTypeOK
<1>f. IsFiniteSet(RoundIds)
  <2>1. 1 \in Int /\ MaxRounds \in Int
    BY LotteryConstants
  <2> QED BY <2>1, FS_Interval DEF RoundIds
<1>1. /\ \A r \in RoundIds : Spent(u)[r] \in Nat
      /\ Tickets(u) = Total(Spent(u), RoundIds)
      /\ Tickets(u)' = Total(Spent(u)', RoundIds)
      /\ Tickets(u) \in Nat
  <2>1. \A r \in RoundIds : Spent(u)[r] \in Nat
    BY <1>0 DEF Spent, Entry
  <2>2. Total(Spent(u), RoundIds) \in Nat
    BY <1>f, <2>1, TotalType
  <2> QED BY <2>1, <2>2 DEF TicketsSpent
<1>2. CASE Next /\ UNCHANGED lotteryVars
  <2>1. Claim(u)
    BY <1>0, <1>2, OnlyClaimsClaim
  <2>2. ClaimEffect(u) /\ CanClaim(u)
    BY <1>0, <2>1, ClaimHasEffect DEF Claim
  <2>3. Payout(u) \in Nat /\ RewardShare(u) \in Nat
    BY <1>0, <2>2, ClaimVaultTypes, RewardShareBounds
  <2>4. Spent(u)' = Spent(u)
    BY <1>2 DEF Spent, lotteryVars
  <2>5. Tickets(u)' = Tickets(u) + 0
    BY <1>1, <2>4
  <2>6. tok' = Moved(Moved(tok, VaultAcct, u, Payout(u)), BatchAta, u, RewardShare(u))
    BY <2>1 DEF Claim, Payout
  <2>7. tok'[u] = tok[u] + Payout(u) + RewardShare(u)
    <3>1. u # VaultAcct /\ u # BatchAta
      BY AccountFacts
    <3> QED BY <1>0, <2>3, <2>6, <3>1 DEF Moved
  <2>8. PrincipalPayout(u) = Payout(u)
    BY DEF PrincipalPayout, Payout
  <2>9. tok'[BatchAta] = tok[BatchAta] - RewardShare(u)
    BY <2>2 DEF ClaimEffect
  <2> QED BY <1>0, <1>1, <2>3, <2>5, <2>7, <2>8, <2>9, PaidInFull
<1>3. CASE LotteryOp /\ UNCHANGED <<batchVars, vaultVars>>
  BY <1>3 DEF batchVars, stakeVars
<1>4. ASSUME NEW w \in Users, NEW r \in RoundIds, ClaimAndJoinLottery(w, r)
      PROVE  ClaimPays(u)
  <2>1. w = u
    BY <1>0, <1>4 DEF ClaimAndJoinLottery
  <2>2. /\ Payout(u) \in Nat /\ RewardShare(u) \in Nat /\ JoinMoves(u, r)
    BY <1>4, <2>1, JoinedTokens
  <2>3. Tickets(u)' = Tickets(u) + RewardShare(u)
    <3>1. CASE RewardShare(u) > 0
      <4>1. entry' = [entry EXCEPT ![r][u] = Ticket(r, u, RewardShare(u))]
        BY <1>4, <2>1, <3>1 DEF ClaimAndJoinLottery, Wager, TicketSold
      <4>2. /\ entry'[r][u].amount = entry[r][u].amount + RewardShare(u)
            /\ \A q \in RoundIds \ {r} : entry'[q][u] = entry[q][u]
        BY <1>0, <4>1 DEF Ticket
      <4>3. /\ Spent(u)'[r] = Spent(u)[r] + RewardShare(u)
            /\ \A q \in RoundIds \ {r} : Spent(u)[q] = Spent(u)'[q]
        BY <4>2 DEF Spent
      <4>4. \A q \in RoundIds : Spent(u)[q] \in Nat /\ Spent(u)'[q] \in Nat
        BY <1>1, <2>2, <4>3
      <4>5. Total(Spent(u)', RoundIds) + Spent(u)[r] = Total(Spent(u), RoundIds) + Spent(u)'[r]
        BY <1>f, <4>3, <4>4, TotalChange
      <4>6. Total(Spent(u)', RoundIds) \in Nat
        BY <1>f, <4>4, TotalType
      <4> QED BY <1>1, <2>2, <4>3, <4>5, <4>6
    <3>2. CASE RewardShare(u) = 0
      <4>1. Spent(u)' = Spent(u)
        BY <1>4, <2>1, <3>2 DEF ClaimAndJoinLottery, lotteryVars, Spent
      <4> QED BY <1>1, <3>2, <4>1
    <3> QED BY <2>2, <3>1, <3>2
  <2>4. PrincipalPayout(u) = Payout(u)
    BY DEF PrincipalPayout, Payout
  <2>5. tok'[u] = tok[u] + Payout(u) + 0 /\ tok'[BatchAta] = tok[BatchAta] - RewardShare(u)
    BY <1>0, <2>2 DEF JoinMoves
  <2> QED BY <1>0, <1>1, <2>2, <2>3, <2>4, <2>5, PaidInFull
<1>5. CASE UNCHANGED systemVars
  BY <1>5 DEF systemVars, vars, batchVars, stakeVars
<1> QED BY <1>2, <1>3, <1>4, <1>5 DEF SystemNext

\* Whichever door a user claims through, wallet and new tickets together gain
\* what claim pays, and the tickets are paid from the claim pool alone.
THEOREM WagersAreRewards == SystemSpec => WagerIsReward
<1>1. TicketsSpent
  BY TicketsAreTotals
<1>2. TypeOK /\ LotteryTypeInv /\ TicketsSpent /\ TicketsSpent' /\ [SystemNext]_systemVars
        => [\A u \in Users : (~pos[u].claimed /\ pos'[u].claimed) => ClaimPays(u)]_systemVars
  BY WagerStep
<1>3. SystemSpec => []TypeOK /\ []LotteryTypeInv
  BY OpenTypeCorrect, LotteryTypeInvariant, SystemImplementsBoth
<1> QED BY <1>1, <1>2, <1>3, PTL DEF SystemSpec, WagerIsReward, ClaimPays

=============================================================================
