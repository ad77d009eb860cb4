--------------------------- MODULE AppViewProofs ---------------------------
(***************************************************************************)
(* What the web app shows and expects of the batch program is what the     *)
(* program does, for any users, stakes, slates and deadlines: the voting   *)
(* panel, the stake panel, the model of the chain the app's own modules    *)
(* are proved against, and the history page.                               *)
(***************************************************************************)
EXTENDS VotingPanel, LobbyPage, CoreAsSeen, HistoryPage, UndegenBooksProofs

-----------------------------------------------------------------------------
(***************************************************************************)
(* The voting panel tells the truth about the ballot and the default,      *)
(* provided the app's waiting time for a default is the program's proof    *)
(* window.                                                                 *)
(***************************************************************************)
\* Slot i is the first of the greatest weights below slot k.
Leads(weights, i, k) ==
    /\ i \in Below(k)
    /\ \A j \in Below(k) : weights[j] <= weights[i]
    /\ \A j \in Below(k) : j < i => weights[j] < weights[i]

LEMMA LeaderStep ==
    ASSUME NEW weights \in [Options -> Nat], NEW k \in Options,
           \E i \in Options : Leads(weights, i, k)
    PROVE  \E i \in Options : Leads(weights, i, k + 1)
<1>1. PICK i \in Options : Leads(weights, i, k)
  OBVIOUS
<1>2. Below(k + 1) = Below(k) \cup {k} /\ \A j \in Below(k) : j < k /\ j \in Options
  BY DEF Below, Options
<1>3. \A j \in Options : weights[j] \in Nat
  OBVIOUS
<1>4. CASE weights[k] > weights[i]
  <2>1. \A j \in Below(k) : weights[j] < weights[k]
    BY <1>1, <1>2, <1>3, <1>4 DEF Leads
  <2>2. \A j \in Below(k + 1) : j \in Below(k) \/ j = k
    BY <1>2
  <2>3. k \in Below(k + 1) /\ weights[k] <= weights[k] /\ \A j \in Below(k) : weights[j] <= weights[k]
    BY <1>2, <1>3, <2>1
  <2>4. Leads(weights, k, k + 1)
    BY <2>1, <2>2, <2>3 DEF Leads, Options
  <2>5. QED
    BY <2>4
<1>5. CASE ~(weights[k] > weights[i])
  <2>1. Leads(weights, i, k + 1)
    BY <1>1, <1>2, <1>3, <1>5 DEF Leads, Options
  <2>2. QED
    BY <2>1
<1>6. QED
  BY <1>4, <1>5

LEMMA LeaderExists ==
    ASSUME NEW weights \in [Options -> Nat]
    PROVE  \E i \in Options :
              /\ \A j \in Options : weights[j] <= weights[i]
              /\ \A j \in Options : j < i => weights[j] < weights[i]
<1> DEFINE Some(k) == \E i \in Options : Leads(weights, i, k)
<1>1. Some(1)
  <2>1. 0 \in Options /\ Below(1) = {0} /\ weights[0] \in Nat
    BY DEF Below, Options
  <2>2. Leads(weights, 0, 1)
    BY <2>1 DEF Leads
  <2>3. QED
    BY <2>1, <2>2
<1>2. ASSUME NEW k \in Options, Some(k) PROVE Some(k + 1)
  BY <1>2, LeaderStep
<1> HIDE DEF Some
<1>3. Some(2)
  BY <1>1, <1>2 DEF Options
<1>4. Some(3)
  BY <1>2, <1>3 DEF Options
<1>5. Some(4)
  BY <1>2, <1>4 DEF Options
<1>6. Some(5)
  BY <1>2, <1>5 DEF Options
<1>7. Below(5) = Options
  BY DEF Below, Options
<1>8. QED
  BY <1>6, <1>7 DEF Some, Leads

\* A set of options has more than one member if it has two.
LEMMA TwoMembers ==
    ASSUME NEW S \in SUBSET Options, NEW m \in S
    PROVE  Cardinality(S) > 1 <=> \E j \in S : j # m
<1>1. IsFiniteSet(S) /\ Cardinality(S) \in Nat
  <2> DEFINE top == 4
  <2>1. IsFiniteSet(0..top)
    <3>1. 0 \in Int /\ top \in Int
      OBVIOUS
    <3> HIDE DEF top
    <3>2. QED
      BY <3>1, FS_Interval
  <2>2. QED
    BY <2>1, FS_Subset, FS_CardinalityType DEF Options
<1>2. Cardinality(S) # 0
  BY <1>1, FS_EmptySet
<1>3. Cardinality(S) = 1 <=> \E x : S = {x}
  BY <1>1, FS_Singleton
<1>4. (\E x : S = {x}) <=> ~\E j \in S : j # m
  <2>1. ASSUME NEW x, S = {x} PROVE ~\E j \in S : j # m
    BY <2>1
  <2>2. ASSUME ~\E j \in S : j # m PROVE S = {m}
    BY <2>2
  <2>3. QED
    BY <2>1, <2>2
<1>5. Cardinality(S) > 1 <=> Cardinality(S) # 1
  BY <1>1, <1>2
<1>6. QED
  BY <1>3, <1>4, <1>5

\* The leading option is the consensus, or Skip is if another ties with it.
LEMMA LeaderDecides ==
    ASSUME voteWeights \in [Options -> Nat], LeadingSlot # NoSlot
    PROVE  Consensus(voteWeights) = IF Tied THEN Skip ELSE LeadingSlot
<1> DEFINE m == LeadingSlot
           S == {i \in Options : voteWeights[i] = voteWeights[m]}
<1>1. /\ m \in Options
      /\ \A j \in Options : voteWeights[j] <= voteWeights[m]
  <2>1. m = CHOOSE i \in Options :
              /\ \A j \in Options : voteWeights[j] <= voteWeights[i]
              /\ \A j \in Options : j < i => voteWeights[j] < voteWeights[i]
    BY DEF LeadingSlot
  <2>2. QED
    BY <2>1, LeaderExists
<1> HIDE DEF m
<1>2. S \in SUBSET Options /\ m \in S
  BY <1>1
<1>3. Tied <=> \E j \in S : j # m
  <2>1. Tied <=> Cardinality(S) > 1
    BY DEF Tied, m
  <2>2. QED
    BY <1>2, <2>1, TwoMembers
<1>4. \A i \in Options : voteWeights[i] \in Nat
  OBVIOUS
<1>5. CASE Tied
  <2>1. PICK n \in Options : n # m /\ voteWeights[n] = voteWeights[m]
    BY <1>3, <1>5
  <2>2. ASSUME NEW i \in Options
        PROVE  \E j \in Options \ {i} : ~(voteWeights[i] > voteWeights[j])
    BY <1>1, <1>4, <2>1
  <2>3. QED
    BY <1>5, <2>2, ConsensusLeads
<1>6. CASE ~Tied
  <2>1. \A j \in Options \ {m} : voteWeights[m] > voteWeights[j]
    BY <1>1, <1>3, <1>4, <1>6
  <2>2. Consensus(voteWeights) = m
    BY <1>1, <2>1, ConsensusLeads
  <2>3. QED
    BY <1>6, <2>2 DEF m
<1>7. QED
  BY <1>5, <1>6

LEMMA BallotIsShown ==
    ASSUME TypeOK, BallotInv
    PROVE  LeaderIsConsensus
<1>1. voteWeights \in [Options -> Nat]
  BY DEF TypeOK, RoundTypeOK
<1>2. Consensus(voteWeights) \in Options
  BY <1>1, ConsensusLeads
<1>3. VotingCompleted => DecidedSlot = Consensus(voteWeights)
  BY <1>2 DEF VotingCompleted, DecidedSlot, BallotInv, NoWinner, Options
<1>4. QED
  BY <1>1, <1>3, LeaderDecides DEF LeaderIsConsensus

-----------------------------------------------------------------------------
(***************************************************************************)
(* The deadline.  A slate comes with its kickoff, and the deadline of the  *)
(* bet that is covered counts from it.                                     *)
(***************************************************************************)
DeadlineInv ==
    /\ slate # {} => kickoff \in Nat /\ kickoff > 0
    /\ status = "Active" => slate # {} /\ proofDeadline = kickoff + ProofWindow

LEMMA DeadlineUntouched ==
    ASSUME DeadlineInv, UNCHANGED <<slate, kickoff, proofDeadline>>,
           status' = status \/ status' # "Active"
    PROVE  DeadlineInv'
  BY DEF DeadlineInv

LEMMA DeadlineCleared ==
    ASSUME ClearBet, status' # "Active"
    PROVE  DeadlineInv'
  BY DEF ClearBet, DeadlineInv

LEMMA DeadlineStep ==
    ASSUME DeadlineInv, Next
    PROVE  DeadlineInv'
<1>1. CASE InitializeBatch
  BY <1>1, DeadlineUntouched DEF InitializeBatch, roundVars
<1>2. ASSUME NEW u \in Users, NEW a \in Stakes, JoinBatch(u, a) \/ LeaveBatch(u, a)
      PROVE  DeadlineInv'
  BY <1>2, DeadlineUntouched DEF JoinBatch, LeaveBatch, roundVars
<1>3. CASE StartBatch
  BY <1>3, DeadlineUntouched DEF StartBatch, roundVars
<1>4. ASSUME NEW filled \in Slates, NEW k \in Kickoffs, ProposeMatch(filled, k)
      PROVE  DeadlineInv'
  BY <1>4, ParameterFacts DEF ProposeMatch, DeadlineInv
<1>5. ASSUME NEW u \in Users, NEW i \in Options, CastVote(u, i) PROVE DeadlineInv'
  BY <1>5, DeadlineUntouched DEF CastVote
<1>6. CASE FinalizeConsensus
  BY <1>6, DeadlineUntouched DEF FinalizeConsensus
<1>7. CASE PenalizeMissedCollateral
  BY <1>7, DeadlineCleared DEF PenalizeMissedCollateral
<1>8. ASSUME CompleteBet PROVE DeadlineInv'
  BY <1>8, DeadlineCleared DEF CompleteBet
<1>9. ASSUME NEW x \in Overpay, DepositCollateralSkip(x) PROVE DeadlineInv'
  BY <1>8, <1>9 DEF DepositCollateralSkip
<1>10. ASSUME NEW o \in Odds, NEW x \in Overpay, DepositCollateralBet(o, x) PROVE DeadlineInv'
  BY <1>10 DEF DepositCollateralBet, DeadlineInv
<1>11. CASE SettleUsersWon
  BY <1>8, <1>11 DEF SettleUsersWon
<1>12. CASE SettleOperatorWon
  BY <1>8, <1>12 DEF SettleOperatorWon
<1>13. CASE SettleDefault
  BY <1>8, <1>13 DEF SettleDefault
<1>14. ASSUME NEW u \in Users, Claim(u) PROVE DeadlineInv'
  BY <1>14, DeadlineUntouched DEF Claim, roundVars
<1>15. CASE ClaimOperatorYield
  BY <1>15, DeadlineUntouched DEF ClaimOperatorYield, batchVars, roundVars
<1>16. CASE ClockTick
  BY <1>16, DeadlineUntouched DEF ClockTick, TimePasses, batchVars, roundVars
<1>17. CASE OthersUseVault
  BY <1>17, DeadlineUntouched DEF OthersUseVault, batchVars, roundVars
<1>18. QED
  BY <1>1, <1>2, <1>3, <1>4, <1>5, <1>6, <1>7, <1>9, <1>10, <1>11, <1>12, <1>13, <1>14,
     <1>15, <1>16, <1>17 DEF Next

LEMMA DefaultIsShown ==
    ASSUME SettleDefaultAfter = ProofWindow, DeadlineInv
    PROVE  DefaultIsDue
  BY DEF DeadlineInv, DefaultIsDue, DefaultOffered, CanDefault, EscrowOpen

-----------------------------------------------------------------------------
\* Whatever is proposed, voted, replaced or missed: the option the panel shows
\* as leading or decided is what finalize_consensus decides, ties apart, and
\* the default button is there exactly when settle_default accepts, if the
\* app waits as long as the program (SETTLE_DEFAULT_AFTER_MS).
THEOREM PanelIsTrue ==
    ASSUME SettleDefaultAfter = ProofWindow
    PROVE  Spec => []PanelTellsTheBet
<1>1. Init => BallotInv /\ DeadlineInv
  BY DEF Init, BallotInv, DeadlineInv, NoVotes, Options
<1>2. TypeOK /\ BallotInv /\ DeadlineInv /\ [Next]_vars => BallotInv' /\ DeadlineInv'
  <2>1. BallotInv /\ DeadlineInv /\ UNCHANGED vars => BallotInv' /\ DeadlineInv'
    BY BallotUntouched, DeadlineUntouched DEF vars, batchVars, roundVars
  <2>2. QED
    BY <2>1, BallotStep, DeadlineStep DEF OpenNext
<1>3. TypeOK /\ BallotInv /\ DeadlineInv => PanelTellsTheBet
  BY BallotIsShown, DefaultIsShown DEF PanelTellsTheBet
<1>4. QED
  BY <1>1, <1>2, <1>3, TypeCorrect, PTL DEF Spec

-----------------------------------------------------------------------------
(***************************************************************************)
(* The stake panel: in time for a stake, and a way out for every share.    *)
(***************************************************************************)
LEMMA FlooredBounds ==
    ASSUME NEW n \in Nat, NEW a \in Floored(n)
    PROVE  a \in Nat /\ a <= n
  BY DEF Floored, Monus

\* An amount the panel can send is a natural number, and no more than the
\* stake it is taken from.
LEMMA ExitBounds ==
    ASSUME StakeTypeOK, NEW u \in Users, NEW a \in Exits(u)
    PROVE  a \in Nat /\ a <= pos[u].deposited /\ pos[u].deposited > 0 /\ status = "Lobby"
<1>1. pos[u].deposited \in Nat
  BY PositionType
<1>2. ASSUME NEW pct \in {25, 50, 75, 100}, NEW b \in Percentage(pos[u].deposited, pct)
      PROVE  b \in Nat
  <2>1. pct \in Nat /\ 100 \in Nat \ {0}
    BY <1>2
  <2>2. (pos[u].deposited * pct) \div 100 \in Nat
    BY <1>1, <2>1, PartBounds
  <2>3. QED
    BY <1>1, <1>2, <2>2, FlooredBounds DEF Percentage
<1>3. PICK b \in UnstakeAmounts(u) : CanUnstake(u, b) /\ a \in Floored(b)
  BY DEF Exits
<1>4. b \in Nat
  <2>1. b \in Stakes \/ \E pct \in {25, 50, 75, 100} : b \in Percentage(pos[u].deposited, pct)
    BY DEF UnstakeAmounts
  <2>2. Stakes \subseteq Nat
    BY ParameterFacts
  <2>3. ASSUME NEW pct \in {25, 50, 75, 100}, b \in Percentage(pos[u].deposited, pct)
        PROVE  b \in Nat
    BY <1>2, <2>3
  <2>4. QED
    BY <2>1, <2>2, <2>3
<1>5. a \in Nat /\ a <= b
  BY <1>3, <1>4, FlooredBounds
<1>6. QED
  BY <1>1, <1>3, <1>4, <1>5 DEF CanUnstake

\* An exit that was floored to nothing takes nothing.
LEMMA EmptyExit ==
    ASSUME StakeTypeOK, NEW u \in Users, pos[u].deposited > 0
    PROVE  SharesLeaving(u, 0) = 0
<1>1. pos[u].deposited \in Nat \ {0} /\ pos[u].shares \in Nat
  BY PositionType
<1>2. pos[u].shares * 0 = 0 /\ 0 \div pos[u].deposited = 0
  BY <1>1
<1>3. QED
  BY <1>1, <1>2 DEF SharesLeaving

\* Whatever is staked and left with before, by whom and in what order: the
\* panel takes a stake only while join_batch does; every exit it offers that
\* is full or takes a share is paid by leave_batch, whatever the app's floats
\* made of it; and what they lose of a full exit keeps a share of its own.
THEOREM LobbiesCanBeLeft == Spec => []LobbyCanBeLeft
<1>1. TypeOK => (CanStake => LobbyOpen)
  <2>1. TypeOK => now \in Nat /\ createdAt \in Nat /\ LobbyExpiry \in Nat
    BY ParameterFacts DEF TypeOK, LobbyTypeOK
  <2>2. QED
    BY <2>1 DEF CanStake, Expired, LobbyOpen
<1>2. ASSUME TypeOK, SharesAddUp, VaultSafe, SharesInv,
             NEW u \in Users, NEW a \in Exits(u)
      PROVE  LET s == SharesLeaving(u, a)
             IN  /\ s > 0 \/ a = pos[u].deposited =>
                       CanWithdraw(Batch, s) /\ CanPay(tok, VaultAcct, Worth(s))
                 /\ a < pos[u].deposited => s < pos[u].shares
  <2> DEFINE s == SharesLeaving(u, a)
  <2>1. StakeTypeOK /\ VaultTypeOK
    BY <1>2 DEF TypeOK
  <2>2. a \in Nat /\ a <= pos[u].deposited /\ pos[u].deposited > 0 /\ ~Started
    BY <1>2, <2>1, ExitBounds DEF Started
  <2>3. pos[u].deposited \in Nat /\ pos[u].shares \in Nat
    BY <2>1, PositionType
  <2>4. pos[u].shares > 0
    BY <1>2, <2>1, <2>2, <2>3 DEF SharesInv
  <2>5. CASE a = 0
    <3>1. s = 0
      BY <2>1, <2>2, <2>5, EmptyExit
    <3> HIDE DEF s
    <3>2. ~(s > 0) /\ a # pos[u].deposited /\ s < pos[u].shares
      BY <2>2, <2>3, <2>4, <2>5, <3>1
    <3>3. QED
      BY <3>2 DEF s
  <2>6. CASE a > 0
    <3>1. /\ s \in Nat /\ s <= pos[u].shares
          /\ a = pos[u].deposited => s = pos[u].shares
          /\ a < pos[u].deposited => s < pos[u].shares
      BY <2>1, <2>2, <2>4, <2>6, LeavingBounds
    <3>2. pos[u].shares <= Total(Tracked, Users) /\ Total(Tracked, Users) = shares[Batch]
      <4>1. \A v \in Users : Tracked[v] \in Nat
        BY <2>1, TrackedType
      <4>2. Tracked[u] <= Total(Tracked, Users)
        BY <4>1, FiniteUsers, TotalAbove
      <4>3. QED
        BY <1>2, <2>2, <4>2 DEF SharesInv, Tracked
    <3>3. shares[Batch] \in Nat
      BY <2>1, AccountFacts DEF VaultTypeOK
    <3> HIDE DEF s
    <3>4. s <= shares[Batch]
      BY <2>3, <3>1, <3>2, <3>3
    <3>5. ASSUME s > 0 \/ a = pos[u].deposited
          PROVE  CanWithdraw(Batch, s) /\ CanPay(tok, VaultAcct, Worth(s))
      <4>1. s > 0
        BY <2>4, <3>1, <3>5
      <4>2. QED
        BY <1>2, <2>1, <3>1, <3>4, <4>1, BatchIsPaid
    <3>6. QED
      BY <3>1, <3>5 DEF s
  <2>7. QED
    BY <2>2, <2>5, <2>6
<1>3. TypeOK /\ SharesAddUp /\ VaultSafe /\ SharesInv => LobbyCanBeLeft
  BY <1>1, <1>2 DEF LobbyCanBeLeft
<1>4. Spec => []VaultSafe
  BY VaultIsSafeWithBatches DEF VaultSafe
<1>5. QED
  BY <1>3, <1>4, TypeCorrect, SpecIsOpen, SharesAlwaysBooked, VaultAddsUpWithBatches, PTL

-----------------------------------------------------------------------------
(***************************************************************************)
(* The chain as the app sees it.                                           *)
(***************************************************************************)
SeenNext == IF status = "None" THEN 0 ELSE 1
SeenPositions == [u \in Users |-> SeenPosition(u)]

\* What the app sees, from its three parts.
SeenAs(next, batch, positions) ==
    [next |-> next,
     batch |-> [b \in {0} |-> batch],
     pos |-> [u \in Users |-> [b \in {0} |-> positions[u]]]]

LEMMA SeenParts ==
    /\ Seen = SeenAs(SeenNext, SeenBatch, SeenPositions)
    /\ Seen' = SeenAs(SeenNext', SeenBatch', SeenPositions')
  BY DEF Seen, SeenAs, SeenNext, SeenPositions

LEMMA SeenFields ==
    /\ Seen.next = SeenNext
    /\ Seen.batch[0] = SeenBatch
    /\ \A u \in Users : Seen.pos[u][0] = SeenPosition(u)
  BY DEF Seen, SeenNext

\* The updates of AppChain, on those parts.
LEMMA SeenNextUpdate ==
    ASSUME NEW n, NEW b, NEW p
    PROVE  [SeenAs(n, b, p) EXCEPT !.next = @ + 1] = SeenAs(n + 1, b, p)
  BY DEF SeenAs

LEMMA SeenBatchUpdate ==
    ASSUME NEW n, NEW b, NEW p, NEW c
    PROVE  [SeenAs(n, b, p) EXCEPT !.batch[0] = c] = SeenAs(n, c, p)
  BY DEF SeenAs

WithPosition(c, u, q, b) == [c EXCEPT !.pos[u][0] = q, !.batch[0] = b]

LEMMA SeenPositionUpdate ==
    ASSUME NEW n, NEW b, NEW p, DOMAIN p = Users, p = [v \in Users |-> p[v]], NEW u \in Users, NEW q
    PROVE  WithPosition(SeenAs(n, b, p), u, q, b)
             = SeenAs(n, b, [p EXCEPT ![u] = q])
<1> DEFINE F == [v \in Users |-> [x \in {0} |-> p[v]]]
           G == [v \in Users |-> [x \in {0} |-> [p EXCEPT ![u] = q][v]]]
           C == [x \in {0} |-> b]
<1>1. [F EXCEPT ![u][0] = q] = G
  OBVIOUS
<1>2. [C EXCEPT ![0] = b] = C
  OBVIOUS
<1>3. SeenAs(n, b, p) = [next |-> n, batch |-> C, pos |-> F]
  BY DEF SeenAs
<1>4. SeenAs(n, b, [p EXCEPT ![u] = q]) = [next |-> n, batch |-> C, pos |-> G]
  BY DEF SeenAs
<1> HIDE DEF F, G, C
<1> DEFINE R == [next |-> n, batch |-> C, pos |-> F]
<1>5. [R EXCEPT !.pos[u][0] = q] = [next |-> n, batch |-> C, pos |-> [F EXCEPT ![u][0] = q]]
  OBVIOUS
<1>6. [R EXCEPT !.pos[u][0] = q, !.batch[0] = b] = [[R EXCEPT !.pos[u][0] = q] EXCEPT !.batch[0] = b]
  OBVIOUS
<1>7. [[next |-> n, batch |-> C, pos |-> G] EXCEPT !.batch[0] = b] = [next |-> n, batch |-> C, pos |-> G]
  BY <1>2
<1>8. QED
  BY <1>1, <1>2, <1>3, <1>4, <1>5, <1>6, <1>7 DEF WithPosition

\* A step that changes the batch alone.
LEMMA BatchChanges ==
    ASSUME UNCHANGED <<SeenNext, SeenPositions>>
    PROVE  Seen' = [Seen EXCEPT !.batch[0] = SeenBatch']
  BY SeenParts, SeenBatchUpdate

\* A user's request, but a default, that is executed.
LEMMA RequestExecuted ==
    ASSUME NEW u \in Users, NEW r \in App!Requests,
           r.batch = 0, r.kind # "default", App!Accepts(u, r),
           UNCHANGED <<SeenNext, SeenBatch>>,
           \A v \in Users \ {u} : pos'[v] = pos[v],
           SeenPosition(u)' = App!PositionAfter(SeenPosition(u), SeenBatch, r)
    PROVE  App!ChainNext
<1> DEFINE q == App!PositionAfter(SeenPosition(u), SeenBatch, r)
           P == SeenPositions
<1>1. SeenPositions' = [P EXCEPT ![u] = q]
  <2>1. \A v \in Users \ {u} : SeenPosition(v)' = SeenPosition(v)
    BY DEF SeenPosition
  <2> HIDE DEF q
  <2>2. \A v \in Users : SeenPosition(v)' = IF v = u THEN q ELSE SeenPosition(v)
    BY <2>1 DEF q
  <2>3. QED
    BY <2>2 DEF SeenPositions
<1>2. DOMAIN P = Users /\ P = [v \in Users |-> P[v]]
  BY DEF SeenPositions
<1>3. Seen.pos[u][0] = SeenPosition(u) /\ Seen.batch[0] = SeenBatch
  BY SeenFields
<1> HIDE DEF P, q
<1>4. Seen' = WithPosition(Seen, u, q, SeenBatch)
  <2>1. Seen = SeenAs(SeenNext, SeenBatch, P) /\ Seen' = SeenAs(SeenNext, SeenBatch, [P EXCEPT ![u] = q])
    BY <1>1, SeenParts DEF P
  <2>2. WithPosition(SeenAs(SeenNext, SeenBatch, P), u, q, SeenBatch)
          = SeenAs(SeenNext, SeenBatch, [P EXCEPT ![u] = q])
    BY <1>2, SeenPositionUpdate
  <2>3. QED
    BY <2>1, <2>2
<1>5. WithPosition(Seen, u, q, SeenBatch)
        = [Seen EXCEPT !.pos[u][0] = App!PositionAfter(@, Seen.batch[0], r), !.batch[0] = @]
  BY <1>3 DEF q, WithPosition
<1>6. App!Execute(u, r)
  BY <1>4, <1>5 DEF App!Execute
<1>7. QED
  BY <1>6 DEF App!ChainNext

\* The cut-off depends on the clock and the kickoff alone, and has passed when
\* there is no kickoff.
LEMMA SameCutoff ==
    ASSUME UNCHANGED <<now, kickoff>>
    PROVE  UNCHANGED VotingClosed
  BY DEF VotingClosed

LEMMA NoKickoffIsClosed ==
    ASSUME kickoff' = 0, now' \in Nat
    PROVE  VotingClosed' = TRUE
<1>1. Monus(kickoff', VoteCutoff) = 0
  BY ParameterFacts DEF Monus
<1>2. now' >= Monus(kickoff', VoteCutoff)
  BY <1>1
<1>3. QED
  BY <1>2 DEF VotingClosed

\* A step that changes nothing the app decodes.
LEMMA NothingSeen ==
    ASSUME UNCHANGED <<status, betsCompleted, slate, winningVote, pos, now, kickoff>>
    PROVE  UNCHANGED Seen
  BY SameCutoff DEF Seen, SeenBatch, SeenPosition

\* A step that leaves the positions alone, in a batch that exists before and
\* after it.
LEMMA PositionsStay ==
    ASSUME UNCHANGED pos, status # "None", status' # "None"
    PROVE  /\ UNCHANGED <<SeenNext, SeenPositions>>
           /\ Seen' = [Seen EXCEPT !.batch[0] = SeenBatch']
           /\ 0 < Seen.next /\ Seen.batch[0] = SeenBatch
<1>1. UNCHANGED <<SeenNext, SeenPositions>>
  BY DEF SeenNext, SeenPositions, SeenPosition
<1>2. QED
  BY <1>1, BatchChanges, SeenFields DEF SeenNext

LEMMA RequestTypes ==
    /\ App!JoinRequest(0) \in App!Requests
    /\ App!LeaveRequest(0) \in App!Requests
    /\ App!ClaimRequest(0) \in App!Requests
    /\ \A i \in Options : App!VoteRequest(0, i) \in App!Requests
  BY DEF App!JoinRequest, App!LeaveRequest, App!ClaimRequest, App!VoteRequest,
         App!Requests, Options

LEMMA InitializeIsSeen ==
    ASSUME InitializeBatch
    PROVE  App!ChainNext
<1>1. /\ status = "None" /\ status' = "Lobby"
      /\ UNCHANGED <<betsCompleted, slate, winningVote, pos, now, kickoff>>
  BY DEF InitializeBatch, stakeVars, tallyVars, roundVars
<1>2. SeenNext = 0 /\ SeenNext' = 0 + 1 /\ UNCHANGED <<SeenBatch, SeenPositions>>
  BY <1>1, SameCutoff DEF SeenNext, SeenBatch, SeenPositions, SeenPosition
<1>3. Seen' = [Seen EXCEPT !.next = @ + 1]
  BY <1>2, SeenParts, SeenNextUpdate
<1>4. App!NewBatch
  BY <1>2, <1>3, SeenFields DEF App!NewBatch
<1>5. QED
  BY <1>4 DEF App!ChainNext, App!OperatorNext


\* When a request is accepted, in the program's own terms.
LEMMA RequestAccepted ==
    ASSUME NEW u \in Users, NEW r, r.batch = 0, status # "None",
           \/ r.kind = "join" /\ status = "Lobby"
           \/ r.kind = "leave" /\ status = "Lobby" /\ pos[u].deposited > 0
           \/ /\ r.kind = "vote" /\ status = "Locked" /\ pos[u].open
              /\ r.slot \in slate \cup {Skip} /\ ~VotingClosed
           \/ r.kind = "claim" /\ status = "Settled" /\ pos[u].deposited > 0 /\ ~pos[u].claimed
    PROVE  App!Accepts(u, r)
<1> DEFINE b == Seen.batch[r.batch]
           p == Seen.pos[u][r.batch]
<1>1. r.batch \in {0} /\ r.batch < Seen.next
  BY SeenFields DEF SeenNext
<1>2. b = SeenBatch /\ p = SeenPosition(u)
  BY SeenFields
<1>3. b.status = status /\ b.filled = slate /\ b.closed = VotingClosed
  BY <1>2 DEF SeenBatch
<1>4. p.stake = (pos[u].deposited > 0)
  BY <1>2 DEF SeenPosition
<1>5. p.open = pos[u].open
  BY <1>2 DEF SeenPosition
<1>6. p.claimed = pos[u].claimed
  BY <1>2 DEF SeenPosition
<1> HIDE DEF b, p
<1>7. CASE r.kind = "join"
  <2>1. status = "Lobby"
    BY <1>7
  <2>2. QED
    BY <1>1, <1>3, <1>7, <2>1 DEF App!Accepts, App!Exists, b
<1>8. CASE r.kind = "leave"
  <2>1. status = "Lobby" /\ pos[u].deposited > 0
    BY <1>8
  <2>2. p.stake
    BY <1>4, <2>1
  <2>3. QED
    BY <1>1, <1>3, <1>8, <2>1, <2>2 DEF App!Accepts, App!Exists, b, p
<1>9. CASE r.kind = "vote"
  <2>1. status = "Locked" /\ r.slot \in b.filled \cup {App!SkipVote} /\ p.open
    BY <1>3, <1>5, <1>9 DEF App!SkipVote, Skip
  <2>2. App!Votable(b, p, r.slot)
    BY <1>3, <2>1 DEF App!Votable
  <2>3. ~VotingClosed
    BY <1>9
  <2>4. ~b.closed
    BY <1>3, <2>3, Zenon
  <2>5. QED
    BY <1>1, <1>9, <2>2, <2>4 DEF App!Accepts, App!Exists, b, p
<1>10. CASE r.kind = "claim"
  <2>1. status = "Settled" /\ pos[u].deposited > 0 /\ ~pos[u].claimed
    BY <1>10
  <2>2. p.stake /\ ~p.claimed
    BY <1>4, <1>6, <2>1
  <2>3. QED
    BY <1>1, <1>3, <1>10, <2>1, <2>2 DEF App!Accepts, App!Exists, b, p
<1>11. QED
  BY <1>7, <1>8, <1>9, <1>10

\* A position as the app decodes it: positive stake or none.
LEMMA SeenRestaked ==
    ASSUME NEW u \in Users, StakeTypeOK, NEW d \in Nat, NEW s,
           pos'[u] = [pos[u] EXCEPT !.deposited = d, !.shares = s]
    PROVE  SeenPosition(u)' = [SeenPosition(u) EXCEPT !.stake = (d > 0)]
<1>1. pos[u] \in Position
  BY DEF StakeTypeOK
<1>2. /\ pos'[u].deposited = d
      /\ pos'[u].open = pos[u].open /\ pos'[u].hasVoted = pos[u].hasVoted
      /\ pos'[u].voteIndex = pos[u].voteIndex /\ pos'[u].votedRound = pos[u].votedRound
      /\ pos'[u].claimed = pos[u].claimed
  BY <1>1 DEF Position
<1>3. SeenPosition(u)' =
        [open |-> pos[u].open, stake |-> d > 0, voted |-> pos[u].hasVoted,
         vote |-> pos[u].voteIndex, round |-> pos[u].votedRound, claimed |-> pos[u].claimed]
  BY <1>2 DEF SeenPosition
<1>4. QED
  BY <1>3 DEF SeenPosition

\* The position a join opens.
LEMMA OpenedPosition ==
    [App!NoPosition EXCEPT !.open = TRUE, !.stake = TRUE]
        = [open |-> TRUE, stake |-> TRUE, voted |-> FALSE, vote |-> 0, round |-> 0,
           claimed |-> FALSE]
<1> DEFINE T == TRUE
           F == FALSE
           R == [open |-> F, stake |-> F, voted |-> F, vote |-> 0, round |-> 0, claimed |-> F]
           Q == [open |-> T, stake |-> F, voted |-> F, vote |-> 0, round |-> 0, claimed |-> F]
<1>1. App!NoPosition = R
  BY DEF App!NoPosition
<1> HIDE DEF T, F
<1>2. [R EXCEPT !.open = T] = Q
  OBVIOUS
<1>3. [Q EXCEPT !.stake = T]
        = [open |-> T, stake |-> T, voted |-> F, vote |-> 0, round |-> 0, claimed |-> F]
  OBVIOUS
<1> HIDE DEF R, Q
<1>4. [R EXCEPT !.open = T, !.stake = T] = [[R EXCEPT !.open = T] EXCEPT !.stake = T]
  OBVIOUS
<1>5. [R EXCEPT !.open = T, !.stake = T]
        = [open |-> T, stake |-> T, voted |-> F, vote |-> 0, round |-> 0, claimed |-> F]
  BY <1>2, <1>3, <1>4
<1>6. QED
  BY <1>1, <1>5, Zenon DEF T, F

LEMMA SeenJoined ==
    ASSUME NEW u \in Users, StakeTypeOK, NEW a \in Nat, a > 0, MintedFor(a) \in Nat,
           pos'[u] = Joined(u, a)
    PROVE  SeenPosition(u)' = App!PositionAfter(SeenPosition(u), SeenBatch, App!JoinRequest(0))
<1> DEFINE r == App!JoinRequest(0)
           p == SeenPosition(u)
           m == MintedFor(a)
<1>1. r.kind = "join" /\ p.stake = (pos[u].deposited > 0)
  BY DEF App!JoinRequest, SeenPosition
<1>2. pos[u].deposited \in Nat /\ pos[u].shares \in Nat
  BY PositionType
<1> HIDE DEF r
<1>3. App!PositionAfter(p, SeenBatch, r)
        = IF p.stake THEN p ELSE [App!NoPosition EXCEPT !.open = TRUE, !.stake = TRUE]
  BY <1>1 DEF App!PositionAfter
<1> HIDE DEF p, m
<1>4. CASE pos[u].deposited = 0
  <2>1. pos'[u] = [open |-> TRUE, deposited |-> 0 + a, shares |-> 0 + m, hasVoted |-> FALSE,
                   voteIndex |-> 0, votedRound |-> 0, claimed |-> FALSE]
    BY <1>4 DEF Joined, ClosedPosition, m
  <2>2. SeenPosition(u)' = [open |-> TRUE, stake |-> 0 + a > 0, voted |-> FALSE, vote |-> 0,
                            round |-> 0, claimed |-> FALSE]
    BY <2>1 DEF SeenPosition
  <2>3. 0 + a > 0
    OBVIOUS
  <2>4. (0 + a > 0) = TRUE
    BY <2>3
  <2>5. ~p.stake
    <3>1. ~(pos[u].deposited > 0)
      BY <1>4
    <3>2. QED
      BY <1>1, <3>1, Zenon
  <2>6. [App!NoPosition EXCEPT !.open = TRUE, !.stake = TRUE]
          = [open |-> TRUE, stake |-> TRUE, voted |-> FALSE, vote |-> 0, round |-> 0,
             claimed |-> FALSE]
    BY OpenedPosition
  <2>7. QED
    BY <1>3, <2>2, <2>4, <2>5, <2>6 DEF r, p
<1>5. CASE pos[u].deposited # 0
  <2>1. pos'[u] = [pos[u] EXCEPT !.deposited = pos[u].deposited + a,
                                 !.shares = pos[u].shares + m]
    BY <1>5 DEF Joined, m
  <2>2. pos[u].deposited + a \in Nat
    BY <1>2
  <2>3. SeenPosition(u)' = [p EXCEPT !.stake = (pos[u].deposited + a > 0)]
    <3> DEFINE d == pos[u].deposited + a
               s == pos[u].shares + m
    <3>1. d \in Nat /\ pos'[u] = [pos[u] EXCEPT !.deposited = d, !.shares = s]
      BY <2>1, <2>2
    <3> HIDE DEF d, s
    <3>2. SeenPosition(u)' = [SeenPosition(u) EXCEPT !.stake = (d > 0)]
      BY <3>1, SeenRestaked
    <3>3. QED
      BY <3>2 DEF p, d
  <2>4. pos[u].deposited + a > 0 /\ pos[u].deposited > 0
    BY <1>2, <1>5
  <2>5. p.stake = TRUE /\ (pos[u].deposited + a > 0) = TRUE
    BY <1>1, <2>4
  <2>6. [p EXCEPT !.stake = TRUE] = p
    BY <2>5 DEF p, SeenPosition
  <2>7. QED
    BY <1>3, <2>3, <2>5, <2>6 DEF r, p
<1>6. QED
  BY <1>4, <1>5

LEMMA JoinIsSeen ==
    ASSUME TypeOK, NEW u \in Users, NEW a \in Stakes, JoinBatch(u, a)
    PROVE  App!ChainNext
<1> DEFINE r == App!JoinRequest(0)
<1>1. /\ status = "Lobby" /\ a > 0 /\ VaultDeposit(Batch, a)
      /\ pos' = [pos EXCEPT ![u] = Joined(u, a)]
      /\ UNCHANGED <<status, tallyVars, roundVars, now>>
  BY DEF JoinBatch
<1>2. UNCHANGED <<SeenNext, SeenBatch>>
  BY <1>1, SameCutoff DEF SeenNext, SeenBatch, tallyVars, roundVars
<1>3. StakeTypeOK /\ VaultTypeOK /\ a \in Nat /\ Batch \in Depositors
  BY ParameterFacts, AccountFacts DEF TypeOK
<1>4. MintedFor(a) \in Nat
  BY <1>1, <1>3, DepositTypes DEF VaultDeposit
<1>5. pos'[u] = Joined(u, a) /\ \A v \in Users \ {u} : pos'[v] = pos[v]
  BY <1>1, <1>3 DEF StakeTypeOK
<1>6. r \in App!Requests /\ r.batch = 0 /\ r.kind = "join"
  BY RequestTypes DEF App!JoinRequest
<1>7. SeenPosition(u)' = App!PositionAfter(SeenPosition(u), SeenBatch, r)
  BY <1>1, <1>3, <1>4, <1>5, SeenJoined
<1> HIDE DEF r
<1>8. App!Accepts(u, r)
  BY <1>1, <1>6, RequestAccepted
<1>9. QED
  BY <1>2, <1>5, <1>6, <1>7, <1>8, RequestExecuted

LEMMA LeaveIsSeen ==
    ASSUME TypeOK, NEW u \in Users, NEW a \in Stakes, LeaveBatch(u, a)
    PROVE  App!ChainNext \/ UNCHANGED Seen
<1> DEFINE r == App!LeaveRequest(0)
           d == pos[u].deposited - a
           s == Monus(pos[u].shares, SharesLeaving(u, a))
<1>1. /\ status = "Lobby" /\ a > 0 /\ a <= pos[u].deposited
      /\ pos' = [pos EXCEPT ![u] = Left(u, a)]
      /\ UNCHANGED <<status, tallyVars, roundVars, now>>
  BY Zenon DEF LeaveBatch
<1>2. UNCHANGED <<SeenNext, SeenBatch>>
  BY <1>1, SameCutoff DEF SeenNext, SeenBatch, tallyVars, roundVars
<1>3. StakeTypeOK /\ a \in Nat /\ pos[u].deposited \in Nat
  <2>1. StakeTypeOK
    BY DEF TypeOK
  <2>2. a \in Nat
    BY ParameterFacts
  <2>3. QED
    BY <2>1, <2>2, PositionType
<1>4. /\ pos'[u] = [pos[u] EXCEPT !.deposited = d, !.shares = s]
      /\ \A v \in Users \ {u} : pos'[v] = pos[v]
  BY <1>1, <1>3 DEF StakeTypeOK, Left
<1>5. d \in Nat /\ pos[u].deposited > 0
  BY <1>1, <1>3
<1> HIDE DEF d, s
<1>6. SeenPosition(u)' = [SeenPosition(u) EXCEPT !.stake = (d > 0)]
  BY <1>3, <1>4, <1>5, SeenRestaked
<1>7. CASE d > 0
  <2>1. (d > 0) = (pos[u].deposited > 0)
    BY <1>5, <1>7
  <2>2. SeenPosition(u)' = SeenPosition(u)
    BY <1>6, <2>1 DEF SeenPosition
  <2>3. \A v \in Users : SeenPosition(v)' = SeenPosition(v)
    BY <1>4, <2>2 DEF SeenPosition
  <2>4. SeenPositions' = SeenPositions
    BY <2>3 DEF SeenPositions
  <2>5. QED
    BY <1>2, <2>4, SeenParts
<1>8. CASE ~(d > 0)
  <2>1. (d > 0) = FALSE
    BY <1>8
  <2>2. r \in App!Requests /\ r.batch = 0 /\ r.kind = "leave"
    BY RequestTypes DEF App!LeaveRequest
  <2> HIDE DEF r
  <2>3. SeenPosition(u)' = App!PositionAfter(SeenPosition(u), SeenBatch, r)
    BY <1>6, <2>1, <2>2 DEF App!PositionAfter
  <2>4. App!Accepts(u, r)
    BY <1>1, <1>5, <2>2, RequestAccepted
  <2>5. QED
    BY <1>2, <1>4, <2>2, <2>3, <2>4, RequestExecuted
<1>9. QED
  BY <1>7, <1>8

\* The fields a vote and a claim set.
WithVote(p, i, n) == [p EXCEPT !.voted = TRUE, !.vote = i, !.round = n]

LEMMA FieldsVoted ==
    ASSUME NEW u, NEW i, NEW n
    PROVE  WithVote(SeenPosition(u), i, n)
             = [open |-> pos[u].open, stake |-> pos[u].deposited > 0, voted |-> TRUE,
                vote |-> i, round |-> n, claimed |-> pos[u].claimed]
<1> DEFINE T == TRUE
           b == pos[u].deposited > 0
           p == [open |-> pos[u].open, stake |-> b, voted |-> pos[u].hasVoted,
                 vote |-> pos[u].voteIndex, round |-> pos[u].votedRound,
                 claimed |-> pos[u].claimed]
           Q == [open |-> pos[u].open, stake |-> b, voted |-> T, vote |-> pos[u].voteIndex,
                 round |-> pos[u].votedRound, claimed |-> pos[u].claimed]
           R == [open |-> pos[u].open, stake |-> b, voted |-> T, vote |-> i,
                 round |-> pos[u].votedRound, claimed |-> pos[u].claimed]
           S == [open |-> pos[u].open, stake |-> b, voted |-> T, vote |-> i,
                 round |-> n, claimed |-> pos[u].claimed]
<1> HIDE DEF T, b
<1>1. [p EXCEPT !.voted = T] = Q
  OBVIOUS
<1>2. [Q EXCEPT !.vote = i] = R
  OBVIOUS
<1>3. [R EXCEPT !.round = n] = S
  OBVIOUS
<1>4. SeenPosition(u) = p
  BY DEF SeenPosition, b
<1> HIDE DEF Q, R, S, p
<1>5. [p EXCEPT !.voted = T, !.vote = i, !.round = n]
        = [[[p EXCEPT !.voted = T] EXCEPT !.vote = i] EXCEPT !.round = n]
  OBVIOUS
<1>6. WithVote(p, i, n) = S
  BY <1>1, <1>2, <1>3, <1>5 DEF WithVote, T
<1>7. QED
  BY <1>4, <1>6, Zenon DEF S, T, b

LEMMA FieldsClaimed ==
    ASSUME NEW p, NEW a, NEW b, NEW c, NEW d, NEW e, NEW f,
           p = [open |-> a, stake |-> b, voted |-> c, vote |-> d, round |-> e, claimed |-> f]
    PROVE  [p EXCEPT !.claimed = TRUE]
             = [open |-> a, stake |-> b, voted |-> c, vote |-> d, round |-> e, claimed |-> TRUE]
<1> DEFINE T == TRUE
<1> HIDE DEF T
<1>1. [p EXCEPT !.claimed = T]
        = [open |-> a, stake |-> b, voted |-> c, vote |-> d, round |-> e, claimed |-> T]
  OBVIOUS
<1>2. QED
  BY <1>1, Zenon DEF T

LEMMA VoteIsSeen ==
    ASSUME TypeOK, NEW u \in Users, NEW i \in Options, CastVote(u, i)
    PROVE  App!ChainNext
<1> DEFINE r == App!VoteRequest(0, i)
           p == SeenPosition(u)
<1>1. /\ pos[u].open /\ status = "Locked" /\ i \in slate \cup {Skip}
      /\ pos' = [pos EXCEPT ![u] = Voted(u, i)]
      /\ UNCHANGED <<status, betsCompleted, slate, winningVote, now, kickoff>>
  BY DEF CastVote, tallyVars
<1>2. UNCHANGED <<SeenNext, SeenBatch>>
  BY <1>1, SameCutoff DEF SeenNext, SeenBatch
<1>9. ~VotingClosed
  <2>1. now < Monus(kickoff, VoteCutoff)
    BY DEF CastVote
  <2>2. now \in Nat /\ Monus(kickoff, VoteCutoff) \in Nat
    BY ParameterFacts DEF TypeOK, LobbyTypeOK, RoundTypeOK, Monus
  <2> QED BY <2>1, <2>2 DEF VotingClosed
<1>3. pos[u] \in Position /\ pos'[u] = Voted(u, i) /\ \A v \in Users \ {u} : pos'[v] = pos[v]
  BY <1>1 DEF TypeOK, StakeTypeOK
<1>4. r \in App!Requests /\ r.batch = 0 /\ r.kind = "vote" /\ r.slot = i
  BY RequestTypes DEF App!VoteRequest
<1>5. SeenPosition(u)' = WithVote(p, i, betsCompleted)
  <2>1. /\ pos'[u].open = pos[u].open /\ pos'[u].deposited = pos[u].deposited
        /\ pos'[u].hasVoted = TRUE /\ pos'[u].voteIndex = i
        /\ pos'[u].votedRound = betsCompleted /\ pos'[u].claimed = pos[u].claimed
    BY <1>3 DEF Position, Voted
  <2>2. SeenPosition(u)' =
          [open |-> pos[u].open, stake |-> pos[u].deposited > 0, voted |-> TRUE, vote |-> i,
           round |-> betsCompleted, claimed |-> pos[u].claimed]
    BY <2>1 DEF SeenPosition
  <2>3. QED
    BY <2>2, FieldsVoted, Zenon
<1> HIDE DEF r
<1>6. SeenPosition(u)' = App!PositionAfter(SeenPosition(u), SeenBatch, r)
  <2>1. SeenBatch.bets = betsCompleted
    BY DEF SeenBatch
  <2> HIDE DEF p
  <2>2. App!PositionAfter(p, SeenBatch, r)
          = WithVote(p, i, betsCompleted)
    BY <1>4, <2>1 DEF App!PositionAfter, WithVote
  <2>3. QED
    BY <1>5, <2>2 DEF p
<1>7. App!Accepts(u, r)
  BY <1>1, <1>4, <1>9, RequestAccepted
<1>8. QED
  BY <1>2, <1>3, <1>4, <1>6, <1>7, RequestExecuted

LEMMA ClaimIsSeen ==
    ASSUME TypeOK, NEW u \in Users, Claim(u)
    PROVE  App!ChainNext
<1> DEFINE r == App!ClaimRequest(0)
           p == SeenPosition(u)
<1>1. /\ CanClaim(u) /\ pos' = [pos EXCEPT ![u] = [@ EXCEPT !.claimed = TRUE]]
      /\ UNCHANGED <<status, tallyVars, roundVars, now>>
  BY Zenon DEF Claim
<1>2. status = "Settled" /\ pos[u].deposited > 0 /\ ~pos[u].claimed
  BY <1>1 DEF CanClaim
<1>3. UNCHANGED <<SeenNext, SeenBatch>>
  BY <1>1, SameCutoff DEF SeenNext, SeenBatch, tallyVars, roundVars
<1>4. /\ pos[u] \in Position /\ pos'[u] = [pos[u] EXCEPT !.claimed = TRUE]
      /\ \A v \in Users \ {u} : pos'[v] = pos[v]
  BY <1>1 DEF TypeOK, StakeTypeOK
<1>5. r \in App!Requests /\ r.batch = 0 /\ r.kind = "claim"
  BY RequestTypes DEF App!ClaimRequest
<1>6. SeenPosition(u)' = [p EXCEPT !.claimed = TRUE]
  <2>1. /\ pos'[u].open = pos[u].open /\ pos'[u].deposited = pos[u].deposited
        /\ pos'[u].hasVoted = pos[u].hasVoted /\ pos'[u].voteIndex = pos[u].voteIndex
        /\ pos'[u].votedRound = pos[u].votedRound /\ pos'[u].claimed = TRUE
    BY <1>4 DEF Position
  <2>2. SeenPosition(u)' =
          [open |-> pos[u].open, stake |-> pos[u].deposited > 0, voted |-> pos[u].hasVoted,
           vote |-> pos[u].voteIndex, round |-> pos[u].votedRound, claimed |-> TRUE]
    BY <2>1 DEF SeenPosition
  <2>3. QED
    BY <2>2, FieldsClaimed DEF SeenPosition
<1> HIDE DEF r
<1>7. SeenPosition(u)' = App!PositionAfter(SeenPosition(u), SeenBatch, r)
  <2> HIDE DEF p
  <2>1. App!PositionAfter(p, SeenBatch, r) = [p EXCEPT !.claimed = TRUE]
    BY <1>5 DEF App!PositionAfter
  <2>2. QED
    BY <1>6, <2>1 DEF p
<1>8. App!Accepts(u, r)
  BY <1>2, <1>5, RequestAccepted
<1>9. QED
  BY <1>3, <1>4, <1>5, <1>7, <1>8, RequestExecuted

SeenBet(st, n, filled, w, c) ==
    [status |-> st, bets |-> n, filled |-> filled, winner |-> w, closed |-> c]

\* The batch as the app decodes it, once it exists.
LEMMA SeenBatchFields ==
    ASSUME status # "None"
    PROVE  SeenBatch = [status |-> status, bets |-> betsCompleted, filled |-> slate,
                        winner |-> winningVote, closed |-> VotingClosed]
  BY DEF SeenBatch

LEMMA StartIsSeen ==
    ASSUME TypeOK, StakeInv, StartBatch
    PROVE  App!ChainNext
<1>1. /\ status = "Lobby" /\ status' = "Locked" /\ totalDeposited > 0
      /\ UNCHANGED <<pos, betsCompleted, slate, winningVote, VotingClosed>>
  BY SameCutoff DEF StartBatch, stakeVars, tallyVars, roundVars
<1>2. /\ Seen' = [Seen EXCEPT !.batch[0] = SeenBatch']
      /\ 0 < Seen.next /\ Seen.batch[0] = SeenBatch
  BY <1>1, PositionsStay
<1>3. SeenBatch.status = "Lobby" /\ SeenBatch' = [SeenBatch EXCEPT !.status = "Locked"]
  BY <1>1 DEF SeenBatch
<1>4. [Seen EXCEPT !.batch[0].status = "Locked"]
        = [Seen EXCEPT !.batch[0] = [Seen.batch[0] EXCEPT !.status = "Locked"]]
  OBVIOUS
<1>5. \E u \in Users : Seen.pos[u][0].stake
  <2>1. PICK u \in Users : pos[u].deposited > 0
    BY <1>1, SomeStaker DEF TypeOK
  <2>2. Seen.pos[u][0].stake = (pos[u].deposited > 0)
    <3>1. Seen.pos[u][0] = SeenPosition(u)
      BY SeenFields
    <3>2. SeenPosition(u).stake = (pos[u].deposited > 0)
      BY DEF SeenPosition
    <3>3. QED
      BY <3>1, <3>2, Zenon
  <2>3. Seen.pos[u][0].stake
    BY <2>1, <2>2, Zenon
  <2>4. QED
    BY <2>3
<1>6. App!Start(0)
  BY <1>2, <1>3, <1>4, <1>5 DEF App!Start, App!Exists
<1>7. QED
  BY <1>6 DEF App!ChainNext, App!OperatorNext

LEMMA ProposeIsSeen ==
    ASSUME EscrowMatchesBet, NEW filled \in Slates, NEW k \in Kickoffs,
           ProposeMatch(filled, k)
    PROVE  App!ChainNext
<1>1. /\ status = "Locked" /\ winningVote = NoWinner /\ winningVote' = NoWinner
      /\ slate' = filled /\ UNCHANGED <<pos, status, betsCompleted>>
  BY DEF ProposeMatch, stakeVars, tallyVars, EscrowMatchesBet
<1>2. /\ Seen' = [Seen EXCEPT !.batch[0] = SeenBatch']
      /\ 0 < Seen.next /\ Seen.batch[0] = SeenBatch
  BY <1>1, PositionsStay
<1> DEFINE late == VotingClosed'
<1>7. late \in BOOLEAN
  BY DEF VotingClosed
<1> HIDE DEF late
<1>3. /\ SeenBatch.status = "Locked"
      /\ SeenBatch' = [SeenBatch EXCEPT !.filled = filled, !.closed = late]
  <2> DEFINE b == SeenBatch
  <2>1. b = SeenBet("Locked", betsCompleted, slate, NoWinner, VotingClosed)
    BY <1>1, SeenBatchFields DEF SeenBet
  <2>2. SeenBatch' = SeenBet("Locked", betsCompleted, filled, NoWinner, late)
    BY <1>1 DEF SeenBatch, SeenBet, late
  <2> HIDE DEF b
  <2>3. [b EXCEPT !.filled = filled]
          = SeenBet("Locked", betsCompleted, filled, NoWinner, VotingClosed)
    BY <2>1 DEF SeenBet
  <2>4. [SeenBet("Locked", betsCompleted, filled, NoWinner, VotingClosed) EXCEPT !.closed = late]
          = SeenBet("Locked", betsCompleted, filled, NoWinner, late)
    BY DEF SeenBet
  <2>5. [b EXCEPT !.filled = filled, !.closed = late]
          = [[b EXCEPT !.filled = filled] EXCEPT !.closed = late]
    OBVIOUS
  <2>6. b.status = "Locked"
    BY <2>1 DEF SeenBet
  <2>7. QED
    BY <2>2, <2>3, <2>4, <2>5, <2>6 DEF b
<1>4. [Seen EXCEPT !.batch[0].filled = filled, !.batch[0].closed = late]
        = [Seen EXCEPT !.batch[0] = [Seen.batch[0] EXCEPT !.filled = filled, !.closed = late]]
  OBVIOUS
<1>5. App!Propose(0, filled)
  BY <1>2, <1>3, <1>4, <1>7 DEF App!Propose, App!Exists
<1>6. QED
  BY <1>5 DEF App!ChainNext, App!OperatorNext

LEMMA FinalizeIsSeen ==
    ASSUME TypeOK, BallotInv, FinalizeConsensus
    PROVE  App!ChainNext
<1> DEFINE w == winningVote'
<1>1. /\ status = "Locked" /\ status' = "AwaitingCollateral"
      /\ w = Consensus(voteWeights)
      /\ UNCHANGED <<pos, slate, betsCompleted, VotingClosed>> /\ VotingClosed
  BY SameCutoff DEF FinalizeConsensus, stakeVars, tallyVars, VotingClosed
<1>2. w \in 0..4 /\ w \in slate \cup {Skip}
  <2>1. voteWeights \in [Options -> Nat]
    BY DEF TypeOK, RoundTypeOK
  <2>2. w \in Options
    BY <1>1, <2>1, ConsensusType
  <2>3. w # Skip => w \in slate
    BY <1>1, <2>1, <2>2, ConsensusLeads DEF BallotInv, Options, Skip
  <2>4. QED
    BY <2>2, <2>3 DEF Options
<1> HIDE DEF w
<1>3. /\ Seen' = [Seen EXCEPT !.batch[0] = SeenBatch']
      /\ 0 < Seen.next /\ Seen.batch[0] = SeenBatch
  BY <1>1, PositionsStay
<1>4. SeenBatch = [status |-> "Locked", bets |-> betsCompleted, filled |-> slate,
                   winner |-> winningVote, closed |-> VotingClosed]
  BY <1>1 DEF SeenBatch
<1>5. SeenBatch' = [status |-> "AwaitingCollateral", bets |-> betsCompleted, filled |-> slate,
                    winner |-> w, closed |-> VotingClosed]
  BY <1>1 DEF SeenBatch, w
<1>6. SeenBatch' = [SeenBatch EXCEPT !.winner = w, !.status = "AwaitingCollateral"]
  <2> DEFINE b == SeenBatch
             c == [status |-> "Locked", bets |-> betsCompleted, filled |-> slate, winner |-> w,
                   closed |-> VotingClosed]
  <2>1. b = [status |-> "Locked", bets |-> betsCompleted, filled |-> slate,
             winner |-> winningVote, closed |-> VotingClosed]
    BY <1>4
  <2> HIDE DEF b
  <2>2. [b EXCEPT !.winner = w] = c
    BY <2>1
  <2>3. [c EXCEPT !.status = "AwaitingCollateral"]
          = [status |-> "AwaitingCollateral", bets |-> betsCompleted, filled |-> slate,
             winner |-> w, closed |-> VotingClosed]
    OBVIOUS
  <2> HIDE DEF c
  <2>4. [b EXCEPT !.winner = w, !.status = "AwaitingCollateral"]
          = [[b EXCEPT !.winner = w] EXCEPT !.status = "AwaitingCollateral"]
    OBVIOUS
  <2>5. QED
    BY <1>5, <2>2, <2>3, <2>4 DEF b
<1>7. [Seen EXCEPT !.batch[0].winner = w, !.batch[0].status = "AwaitingCollateral"]
        = [Seen EXCEPT !.batch[0] =
              [Seen.batch[0] EXCEPT !.winner = w, !.status = "AwaitingCollateral"]]
  OBVIOUS
<1>8. w \in Seen.batch[0].filled \cup {App!SkipVote} /\ Seen.batch[0].status = "Locked"
  BY <1>2, <1>3, <1>4 DEF App!SkipVote, Skip
<1>11. Seen.batch[0].closed
  <2>1. Seen.batch[0].closed = VotingClosed
    BY <1>3, <1>4
  <2>2. QED
    BY <1>1, <2>1, Zenon
<1>9. App!Finalize(0, w)
  BY <1>3, <1>6, <1>7, <1>8, <1>11 DEF App!Finalize, App!Exists
<1>10. QED
  BY <1>2, <1>9 DEF App!ChainNext, App!OperatorNext

LEMMA CoverIsSeen ==
    ASSUME TypeOK, NEW o \in Odds, NEW x \in Overpay, DepositCollateralBet(o, x)
    PROVE  App!ChainNext
<1>1. /\ status = "AwaitingCollateral" /\ status' = "Active" /\ winningVote \in slate
      /\ UNCHANGED <<pos, betsCompleted, slate, winningVote, VotingClosed>>
  BY SameCutoff DEF DepositCollateralBet, stakeVars, tallyVars
<1>2. winningVote # Skip
  BY <1>1 DEF TypeOK, RoundTypeOK, Skip
<1>3. /\ Seen' = [Seen EXCEPT !.batch[0] = SeenBatch']
      /\ 0 < Seen.next /\ Seen.batch[0] = SeenBatch
  BY <1>1, PositionsStay
<1>4. /\ SeenBatch.status = "AwaitingCollateral" /\ SeenBatch.winner # App!SkipVote
      /\ SeenBatch' = [SeenBatch EXCEPT !.status = "Active"]
  BY <1>1, <1>2 DEF SeenBatch, App!SkipVote, Skip
<1>5. [Seen EXCEPT !.batch[0].status = "Active"]
        = [Seen EXCEPT !.batch[0] = [Seen.batch[0] EXCEPT !.status = "Active"]]
  OBVIOUS
<1>6. App!Cover(0)
  BY <1>3, <1>4, <1>5 DEF App!Cover, App!Exists
<1>7. QED
  BY <1>6 DEF App!ChainNext, App!OperatorNext

\* A bet that counts ends alike on both sides.
LEMMA EndIsSeen ==
    ASSUME TypeOK, CompleteBet, UNCHANGED <<pos, now>>,
           status \in {"AwaitingCollateral", "Active"}
    PROVE  App!ChainNext
<1> DEFINE b == SeenBatch
           s == IF betsCompleted + 1 >= MaxBets THEN "Settled" ELSE "Locked"
           n == betsCompleted + 1
           T == TRUE
           B1 == SeenBet(status, n, slate, winningVote, VotingClosed)
           B2 == SeenBet(status, n, {}, winningVote, VotingClosed)
           B3 == SeenBet(status, n, {}, App!NoneYet, VotingClosed)
           B4 == SeenBet(status, n, {}, App!NoneYet, T)
           B5 == SeenBet(s, n, {}, App!NoneYet, T)
<1>1. /\ status # "None" /\ status' # "None"
      /\ betsCompleted' = n /\ slate' = {} /\ winningVote' = NoWinner /\ status' = s
  BY DEF CompleteBet, ClearBet
<1>2. /\ Seen' = [Seen EXCEPT !.batch[0] = SeenBatch']
      /\ 0 < Seen.next /\ Seen.batch[0] = SeenBatch
  BY <1>1, PositionsStay
<1>3. VotingClosed' = T
  BY NoKickoffIsClosed DEF TypeOK, LobbyTypeOK, CompleteBet, ClearBet
<1>4. b = SeenBet(status, betsCompleted, slate, winningVote, VotingClosed)
  BY <1>1, SeenBatchFields DEF SeenBet
<1> HIDE DEF T
<1>5. SeenBatch' = B5
  BY <1>1, <1>3 DEF SeenBatch, SeenBet, NoWinner, App!NoneYet
<1>6. b.bets = betsCompleted /\ b.status = status
  BY <1>4 DEF SeenBet
<1>7. App!BetEnded(b) = [b EXCEPT !.bets = n, !.filled = {}, !.winner = App!NoneYet,
                                  !.closed = T, !.status = s]
  BY <1>6 DEF App!BetEnded, T
<1> HIDE DEF b, s, n
<1>8. [b EXCEPT !.bets = n] = B1
  BY <1>4 DEF SeenBet
<1>9. [B1 EXCEPT !.filled = {}] = B2 /\ [B2 EXCEPT !.winner = App!NoneYet] = B3
  BY DEF SeenBet
<1>10. [B3 EXCEPT !.closed = T] = B4 /\ [B4 EXCEPT !.status = s] = B5
  BY DEF SeenBet
<1> HIDE DEF B1, B2, B3, B4, B5
<1>11. [b EXCEPT !.bets = n, !.filled = {}, !.winner = App!NoneYet, !.closed = T, !.status = s]
         = [[[[[b EXCEPT !.bets = n] EXCEPT !.filled = {}] EXCEPT !.winner = App!NoneYet]
                EXCEPT !.closed = T] EXCEPT !.status = s]
  OBVIOUS
<1>12. App!BetEnded(b) = B5
  BY <1>7, <1>8, <1>9, <1>10, <1>11
<1>13. App!EndBet(0)
  BY <1>2, <1>5, <1>6, <1>12 DEF App!EndBet, App!Exists, b
<1>14. QED
  BY <1>13 DEF App!ChainNext, App!OperatorNext

LEMMA MissIsSeen ==
    ASSUME TypeOK, PenalizeMissedCollateral
    PROVE  App!ChainNext
<1> DEFINE b == SeenBatch
           n == betsCompleted
           T == TRUE
           B1 == SeenBet("Locked", n, slate, winningVote, VotingClosed)
           B2 == SeenBet("Locked", n, {}, winningVote, VotingClosed)
           B3 == SeenBet("Locked", n, {}, App!NoneYet, VotingClosed)
           B4 == SeenBet("Locked", n, {}, App!NoneYet, T)
<1>1. /\ status = "AwaitingCollateral" /\ status' = "Locked"
      /\ slate' = {} /\ winningVote' = NoWinner /\ UNCHANGED <<pos, betsCompleted>>
  BY DEF PenalizeMissedCollateral, ClearBet, stakeVars
<1>2. /\ Seen' = [Seen EXCEPT !.batch[0] = SeenBatch']
      /\ 0 < Seen.next /\ Seen.batch[0] = SeenBatch
  BY <1>1, PositionsStay
<1>3. VotingClosed' = T
  BY NoKickoffIsClosed DEF TypeOK, LobbyTypeOK, PenalizeMissedCollateral, ClearBet
<1>4. b = SeenBet(status, n, slate, winningVote, VotingClosed)
  BY <1>1, SeenBatchFields DEF SeenBet
<1> HIDE DEF T
<1>5. SeenBatch' = B4
  BY <1>1, <1>3 DEF SeenBatch, SeenBet, NoWinner, App!NoneYet
<1>6. b.status = "AwaitingCollateral"
  BY <1>1, <1>4 DEF SeenBet
<1> HIDE DEF b, n
<1>7. [b EXCEPT !.status = "Locked"] = B1
  BY <1>4 DEF SeenBet
<1>8. [B1 EXCEPT !.filled = {}] = B2 /\ [B2 EXCEPT !.winner = App!NoneYet] = B3
          /\ [B3 EXCEPT !.closed = T] = B4
  BY DEF SeenBet
<1> HIDE DEF B1, B2, B3, B4
<1>9. [b EXCEPT !.status = "Locked", !.filled = {}, !.winner = App!NoneYet, !.closed = T] = B4
  <2>1. [b EXCEPT !.status = "Locked", !.filled = {}, !.winner = App!NoneYet, !.closed = T]
          = [[[[b EXCEPT !.status = "Locked"] EXCEPT !.filled = {}]
                 EXCEPT !.winner = App!NoneYet] EXCEPT !.closed = T]
    OBVIOUS
  <2>2. QED
    BY <1>7, <1>8, <2>1
<1>10. [Seen EXCEPT !.batch[0].status = "Locked", !.batch[0].filled = {},
                    !.batch[0].winner = App!NoneYet, !.batch[0].closed = T]
         = [Seen EXCEPT !.batch[0] =
               [Seen.batch[0] EXCEPT !.status = "Locked", !.filled = {},
                                     !.winner = App!NoneYet, !.closed = T]]
  OBVIOUS
<1>11. App!MissBet(0)
  BY <1>2, <1>5, <1>6, <1>9, <1>10 DEF App!MissBet, App!Exists, b, T
<1>12. QED
  BY <1>11 DEF App!ChainNext, App!OperatorNext

\* The clock is seen when it passes the cut-off.
LEMMA TickIsSeen ==
    ASSUME TypeOK, ClockTick
    PROVE  App!ChainNext \/ UNCHANGED Seen
<1>1. /\ UNCHANGED <<status, betsCompleted, slate, winningVote, pos, kickoff>>
      /\ now' = now + 1 /\ now \in Nat
  BY DEF ClockTick, TimePasses, batchVars, stakeVars, tallyVars, roundVars, TypeOK, LobbyTypeOK
<1>2. UNCHANGED <<SeenNext, SeenPositions>>
  BY <1>1 DEF SeenNext, SeenPositions, SeenPosition
<1>3. CASE VotingClosed' <=> VotingClosed
  <2>1. VotingClosed' = VotingClosed
    BY <1>3 DEF VotingClosed
  <2>2. SeenBatch' = SeenBatch
    BY <1>1, <2>1 DEF SeenBatch
  <2>3. QED
    BY <1>2, <2>2, SeenParts
<1>4. CASE ~(VotingClosed' <=> VotingClosed)
  <2> DEFINE M == Monus(kickoff, VoteCutoff)
             T == TRUE
  <2>1. M \in Nat /\ M' = M
    BY <1>1, ParameterFacts DEF TypeOK, RoundTypeOK, Monus
  <2>2. now >= M => now + 1 >= M
    BY <1>1, <2>1
  <2>3. ~VotingClosed /\ VotingClosed' = T
    BY <1>1, <1>4, <2>1, <2>2 DEF VotingClosed
  <2>4. Seen' = [Seen EXCEPT !.batch[0] = SeenBatch'] /\ Seen.batch[0] = SeenBatch
    BY <1>2, BatchChanges, SeenFields
  <2> HIDE DEF T
  <2>5. SeenBatch' = [SeenBatch EXCEPT !.closed = T] /\ SeenBatch.closed = VotingClosed
    BY <1>1, <2>3 DEF SeenBatch
  <2>6. ~Seen.batch[0].closed
    <3>1. Seen.batch[0].closed = VotingClosed
      BY <2>4, <2>5
    <3>2. QED
      BY <2>3, <3>1, Zenon
  <2>7. [Seen EXCEPT !.batch[0].closed = T]
          = [Seen EXCEPT !.batch[0] = [Seen.batch[0] EXCEPT !.closed = T]]
    OBVIOUS
  <2>8. App!CutOff(0)
    BY <2>4, <2>5, <2>6, <2>7 DEF App!CutOff, T
  <2>9. QED
    BY <2>8 DEF App!ChainNext, App!OperatorNext
<1>5. QED
  BY <1>3, <1>4

\* Every step is one of the app's model of the chain or invisible to it.
LEMMA StepIsSeen ==
    ASSUME TypeOK, StakeInv, EscrowMatchesBet, BallotInv, Next
    PROVE  [App!ChainNext]_Seen
<1>1. CASE InitializeBatch
  BY <1>1, InitializeIsSeen
<1>2. ASSUME NEW u \in Users, NEW a \in Stakes, JoinBatch(u, a) \/ LeaveBatch(u, a)
      PROVE  [App!ChainNext]_Seen
  BY <1>2, JoinIsSeen, LeaveIsSeen
<1>3. CASE StartBatch
  BY <1>3, StartIsSeen
<1>4. ASSUME NEW filled \in Slates, NEW k \in Kickoffs, ProposeMatch(filled, k)
      PROVE  [App!ChainNext]_Seen
  BY <1>4, ProposeIsSeen
<1>5. ASSUME NEW u \in Users, NEW i \in Options, CastVote(u, i) PROVE [App!ChainNext]_Seen
  BY <1>5, VoteIsSeen
<1>6. CASE FinalizeConsensus
  BY <1>6, FinalizeIsSeen
<1>7. CASE PenalizeMissedCollateral
  BY <1>7, MissIsSeen
<1>8. ASSUME NEW x \in Overpay, DepositCollateralSkip(x) PROVE [App!ChainNext]_Seen
  BY <1>8, EndIsSeen DEF DepositCollateralSkip, stakeVars
<1>9. ASSUME NEW o \in Odds, NEW x \in Overpay, DepositCollateralBet(o, x)
      PROVE  [App!ChainNext]_Seen
  BY <1>9, CoverIsSeen
<1>10. CASE SettleUsersWon
  BY <1>10, EndIsSeen DEF SettleUsersWon, ProofAccepted, stakeVars
<1>11. CASE SettleOperatorWon
  BY <1>11, EndIsSeen DEF SettleOperatorWon, ProofAccepted, stakeVars
<1>12. CASE SettleDefault
  BY <1>12, EndIsSeen DEF SettleDefault, CanDefault, stakeVars
<1>13. ASSUME NEW u \in Users, Claim(u) PROVE [App!ChainNext]_Seen
  BY <1>13, ClaimIsSeen
<1>14. CASE ClaimOperatorYield
  BY <1>14, NothingSeen, Zenon
  DEF ClaimOperatorYield, batchVars, stakeVars, tallyVars, roundVars
<1>15. CASE ClockTick
  BY <1>15, TickIsSeen
<1>16. CASE OthersUseVault
  BY <1>16, NothingSeen DEF OthersUseVault, batchVars, stakeVars, tallyVars, roundVars
<1>17. QED
  BY <1>1, <1>2, <1>3, <1>4, <1>5, <1>6, <1>7, <1>8, <1>9, <1>10, <1>11, <1>12, <1>13,
     <1>14, <1>15, <1>16 DEF Next

\* For any users, stakes, slates and number of bets, every instruction is on
\* the fields the app decodes a step the app's model of the chain allows: what
\* the theorems on AppContext assume of the chain is what the program does.
THEOREM AppChainIsImplemented == Spec => AppSeesCore
<1>1. Init => Seen = App!Genesis
  <2> SUFFICES ASSUME Init PROVE Seen = App!Genesis
    OBVIOUS
  <2> DEFINE T == TRUE
  <2>4. VotingClosed = T
    <3>1. now = 0 /\ Monus(kickoff, VoteCutoff) = 0
      BY ParameterFacts DEF Init, Monus
    <3>2. now >= Monus(kickoff, VoteCutoff)
      BY <3>1
    <3>3. QED
      BY <3>2 DEF VotingClosed
  <2>5. App!NewAccount = SeenBet("Lobby", 0, {}, App!NoneYet, T)
    BY DEF App!NewAccount, SeenBet
  <2> HIDE DEF T
  <2>1. status = "None" /\ SeenBatch = App!NewAccount
    BY <2>4, <2>5 DEF Init, SeenBatch, SeenBet, NoWinner, App!NoneYet
  <2>2. ASSUME NEW u \in Users PROVE SeenPosition(u) = App!NoPosition
    <3>1. pos[u] = ClosedPosition
      BY DEF Init
    <3>2. (pos[u].deposited > 0) = FALSE
      BY <3>1 DEF ClosedPosition
    <3>3. SeenPosition(u) =
            [open |-> FALSE, stake |-> pos[u].deposited > 0, voted |-> FALSE, vote |-> 0,
             round |-> 0, claimed |-> FALSE]
      BY <3>1 DEF SeenPosition, ClosedPosition
    <3>4. QED
      BY <3>2, <3>3, Zenon DEF App!NoPosition
  <2>3. QED
    BY <2>1, <2>2 DEF Seen, App!Genesis
<1>2. Init => BallotInv
  BY DEF Init, BallotInv, NoVotes, Options
<1>3. TypeOK /\ BallotInv /\ [Next]_vars => BallotInv'
  <2>1. BallotInv /\ UNCHANGED vars => BallotInv'
    BY BallotUntouched DEF vars, batchVars, roundVars
  <2>2. QED
    BY <2>1, BallotStep DEF OpenNext
<1>4. TypeOK /\ StakeInv /\ EscrowMatchesBet /\ BallotInv /\ [Next]_vars
        => [App!ChainNext]_Seen
  <2>1. UNCHANGED vars => UNCHANGED Seen
    BY NothingSeen DEF vars, batchVars, stakeVars, tallyVars, roundVars
  <2>2. QED
    BY <2>1, StepIsSeen
<1>5. QED
  BY <1>1, <1>2, <1>3, <1>4, TypeCorrect, SpecIsOpen, StakeAlwaysBooked, EscrowIsTheBets,
     PTL
  DEF Spec, AppSeesCore, App!ChainSpec

-----------------------------------------------------------------------------
(***************************************************************************)
(* The history page: the growth of the batch.                              *)
(*                                                                         *)
(* Until the batch is settled, what the operator has paid in and not got   *)
(* back is what the users won and what is in escrow, and at most one bet   *)
(* size for every skip on top.                                             *)
(***************************************************************************)
PaidIn == InitialTokens[OperatorAcct] - tok[OperatorAcct]
Kept == accumulatedWinnings + tok[CollateralAcct]

KeptIsPaidIn == Kept <= PaidIn /\ PaidIn <= Kept + betSize * skipsCount

GrowthInv ==
    /\ status # "Settled" => KeptIsPaidIn /\ winPrize <= betSize
    /\ status \in {"None", "Lobby"} => skipsCount = 0 /\ winPrize = 0

\* The operator's account is nobody else's: it neither stakes nor funds the
\* reserve, so all that moves through it is collateral, prizes and yield.
OperatorOnlyCovers ==
    /\ OperatorAcct \notin Users \cup Wallets \cup {ReserveAcct, AdminAcct}
    /\ Overpay = {0}

LEMMA OthersSpareThePool ==
    ASSUME VaultTypeOK, VaultNext
    PROVE  tok'[BatchAta] = tok[BatchAta]
<1>1. BatchAta \in TokenAccounts /\ BatchAta \notin {VaultAcct, ReserveAcct, AdminAcct} \cup Wallets
  BY CoreConstants
<1>2. QED
  BY <1>1, OthersSpareAccount

LEMMA SameGrowth ==
    ASSUME KeptIsPaidIn, UNCHANGED <<accumulatedWinnings, betSize, skipsCount>>,
           tok'[OperatorAcct] = tok[OperatorAcct],
           tok'[CollateralAcct] = tok[CollateralAcct]
    PROVE  KeptIsPaidIn'
  BY DEF KeptIsPaidIn, Kept, PaidIn

\* Tokens that move between the operator and the escrow.
LEMMA EscrowGrowth ==
    ASSUME TypeOK, KeptIsPaidIn, NEW c \in Int,
           UNCHANGED <<accumulatedWinnings, betSize, skipsCount>>,
           tok'[OperatorAcct] = tok[OperatorAcct] - c,
           tok'[CollateralAcct] = tok[CollateralAcct] + c
    PROVE  KeptIsPaidIn'
<1>1. /\ tok[OperatorAcct] \in Nat /\ tok[CollateralAcct] \in Nat
      /\ InitialTokens[OperatorAcct] \in Nat
      /\ accumulatedWinnings \in Nat /\ betSize \in Nat /\ skipsCount \in Nat
  BY AccountFacts, VaultConstants DEF TypeOK, VaultTypeOK, TallyTypeOK, LobbyTypeOK
<1> DEFINE skipped == betSize * skipsCount
<1>2. skipped \in Nat /\ skipped' = skipped
  BY <1>1
<1>3. Kept' = Kept + c /\ PaidIn' = PaidIn + c /\ Kept \in Int /\ PaidIn \in Int
  BY <1>1 DEF Kept, PaidIn
<1>4. Kept <= PaidIn /\ PaidIn <= Kept + skipped
  BY DEF KeptIsPaidIn
<1> HIDE DEF skipped
<1>5. Kept' <= PaidIn' /\ PaidIn' <= Kept' + skipped'
  BY <1>2, <1>3, <1>4
<1>6. QED
  BY <1>5 DEF KeptIsPaidIn, skipped

\* The escrow becomes winnings.
LEMMA WonGrowth ==
    ASSUME TypeOK, KeptIsPaidIn, UNCHANGED <<betSize, skipsCount>>,
           accumulatedWinnings' = accumulatedWinnings + tok[CollateralAcct],
           tok'[OperatorAcct] = tok[OperatorAcct],
           tok'[CollateralAcct] = 0
    PROVE  KeptIsPaidIn'
<1>1. accumulatedWinnings \in Nat /\ tok[CollateralAcct] \in Nat
  BY AccountFacts DEF TypeOK, VaultTypeOK, TallyTypeOK
<1>2. Kept' = Kept /\ PaidIn' = PaidIn
  BY <1>1 DEF Kept, PaidIn
<1>3. QED
  BY <1>2 DEF KeptIsPaidIn

\* A skip costs the operator its prize, and the page counts a bet size.
LEMMA SkipGrowth ==
    ASSUME TypeOK, KeptIsPaidIn, winPrize <= betSize,
           UNCHANGED <<accumulatedWinnings, betSize>>, skipsCount' = skipsCount + 1,
           tok'[OperatorAcct] = tok[OperatorAcct] - winPrize,
           tok'[CollateralAcct] = tok[CollateralAcct]
    PROVE  KeptIsPaidIn'
<1>1. /\ tok[OperatorAcct] \in Nat /\ tok[CollateralAcct] \in Nat
      /\ InitialTokens[OperatorAcct] \in Nat /\ winPrize \in Nat
      /\ accumulatedWinnings \in Nat /\ betSize \in Nat /\ skipsCount \in Nat
  BY AccountFacts, VaultConstants DEF TypeOK, VaultTypeOK, TallyTypeOK, LobbyTypeOK, RoundTypeOK
<1> DEFINE skipped == betSize * skipsCount
<1>2. skipped \in Nat /\ skipped' = skipped + betSize
  <2>1. betSize * (skipsCount + 1) = betSize * skipsCount + betSize
    BY <1>1
  <2>2. QED
    BY <1>1, <2>1
<1>3. Kept' = Kept /\ PaidIn' = PaidIn + winPrize /\ Kept \in Int /\ PaidIn \in Int
  BY <1>1 DEF Kept, PaidIn
<1>4. Kept <= PaidIn /\ PaidIn <= Kept + skipped
  BY DEF KeptIsPaidIn
<1> HIDE DEF skipped
<1>5. Kept' <= PaidIn' /\ PaidIn' <= Kept' + skipped'
  BY <1>1, <1>2, <1>3, <1>4
<1>6. QED
  BY <1>5 DEF KeptIsPaidIn, skipped

\* The whole step, the one that settles the batch included.
Grows ==
    /\ status # "Settled" => /\ KeptIsPaidIn'
                             /\ winPrize' <= betSize'
                             /\ status' \in {"None", "Lobby"} => skipsCount' = 0 /\ winPrize' = 0
    /\ status = "Settled" => status' = "Settled"

LEMMA QuietGrowth ==
    ASSUME GrowthInv, UNCHANGED <<accumulatedWinnings, betSize, skipsCount, winPrize>>,
           status' = status \/ status' \notin {"None", "Lobby", "Settled"},
           status = "Settled" => status' = "Settled",
           status # "Settled" => /\ tok'[OperatorAcct] = tok[OperatorAcct]
                                 /\ tok'[CollateralAcct] = tok[CollateralAcct]
    PROVE  Grows
  BY SameGrowth DEF GrowthInv, Grows

LEMMA ClearedGrowth ==
    ASSUME TypeOK, TypeOK', ClearBet, KeptIsPaidIn', status' \in {"Locked", "Settled"},
           status # "Settled"
    PROVE  Grows
  BY DEF Grows, ClearBet, TypeOK, LobbyTypeOK

LEMMA GrowthStep ==
    ASSUME OperatorOnlyCovers, TypeOK, TypeOK', EscrowMatchesBet, GrowthInv, Next
    PROVE  Grows
<1>1. /\ VaultTypeOK /\ tok \in [TokenAccounts -> Nat] /\ tok[CollateralAcct] \in Nat
      /\ OperatorAcct \in TokenAccounts /\ CollateralAcct \in TokenAccounts
      /\ OperatorAcct \notin Users \cup Wallets \cup {ReserveAcct, AdminAcct}
      /\ OperatorAcct \notin {VaultAcct, BatchAta, CollateralAcct}
      /\ betSize \in Nat /\ betSize' \in Nat /\ skipsCount \in Nat
  BY AccountFacts DEF TypeOK, VaultTypeOK, OperatorOnlyCovers, LobbyTypeOK, TallyTypeOK
<1>2. CASE InitializeBatch
  BY <1>2, SameGrowth
  DEF InitializeBatch, Grows, GrowthInv, tallyVars, roundVars, vaultSystemVars
<1>3. ASSUME NEW u \in Users, NEW a \in Stakes, JoinBatch(u, a) PROVE Grows
  <2>1. /\ tok'[OperatorAcct] = tok[OperatorAcct]
        /\ tok'[CollateralAcct] = tok[CollateralAcct]
    BY <1>1, <1>3, AccountFacts, MovedElsewhere DEF JoinBatch
  <2>2. QED
    BY <1>3, <2>1, QuietGrowth DEF JoinBatch, lobbyVars, tallyVars, roundVars
<1>4. ASSUME NEW u \in Users, NEW a \in Stakes, LeaveBatch(u, a) PROVE Grows
  <2>1. /\ tok'[OperatorAcct] = tok[OperatorAcct]
        /\ tok'[CollateralAcct] = tok[CollateralAcct]
    BY <1>1, <1>4, AccountFacts, Zenon DEF LeaveBatch, Swept, Moved
  <2>2. QED
    BY <1>4, <2>1, QuietGrowth DEF LeaveBatch, lobbyVars, tallyVars, roundVars
<1>5. CASE StartBatch
  <2>1. /\ skipsCount = 0 /\ winPrize = 0 /\ KeptIsPaidIn /\ status' = "Locked"
        /\ UNCHANGED <<accumulatedWinnings, skipsCount, winPrize, tok>>
    BY <1>5 DEF StartBatch, GrowthInv, tallyVars, roundVars, vaultSystemVars
  <2>2. \A b \in Nat : b * 0 = 0
    OBVIOUS
  <2>3. betSize * skipsCount = 0 /\ betSize' * skipsCount' = 0
    BY <1>1, <2>1, <2>2
  <2>4. KeptIsPaidIn'
    BY <2>1, <2>3 DEF KeptIsPaidIn, Kept, PaidIn
  <2>5. QED
    BY <1>1, <1>5, <2>1, <2>4 DEF Grows, StartBatch
<1>6. ASSUME NEW filled \in Slates, NEW k \in Kickoffs, ProposeMatch(filled, k) PROVE Grows
  <2>1. /\ status = "Locked" /\ status' = "Locked" /\ winPrize' = betSize
        /\ UNCHANGED <<accumulatedWinnings, betSize, skipsCount, tok>>
    BY <1>6 DEF ProposeMatch, lobbyVars, tallyVars, vaultSystemVars
  <2>2. QED
    BY <1>1, <2>1, SameGrowth DEF Grows, GrowthInv
<1>7. ASSUME NEW u \in Users, NEW i \in Options, CastVote(u, i) PROVE Grows
  BY <1>7, QuietGrowth DEF CastVote, lobbyVars, tallyVars, vaultSystemVars
<1>8. CASE FinalizeConsensus
  BY <1>8, QuietGrowth DEF FinalizeConsensus, lobbyVars, tallyVars, vaultSystemVars
<1>9. CASE PenalizeMissedCollateral
  <2>1. /\ status = "AwaitingCollateral" /\ status' = "Locked" /\ ClearBet
        /\ UNCHANGED <<accumulatedWinnings, betSize, skipsCount, tok>>
    BY <1>9 DEF PenalizeMissedCollateral, lobbyVars, vaultSystemVars
  <2>2. QED
    BY <2>1, SameGrowth, ClearedGrowth DEF GrowthInv
<1>10. ASSUME NEW x \in Overpay, DepositCollateralSkip(x) PROVE Grows
  <2>1. /\ status = "AwaitingCollateral" /\ CompleteBet
        /\ tok' = Moved(tok, OperatorAcct, BatchAta, winPrize + x)
        /\ UNCHANGED <<accumulatedWinnings, betSize>> /\ skipsCount' = skipsCount + 1
    BY <1>10 DEF DepositCollateralSkip, lobbyVars
  <2>2. winPrize \in Nat /\ winPrize + x = winPrize
    BY DEF TypeOK, RoundTypeOK, OperatorOnlyCovers
  <2>3. /\ tok'[OperatorAcct] = tok[OperatorAcct] - winPrize
        /\ tok'[CollateralAcct] = tok[CollateralAcct]
    BY <1>1, <2>1, <2>2, AccountFacts DEF Moved
  <2>4. KeptIsPaidIn'
    BY <2>1, <2>3, SkipGrowth DEF GrowthInv
  <2>5. QED
    BY <2>1, <2>4, ClearedGrowth DEF CompleteBet
<1>11. ASSUME NEW o \in Odds, NEW x \in Overpay, DepositCollateralBet(o, x) PROVE Grows
  <2> DEFINE amount == CollateralRequired(o) + x
  <2>1. amount \in Nat
    BY CollateralType, ParameterFacts DEF TypeOK
  <2>2. /\ tok' = Moved(tok, OperatorAcct, CollateralAcct, amount)
        /\ status = "AwaitingCollateral" /\ status' = "Active"
        /\ UNCHANGED <<accumulatedWinnings, betSize, skipsCount, winPrize>>
    BY <1>11 DEF DepositCollateralBet, lobbyVars, tallyVars
  <2> HIDE DEF amount
  <2>3. /\ tok'[OperatorAcct] = tok[OperatorAcct] - amount
        /\ tok'[CollateralAcct] = tok[CollateralAcct] + amount
    BY <1>1, <2>1, <2>2 DEF Moved
  <2>4. KeptIsPaidIn'
    BY <2>1, <2>2, <2>3, EscrowGrowth DEF GrowthInv
  <2>5. QED
    BY <2>2, <2>4 DEF Grows, GrowthInv
<1>12. CASE SettleUsersWon
  <2>1. /\ status = "Active" /\ CompleteBet
        /\ tok' = Moved(tok, CollateralAcct, VaultAcct, tok[CollateralAcct])
        /\ accumulatedWinnings' = accumulatedWinnings + tok[CollateralAcct]
        /\ UNCHANGED <<betSize, skipsCount>>
    BY <1>12 DEF SettleUsersWon, ProofAccepted, lobbyVars
  <2>2. tok'[OperatorAcct] = tok[OperatorAcct] /\ tok'[CollateralAcct] = 0
    BY <1>1, <2>1, AccountFacts, EscrowLeaves, MovedElsewhere
  <2>3. KeptIsPaidIn'
    BY <2>1, <2>2, WonGrowth DEF GrowthInv
  <2>4. QED
    BY <2>1, <2>3, ClearedGrowth DEF CompleteBet
<1>13. CASE SettleOperatorWon
  <2> DEFINE c == tok[CollateralAcct]
  <2>1. /\ status = "Active" /\ CompleteBet
        /\ tok' = Moved(tok, CollateralAcct, OperatorAcct, c)
        /\ UNCHANGED <<accumulatedWinnings, betSize, skipsCount>>
    BY <1>13 DEF SettleOperatorWon, ProofAccepted, lobbyVars
  <2>2. tok'[OperatorAcct] = tok[OperatorAcct] - (-c) /\ tok'[CollateralAcct] = c + (-c)
    BY <1>1, <2>1 DEF Moved
  <2>3. KeptIsPaidIn'
    BY <1>1, <2>1, <2>2, EscrowGrowth DEF GrowthInv
  <2>4. QED
    BY <2>1, <2>3, ClearedGrowth DEF CompleteBet
<1>14. CASE SettleDefault
  <2>1. /\ status \in {"Active", "AwaitingCollateral"} /\ CompleteBet
        /\ tok' = Moved(tok, CollateralAcct, BatchAta, tok[CollateralAcct])
        /\ accumulatedWinnings' = accumulatedWinnings + tok[CollateralAcct]
        /\ UNCHANGED <<betSize, skipsCount>>
    BY <1>14 DEF SettleDefault, CanDefault, lobbyVars
  <2>2. tok'[OperatorAcct] = tok[OperatorAcct] /\ tok'[CollateralAcct] = 0
    BY <1>1, <2>1, AccountFacts, EscrowLeaves, MovedElsewhere
  <2>3. KeptIsPaidIn'
    BY <2>1, <2>2, WonGrowth DEF GrowthInv
  <2>4. QED
    BY <2>1, <2>3, ClearedGrowth DEF CompleteBet
<1>15. ASSUME NEW u \in Users, Claim(u) PROVE Grows
  BY <1>15 DEF Claim, CanClaim, Grows
<1>16. CASE ClaimOperatorYield
  BY <1>16 DEF ClaimOperatorYield, batchVars, Grows
<1>17. CASE ClockTick
  BY <1>17, QuietGrowth DEF ClockTick, batchVars, lobbyVars, tallyVars, roundVars, vaultSystemVars
<1>18. CASE OthersUseVault
  BY <1>1, <1>18, VaultStepElsewhere, OthersSpareAccount, QuietGrowth
  DEF OthersUseVault, batchVars, lobbyVars, tallyVars, roundVars
<1>19. QED
  BY <1>2, <1>3, <1>4, <1>5, <1>6, <1>7, <1>8, <1>9, <1>10, <1>11, <1>12, <1>13, <1>14,
     <1>15, <1>16, <1>17, <1>18 DEF Next

\* What the batch summary reports when the last bet is settled.
LEMMA SummaryOfGrowth ==
    ASSUME TypeOK, RoundLedger, EscrowMatchesBet, KeptIsPaidIn, status = "Settled"
    PROVE  PaidIn <= TotalFundGrowth /\ TotalFundGrowth <= PaidIn + betSize * skipsCount
<1>1. /\ betSize \in Nat /\ skipsCount \in Nat /\ winsCount \in Nat /\ lossesCount \in Nat
      /\ accumulatedWinnings \in Nat /\ MaxBets \in Nat
      /\ InitialTokens[OperatorAcct] \in Nat /\ tok[OperatorAcct] \in Nat
  <2>1. /\ betSize \in Nat /\ skipsCount \in Nat /\ winsCount \in Nat
        /\ lossesCount \in Nat /\ accumulatedWinnings \in Nat
    BY DEF TypeOK, LobbyTypeOK, TallyTypeOK
  <2>2. MaxBets \in Nat
    BY ParameterFacts
  <2>3. OperatorAcct \in TokenAccounts
    BY CoreConstants
  <2>4. InitialTokens[OperatorAcct] \in Nat
    BY <2>3, VaultConstants
  <2>5. tok[OperatorAcct] \in Nat
    BY <2>3 DEF TypeOK, VaultTypeOK
  <2>6. QED
    BY <2>1, <2>2, <2>4, <2>5
<1>2. MaxBets = winsCount + lossesCount + skipsCount
  BY DEF RoundLedger
<1> DEFINE played == winsCount + lossesCount
<1>3. betSize * MaxBets = played * betSize + betSize * skipsCount
  BY <1>1, <1>2
<1>4. played * betSize \in Nat /\ betSize * skipsCount \in Nat
  BY <1>1
<1>5. TotalFundGrowth = accumulatedWinnings + (betSize * MaxBets - played * betSize)
  BY DEF TotalFundGrowth, RemainingBudget, WeeklyYieldPool
<1> HIDE DEF played
<1>6. TotalFundGrowth = accumulatedWinnings + betSize * skipsCount
  BY <1>1, <1>3, <1>4, <1>5
<1>7. Kept = accumulatedWinnings
  BY <1>1 DEF EscrowMatchesBet, Kept
<1>8. PaidIn \in Int
  BY <1>1 DEF PaidIn
<1>9. QED
  BY <1>1, <1>4, <1>6, <1>7, <1>8 DEF KeptIsPaidIn

LEMMA SettledBetSize == ASSUME Next, status' = "Settled" PROVE betSize' = betSize
<1> USE DEF lobbyVars, batchVars
<1>1. ASSUME NEW u \in Users, NEW a \in Stakes, JoinBatch(u, a) \/ LeaveBatch(u, a)
      PROVE  betSize' = betSize
  BY <1>1 DEF JoinBatch, LeaveBatch
<1>2. ~StartBatch
  BY DEF StartBatch
<1>3. ASSUME \/ InitializeBatch \/ FinalizeConsensus \/ PenalizeMissedCollateral
             \/ SettleUsersWon \/ SettleOperatorWon \/ SettleDefault
             \/ ClaimOperatorYield \/ ClockTick \/ OthersUseVault
      PROVE  betSize' = betSize
  BY <1>3 DEF InitializeBatch, FinalizeConsensus, PenalizeMissedCollateral, SettleUsersWon,
     SettleOperatorWon, SettleDefault, ClaimOperatorYield, ClockTick, OthersUseVault
<1>4. ASSUME NEW filled \in Slates, NEW k \in Kickoffs, ProposeMatch(filled, k)
      PROVE  betSize' = betSize
  BY <1>4 DEF ProposeMatch
<1>5. ASSUME NEW u \in Users, NEW i \in Options, CastVote(u, i) PROVE betSize' = betSize
  BY <1>5 DEF CastVote
<1>6. ASSUME NEW x \in Overpay, DepositCollateralSkip(x) PROVE betSize' = betSize
  BY <1>6 DEF DepositCollateralSkip
<1>7. ASSUME NEW o \in Odds, NEW x \in Overpay, DepositCollateralBet(o, x)
      PROVE  betSize' = betSize
  BY <1>7 DEF DepositCollateralBet
<1>8. ASSUME NEW u \in Users, Claim(u) PROVE betSize' = betSize
  BY <1>8 DEF Claim
<1>9. QED
  BY <1>1, <1>2, <1>3, <1>4, <1>5, <1>6, <1>7, <1>8 DEF Next

GrowthSummed ==
    status # "Settled" /\ status' = "Settled" =>
      LET paid == InitialTokens[OperatorAcct] - tok'[OperatorAcct]
      IN  Overpay = {0} =>
             paid <= TotalFundGrowth' /\ TotalFundGrowth' <= paid + betSize * skipsCount'

\* The growth the history page reports is the operator's money: when the last
\* bet is settled it is what the operator paid in and did not get back, and at
\* most a bet size per skip above it.  The operator's account is taken to
\* serve no other purpose.
THEOREM GrowthIsReal ==
    ASSUME OperatorOnlyCovers
    PROVE  Spec => GrowthIsPaidIn
<1> DEFINE Summary == KeptIsPaidIn /\ status = "Settled" =>
                         /\ PaidIn <= TotalFundGrowth
                         /\ TotalFundGrowth <= PaidIn + betSize * skipsCount
<1>1. Init => GrowthInv
  <2> SUFFICES ASSUME Init PROVE GrowthInv
    OBVIOUS
  <2>1. /\ betSize = 0 /\ skipsCount = 0 /\ accumulatedWinnings = 0 /\ winPrize = 0
        /\ tok = InitialTokens
    BY DEF Init, VaultInit
  <2>2. InitialTokens[CollateralAcct] = 0 /\ InitialTokens[OperatorAcct] \in Nat
    BY AccountFacts, EmptyAtFirst
  <2>3. PaidIn = 0 /\ Kept = 0 /\ betSize * skipsCount = 0
    BY <2>1, <2>2 DEF PaidIn, Kept
  <2>4. QED
    BY <2>1, <2>3 DEF GrowthInv, KeptIsPaidIn
<1>2. TypeOK /\ TypeOK' /\ EscrowMatchesBet /\ GrowthInv /\ [Next]_vars => GrowthInv'
  <2>1. ASSUME TypeOK, TypeOK', EscrowMatchesBet, GrowthInv, Next PROVE GrowthInv'
    BY <2>1, GrowthStep DEF Grows, GrowthInv
  <2>2. ASSUME GrowthInv, UNCHANGED vars PROVE GrowthInv'
    BY <2>2 DEF vars, batchVars, lobbyVars, tallyVars, roundVars, vaultSystemVars,
       GrowthInv, KeptIsPaidIn, Kept, PaidIn
  <2>3. QED
    BY <2>1, <2>2
<1>3. TypeOK /\ RoundLedger /\ EscrowMatchesBet => Summary
  BY SummaryOfGrowth
<1>4. TypeOK /\ TypeOK' /\ EscrowMatchesBet /\ GrowthInv /\ Summary' /\ [Next]_vars
        => [GrowthSummed]_vars
  <2> SUFFICES ASSUME TypeOK, TypeOK', EscrowMatchesBet, GrowthInv, Summary', Next,
                      status # "Settled", status' = "Settled"
               PROVE  GrowthSummed
    BY DEF GrowthSummed, vars, batchVars
  <2>1. KeptIsPaidIn'
    BY GrowthStep DEF Grows
  <2>2. betSize' = betSize
    BY SettledBetSize
  <2>3. QED
    BY <2>1, <2>2 DEF PaidIn, GrowthSummed
<1> HIDE DEF Summary
<1>5. QED
  BY <1>1, <1>2, <1>3, <1>4, TypeCorrect, EscrowIsTheBets, RoundsAreCounted, PTL
  DEF Spec, GrowthIsPaidIn, GrowthSummed

-----------------------------------------------------------------------------
(***************************************************************************)
(* The history page: what it tells a user the claim will pay.              *)
(*                                                                         *)
(* The principal shown is at most the deposit, and at most the user's part *)
(* of the position.  The second bound compares the worth of the position   *)
(* with the unclaimed principal, which no step lowers (CoverageNeverFalls) *)
(* unless the position covers the principal in full: either way the        *)
(* program owes the user what was shown for as long as the page is open.   *)
(***************************************************************************)
\* Rounding down respects the order of fractions.
LEMMA FloorOfFraction ==
    ASSUME NEW a \in Nat, NEW b \in Nat \ {0}, NEW x \in Nat, NEW y \in Nat \ {0},
           a * y <= x * b
    PROVE  a \div b \in Nat /\ x \div y \in Nat /\ a \div b <= x \div y
<1> DEFINE q == a \div b
           r == x \div y
<1>1. q \in Nat /\ q * b <= a
  BY DivBounds
<1>2. r \in Nat /\ x < r * y + y
  BY DivBounds
<1> HIDE DEF q, r
<1>3. (q * y) * b <= x * b
  <2>1. (q * b) * y <= a * y
    <3>1. q * b \in Nat
      BY <1>1
    <3>2. QED
      BY <1>1, <3>1, ProductMonotone
  <2>2. (q * y) * b = (q * b) * y
    BY <1>1
  <2>3. (q * y) * b \in Nat /\ (q * b) * y \in Nat /\ a * y \in Nat /\ x * b \in Nat
    BY <1>1
  <2>4. QED
    BY <2>1, <2>2, <2>3
<1>4. q * y <= x
  <2>1. q * y \in Nat
    BY <1>1
  <2>2. QED
    BY <1>3, <2>1, Cancel
<1>5. q * y < (r + 1) * y
  <2>1. (r + 1) * y = r * y + y
    BY <1>2
  <2>2. q * y \in Nat /\ r * y \in Nat
    BY <1>1, <1>2
  <2>3. QED
    BY <1>2, <1>4, <2>1, <2>2
<1>6. q < r + 1
  <2>1. r + 1 \in Nat /\ q \in Nat /\ y \in Nat
    BY <1>1, <1>2
  <2>2. QED
    BY <1>5, <2>1, ProductCancel
<1>7. QED
  BY <1>1, <1>2, <1>6 DEF q, r

Owed == totalDeposited * totalShares
Held == shares[Batch] * totalUnderlying

\* The position holds p for a deposit of d.
Covers(p, d) == Owed <= Held \/ p * Owed <= Held * d

LEMMA CoverOrder ==
    ASSUME NEW X \in Nat \ {0}, NEW Y \in Nat, NEW X2 \in Nat, NEW Y2 \in Nat,
           NEW p \in Nat, NEW d \in Nat, p <= d,
           X2 <= Y2 \/ Y * X2 <= Y2 * X,
           X <= Y \/ p * X <= Y * d
    PROVE  X2 <= Y2 \/ p * X2 <= Y2 * d
<1>1. CASE X2 <= Y2
  BY <1>1
<1>2. CASE Y * X2 <= Y2 * X /\ X <= Y
  <2>1. X * X2 <= Y * X2
    BY <1>2, ProductMonotone
  <2>2. X2 * X <= Y2 * X
    <3>1. X * X2 = X2 * X /\ X * X2 \in Nat /\ Y * X2 \in Nat /\ Y2 * X \in Nat
      OBVIOUS
    <3>2. QED
      BY <1>2, <2>1, <3>1
  <2>3. QED
    BY <2>2, Cancel
<1>3. CASE Y * X2 <= Y2 * X /\ p * X <= Y * d
  <2>1. (p * X) * X2 <= (Y * d) * X2
    <3>1. p * X \in Nat /\ Y * d \in Nat
      OBVIOUS
    <3>2. QED
      BY <1>3, <3>1, ProductMonotone
  <2>2. (Y * X2) * d <= (Y2 * X) * d
    <3>1. Y * X2 \in Nat /\ Y2 * X \in Nat
      OBVIOUS
    <3>2. QED
      BY <1>3, <3>1, ProductMonotone
  <2>3. /\ (p * X) * X2 = (p * X2) * X /\ (Y * d) * X2 = (Y * X2) * d
        /\ (Y2 * X) * d = (Y2 * d) * X
    OBVIOUS
  <2>4. /\ (p * X2) * X \in Nat /\ (Y * X2) * d \in Nat /\ (Y2 * d) * X \in Nat
        /\ p * X2 \in Nat /\ Y2 * d \in Nat
    OBVIOUS
  <2>5. (p * X2) * X <= (Y2 * d) * X
    BY <2>1, <2>2, <2>3, <2>4
  <2>6. QED
    BY <2>4, <2>5, Cancel
<1>4. QED
  BY <1>1, <1>2, <1>3

LEMMA OwedTypes ==
    ASSUME VaultTypeOK, StakeTypeOK
    PROVE  Owed \in Nat /\ Held \in Nat
<1>1. /\ totalDeposited \in Nat /\ totalShares \in Nat
      /\ shares[Batch] \in Nat /\ totalUnderlying \in Nat
  BY AccountFacts DEF VaultTypeOK, StakeTypeOK
<1>2. \A x, y \in Nat : x * y \in Nat
  OBVIOUS
<1>3. QED
  BY <1>1, <1>2 DEF Owed, Held

\* What the books and the price of a share imply of one batch and user.
PreviewInv ==
    /\ \A u \in Users : ~pos[u].claimed => pos[u].deposited <= totalDeposited
    /\ shares[Batch] <= totalShares
    /\ totalShares <= totalUnderlying
    /\ status = "Settled" /\ totalDeposited > 0 => shares[Batch] > 0

LEMMA PreviewBooked ==
    ASSUME TypeOK, StakeInv, SharesAddUp, VaultSafe, Backed
    PROVE  PreviewInv
<1>1. ASSUME NEW u \in Users, ~pos[u].claimed PROVE pos[u].deposited <= totalDeposited
  <2>1. \A v \in Users : Staked[v] \in Nat
    BY StakedType DEF TypeOK
  <2>2. Staked[u] <= Total(Staked, Users)
    BY <2>1, FiniteUsers, TotalAbove
  <2>3. QED
    BY <1>1, <2>2 DEF StakeInv, Staked
<1>2. shares[Batch] <= totalShares
  BY AccountFacts, SharesBelowTotal DEF TypeOK
<1>3. QED
  BY <1>1, <1>2 DEF PreviewInv, VaultSafe, PriceAtLeastOne, Backed, Started

LEMMA SomethingOwed ==
    ASSUME TypeOK, PreviewInv, status = "Settled", totalDeposited > 0
    PROVE  /\ totalDeposited \in Nat \ {0} /\ totalShares \in Nat \ {0}
           /\ totalUnderlying \in Nat \ {0} /\ Owed \in Nat \ {0}
<1>1. /\ totalDeposited \in Nat \ {0} /\ totalShares \in Nat /\ totalUnderlying \in Nat
      /\ shares[Batch] \in Nat \ {0}
  BY AccountFacts DEF TypeOK, VaultTypeOK, StakeTypeOK, PreviewInv
<1>2. totalShares \in Nat \ {0} /\ totalUnderlying \in Nat \ {0}
  BY <1>1 DEF PreviewInv
<1>3. QED
  BY <1>1, <1>2 DEF Owed

\* The figure of the page is within both bounds when it is read.
LEMMA PrincipalIsCovered ==
    ASSUME TypeOK, PreviewInv, NEW u \in Users, Previewed(u)
    PROVE  /\ PreviewPrincipal(u) \in Nat
           /\ PreviewPrincipal(u) <= pos[u].deposited
           /\ Covers(PreviewPrincipal(u), pos[u].deposited)
<1> DEFINE d == pos[u].deposited
           B == shares[Batch]
           D == totalDeposited
           S == totalShares
           T == totalUnderlying
           x == (B * d) \div D
           w == (x * T) \div S
           p == SmallerOf(w, d)
<1>1. /\ D \in Nat \ {0} /\ S \in Nat \ {0} /\ T \in Nat \ {0} /\ B \in Nat /\ d \in Nat
  BY SomethingOwed, AccountFacts, PositionType DEF TypeOK, VaultTypeOK, Previewed
<1>2. PreviewPrincipal(u) = p
  BY <1>1 DEF PreviewPrincipal, Worth
<1>3. x \in Nat /\ x * D <= B * d
  <2>1. B * d \in Nat
    BY <1>1
  <2>2. QED
    BY <1>1, <2>1, DivBounds
<1>4. Owed = D * S /\ Held = B * T
  BY DEF Owed, Held
<1> HIDE DEF d, B, D, S, T, x
<1>5. w \in Nat /\ w * S <= x * T
  <2>1. x * T \in Nat
    BY <1>1, <1>3
  <2>2. QED
    BY <1>1, <2>1, DivBounds
<1> HIDE DEF w
<1>6. p \in Nat /\ p <= d /\ p <= w
  BY <1>1, <1>5 DEF SmallerOf
<1> HIDE DEF p
<1>7. p * (D * S) <= (B * T) * d
  <2>1. p * S <= w * S
    BY <1>1, <1>5, <1>6, ProductMonotone
  <2>2. p * S \in Nat /\ w * S \in Nat /\ x * T \in Nat /\ x * D \in Nat /\ B * d \in Nat
    BY <1>1, <1>3, <1>5, <1>6
  <2>3. p * S <= x * T
    BY <1>5, <2>1, <2>2
  <2>4. (p * S) * D <= (x * T) * D
    BY <1>1, <2>2, <2>3, ProductMonotone
  <2>5. (x * D) * T <= (B * d) * T
    BY <1>1, <1>3, <2>2, ProductMonotone
  <2>6. /\ (p * S) * D = p * (D * S) /\ (x * T) * D = (x * D) * T
        /\ (B * d) * T = (B * T) * d
    BY <1>1, <1>3, <1>6
  <2>7. p * (D * S) \in Nat /\ (x * D) * T \in Nat /\ (B * T) * d \in Nat
    BY <1>1, <1>3, <1>6
  <2>8. QED
    BY <2>4, <2>5, <2>6, <2>7
<1>8. QED
  BY <1>2, <1>4, <1>6, <1>7 DEF Covers, d

\* And stays so, whatever is done to the batch and the vault.
LEMMA CoverKept ==
    ASSUME TypeOK, TypeOK', PreviewInv, PreviewInv', SharesAddUp, VaultSafe,
           EntitlementBounded, Next, status = "Settled", status' = "Settled",
           NEW p \in Nat, NEW d \in Nat, p <= d, Covers(p, d),
           totalDeposited > 0, totalDeposited' > 0
    PROVE  Covers(p, d)'
<1>1. CoverageStep
  BY CoverageHolds DEF OpenNext
<1>2. Owed \in Nat \ {0} /\ Held \in Nat
  <2>1. Owed \in Nat \ {0}
    BY SomethingOwed
  <2>2. Held \in Nat
    BY OwedTypes DEF TypeOK
  <2>3. QED
    BY <2>1, <2>2
<1>3. Owed' \in Nat /\ Held' \in Nat
  <2>1. /\ totalDeposited' \in Nat /\ totalShares' \in Nat
        /\ shares'[Batch] \in Nat /\ totalUnderlying' \in Nat
    BY AccountFacts DEF TypeOK, VaultTypeOK, StakeTypeOK
  <2>2. \A x, y \in Nat : x * y \in Nat
    OBVIOUS
  <2>3. QED
    BY <2>1, <2>2 DEF Owed, Held
<1>4. totalShares' > 0
  <2>1. totalShares' \in Nat /\ shares'[Batch] \in Nat
    BY AccountFacts DEF TypeOK, VaultTypeOK
  <2>2. shares'[Batch] > 0 /\ shares'[Batch] <= totalShares'
    BY DEF PreviewInv
  <2>3. QED
    BY <2>1, <2>2
<1>5. \/ shares'[Batch] * totalUnderlying' >= totalDeposited' * totalShares'
      \/ shares'[Batch] * totalUnderlying' * (totalDeposited * totalShares)
            >= shares[Batch] * totalUnderlying * (totalDeposited' * totalShares')
  BY <1>1, <1>4 DEF CoverageStep
<1>6. /\ Owed = totalDeposited * totalShares /\ Held = shares[Batch] * totalUnderlying
      /\ Owed' = totalDeposited' * totalShares' /\ Held' = shares'[Batch] * totalUnderlying'
  BY DEF Owed, Held
<1>7. Held' >= Owed' \/ Held' * Owed >= Held * Owed'
  BY <1>5, <1>6
<1>8. Owed <= Held \/ p * Owed <= Held * d
  BY DEF Covers
<1>9. Covers(p, d)' <=> (Owed' <= Held' \/ p * Owed' <= Held' * d)
  BY DEF Covers
<1> DEFINE X == Owed
           Y == Held
           X2 == Owed'
           Y2 == Held'
<1>10. X \in Nat \ {0} /\ Y \in Nat /\ X2 \in Nat /\ Y2 \in Nat
  BY <1>2, <1>3
<1>11. (Y2 >= X2 \/ Y2 * X >= Y * X2) /\ (X <= Y \/ p * X <= Y * d)
  BY <1>7, <1>8
<1>12. Covers(p, d)' <=> (X2 <= Y2 \/ p * X2 <= Y2 * d)
  BY <1>9
<1> HIDE DEF X, Y, X2, Y2
<1>13. X2 <= Y2 \/ Y * X2 <= Y2 * X
  <2>1. Y2 * X \in Nat /\ Y * X2 \in Nat
    BY <1>10
  <2>2. QED
    BY <1>10, <1>11, <2>1
<1>14. X2 <= Y2 \/ p * X2 <= Y2 * d
  BY <1>10, <1>11, <1>13, CoverOrder
<1>15. QED
  BY <1>12, <1>14

\* What is covered is paid, but for the roundings of the claim.
LEMMA CoveredIsPaid ==
    ASSUME TypeOK, PreviewInv, status = "Settled", NEW u \in Users, CanClaim(u),
           NEW p \in Nat, p <= pos[u].deposited, Covers(p, pos[u].deposited)
    PROVE  p * totalShares <= Payout(u) * totalShares + 2 * totalUnderlying + 2 * totalShares
<1> DEFINE d == pos[u].deposited
           X == totalDeposited * totalShares
           Y == shares[Batch] * totalUnderlying
           q == (shares[Batch] * d * totalUnderlying) \div X
           due == SmallerOf(d, q)
           most == Payout(u) * totalShares + 2 * totalUnderlying + 2 * totalShares
<1>1. StakeTypeOK /\ VaultTypeOK
  BY DEF TypeOK
<1>2. due * totalShares <= most
  BY <1>1, ClaimLoses
<1>3. /\ d \in Nat /\ shares[Batch] \in Nat
      /\ totalDeposited \in Nat \ {0} /\ totalShares \in Nat \ {0}
      /\ totalUnderlying \in Nat \ {0}
  BY <1>1, PositionType, AccountFacts DEF CanClaim, VaultTypeOK
<1>4. /\ X \in Nat \ {0} /\ Y \in Nat
      /\ shares[Batch] * d * totalUnderlying = Y * d
  BY <1>3
<1>5. X <= Y \/ p * X <= Y * d
  BY DEF Covers, Owed, Held
<1>6. p <= d
  OBVIOUS
<1>7. q = (Y * d) \div X
  BY <1>4
<1>8. Payout(u) \in Nat
  <2>1. CASE ClaimShares(u) > 0
    <3>1. ClaimShares(u) * totalUnderlying \in Nat
      BY <1>1, <1>3, ClaimSharesType
    <3>2. QED
      BY <1>3, <2>1, <3>1, DivBounds DEF Payout, Worth
  <2>2. CASE ~(ClaimShares(u) > 0)
    BY <2>2 DEF Payout
  <2>3. QED
    BY <2>1, <2>2
<1> HIDE DEF q, d, X, Y
<1>9. q \in Nat /\ Y * d < q * X + X
  <2>1. Y * d \in Nat
    BY <1>3, <1>4
  <2>2. QED
    BY <1>4, <1>7, <2>1, DivBounds
<1>10. p * X <= Y * d
  <2>1. CASE X <= Y
    <3>1. X * d <= Y * d
      BY <1>3, <1>4, <2>1, ProductMonotone
    <3>2. p * X <= d * X
      BY <1>3, <1>4, <1>6, ProductMonotone
    <3>3. d * X = X * d /\ p * X \in Nat /\ d * X \in Nat /\ Y * d \in Nat
      BY <1>3, <1>4
    <3>4. QED
      BY <3>1, <3>2, <3>3
  <2>2. QED
    BY <1>5, <2>1
<1>11. p <= q
  <2>1. (q + 1) * X = q * X + X
    BY <1>4, <1>9
  <2>2. p * X \in Nat /\ Y * d \in Nat /\ q * X \in Nat /\ q + 1 \in Nat
    BY <1>3, <1>4, <1>9
  <2>3. p * X < (q + 1) * X
    BY <1>4, <1>9, <1>10, <2>1, <2>2
  <2>4. p < q + 1
    BY <1>4, <2>2, <2>3, ProductCancel
  <2>5. QED
    BY <1>9, <2>4
<1>12. due \in Nat /\ p <= due
  BY <1>3, <1>6, <1>9, <1>11 DEF SmallerOf
<1> HIDE DEF due
<1>13. p * totalShares <= due * totalShares
  BY <1>3, <1>12, ProductMonotone
<1>14. p * totalShares \in Nat /\ due * totalShares \in Nat /\ most \in Nat
  BY <1>3, <1>8, <1>12
<1>15. QED
  BY <1>2, <1>13, <1>14

\* A claim leaves those who stay their part of the claim pool.
LEMMA PoolKept ==
    ASSUME NEW A \in Nat, NEW D \in Nat \ {0}, NEW e \in Nat, NEW d \in Nat,
           NEW D2 \in Nat \ {0}, D2 = D - e, NEW A2 \in Nat, A2 = A - ((A * e) \div D)
    PROVE  (A * d) \div D \in Nat /\ (A * d) \div D <= (A2 * d) \div D2
<1> DEFINE r == (A * e) \div D
<1>1. A * e \in Nat /\ r \in Nat /\ r * D <= A * e
  <2>1. A * e \in Nat
    OBVIOUS
  <2>2. QED
    BY <2>1, DivBounds
<1>2. A2 = A - r
  OBVIOUS
<1> HIDE DEF r
<1>3. A * D2 = A * D - A * e /\ A2 * D = A * D - r * D
  BY <1>1, <1>2
<1>4. A * D2 <= A2 * D
  <2>1. A * D \in Nat /\ r * D \in Nat
    BY <1>1
  <2>2. QED
    BY <1>1, <1>3, <2>1
<1>5. (A * d) * D2 <= (A2 * d) * D
  <2>1. A * D2 \in Nat /\ A2 * D \in Nat
    OBVIOUS
  <2>2. (A * D2) * d <= (A2 * D) * d
    BY <1>4, <2>1, ProductMonotone
  <2>3. (A * d) * D2 = (A * D2) * d /\ (A2 * d) * D = (A2 * D) * d
    OBVIOUS
  <2>4. QED
    BY <2>2, <2>3
<1>6. A * d \in Nat /\ A2 * d \in Nat
  OBVIOUS
<1>7. QED
  BY <1>5, <1>6, FloorOfFraction

LEMMA SettledSteps ==
    ASSUME status = "Settled", Next
    PROVE  \/ \E v \in Users : Claim(v)
           \/ ClaimOperatorYield
           \/ ClockTick
           \/ OthersUseVault
<1>1. ASSUME NEW v \in Users, NEW a \in Stakes, JoinBatch(v, a) \/ LeaveBatch(v, a)
      PROVE  FALSE
  BY <1>1, Zenon DEF JoinBatch, LeaveBatch
<1>2. ~(InitializeBatch \/ StartBatch \/ FinalizeConsensus \/ PenalizeMissedCollateral
          \/ SettleUsersWon \/ SettleOperatorWon \/ SettleDefault)
  BY DEF InitializeBatch, StartBatch, FinalizeConsensus, PenalizeMissedCollateral,
     SettleUsersWon, SettleOperatorWon, SettleDefault, ProofAccepted, CanDefault
<1>3. ASSUME NEW filled \in Slates, NEW k \in Kickoffs, ProposeMatch(filled, k) PROVE FALSE
  BY <1>3 DEF ProposeMatch
<1>4. ASSUME NEW v \in Users, NEW i \in Options, CastVote(v, i) PROVE FALSE
  BY <1>4 DEF CastVote
<1>5. ASSUME NEW x \in Overpay, DepositCollateralSkip(x) PROVE FALSE
  BY <1>5 DEF DepositCollateralSkip
<1>6. ASSUME NEW o \in Odds, NEW x \in Overpay, DepositCollateralBet(o, x) PROVE FALSE
  BY <1>6 DEF DepositCollateralBet
<1>7. QED
  BY <1>1, <1>2, <1>3, <1>4, <1>5, <1>6 DEF Next

\* The user's part of the claim pool falls only to the operator.
LEMMA RewardKept ==
    ASSUME TypeOK, TypeOK', PreviewInv, PreviewInv', status = "Settled", Next,
           ~ClaimOperatorYield, NEW u \in Users, pos[u].deposited > 0,
           ~pos[u].claimed, ~pos'[u].claimed
    PROVE  /\ RewardShare(u) \in Nat /\ RewardShare(u)' \in Nat
           /\ RewardShare(u) <= RewardShare(u)'
           /\ totalDeposited' <= totalDeposited
<1> DEFINE d == pos[u].deposited
           A == tok[BatchAta]
<1>1. /\ VaultTypeOK /\ StakeTypeOK /\ d \in Nat /\ A \in Nat /\ tok'[BatchAta] \in Nat
      /\ totalDeposited \in Nat /\ totalDeposited' \in Nat
      /\ RewardShare(u) = (A * d) \div totalDeposited
  BY AccountFacts, PositionType DEF TypeOK, VaultTypeOK, StakeTypeOK, RewardShare
<1>2. totalDeposited \in Nat \ {0}
  BY <1>1 DEF PreviewInv
<1>3. ASSUME NEW v \in Users, Claim(v)
      PROVE  /\ RewardShare(u) \in Nat /\ RewardShare(u)' \in Nat
             /\ RewardShare(u) <= RewardShare(u)' /\ totalDeposited' <= totalDeposited
  <2> DEFINE e == pos[v].deposited
  <2>1. ClaimEffect(v)
    BY <1>1, <1>3, ClaimHasEffect
  <2>2. /\ pos' = [pos EXCEPT ![v] = [@ EXCEPT !.claimed = TRUE]]
        /\ totalDeposited' = totalDeposited - e
        /\ tok'[BatchAta] = A - RewardShare(v)
    BY <2>1 DEF ClaimEffect
  <2>3. u # v
    BY <1>1, <2>2 DEF StakeTypeOK, Position
  <2>4. pos'[u] = pos[u]
    BY <1>1, <2>2, <2>3 DEF StakeTypeOK
  <2>5. e \in Nat
    BY <1>1, PositionType
  <2>6. totalDeposited' \in Nat \ {0}
    BY <1>1, <2>4 DEF PreviewInv
  <2>7. /\ RewardShare(u)' = (tok'[BatchAta] * d) \div totalDeposited'
        /\ RewardShare(v) = (A * e) \div totalDeposited
    BY <2>4 DEF RewardShare
  <2> HIDE DEF A, d, e
  <2>8. tok'[BatchAta] = A - ((A * e) \div totalDeposited)
    BY <2>2, <2>7
  <2>9. RewardShare(u) \in Nat /\ RewardShare(u) <= RewardShare(u)'
    BY <1>1, <1>2, <2>2, <2>5, <2>6, <2>7, <2>8, PoolKept
  <2>10. RewardShare(u)' \in Nat
    BY <1>1, <2>6, <2>7, PartBounds
  <2>11. QED
    BY <1>1, <2>2, <2>5, <2>9, <2>10
<1>4. CASE ClockTick \/ OthersUseVault
  <2>1. pos' = pos /\ totalDeposited' = totalDeposited /\ tok'[BatchAta] = A
    <3>1. CASE ClockTick
      BY <3>1 DEF ClockTick, batchVars, stakeVars, vaultSystemVars
    <3>2. CASE OthersUseVault
      BY <1>1, <3>2, OthersSpareThePool DEF OthersUseVault, batchVars, stakeVars
    <3>3. QED
      BY <1>4, <3>1, <3>2
  <2>2. RewardShare(u)' = RewardShare(u)
    BY <2>1 DEF RewardShare
  <2>3. RewardShare(u) \in Nat
    <3> HIDE DEF A, d
    <3>1. QED
      BY <1>1, <1>2, PartBounds
  <2>4. QED
    BY <1>1, <2>1, <2>2, <2>3
<1>5. QED
  BY <1>3, <1>4, SettledSteps

-----------------------------------------------------------------------------
\* While the page is open.
ShownTypeOK ==
    /\ status = "Settled"
    /\ shown \in [user : Users, stake : Nat, pool : Nat \ {0}, principal : Nat, earnings : Nat]
    /\ shown.stake = pos[shown.user].deposited
    /\ shown.stake > 0
    /\ shown.principal <= shown.stake
    /\ totalDeposited <= shown.pool

ShownIsOwed ==
    ~pos[shown.user].claimed =>
        /\ Covers(shown.principal, shown.stake)
        /\ stage = "shown" /\ ~swept => shown.earnings <= RewardShare(shown.user)

ShownInv == stage # "idle" => ShownTypeOK /\ ShownIsOwed

LEMMA ReadAccountsKeeps ==
    ASSUME TypeOK, PreviewInv, NEW u \in Users, ReadAccounts(u)
    PROVE  ShownInv'
<1>1. /\ Previewed(u) /\ stage' = "half" /\ UNCHANGED vars
      /\ shown' = [user |-> u, stake |-> pos[u].deposited, pool |-> totalDeposited,
                   principal |-> PreviewPrincipal(u), earnings |-> 0]
  BY DEF ReadAccounts
<1>2. /\ PreviewPrincipal(u) \in Nat /\ PreviewPrincipal(u) <= pos[u].deposited
      /\ Covers(PreviewPrincipal(u), pos[u].deposited)
  BY <1>1, PrincipalIsCovered
<1>3. /\ pos' = pos /\ status' = "Settled" /\ totalDeposited' = totalDeposited
      /\ shares' = shares /\ totalShares' = totalShares /\ totalUnderlying' = totalUnderlying
  BY <1>1 DEF vars, batchVars, stakeVars, vaultSystemVars, vaultVars, Previewed
<1>4. pos[u].deposited \in Nat /\ totalDeposited \in Nat \ {0} /\ pos[u].deposited > 0
  BY <1>1, PositionType DEF TypeOK, StakeTypeOK, Previewed
<1>5. /\ shown'.user = u /\ shown'.stake = pos[u].deposited /\ shown'.pool = totalDeposited
      /\ shown'.principal = PreviewPrincipal(u)
  BY <1>1
<1>6. ShownTypeOK'
  BY <1>1, <1>2, <1>3, <1>4, <1>5 DEF ShownTypeOK
<1>7. Covers(shown.principal, shown.stake)'
  BY <1>2, <1>3, <1>5 DEF Covers, Owed, Held
<1>8. QED
  BY <1>1, <1>6, <1>7 DEF ShownInv, ShownIsOwed

LEMMA ReadPoolKeeps ==
    ASSUME TypeOK, PreviewInv, ShownInv, ReadPool
    PROVE  ShownInv'
<1>1. stage = "half" /\ stage' = "shown" /\ UNCHANGED vars
  BY DEF ReadPool
<1>2. PICK balance \in {0, tok[BatchAta]} :
         shown' = [shown EXCEPT !.earnings = (balance * shown.stake) \div shown.pool]
  BY DEF ReadPool
<1>3. ShownTypeOK /\ ShownIsOwed
  BY <1>1 DEF ShownInv
<1> DEFINE earned == (balance * shown.stake) \div shown.pool
           r == RewardShare(shown.user)
<1>4. /\ shown.stake \in Nat /\ shown.pool \in Nat \ {0} /\ shown.user \in Users
      /\ tok[BatchAta] \in Nat /\ totalDeposited \in Nat /\ balance \in Nat
      /\ totalDeposited <= shown.pool /\ shown.stake = pos[shown.user].deposited
      /\ shown.stake > 0
  BY <1>3, AccountFacts DEF ShownTypeOK, TypeOK, VaultTypeOK, StakeTypeOK
<1>5. r = (tok[BatchAta] * shown.stake) \div totalDeposited
  BY <1>4 DEF RewardShare
<1>6. earned \in Nat
  BY <1>4, PartBounds
<1>7. ASSUME ~pos[shown.user].claimed PROVE earned <= r
  <2>1. totalDeposited \in Nat \ {0}
    BY <1>4, <1>7 DEF PreviewInv
  <2>2. CASE balance = 0
    <3>1. balance * shown.stake = 0 /\ r \in Nat
      BY <1>4, <1>5, <2>1, <2>2, PartBounds
    <3>2. earned = 0
      BY <1>4, <3>1
    <3>3. QED
      BY <3>1, <3>2
  <2>3. CASE balance = tok[BatchAta]
    <3> DEFINE a == tok[BatchAta] * shown.stake
    <3>1. a \in Nat /\ earned = a \div shown.pool /\ r = a \div totalDeposited
      BY <1>4, <1>5, <2>3
    <3> HIDE DEF a, earned, r
    <3>2. a * totalDeposited <= a * shown.pool
      <4>1. totalDeposited * a <= shown.pool * a
        BY <1>4, <3>1, ProductMonotone
      <4>2. totalDeposited * a = a * totalDeposited /\ shown.pool * a = a * shown.pool
        BY <1>4, <3>1
      <4>3. QED
        BY <4>1, <4>2
    <3>3. QED
      BY <1>4, <2>1, <3>1, <3>2, FloorOfFraction
  <2>4. QED
    BY <2>2, <2>3
<1> HIDE DEF earned, r
<1>8. shown' = [shown EXCEPT !.earnings = earned]
  BY <1>2 DEF earned
<1>9. /\ shown' \in [user : Users, stake : Nat, pool : Nat \ {0}, principal : Nat, earnings : Nat]
      /\ shown'.user = shown.user /\ shown'.stake = shown.stake /\ shown'.pool = shown.pool
      /\ shown'.principal = shown.principal /\ shown'.earnings = earned
  BY <1>3, <1>6, <1>8 DEF ShownTypeOK
<1>10. /\ pos' = pos /\ status' = status /\ totalDeposited' = totalDeposited /\ tok' = tok
       /\ shares' = shares /\ totalShares' = totalShares /\ totalUnderlying' = totalUnderlying
  BY <1>1 DEF vars, batchVars, stakeVars, vaultSystemVars, vaultVars
<1>11. ShownTypeOK'
  BY <1>3, <1>9, <1>10 DEF ShownTypeOK
<1>12. RewardShare(shown.user)' = r
  BY <1>9, <1>10 DEF RewardShare, r
<1>13. Covers(shown.principal, shown.stake)' <=> Covers(shown.principal, shown.stake)
  BY <1>9, <1>10 DEF Covers, Owed, Held
<1>14. ASSUME ~pos'[shown'.user].claimed
       PROVE  Covers(shown.principal, shown.stake)' /\ shown'.earnings <= RewardShare(shown.user)'
  <2>1. ~pos[shown.user].claimed
    BY <1>9, <1>10, <1>14
  <2>2. QED
    BY <1>3, <1>7, <1>9, <1>12, <1>13, <2>1 DEF ShownIsOwed
<1>15. QED
  BY <1>11, <1>14 DEF ShownInv, ShownIsOwed

LEMMA ChainKeepsShown ==
    ASSUME TypeOK, TypeOK', PreviewInv, PreviewInv', SharesAddUp, VaultSafe,
           EntitlementBounded, ShownInv, ChainStep, stage # "idle"
    PROVE  ShownInv'
<1> DEFINE u == shown.user
           d == shown.stake
<1>1. ShownTypeOK /\ ShownIsOwed /\ Next /\ stage' = stage /\ shown' = shown
  BY DEF ShownInv, ChainStep
<1>2. ~swept' => ~swept /\ ~ClaimOperatorYield
  BY DEF ChainStep
<1>3. /\ status = "Settled" /\ u \in Users /\ d = pos[u].deposited /\ d > 0 /\ d \in Nat
      /\ shown.principal \in Nat /\ shown.principal <= d
      /\ shown.pool \in Nat \ {0} /\ totalDeposited <= shown.pool
      /\ shown.earnings \in Nat
      /\ shown \in [user : Users, stake : Nat, pool : Nat \ {0}, principal : Nat, earnings : Nat]
  BY <1>1 DEF ShownTypeOK
<1>4. totalDeposited \in Nat /\ totalDeposited' \in Nat /\ StakeTypeOK /\ VaultTypeOK
  BY DEF TypeOK, StakeTypeOK
<1>5. /\ status' = "Settled" /\ totalDeposited' <= totalDeposited
      /\ pos'[u].deposited = d /\ (~pos'[u].claimed => ~pos[u].claimed)
  <2>1. ASSUME NEW v \in Users, Claim(v)
        PROVE  /\ status' = "Settled" /\ totalDeposited' <= totalDeposited
               /\ pos'[u].deposited = d /\ (~pos'[u].claimed => ~pos[u].claimed)
    <3>1. ClaimEffect(v)
      BY <1>4, <2>1, ClaimHasEffect
    <3>2. /\ pos' = [pos EXCEPT ![v] = [@ EXCEPT !.claimed = TRUE]]
          /\ totalDeposited' = totalDeposited - pos[v].deposited
          /\ status' = status
      BY <3>1 DEF ClaimEffect
    <3>3. pos[v].deposited \in Nat /\ pos \in [Users -> Position]
      BY <1>4, PositionType DEF StakeTypeOK
    <3>4. pos'[u].deposited = pos[u].deposited /\ (~pos'[u].claimed => ~pos[u].claimed)
      BY <1>3, <3>2, <3>3 DEF Position
    <3>5. QED
      BY <1>3, <1>4, <3>2, <3>3, <3>4
  <2>2. ASSUME ClaimOperatorYield \/ ClockTick \/ OthersUseVault
        PROVE  status' = status /\ totalDeposited' = totalDeposited /\ pos' = pos
    BY <2>2 DEF ClaimOperatorYield, ClockTick, OthersUseVault, batchVars, stakeVars
  <2>3. QED
    BY <1>1, <1>3, <1>4, <2>1, <2>2, SettledSteps
<1>6. ShownTypeOK'
  BY <1>1, <1>3, <1>4, <1>5 DEF ShownTypeOK
<1>7. ASSUME ~pos'[u].claimed
      PROVE  /\ Covers(shown.principal, d)'
             /\ stage = "shown" /\ ~swept' => shown.earnings <= RewardShare(u)'
  <2>1. ~pos[u].claimed
    BY <1>5, <1>7
  <2>2. totalDeposited > 0 /\ totalDeposited' > 0
    BY <1>3, <1>4, <1>5, <1>7, <2>1 DEF PreviewInv
  <2>3. Covers(shown.principal, d)
    BY <1>1, <2>1 DEF ShownIsOwed
  <2> DEFINE p == shown.principal
  <2>4. p' = p /\ d' = d
    BY <1>1
  <2>5. \A a, b \in Nat : a <= b /\ Covers(a, b) => (Owed' <= Held' \/ a * Owed' <= Held' * b)
    BY <1>1, <1>3, <1>5, <2>2, CoverKept DEF Covers
  <2>6. Owed' <= Held' \/ p * Owed' <= Held' * d
    BY <1>3, <2>3, <2>5
  <2>7. Covers(shown.principal, d)'
    BY <2>4, <2>6 DEF Covers
  <2>8. ASSUME stage = "shown", ~swept' PROVE shown.earnings <= RewardShare(u)'
    <3>1. shown.earnings <= RewardShare(u)
      BY <1>1, <1>2, <2>1, <2>8 DEF ShownIsOwed
    <3>2. u' = u
      BY <1>1
    <3>3. /\ RewardShare(u) \in Nat /\ RewardShare(u)' \in Nat
          /\ RewardShare(u) <= RewardShare(u)'
      <4>1. \A v \in Users : pos[v].deposited > 0 /\ ~pos[v].claimed /\ ~pos'[v].claimed =>
                /\ RewardShare(v) \in Nat /\ RewardShare(v)' \in Nat
                /\ RewardShare(v) <= RewardShare(v)'
        BY <1>1, <1>2, <1>3, <2>8, RewardKept
      <4>2. RewardShare(u)' = (tok'[BatchAta] * pos'[u].deposited) \div totalDeposited'
        BY <3>2 DEF RewardShare
      <4>3. QED
        BY <1>3, <1>7, <2>1, <3>2, <4>1, <4>2 DEF RewardShare
    <3>4. QED
      BY <1>3, <3>1, <3>3
  <2>9. QED
    BY <2>7, <2>8
<1>8. shown'.user = u /\ shown'.stake = d /\ shown'.principal = shown.principal
  BY <1>1
<1>9. QED
  BY <1>1, <1>6, <1>7, <1>8 DEF ShownInv, ShownIsOwed

\* What the history page shows a user is never more than the claim pays,
\* whatever happens between and after its reads: the principal but for the
\* roundings of the claim, and the earnings unless the operator has taken its
\* yield in between.
THEOREM PreviewsAreHonoured == HistorySpec => []PreviewIsHonoured
<1>1. HistoryInit => ShownInv
  BY DEF HistoryInit, ShownInv
<1>2. TypeOK /\ TypeOK' /\ PreviewInv /\ PreviewInv' /\ SharesAddUp /\ VaultSafe
        /\ EntitlementBounded /\ ShownInv /\ [HistoryNext]_<<vars, pageVars>> => ShownInv'
  <2> SUFFICES ASSUME TypeOK, TypeOK', PreviewInv, PreviewInv', SharesAddUp, VaultSafe,
                      EntitlementBounded, ShownInv, [HistoryNext]_<<vars, pageVars>>
               PROVE  ShownInv'
    OBVIOUS
  <2>1. ASSUME NEW u \in Users, ReadAccounts(u) PROVE ShownInv'
    BY <2>1, ReadAccountsKeeps
  <2>2. CASE ReadPool
    BY <2>2, ReadPoolKeeps
  <2>3. CASE Close
    BY <2>3 DEF Close, ShownInv
  <2>4. CASE ChainStep
    BY <2>4, ChainKeepsShown DEF ShownInv, ChainStep
  <2>5. CASE UNCHANGED <<vars, pageVars>>
    BY <2>5 DEF vars, pageVars, batchVars, stakeVars, vaultSystemVars, vaultVars, ShownInv,
       ShownTypeOK, ShownIsOwed, Covers, Owed, Held, RewardShare
  <2>6. QED
    BY <2>1, <2>2, <2>3, <2>4, <2>5 DEF HistoryNext
<1>3. TypeOK /\ StakeInv /\ SharesAddUp /\ VaultSafe /\ Backed /\ PreviewInv /\ ShownInv
        => PreviewIsHonoured
  <2> SUFFICES ASSUME TypeOK, StakeInv, SharesAddUp, VaultSafe, Backed, PreviewInv, ShownInv,
                      stage = "shown", ~pos[shown.user].claimed
               PROVE  /\ CanClaim(shown.user)
                      /\ shown.principal * totalShares
                            <= Payout(shown.user) * totalShares
                                  + 2 * totalUnderlying + 2 * totalShares
                      /\ ~swept => shown.earnings <= RewardShare(shown.user)
    BY DEF PreviewIsHonoured, Payout
  <2>1. ShownTypeOK /\ ShownIsOwed
    BY DEF ShownInv
  <2>2. /\ status = "Settled" /\ shown.user \in Users
        /\ shown.stake = pos[shown.user].deposited /\ shown.stake > 0
        /\ shown.principal \in Nat /\ shown.principal <= shown.stake
    BY <2>1 DEF ShownTypeOK
  <2>3. CanClaim(shown.user)
    BY <2>2, StakerCanClaim
  <2>4. Covers(shown.principal, shown.stake)
    BY <2>1 DEF ShownIsOwed
  <2>5. shown.principal * totalShares
           <= Payout(shown.user) * totalShares + 2 * totalUnderlying + 2 * totalShares
    BY <2>2, <2>3, <2>4, CoveredIsPaid
  <2>6. QED
    BY <2>1, <2>3, <2>5 DEF ShownIsOwed
<1>4. HistorySpec => Spec
  <2>1. HistoryInit => Init
    BY DEF HistoryInit
  <2>2. [HistoryNext]_<<vars, pageVars>> => [Next]_vars
    BY DEF HistoryNext, ReadAccounts, ReadPool, Close, ChainStep
  <2>3. QED
    BY <2>1, <2>2, PTL DEF HistorySpec, Spec
<1>5. Spec => []VaultSafe
  BY VaultIsSafeWithBatches DEF VaultSafe
<1>6. Spec => [](TypeOK /\ StakeInv /\ SharesAddUp /\ Backed /\ EntitlementBounded)
  BY SpecIsOpen, TypeCorrect, StakeAlwaysBooked, VaultAddsUpWithBatches, SharesAlwaysBooked,
     EntitlementAlwaysBounded, PTL
<1>7. TypeOK /\ StakeInv /\ SharesAddUp /\ VaultSafe /\ Backed => PreviewInv
  BY PreviewBooked
<1>8. QED
  BY <1>1, <1>2, <1>3, <1>4, <1>5, <1>6, <1>7, PTL DEF HistorySpec
=============================================================================
