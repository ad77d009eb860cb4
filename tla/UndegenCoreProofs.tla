-------------------------- MODULE UndegenCoreProofs --------------------------
(***************************************************************************)
(* What the batch program guarantees for any number of users, bets, slates *)
(* and amounts, however the vault is used beside it: type correctness, the *)
(* ledger of the rounds, the escrow, the ballot, the price of a share, and *)
(* the refinement of BatchLifecycle.  The invariants are proved of         *)
(* OpenSpec below, which lets other programs move tokens beside the batch; *)
(* Spec is the case in which none does, UndegenSystem the one with the     *)
(* lottery.                                                                *)
(***************************************************************************)
EXTENDS UndegenCore, YieldVaultProofs

LEMMA AccountFacts ==
    /\ \A u \in Users : u \in TokenAccounts /\ u # VaultAcct /\ u # BatchAta /\ u # CollateralAcct
    /\ {BatchAta, CollateralAcct, OperatorAcct, VaultAcct} \subseteq TokenAccounts
    /\ VaultAcct # BatchAta /\ VaultAcct # CollateralAcct /\ BatchAta # CollateralAcct
    /\ OperatorAcct \notin {VaultAcct, BatchAta, CollateralAcct}
    /\ Batch \in Depositors
  BY CoreConstants, VaultConstants

LEMMA ParameterFacts ==
    /\ Stakes \subseteq Nat /\ Odds \subseteq Nat /\ Overpay \subseteq Nat
    /\ Kickoffs \subseteq Nat /\ Slates \subseteq SUBSET (0..3)
    /\ ApyBps \in 1..65535 /\ MaxBets \in Nat \ {0}
    /\ VoteCutoff \in Nat /\ ProofWindow \in Nat /\ LobbyExpiry \in Nat /\ MaxTime \in Nat
  BY CoreConstants

LEMMA EmptyAtFirst ==
    /\ InitialTokens \in [TokenAccounts -> Nat]
    /\ InitialTokens[VaultAcct] = 0 /\ InitialTokens[CollateralAcct] = 0
    /\ InitialTokens[BatchAta] = 0
  BY CoreConstants, VaultConstants

\* A floor of a product over a positive divisor is a natural number, and not
\* above the first factor when the second is not above the divisor.
LEMMA PartBounds ==
    ASSUME NEW a \in Nat, NEW b \in Nat, NEW c \in Nat \ {0}
    PROVE  /\ (a * b) \div c \in Nat
           /\ b <= c => (a * b) \div c <= a
<1>1. a * b \in Nat
  OBVIOUS
<1>2. (a * b) \div c \in Nat /\ ((a * b) \div c) * c <= a * b
  BY <1>1, DivBounds
<1>3. ASSUME b <= c PROVE (a * b) \div c <= a
  <2>1. a * b <= a * c
    BY <1>3, ProductMonotone
  <2>2. ((a * b) \div c) * c <= a * c
    BY <1>1, <1>2, <2>1
  <2>3. QED
    BY <1>2, <2>2, Cancel
<1>4. QED
  BY <1>2, <1>3

LEMMA BetSizeType ==
    ASSUME NEW total \in Nat
    PROVE  BetSize(total) \in Nat
<1>1. total * ApyBps \in Nat
  BY ParameterFacts
<1>2. (total * ApyBps) \div 10000 \in Nat
  BY <1>1, DivBounds
<1>3. ((total * ApyBps) \div 10000) \div 52 \in Nat
  BY <1>2, DivBounds
<1>4. QED
  BY <1>3, DivBounds, ParameterFacts DEF BetSize

LEMMA MonusType ==
    ASSUME NEW a \in Nat, NEW b \in Nat
    PROVE  Monus(a, b) \in Nat
  BY DEF Monus

\* The scan ends on an option.
LEMMA ConsensusType ==
    ASSUME NEW weights \in [Options -> Nat]
    PROVE  Consensus(weights) \in Options
<1> DEFINE Acc == [max : Nat, win : Options, tie : BOOLEAN]
<1>1. ASSUME NEW acc \in Acc, NEW i \in Options PROVE Scan(weights, acc, i) \in Acc
  BY <1>1 DEF Scan
<1>2. [max |-> 0, win |-> Skip, tie |-> FALSE] \in Acc /\ {0, 1, 2, 3, 4} \subseteq Options
  BY DEF Skip, Options
<1> DEFINE step(acc, i) == Scan(weights, acc, i)
           scan == step(step(step(step(step(
                     [max |-> 0, win |-> Skip, tie |-> FALSE], 0), 1), 2), 3), 4)
<1>3. scan \in Acc
  <2> HIDE DEF Acc
  <2>1. QED
    BY <1>1, <1>2
<1> HIDE DEF scan
<1>4. Consensus(weights) = IF scan.max = 0 \/ scan.tie THEN Skip ELSE scan.win
  BY DEF Consensus, scan
<1>5. QED
  BY <1>2, <1>3, <1>4

-----------------------------------------------------------------------------
\* Type correctness.  A part whose variables an action leaves alone stays
\* well typed; the others are followed one action at a time.
LEMMA PartsUnchanged ==
    /\ VaultTypeOK /\ UNCHANGED vaultSystemVars => VaultTypeOK'
    /\ LobbyTypeOK /\ UNCHANGED <<now, status, lobbyVars>> => LobbyTypeOK'
    /\ StakeTypeOK /\ UNCHANGED stakeVars => StakeTypeOK'
    /\ TallyTypeOK /\ UNCHANGED tallyVars => TallyTypeOK'
    /\ RoundTypeOK /\ UNCHANGED roundVars => RoundTypeOK'
<1>1. VaultTypeOK /\ UNCHANGED vaultSystemVars => VaultTypeOK'
  BY DEF VaultTypeOK, vaultSystemVars
<1>2. LobbyTypeOK /\ UNCHANGED <<now, status, lobbyVars>> => LobbyTypeOK'
  BY DEF LobbyTypeOK, lobbyVars
<1>3. StakeTypeOK /\ UNCHANGED stakeVars => StakeTypeOK'
  BY DEF StakeTypeOK, stakeVars
<1>4. TallyTypeOK /\ UNCHANGED tallyVars => TallyTypeOK'
  BY DEF TallyTypeOK, tallyVars
<1>5. RoundTypeOK /\ UNCHANGED roundVars => RoundTypeOK'
  BY DEF RoundTypeOK, roundVars
<1>6. QED
  BY <1>1, <1>2, <1>3, <1>4, <1>5

LEMMA TypeInit == Init => TypeOK
<1> SUFFICES ASSUME Init PROVE TypeOK
  OBVIOUS
<1>1. VaultTypeOK
  BY VaultConstants DEF Init, VaultInit, VaultTypeOK
<1>2. LobbyTypeOK
  BY DEF Init, LobbyTypeOK, Phases
<1>3. StakeTypeOK
  BY DEF Init, StakeTypeOK, ClosedPosition, Position, Options
<1>4. TallyTypeOK
  BY DEF Init, TallyTypeOK
<1>5. RoundTypeOK
  BY DEF Init, RoundTypeOK, NoVotes, NoWinner
<1>6. QED
  BY <1>1, <1>2, <1>3, <1>4, <1>5 DEF TypeOK

LEMMA PositionType ==
    ASSUME StakeTypeOK, NEW u \in Users
    PROVE  /\ pos[u] \in Position
           /\ pos[u].deposited \in Nat /\ pos[u].shares \in Nat
           /\ pos[u].voteIndex \in Options
           /\ totalDeposited \in Nat
  BY DEF StakeTypeOK, Position

LEMMA PositionUpdate ==
    ASSUME StakeTypeOK, NEW u \in Users, NEW p \in Position
    PROVE  [pos EXCEPT ![u] = p] \in [Users -> Position]
  BY DEF StakeTypeOK

LEMMA RestakedType ==
    ASSUME NEW p \in Position, NEW d \in Nat, NEW s \in Nat
    PROVE  [p EXCEPT !.deposited = d, !.shares = s] \in Position
  BY DEF Position

LEMMA JoinTypes ==
    ASSUME TypeOK, NEW u \in Users, NEW a \in Stakes, JoinBatch(u, a)
    PROVE  TypeOK'
<1>1. a \in Nat
  BY ParameterFacts
<1>2. VaultTypeOK /\ VaultDeposit(Batch, a) /\ Batch \in Depositors
  BY AccountFacts DEF JoinBatch, TypeOK
<1>3. /\ totalShares' \in Nat /\ totalUnderlying' = totalUnderlying + a
      /\ shares' \in [Depositors -> Nat] /\ MintedFor(a) \in Nat
  BY <1>1, <1>2, DepositTypes
<1>4. VaultTypeOK'
  <2>1. CanPay(tok, u, a) /\ tok' = Moved(tok, u, VaultAcct, a)
    BY DEF JoinBatch
  <2>2. tok' \in [TokenAccounts -> Nat]
    BY <1>1, <1>2, <2>1, AccountFacts, MovedTypes DEF VaultTypeOK
  <2>3. QED
    BY <1>1, <1>2, <1>3, <2>2 DEF VaultTypeOK
<1>5. StakeTypeOK'
  <2>1. StakeTypeOK
    BY DEF TypeOK
  <2>2. Joined(u, a) \in Position
    <3> DEFINE p == IF pos[u].deposited = 0
                    THEN [ClosedPosition EXCEPT !.open = TRUE] ELSE pos[u]
    <3>1. [ClosedPosition EXCEPT !.open = TRUE] \in Position
      <4>1. ClosedPosition \in Position
        BY DEF ClosedPosition, Position, Options
      <4>2. QED
        BY <4>1 DEF Position
    <3>2. p \in Position
      BY <2>1, <3>1, PositionType
    <3>3. Joined(u, a) = [p EXCEPT !.deposited = p.deposited + a,
                                   !.shares = p.shares + MintedFor(a)]
      BY DEF Joined
    <3> HIDE DEF p
    <3>4. p.deposited + a \in Nat /\ p.shares + MintedFor(a) \in Nat
      <4>1. p.deposited \in Nat /\ p.shares \in Nat
        BY <3>2 DEF Position
      <4>2. QED
        BY <1>1, <1>3, <4>1
    <3>5. QED
      BY <3>2, <3>3, <3>4, RestakedType
  <2>3. pos' \in [Users -> Position]
    BY <2>1, <2>2, PositionUpdate DEF JoinBatch
  <2>4. totalDeposited' \in Nat /\ participantCount' \in Nat
    BY <1>1, <2>1 DEF JoinBatch, StakeTypeOK
  <2>5. QED
    BY <2>3, <2>4 DEF StakeTypeOK
<1>6. QED
  BY <1>4, <1>5, PartsUnchanged DEF JoinBatch, TypeOK

\* Forwarding the whole claim pool keeps every balance a natural number.
LEMMA SweptTypes ==
    ASSUME VaultTypeOK, NEW s, Worth(s) \in Nat, CanPay(tok, VaultAcct, Worth(s)),
           NEW to \in TokenAccounts
    PROVE  Swept(s, to) \in [TokenAccounts -> Nat]
<1> DEFINE paid == Moved(tok, VaultAcct, BatchAta, Worth(s))
<1>1. paid \in [TokenAccounts -> Nat]
  BY AccountFacts, MovedTypes DEF VaultTypeOK
<1>2. Swept(s, to) = Moved(paid, BatchAta, to, paid[BatchAta])
  BY DEF Swept
<1> HIDE DEF paid
<1>3. CanPay(paid, BatchAta, paid[BatchAta]) /\ paid[BatchAta] \in Nat
  BY <1>1, AccountFacts DEF CanPay
<1>4. QED
  BY <1>1, <1>2, <1>3, AccountFacts, MovedTypes

LEMMA SharesLeavingType ==
    ASSUME StakeTypeOK, NEW u \in Users, NEW a \in Nat, a <= pos[u].deposited, a > 0
    PROVE  SharesLeaving(u, a) \in Nat
  BY PositionType, PartBounds DEF SharesLeaving

LEMMA LeftType ==
    ASSUME StakeTypeOK, NEW u \in Users, NEW a \in Nat, a <= pos[u].deposited, a > 0
    PROVE  Left(u, a) \in Position
<1> DEFINE p == pos[u]
           s == SharesLeaving(u, a)
<1>1. p \in Position /\ p.deposited \in Nat /\ p.shares \in Nat /\ s \in Nat
  BY PositionType, SharesLeavingType
<1>2. Left(u, a) = [p EXCEPT !.deposited = p.deposited - a, !.shares = Monus(p.shares, s)]
  BY DEF Left
<1>3. a <= p.deposited
  OBVIOUS
<1> HIDE DEF p, s
<1>4. p.deposited - a \in Nat
  BY <1>1, <1>3
<1>5. Monus(p.shares, s) \in Nat
  BY <1>1, MonusType
<1>6. QED
  BY <1>1, <1>2, <1>4, <1>5, RestakedType

LEMMA LeaveTypes ==
    ASSUME TypeOK, NEW u \in Users, NEW a \in Stakes, LeaveBatch(u, a)
    PROVE  TypeOK'
<1> DEFINE s == SharesLeaving(u, a)
<1>1. a \in Nat /\ VaultTypeOK /\ StakeTypeOK
  BY ParameterFacts DEF TypeOK
<1>2. /\ a > 0 /\ a <= pos[u].deposited
      /\ VaultWithdraw(Batch, s)
      /\ CanPay(tok, VaultAcct, Worth(s)) /\ tok' = Swept(s, u)
      /\ UNCHANGED <<now, status, lobbyVars, tallyVars, roundVars>>
  BY Zenon DEF LeaveBatch
<1>3. s \in Nat
  BY <1>1, <1>2, SharesLeavingType
<1>4. VaultTypeOK'
  <2> HIDE DEF s
  <2>1. /\ totalShares' \in Nat /\ totalUnderlying' \in Nat
        /\ shares' \in [Depositors -> Nat] /\ Worth(s) \in Nat
    BY <1>1, <1>2, <1>3, AccountFacts, WithdrawTypes
  <2>2. tok' \in [TokenAccounts -> Nat]
    BY <1>1, <1>2, <2>1, AccountFacts, SweptTypes
  <2>3. QED
    BY <2>1, <2>2 DEF VaultTypeOK
<1>5. StakeTypeOK'
  <2>1. pos' = [pos EXCEPT ![u] = Left(u, a)]
    BY DEF LeaveBatch
  <2>2. pos' \in [Users -> Position]
    BY <1>1, <1>2, <2>1, LeftType, PositionUpdate
  <2>3. totalDeposited' = Monus(totalDeposited, a)
    BY DEF LeaveBatch
  <2>4. participantCount' = IF a = pos[u].deposited
                            THEN Monus(participantCount, 1) ELSE participantCount
    BY DEF LeaveBatch
  <2>5. totalDeposited' \in Nat /\ participantCount' \in Nat
    BY <1>1, <2>3, <2>4, MonusType DEF StakeTypeOK
  <2>6. QED
    BY <2>2, <2>5 DEF StakeTypeOK
<1>6. QED
  BY <1>2, <1>4, <1>5, PartsUnchanged DEF TypeOK

LEMMA VotedType ==
    ASSUME StakeTypeOK, TallyTypeOK, NEW u \in Users, NEW i \in Options
    PROVE  Voted(u, i) \in Position
<1>1. pos[u] \in Position /\ betsCompleted \in Nat
  BY PositionType DEF TallyTypeOK
<1>2. QED
  BY <1>1 DEF Voted, Position

LEMMA WeightsType ==
    ASSUME StakeTypeOK, RoundTypeOK, NEW u \in Users, NEW i \in Options
    PROVE  [Unvoted(u) EXCEPT ![i] = @ + pos[u].deposited] \in [Options -> Nat]
<1>1. pos[u].deposited \in Nat /\ voteWeights \in [Options -> Nat]
  BY PositionType DEF RoundTypeOK
<1>2. Unvoted(u) \in [Options -> Nat]
  BY <1>1, MonusType DEF Unvoted
<1>3. QED
  BY <1>1, <1>2

LEMMA VoteTypes ==
    ASSUME TypeOK, NEW u \in Users, NEW i \in Options, CastVote(u, i)
    PROVE  TypeOK'
<1>1. VaultTypeOK /\ LobbyTypeOK /\ StakeTypeOK /\ TallyTypeOK /\ RoundTypeOK
  BY DEF TypeOK
<1>2. StakeTypeOK'
  <2>1. pos' = [pos EXCEPT ![u] = Voted(u, i)] /\ UNCHANGED <<totalDeposited, participantCount>>
    BY DEF CastVote
  <2>2. QED
    BY <1>1, <2>1, VotedType, PositionUpdate DEF StakeTypeOK
<1>3. RoundTypeOK'
  <2>1. /\ voteWeights' = [Unvoted(u) EXCEPT ![i] = @ + pos[u].deposited]
        /\ UNCHANGED <<slate, kickoff, winPrize, winningVote, collateralDeposited, proofDeadline>>
    BY DEF CastVote
  <2>2. QED
    BY <1>1, <2>1, WeightsType DEF RoundTypeOK
<1>4. UNCHANGED <<now, status, lobbyVars, tallyVars, vaultSystemVars>>
  BY DEF CastVote
<1>5. QED
  BY <1>1, <1>2, <1>3, <1>4, PartsUnchanged DEF TypeOK

\* What ends a bet: the cleared round is well typed, and so is the count.
LEMMA CompleteBetTypes ==
    ASSUME TypeOK, CompleteBet
    PROVE  RoundTypeOK' /\ betsCompleted' \in Nat /\ status' \in Phases
  BY DEF TypeOK, TallyTypeOK, CompleteBet, ClearBet, RoundTypeOK, NoVotes, NoWinner, Phases

LEMMA SlashedType ==
    ASSUME TallyTypeOK
    PROVE  Slashed \in Nat
  BY DEF TallyTypeOK, Slashed, Monus

LEMMA CollateralType ==
    ASSUME RoundTypeOK, NEW odds \in Nat
    PROVE  CollateralRequired(odds) \in Nat
  BY PartBounds DEF RoundTypeOK, CollateralRequired

LEMMA SkipTypes ==
    ASSUME TypeOK, NEW x \in Overpay, DepositCollateralSkip(x)
    PROVE  TypeOK'
<1>1. VaultTypeOK /\ LobbyTypeOK /\ StakeTypeOK /\ TallyTypeOK /\ RoundTypeOK
  BY DEF TypeOK
<1>2. x \in Nat /\ winPrize + x \in Nat
  BY <1>1, ParameterFacts DEF RoundTypeOK
<1>3. /\ CanPay(tok, OperatorAcct, winPrize + x)
      /\ tok' = Moved(tok, OperatorAcct, BatchAta, winPrize + x)
      /\ CompleteBet
      /\ skipsCount' = skipsCount + 1
      /\ UNCHANGED <<now, lobbyVars, stakeVars, winsCount, lossesCount,
                     accumulatedWinnings, operatorYieldBps, vaultVars>>
  BY DEF DepositCollateralSkip
<1>4. VaultTypeOK'
  BY <1>1, <1>2, <1>3, AccountFacts, MovedTypes DEF VaultTypeOK, vaultVars
<1>5. RoundTypeOK' /\ betsCompleted' \in Nat /\ status' \in Phases
  BY <1>3, CompleteBetTypes
<1>6. LobbyTypeOK' /\ TallyTypeOK'
  BY <1>1, <1>3, <1>5 DEF LobbyTypeOK, TallyTypeOK, lobbyVars
<1>7. QED
  BY <1>1, <1>3, <1>4, <1>5, <1>6, PartsUnchanged DEF TypeOK

LEMMA CoverTypes ==
    ASSUME TypeOK, NEW o \in Odds, NEW x \in Overpay, DepositCollateralBet(o, x)
    PROVE  TypeOK'
<1> DEFINE amount == CollateralRequired(o) + x
<1>1. VaultTypeOK /\ LobbyTypeOK /\ StakeTypeOK /\ TallyTypeOK /\ RoundTypeOK
  BY DEF TypeOK
<1>2. amount \in Nat
  BY <1>1, CollateralType, ParameterFacts
<1>3. /\ CanPay(tok, OperatorAcct, amount)
      /\ tok' = Moved(tok, OperatorAcct, CollateralAcct, amount)
      /\ collateralDeposited' = amount
      /\ status' = "Active"
      /\ proofDeadline' = kickoff + ProofWindow
      /\ UNCHANGED <<now, lobbyVars, stakeVars, tallyVars, slate, kickoff, winPrize,
                     voteWeights, winningVote, vaultVars>>
  BY DEF DepositCollateralBet
<1> HIDE DEF amount
<1>4. VaultTypeOK'
  BY <1>1, <1>2, <1>3, AccountFacts, MovedTypes DEF VaultTypeOK, vaultVars
<1>5. RoundTypeOK'
  <2>1. ProofWindow \in Nat
    BY ParameterFacts
  <2>2. collateralDeposited' \in Nat /\ proofDeadline' \in Nat
    BY <1>1, <1>2, <1>3, <2>1 DEF RoundTypeOK
  <2> QED BY <1>1, <1>3, <2>2 DEF RoundTypeOK
<1>6. LobbyTypeOK'
  BY <1>1, <1>3 DEF LobbyTypeOK, lobbyVars, Phases
<1>7. QED
  BY <1>1, <1>3, <1>4, <1>5, <1>6, PartsUnchanged DEF TypeOK

\* The escrow can always be paid out in full.
LEMMA EscrowMovedTypes ==
    ASSUME VaultTypeOK, NEW to \in TokenAccounts
    PROVE  /\ tok[CollateralAcct] \in Nat
           /\ Moved(tok, CollateralAcct, to, tok[CollateralAcct]) \in [TokenAccounts -> Nat]
  BY AccountFacts, MovedTypes DEF VaultTypeOK, CanPay

LEMMA UsersWonTypes ==
    ASSUME TypeOK, SettleUsersWon
    PROVE  TypeOK'
<1> DEFINE c == tok[CollateralAcct]
<1>1. VaultTypeOK /\ LobbyTypeOK /\ StakeTypeOK /\ TallyTypeOK /\ RoundTypeOK
  BY DEF TypeOK
<1>2. c \in Nat
  BY <1>1, AccountFacts, EscrowMovedTypes
<1>3. /\ CompleteBet
      /\ winsCount' = winsCount + 1
      /\ accumulatedWinnings' = accumulatedWinnings + c
      /\ c > 0 => VaultDeposit(Batch, c)
      /\ ~(c > 0) => UNCHANGED vaultVars
      /\ tok' = Moved(tok, CollateralAcct, VaultAcct, c)
      /\ UNCHANGED <<now, lobbyVars, stakeVars, lossesCount, skipsCount, operatorYieldBps>>
  BY DEF SettleUsersWon
<1>4. tok' \in [TokenAccounts -> Nat]
  BY <1>1, <1>3, AccountFacts, EscrowMovedTypes
<1> HIDE DEF c
<1>5. VaultTypeOK'
  <2>1. CASE c > 0
    BY <1>1, <1>2, <1>3, <1>4, <2>1, AccountFacts, DepositTypes DEF VaultTypeOK
  <2>2. CASE ~(c > 0)
    BY <1>1, <1>3, <1>4, <2>2 DEF VaultTypeOK, vaultVars
  <2>3. QED
    BY <2>1, <2>2
<1>6. RoundTypeOK' /\ betsCompleted' \in Nat /\ status' \in Phases
  BY <1>3, CompleteBetTypes
<1>7. LobbyTypeOK' /\ TallyTypeOK'
  BY <1>1, <1>2, <1>3, <1>6 DEF LobbyTypeOK, TallyTypeOK, lobbyVars
<1>8. QED
  BY <1>1, <1>3, <1>5, <1>6, <1>7, PartsUnchanged DEF TypeOK

LEMMA OperatorWonTypes ==
    ASSUME TypeOK, SettleOperatorWon
    PROVE  TypeOK'
<1>1. VaultTypeOK /\ LobbyTypeOK /\ StakeTypeOK /\ TallyTypeOK /\ RoundTypeOK
  BY DEF TypeOK
<1>2. /\ CompleteBet
      /\ lossesCount' = lossesCount + 1
      /\ tok' = Moved(tok, CollateralAcct, OperatorAcct, tok[CollateralAcct])
      /\ UNCHANGED <<now, lobbyVars, stakeVars, winsCount, skipsCount,
                     accumulatedWinnings, operatorYieldBps, vaultVars>>
  BY DEF SettleOperatorWon
<1>3. VaultTypeOK'
  BY <1>1, <1>2, AccountFacts, EscrowMovedTypes DEF VaultTypeOK, vaultVars
<1>4. RoundTypeOK' /\ betsCompleted' \in Nat /\ status' \in Phases
  BY <1>2, CompleteBetTypes
<1>5. LobbyTypeOK' /\ TallyTypeOK'
  BY <1>1, <1>2, <1>4 DEF LobbyTypeOK, TallyTypeOK, lobbyVars
<1>6. QED
  BY <1>1, <1>2, <1>3, <1>4, <1>5, PartsUnchanged DEF TypeOK

LEMMA DefaultTypes ==
    ASSUME TypeOK, SettleDefault
    PROVE  TypeOK'
<1> DEFINE c == tok[CollateralAcct]
<1>1. VaultTypeOK /\ LobbyTypeOK /\ StakeTypeOK /\ TallyTypeOK /\ RoundTypeOK
  BY DEF TypeOK
<1>2. c \in Nat
  BY <1>1, AccountFacts, EscrowMovedTypes
<1>3. /\ CompleteBet
      /\ winsCount' = winsCount + 1
      /\ operatorYieldBps' = Slashed
      /\ accumulatedWinnings' = accumulatedWinnings + c
      /\ tok' = Moved(tok, CollateralAcct, BatchAta, c)
      /\ UNCHANGED <<now, lobbyVars, stakeVars, lossesCount, skipsCount, vaultVars>>
  BY DEF SettleDefault
<1>4. VaultTypeOK'
  BY <1>1, <1>3, AccountFacts, EscrowMovedTypes DEF VaultTypeOK, vaultVars
<1> HIDE DEF c
<1>5. RoundTypeOK' /\ betsCompleted' \in Nat /\ status' \in Phases
  BY <1>3, CompleteBetTypes
<1>6. LobbyTypeOK' /\ TallyTypeOK'
  BY <1>1, <1>2, <1>3, <1>5, SlashedType DEF LobbyTypeOK, TallyTypeOK, lobbyVars
<1>7. QED
  BY <1>1, <1>3, <1>4, <1>5, <1>6, PartsUnchanged DEF TypeOK

LEMMA ClaimSharesType ==
    ASSUME VaultTypeOK, StakeTypeOK, NEW u \in Users, CanClaim(u)
    PROVE  ClaimShares(u) \in Nat
<1> DEFINE d == pos[u].deposited
           userShares == (shares[Batch] * d) \div totalDeposited
           underlying == SmallerOf(Worth(userShares), d)
<1>1. /\ d \in Nat /\ totalDeposited \in Nat \ {0}
      /\ totalShares \in Nat \ {0} /\ totalUnderlying \in Nat \ {0}
      /\ shares[Batch] \in Nat
  BY PositionType, AccountFacts DEF CanClaim, VaultTypeOK
<1>2. ClaimShares(u) = (underlying * totalShares) \div totalUnderlying
  BY DEF ClaimShares
<1>3. userShares \in Nat
  BY <1>1, PartBounds
<1>4. underlying \in Nat
  <2> HIDE DEF d, userShares
  <2>1. Worth(userShares) \in Nat
    BY <1>1, <1>3, PartBounds DEF Worth
  <2>2. QED
    BY <1>1, <2>1 DEF SmallerOf
<1> HIDE DEF underlying
<1>5. QED
  BY <1>1, <1>2, <1>4, PartBounds

LEMMA RewardShareBounds ==
    ASSUME VaultTypeOK, StakeTypeOK, NEW u \in Users, CanClaim(u)
    PROVE  RewardShare(u) \in Nat /\ RewardShare(u) <= tok[BatchAta]
<1>1. /\ pos[u].deposited \in Nat /\ totalDeposited \in Nat \ {0}
      /\ pos[u].deposited <= totalDeposited
      /\ tok[BatchAta] \in Nat
  BY PositionType, AccountFacts DEF CanClaim, VaultTypeOK
<1>2. QED
  BY <1>1, PartBounds DEF RewardShare

\* What claim pays out of the vault.
Payout(u) == IF ClaimShares(u) > 0 THEN Worth(ClaimShares(u)) ELSE 0

(***************************************************************************)
(* The open program.  Nothing proved here depends on where the money of a  *)
(* claim goes, or on accounts the batch and the vault do not own: OpenSpec *)
(* allows other programs to move those in any way, and a claim to send on  *)
(* at once what it pays, as claim_and_join_lottery does.                   *)
(***************************************************************************)
\* What a claim does to the accounts of the batch and of the vault.
ClaimEffect(u) ==
    /\ CanClaim(u)
    /\ CanPay(tok, VaultAcct, Payout(u))
    /\ IF ClaimShares(u) > 0 THEN VaultWithdraw(Batch, ClaimShares(u)) ELSE UNCHANGED vaultVars
    /\ tok' \in [TokenAccounts -> Nat]
    /\ tok'[VaultAcct] = tok[VaultAcct] - Payout(u)
    /\ tok'[BatchAta] = tok[BatchAta] - RewardShare(u)
    /\ tok'[CollateralAcct] = tok[CollateralAcct]
    /\ totalDeposited' = totalDeposited - pos[u].deposited
    /\ pos' = [pos EXCEPT ![u] = [@ EXCEPT !.claimed = TRUE]]
    /\ UNCHANGED <<now, status, lobbyVars, participantCount, tallyVars, roundVars>>

TokensElsewhere ==
    /\ UNCHANGED <<now, batchVars, vaultVars>>
    /\ tok' \in [TokenAccounts -> Nat]
    /\ \A a \in {VaultAcct, BatchAta, CollateralAcct} : tok'[a] = tok[a]

OpenNext ==
    \/ Next
    \/ \E u \in Users : ClaimEffect(u)
    \/ TokensElsewhere

OpenSpec == Init /\ [][OpenNext]_vars

LEMMA SpecIsOpen == Spec => OpenSpec
<1>1. [Next]_vars => [OpenNext]_vars
  BY DEF OpenNext
<1>2. QED
  BY <1>1, PTL DEF Spec, OpenSpec

LEMMA ClaimHasEffect ==
    ASSUME VaultTypeOK, StakeTypeOK, NEW u \in Users, Claim(u)
    PROVE  ClaimEffect(u)
<1> DEFINE paid == Moved(tok, VaultAcct, u, Payout(u))
<1>1. /\ CanClaim(u)
      /\ CanPay(tok, VaultAcct, Payout(u))
      /\ IF ClaimShares(u) > 0 THEN VaultWithdraw(Batch, ClaimShares(u)) ELSE UNCHANGED vaultVars
      /\ tok' = Moved(paid, BatchAta, u, RewardShare(u))
      /\ totalDeposited' = totalDeposited - pos[u].deposited
      /\ pos' = [pos EXCEPT ![u] = [@ EXCEPT !.claimed = TRUE]]
      /\ UNCHANGED <<now, status, lobbyVars, participantCount, tallyVars, roundVars>>
  BY DEF Claim, Payout
<1>2. tok \in [TokenAccounts -> Nat] /\ ClaimShares(u) \in Nat
  BY <1>1, ClaimSharesType DEF VaultTypeOK
<1>3. Payout(u) \in Nat
  <2>1. CASE ClaimShares(u) > 0
    BY <1>1, <1>2, <2>1, AccountFacts, WithdrawTypes DEF Payout
  <2>2. CASE ~(ClaimShares(u) > 0)
    BY <2>2 DEF Payout
  <2>3. QED
    BY <2>1, <2>2
<1>4. /\ paid \in [TokenAccounts -> Nat]
      /\ paid[VaultAcct] = tok[VaultAcct] - Payout(u)
      /\ paid[BatchAta] = tok[BatchAta]
      /\ paid[CollateralAcct] = tok[CollateralAcct]
  <2>1. paid \in [TokenAccounts -> Nat]
    BY <1>1, <1>2, <1>3, AccountFacts, MovedTypes
  <2>2. QED
    BY <1>2, <1>3, <2>1, AccountFacts DEF Moved
<1>5. RewardShare(u) \in Nat /\ CanPay(paid, BatchAta, RewardShare(u))
  BY <1>1, <1>4, RewardShareBounds DEF CanPay
<1> HIDE DEF paid
<1>6. tok' \in [TokenAccounts -> Nat]
  BY <1>1, <1>4, <1>5, AccountFacts, MovedTypes
<1>7. /\ tok'[VaultAcct] = paid[VaultAcct]
      /\ tok'[BatchAta] = paid[BatchAta] - RewardShare(u)
      /\ tok'[CollateralAcct] = paid[CollateralAcct]
  BY <1>1, <1>4, <1>5, AccountFacts DEF Moved
<1>8. QED
  BY <1>1, <1>4, <1>6, <1>7 DEF ClaimEffect

LEMMA ClaimVaultTypes ==
    ASSUME VaultTypeOK, StakeTypeOK, NEW u \in Users, ClaimEffect(u)
    PROVE  /\ CanClaim(u) /\ ClaimShares(u) \in Nat /\ Payout(u) \in Nat
           /\ totalShares' \in Nat /\ totalUnderlying' \in Nat
           /\ shares' \in [Depositors -> Nat]
<1> DEFINE s == ClaimShares(u)
<1>1. /\ CanClaim(u)
      /\ s > 0 => VaultWithdraw(Batch, s)
      /\ ~(s > 0) => UNCHANGED vaultVars
  BY DEF ClaimEffect
<1>2. s \in Nat /\ Payout(u) = IF s > 0 THEN Worth(s) ELSE 0
  BY <1>1, ClaimSharesType DEF Payout
<1>3. QED
  <2> HIDE DEF s
  <2>1. CASE s > 0
    <3>1. /\ totalShares' \in Nat /\ totalUnderlying' \in Nat
          /\ shares' \in [Depositors -> Nat] /\ Worth(s) \in Nat
      BY <1>1, <1>2, <2>1, AccountFacts, WithdrawTypes
    <3>2. QED
      BY <1>1, <1>2, <2>1, <3>1 DEF s
  <2>2. CASE ~(s > 0)
    BY <1>1, <1>2, <2>2 DEF vaultVars, VaultTypeOK, s
  <2>3. QED
    BY <2>1, <2>2

LEMMA ClaimTypes ==
    ASSUME TypeOK, NEW u \in Users, ClaimEffect(u)
    PROVE  TypeOK'
<1>1. VaultTypeOK /\ LobbyTypeOK /\ StakeTypeOK /\ TallyTypeOK /\ RoundTypeOK
  BY DEF TypeOK
<1>2. /\ CanClaim(u)
      /\ totalShares' \in Nat /\ totalUnderlying' \in Nat
      /\ shares' \in [Depositors -> Nat]
  BY <1>1, ClaimVaultTypes
<1>3. /\ tok' \in [TokenAccounts -> Nat]
      /\ totalDeposited' = totalDeposited - pos[u].deposited
      /\ pos' = [pos EXCEPT ![u] = [@ EXCEPT !.claimed = TRUE]]
      /\ UNCHANGED <<now, status, lobbyVars, participantCount, tallyVars, roundVars>>
  BY DEF ClaimEffect
<1>4. VaultTypeOK'
  BY <1>2, <1>3 DEF VaultTypeOK
<1>5. StakeTypeOK'
  <2>1. [pos[u] EXCEPT !.claimed = TRUE] \in Position
    BY <1>1, PositionType DEF Position
  <2>2. pos' \in [Users -> Position]
    BY <1>1, <1>3, <2>1, PositionUpdate
  <2>3. totalDeposited' \in Nat
    BY <1>1, <1>2, <1>3, PositionType DEF CanClaim
  <2>4. QED
    BY <1>1, <1>3, <2>2, <2>3 DEF StakeTypeOK
<1>6. QED
  BY <1>1, <1>3, <1>4, <1>5, PartsUnchanged DEF TypeOK

LEMMA OperatorSharesType ==
    ASSUME TypeOK, totalShares > 0, shares[Batch] > 0, YieldAmount > 0
    PROVE  OperatorShares \in Nat /\ Worth(shares[Batch]) \in Nat /\ YieldAmount \in Nat
<1>1. /\ totalShares \in Nat \ {0} /\ totalUnderlying \in Nat
      /\ shares[Batch] \in Nat /\ totalDeposited \in Nat /\ operatorYieldBps \in Nat
  BY AccountFacts DEF TypeOK, VaultTypeOK, StakeTypeOK, TallyTypeOK
<1>2. Worth(shares[Batch]) \in Nat
  BY <1>1, PartBounds DEF Worth
<1>3. YieldAmount \in Nat
  BY <1>1, <1>2, MonusType DEF YieldAmount
<1>4. OperatorYield \in Nat
  BY <1>1, <1>3, PartBounds DEF OperatorYield
<1>5. totalUnderlying > 0
  <2>1. ASSUME totalUnderlying = 0 PROVE FALSE
    <3>1. (shares[Batch] * 0) \div totalShares = 0
      BY <1>1
    <3>2. Worth(shares[Batch]) = 0
      BY <2>1, <3>1 DEF Worth
    <3>3. QED
      BY <1>1, <3>2 DEF YieldAmount, Monus
  <2>2. QED
    BY <1>1, <2>1
<1>6. OperatorShares \in Nat
  BY <1>1, <1>4, <1>5, PartBounds DEF OperatorShares
<1>7. QED
  BY <1>2, <1>3, <1>6

LEMMA OperatorYieldTypes ==
    ASSUME TypeOK, ClaimOperatorYield
    PROVE  TypeOK'
<1>1. VaultTypeOK /\ LobbyTypeOK /\ StakeTypeOK /\ TallyTypeOK /\ RoundTypeOK
  BY DEF TypeOK
<1>2. /\ VaultWithdraw(Batch, OperatorShares)
      /\ CanPay(tok, VaultAcct, Worth(OperatorShares))
      /\ tok' = Swept(OperatorShares, OperatorAcct)
      /\ totalShares > 0 /\ shares[Batch] > 0 /\ YieldAmount > 0
      /\ UNCHANGED <<now, batchVars>>
  BY DEF ClaimOperatorYield
<1>3. OperatorShares \in Nat
  BY <1>2, OperatorSharesType
<1>4. /\ totalShares' \in Nat /\ totalUnderlying' \in Nat
      /\ shares' \in [Depositors -> Nat] /\ Worth(OperatorShares) \in Nat
  BY <1>1, <1>2, <1>3, AccountFacts, WithdrawTypes
<1>5. tok' \in [TokenAccounts -> Nat]
  BY <1>1, <1>2, <1>4, AccountFacts, SweptTypes
<1>6. VaultTypeOK'
  BY <1>4, <1>5 DEF VaultTypeOK
<1>7. QED
  BY <1>1, <1>2, <1>6, PartsUnchanged DEF TypeOK, batchVars

LEMMA TypeStep ==
    ASSUME TypeOK, OpenNext
    PROVE  TypeOK'
<1>1. VaultTypeOK /\ LobbyTypeOK /\ StakeTypeOK /\ TallyTypeOK /\ RoundTypeOK
  BY DEF TypeOK
<1>2. CASE InitializeBatch
  <2>1. LobbyTypeOK'
    BY <1>1, <1>2 DEF InitializeBatch, LobbyTypeOK, Phases
  <2>2. QED
    BY <1>1, <1>2, <2>1, PartsUnchanged DEF InitializeBatch, TypeOK
<1>3. ASSUME NEW u \in Users, NEW a \in Stakes, JoinBatch(u, a) \/ LeaveBatch(u, a)
      PROVE  TypeOK'
  BY <1>3, JoinTypes, LeaveTypes
<1>4. CASE StartBatch
  <2>1. LobbyTypeOK'
    BY <1>1, <1>4, BetSizeType DEF StartBatch, LobbyTypeOK, StakeTypeOK, Phases
  <2>2. QED
    BY <1>1, <1>4, <2>1, PartsUnchanged DEF StartBatch, TypeOK
<1>5. ASSUME NEW filled \in Slates, NEW k \in Kickoffs, ProposeMatch(filled, k)
      PROVE  TypeOK'
  <2>1. RoundTypeOK'
    BY <1>1, <1>5, ParameterFacts
    DEF ProposeMatch, LobbyTypeOK, RoundTypeOK, NoVotes, NoWinner
  <2>2. QED
    BY <1>1, <1>5, <2>1, PartsUnchanged DEF ProposeMatch, TypeOK
<1>6. ASSUME NEW u \in Users, NEW i \in Options, CastVote(u, i) PROVE TypeOK'
  BY <1>6, VoteTypes
<1>7. CASE FinalizeConsensus
  <2>1. RoundTypeOK'
    BY <1>1, <1>7, ConsensusType DEF FinalizeConsensus, RoundTypeOK
  <2>2. LobbyTypeOK'
    BY <1>1, <1>7 DEF FinalizeConsensus, LobbyTypeOK, lobbyVars, Phases
  <2>3. QED
    BY <1>1, <1>7, <2>1, <2>2, PartsUnchanged DEF FinalizeConsensus, TypeOK
<1>8. CASE PenalizeMissedCollateral
  <2>1. RoundTypeOK'
    BY <1>1, <1>8 DEF PenalizeMissedCollateral, ClearBet, RoundTypeOK, NoVotes, NoWinner
  <2>2. LobbyTypeOK' /\ TallyTypeOK'
    BY <1>1, <1>8, SlashedType
    DEF PenalizeMissedCollateral, LobbyTypeOK, TallyTypeOK, lobbyVars, Phases
  <2>3. QED
    BY <1>1, <1>8, <2>1, <2>2, PartsUnchanged DEF PenalizeMissedCollateral, TypeOK
<1>9. ASSUME NEW x \in Overpay, DepositCollateralSkip(x) PROVE TypeOK'
  BY <1>9, SkipTypes
<1>10. ASSUME NEW o \in Odds, NEW x \in Overpay, DepositCollateralBet(o, x) PROVE TypeOK'
  BY <1>10, CoverTypes
<1>11. CASE SettleUsersWon
  BY <1>11, UsersWonTypes
<1>12. CASE SettleOperatorWon
  BY <1>12, OperatorWonTypes
<1>13. CASE SettleDefault
  BY <1>13, DefaultTypes
<1>14. ASSUME NEW u \in Users, Claim(u) \/ ClaimEffect(u) PROVE TypeOK'
  BY <1>1, <1>14, ClaimHasEffect, ClaimTypes
<1>15. CASE ClaimOperatorYield
  BY <1>15, OperatorYieldTypes
<1>16. CASE ClockTick
  <2>1. LobbyTypeOK'
    BY <1>1, <1>16 DEF ClockTick, TimePasses, LobbyTypeOK, batchVars, lobbyVars
  <2>2. QED
    BY <1>1, <1>16, <2>1, PartsUnchanged DEF ClockTick, TimePasses, TypeOK, batchVars
<1>17. CASE OthersUseVault
  BY <1>1, <1>17, VaultStepTypes, PartsUnchanged DEF OthersUseVault, TypeOK, batchVars
<1>18. CASE TokensElsewhere
  <2>1. VaultTypeOK'
    BY <1>1, <1>18 DEF TokensElsewhere, VaultTypeOK, vaultVars
  <2>2. QED
    BY <1>1, <1>18, <2>1, PartsUnchanged DEF TokensElsewhere, TypeOK, batchVars
<1>19. QED
  BY <1>2, <1>3, <1>4, <1>5, <1>6, <1>7, <1>8, <1>9, <1>10, <1>11, <1>12, <1>13, <1>14,
     <1>15, <1>16, <1>17, <1>18 DEF Next, OpenNext

LEMMA OpenTypeCorrect == OpenSpec => []TypeOK
<1>1. Init => TypeOK
  BY TypeInit
<1>2. TypeOK /\ [OpenNext]_vars => TypeOK'
  <2>1. TypeOK /\ UNCHANGED vars => TypeOK'
    BY PartsUnchanged DEF vars, batchVars, TypeOK
  <2>2. QED
    BY <2>1, TypeStep
<1>3. QED
  BY <1>1, <1>2, PTL DEF OpenSpec

\* Type correctness of the batch program: whatever users, the operator, other
\* depositors and the clock do, no counter, balance or position goes below
\* zero and every Option field holds a value the handlers can unwrap.
THEOREM TypeCorrect == Spec => []TypeOK
  BY OpenTypeCorrect, SpecIsOpen

-----------------------------------------------------------------------------
(***************************************************************************)
(* The ledger of the rounds and the escrow.                                *)
(***************************************************************************)
\* Every action but the three that complete a bet leaves the ledger alone;
\* those start from a phase that is not Settled, so there is a bet left.
LEMMA CompleteBetLedger ==
    ASSUME TypeOK, RoundLedger, CompleteBet, status # "Settled",
           winsCount' + lossesCount' + skipsCount' = winsCount + lossesCount + skipsCount + 1
    PROVE  RoundLedger'
<1>1. betsCompleted \in Nat /\ betsCompleted < MaxBets /\ MaxBets \in Nat
  BY ParameterFacts DEF TypeOK, TallyTypeOK, RoundLedger
<1>2. /\ betsCompleted' = betsCompleted + 1
      /\ status' = IF betsCompleted + 1 >= MaxBets THEN "Settled" ELSE "Locked"
  BY DEF CompleteBet
<1>3. QED
  BY <1>1, <1>2 DEF RoundLedger

LEMMA LedgerStep ==
    ASSUME TypeOK, RoundLedger, OpenNext
    PROVE  RoundLedger'
<1>1. winsCount \in Nat /\ lossesCount \in Nat /\ skipsCount \in Nat
  BY DEF TypeOK, TallyTypeOK
<1>2. ASSUME UNCHANGED tallyVars, status' = "Settled" <=> status = "Settled"
      PROVE  RoundLedger'
  BY <1>2 DEF RoundLedger, tallyVars
<1>3. CASE InitializeBatch
  BY <1>2, <1>3 DEF InitializeBatch
<1>4. ASSUME NEW u \in Users, NEW a \in Stakes, JoinBatch(u, a) \/ LeaveBatch(u, a)
      PROVE  RoundLedger'
  BY <1>2, <1>4 DEF JoinBatch, LeaveBatch
<1>5. CASE StartBatch
  BY <1>2, <1>5 DEF StartBatch
<1>6. ASSUME NEW filled \in Slates, NEW k \in Kickoffs, ProposeMatch(filled, k)
      PROVE  RoundLedger'
  BY <1>2, <1>6 DEF ProposeMatch
<1>7. ASSUME NEW u \in Users, NEW i \in Options, CastVote(u, i) PROVE RoundLedger'
  BY <1>2, <1>7 DEF CastVote
<1>8. CASE FinalizeConsensus
  BY <1>2, <1>8 DEF FinalizeConsensus, tallyVars
<1>9. CASE PenalizeMissedCollateral
  BY <1>9 DEF PenalizeMissedCollateral, RoundLedger
<1>10. ASSUME NEW x \in Overpay, DepositCollateralSkip(x) PROVE RoundLedger'
  BY <1>1, <1>10, CompleteBetLedger DEF DepositCollateralSkip
<1>11. ASSUME NEW o \in Odds, NEW x \in Overpay, DepositCollateralBet(o, x)
       PROVE  RoundLedger'
  BY <1>2, <1>11 DEF DepositCollateralBet
<1>12. CASE SettleUsersWon
  BY <1>1, <1>12, CompleteBetLedger DEF SettleUsersWon, ProofAccepted
<1>13. CASE SettleOperatorWon
  BY <1>1, <1>13, CompleteBetLedger DEF SettleOperatorWon, ProofAccepted
<1>14. CASE SettleDefault
  BY <1>1, <1>14, CompleteBetLedger DEF SettleDefault, CanDefault
<1>15. ASSUME NEW u \in Users, Claim(u) \/ ClaimEffect(u) PROVE RoundLedger'
  BY <1>2, <1>15 DEF Claim, ClaimEffect
<1>16. CASE ClaimOperatorYield
  BY <1>2, <1>16 DEF ClaimOperatorYield, batchVars
<1>17. CASE ClockTick
  BY <1>2, <1>17 DEF ClockTick, TimePasses, batchVars
<1>18. CASE OthersUseVault
  BY <1>2, <1>18 DEF OthersUseVault, batchVars
<1>19. CASE TokensElsewhere
  BY <1>2, <1>19 DEF TokensElsewhere, batchVars
<1>20. QED
  BY <1>3, <1>4, <1>5, <1>6, <1>7, <1>8, <1>9, <1>10, <1>11, <1>12, <1>13, <1>14, <1>15,
     <1>16, <1>17, <1>18, <1>19 DEF Next, OpenNext

LEMMA OpenRounds == OpenSpec => []RoundLedger
<1>1. Init => RoundLedger
  BY ParameterFacts DEF Init, RoundLedger
<1>2. TypeOK /\ RoundLedger /\ [OpenNext]_vars => RoundLedger'
  <2>1. RoundLedger /\ UNCHANGED vars => RoundLedger'
    BY DEF vars, batchVars, tallyVars, RoundLedger
  <2>2. QED
    BY <2>1, LedgerStep
<1>3. QED
  BY <1>1, <1>2, OpenTypeCorrect, PTL DEF OpenSpec

\* Every completed bet is counted exactly once, there are never more than
\* MAX_BETS of them, and Settled is entered with the last one.
THEOREM RoundsAreCounted == Spec => []RoundLedger
  BY OpenRounds, SpecIsOpen

-----------------------------------------------------------------------------
\* A transfer between other accounts does not touch an account.
LEMMA MovedElsewhere ==
    ASSUME NEW bal \in [TokenAccounts -> Nat], NEW c \in TokenAccounts,
           NEW from, NEW to, NEW amount, from # c, to # c
    PROVE  Moved(bal, from, to, amount)[c] = bal[c]
  BY DEF Moved

LEMMA EscrowLeaves ==
    ASSUME VaultTypeOK, NEW to \in TokenAccounts, to # CollateralAcct
    PROVE  Moved(tok, CollateralAcct, to, tok[CollateralAcct])[CollateralAcct] = 0
  BY AccountFacts DEF Moved, VaultTypeOK

LEMMA SweptElsewhere ==
    ASSUME VaultTypeOK, NEW s, NEW to, to # CollateralAcct
    PROVE  Swept(s, to)[CollateralAcct] = tok[CollateralAcct]
  BY AccountFacts DEF Swept, Moved, VaultTypeOK

\* Wallets and the admin only move their own money, the reserve's and the
\* vault's.
LEMMA OthersSpareAccount ==
    ASSUME VaultTypeOK, VaultNext, NEW c \in TokenAccounts,
           c \notin {VaultAcct, ReserveAcct, AdminAcct} \cup Wallets
    PROVE  tok'[c] = tok[c]
<1>1. tok \in [TokenAccounts -> Nat]
  BY DEF VaultTypeOK
<1>2. ASSUME NEW w \in Wallets, NEW a \in Amounts, Deposit(w, a) PROVE tok'[c] = tok[c]
  BY <1>1, <1>2, MovedElsewhere DEF Deposit
<1>3. ASSUME NEW w \in Wallets, NEW s \in 1..totalShares, Withdraw(w, s)
      PROVE  tok'[c] = tok[c]
  BY <1>1, <1>3, MovedElsewhere DEF Withdraw
<1>4. CASE TickYield
  BY <1>1, <1>4, MovedElsewhere DEF TickYield
<1>5. ASSUME NEW a \in Amounts, FundReserve(a) PROVE tok'[c] = tok[c]
  BY <1>1, <1>5, MovedElsewhere DEF FundReserve
<1>6. QED
  BY <1>2, <1>3, <1>4, <1>5 DEF VaultNext

LEMMA VaultStepElsewhere ==
    ASSUME VaultTypeOK, VaultNext
    PROVE  tok'[CollateralAcct] = tok[CollateralAcct]
<1>1. /\ CollateralAcct \in TokenAccounts
      /\ CollateralAcct \notin {VaultAcct, ReserveAcct, AdminAcct} \cup Wallets
  BY CoreConstants
<1>2. QED
  BY <1>1, OthersSpareAccount

LEMMA CompleteBetEscrow ==
    ASSUME CompleteBet, tok'[CollateralAcct] = 0
    PROVE  EscrowMatchesBet'
  BY DEF CompleteBet, ClearBet, EscrowMatchesBet

\* What every action but the settlements and the deposit of collateral does.
LEMMA EscrowUntouched ==
    ASSUME EscrowMatchesBet, tok'[CollateralAcct] = tok[CollateralAcct],
           UNCHANGED <<collateralDeposited, winningVote>>,
           \/ status' = status
           \/ {status, status'} \cap {"AwaitingCollateral", "Active"} = {}
    PROVE  EscrowMatchesBet'
  BY DEF EscrowMatchesBet

LEMMA EscrowStep ==
    ASSUME TypeOK, EscrowMatchesBet, OpenNext
    PROVE  EscrowMatchesBet'
<1>1. VaultTypeOK /\ tok \in [TokenAccounts -> Nat] /\ CollateralAcct \in TokenAccounts
  BY AccountFacts DEF TypeOK, VaultTypeOK
<1>2. CASE InitializeBatch
  BY <1>2, EscrowUntouched DEF InitializeBatch, roundVars, vaultSystemVars
<1>3. ASSUME NEW u \in Users, NEW a \in Stakes, JoinBatch(u, a) PROVE EscrowMatchesBet'
  BY <1>1, <1>3, AccountFacts, MovedElsewhere, EscrowUntouched DEF JoinBatch, roundVars
<1>4. ASSUME NEW u \in Users, NEW a \in Stakes, LeaveBatch(u, a) PROVE EscrowMatchesBet'
  BY <1>1, <1>4, AccountFacts, SweptElsewhere, EscrowUntouched DEF LeaveBatch, roundVars
<1>5. CASE StartBatch
  BY <1>5, EscrowUntouched DEF StartBatch, roundVars, vaultSystemVars
<1>6. ASSUME NEW filled \in Slates, NEW k \in Kickoffs, ProposeMatch(filled, k)
      PROVE  EscrowMatchesBet'
  BY <1>6 DEF ProposeMatch, EscrowMatchesBet, vaultSystemVars
<1>7. ASSUME NEW u \in Users, NEW i \in Options, CastVote(u, i) PROVE EscrowMatchesBet'
  BY <1>7, EscrowUntouched DEF CastVote, vaultSystemVars
<1>8. CASE FinalizeConsensus
  <2>1. winningVote' # NoWinner
    BY <1>8, ConsensusType DEF FinalizeConsensus, TypeOK, RoundTypeOK, Options, NoWinner
  <2>2. QED
    BY <1>8, <2>1 DEF FinalizeConsensus, EscrowMatchesBet, vaultSystemVars
<1>9. CASE PenalizeMissedCollateral
  BY <1>9 DEF PenalizeMissedCollateral, ClearBet, EscrowMatchesBet, vaultSystemVars
<1>10. ASSUME NEW x \in Overpay, DepositCollateralSkip(x) PROVE EscrowMatchesBet'
  <2>1. tok'[CollateralAcct] = tok[CollateralAcct]
    BY <1>1, <1>10, AccountFacts, MovedElsewhere DEF DepositCollateralSkip
  <2>2. tok[CollateralAcct] = 0
    BY <1>10 DEF DepositCollateralSkip, EscrowMatchesBet
  <2>3. QED
    BY <1>10, <2>1, <2>2, CompleteBetEscrow DEF DepositCollateralSkip
<1>11. ASSUME NEW o \in Odds, NEW x \in Overpay, DepositCollateralBet(o, x)
       PROVE  EscrowMatchesBet'
  <2> DEFINE amount == CollateralRequired(o) + x
  <2>1. amount \in Nat
    BY CollateralType, ParameterFacts DEF TypeOK
  <2>2. /\ tok' = Moved(tok, OperatorAcct, CollateralAcct, amount)
        /\ collateralDeposited' = amount /\ collateralDeposited = 0
        /\ status = "AwaitingCollateral" /\ status' = "Active"
        /\ winningVote' = winningVote
    BY <1>11 DEF DepositCollateralBet
  <2> HIDE DEF amount
  <2>3. tok'[CollateralAcct] = tok[CollateralAcct] + amount
    BY <1>1, <2>1, <2>2, AccountFacts DEF Moved
  <2>4. QED
    BY <2>1, <2>2, <2>3 DEF EscrowMatchesBet
<1>12. CASE SettleUsersWon
  BY <1>1, <1>12, AccountFacts, EscrowLeaves, CompleteBetEscrow DEF SettleUsersWon
<1>13. CASE SettleOperatorWon
  BY <1>1, <1>13, AccountFacts, EscrowLeaves, CompleteBetEscrow DEF SettleOperatorWon
<1>14. CASE SettleDefault
  BY <1>1, <1>14, AccountFacts, EscrowLeaves, CompleteBetEscrow DEF SettleDefault
<1>15. ASSUME NEW u \in Users, Claim(u) \/ ClaimEffect(u) PROVE EscrowMatchesBet'
  <2>1. ClaimEffect(u)
    BY <1>1, <1>15, ClaimHasEffect DEF TypeOK
  <2>2. QED
    BY <2>1, EscrowUntouched DEF ClaimEffect, roundVars
<1>16. CASE ClaimOperatorYield
  BY <1>1, <1>16, AccountFacts, SweptElsewhere, EscrowUntouched
  DEF ClaimOperatorYield, batchVars, roundVars
<1>17. CASE ClockTick
  BY <1>17, EscrowUntouched DEF ClockTick, TimePasses, batchVars, roundVars, vaultSystemVars
<1>18. CASE OthersUseVault
  BY <1>1, <1>18, VaultStepElsewhere, EscrowUntouched DEF OthersUseVault, batchVars, roundVars
<1>19. CASE TokensElsewhere
  BY <1>19, EscrowUntouched DEF TokensElsewhere, batchVars, roundVars
<1>20. QED
  BY <1>2, <1>3, <1>4, <1>5, <1>6, <1>7, <1>8, <1>9, <1>10, <1>11, <1>12, <1>13, <1>14,
     <1>15, <1>16, <1>17, <1>18, <1>19 DEF Next, OpenNext

LEMMA OpenEscrow == OpenSpec => []EscrowMatchesBet
<1>1. Init => EscrowMatchesBet
  BY EmptyAtFirst DEF Init, VaultInit, EscrowMatchesBet
<1>2. TypeOK /\ EscrowMatchesBet /\ [OpenNext]_vars => EscrowMatchesBet'
  <2>1. EscrowMatchesBet /\ UNCHANGED vars => EscrowMatchesBet'
    BY EscrowUntouched DEF vars, batchVars, roundVars, vaultSystemVars
  <2>2. QED
    BY <2>1, EscrowStep
<1>3. QED
  BY <1>1, <1>2, OpenTypeCorrect, PTL DEF OpenSpec

\* The escrow account holds the collateral of the bet being played and of no
\* other: nothing is stranded in it, and no settlement pays out another's.
THEOREM EscrowIsTheBets == Spec => []EscrowMatchesBet
  BY OpenEscrow, SpecIsOpen

-----------------------------------------------------------------------------
(***************************************************************************)
(* The ballot.  BallotDecides speaks of the weights; what is inductive is  *)
(* that the recorded winner is the scan of the weights (which nothing but  *)
(* a vote or a reset changes), and that only filled slots have weight.     *)
(***************************************************************************)
Below(k) == {j \in Options : j < k}

\* What the loop knows after the slots below k: max is the largest weight, it
\* is the weight of win, and tie tells whether another slot has it too.
ScanKnows(weights, acc, k) ==
    /\ acc.max \in Nat
    /\ \A j \in Below(k) : weights[j] <= acc.max
    /\ acc.max = 0 => acc.win = Skip /\ ~acc.tie
    /\ acc.max > 0 =>
         /\ acc.win \in Below(k) /\ weights[acc.win] = acc.max
         /\ acc.tie <=> \E j \in Below(k) \ {acc.win} : weights[j] = acc.max

LEMMA ScanStep ==
    ASSUME NEW weights \in [Options -> Nat], NEW k \in Options, NEW acc,
           ScanKnows(weights, acc, k), acc.tie \in BOOLEAN,
           acc = [max |-> acc.max, win |-> acc.win, tie |-> acc.tie]
    PROVE  /\ ScanKnows(weights, Scan(weights, acc, k), k + 1)
           /\ Scan(weights, acc, k).tie \in BOOLEAN
           /\ Scan(weights, acc, k) = [max |-> Scan(weights, acc, k).max, win |-> Scan(weights, acc, k).win,
                              tie |-> Scan(weights, acc, k).tie]
<1> DEFINE w == weights[k]
<1>1. w \in Nat /\ Below(k + 1) = Below(k) \cup {k} /\ k \notin Below(k)
  BY DEF Below, Options
<1>2. CASE w > acc.max
  <2>1. Scan(weights, acc, k) = [max |-> w, win |-> k, tie |-> FALSE]
    BY <1>2 DEF Scan
  <2>2. \A j \in Below(k) : weights[j] < w /\ weights[j] \in Nat
    BY <1>1, <1>2 DEF ScanKnows, Below
  <2>3. QED
    BY <1>1, <1>2, <2>1, <2>2 DEF ScanKnows
<1>3. CASE ~(w > acc.max) /\ w = acc.max /\ w > 0
  <2>1. Scan(weights, acc, k) = [max |-> acc.max, win |-> acc.win, tie |-> TRUE]
    BY <1>3 DEF Scan
  <2>2. QED
    BY <1>1, <1>3, <2>1 DEF ScanKnows
<1>4. CASE ~(w > acc.max) /\ ~(w = acc.max /\ w > 0)
  <2>1. Scan(weights, acc, k) = acc
    BY <1>4 DEF Scan
  <2>2. QED
    BY <1>1, <1>4, <2>1 DEF ScanKnows
<1>5. QED
  BY <1>2, <1>3, <1>4

\* The consensus is the option with strictly more weight than every other,
\* or Skip when there is none, and only Skip can win without any weight.
LEMMA ConsensusLeads ==
    ASSUME NEW weights \in [Options -> Nat]
    PROVE  /\ \A i \in Options :
                (\A j \in Options \ {i} : weights[i] > weights[j]) => Consensus(weights) = i
           /\ (\A i \in Options : \E j \in Options \ {i} : ~(weights[i] > weights[j]))
                => Consensus(weights) = Skip
           /\ Consensus(weights) \in Options
           /\ Consensus(weights) # Skip => weights[Consensus(weights)] > 0
<1> DEFINE a0 == [max |-> 0, win |-> Skip, tie |-> FALSE]
           a1 == Scan(weights, a0, 0)
           a2 == Scan(weights, a1, 1)
           a3 == Scan(weights, a2, 2)
           a4 == Scan(weights, a3, 3)
           a5 == Scan(weights, a4, 4)
           Fine(a, k) == /\ ScanKnows(weights, a, k) /\ a.tie \in BOOLEAN
                         /\ a = [max |-> a.max, win |-> a.win, tie |-> a.tie]
<1>1. Consensus(weights) = IF a5.max = 0 \/ a5.tie THEN Skip ELSE a5.win
  BY DEF Consensus
<1>2. Fine(a0, 0)
  BY DEF ScanKnows, Below, Options
<1>3. ASSUME NEW a, NEW k \in Options, Fine(a, k) PROVE Fine(Scan(weights, a, k), k + 1)
  BY <1>3, ScanStep
<1> HIDE DEF Fine
<1>4. Fine(a1, 1)
  BY <1>2, <1>3 DEF Options
<1> HIDE DEF a1
<1>5. Fine(a2, 2)
  BY <1>3, <1>4 DEF Options
<1> HIDE DEF a2
<1>6. Fine(a3, 3)
  BY <1>3, <1>5 DEF Options
<1> HIDE DEF a3
<1>7. Fine(a4, 4)
  BY <1>3, <1>6 DEF Options
<1> HIDE DEF a4
<1>8. Fine(a5, 5)
  BY <1>3, <1>7 DEF Options
<1> HIDE DEF a5
<1>9. Below(5) = Options /\ Skip \in Options
  BY DEF Below, Options, Skip
<1>10. /\ a5.max \in Nat
       /\ \A j \in Options : weights[j] <= a5.max /\ weights[j] \in Nat
       /\ a5.max > 0 =>
            /\ a5.win \in Options /\ weights[a5.win] = a5.max
            /\ a5.tie <=> \E j \in Options \ {a5.win} : weights[j] = a5.max
  BY <1>8, <1>9 DEF Fine, ScanKnows
<1>11. Consensus(weights) \in Options /\ (Consensus(weights) # Skip => weights[Consensus(weights)] > 0)
  BY <1>1, <1>9, <1>10
<1>12. ASSUME NEW i \in Options, \A j \in Options \ {i} : weights[i] > weights[j]
       PROVE  Consensus(weights) = i
  <2>1. \E j \in Options \ {i} : weights[i] > weights[j]
    BY <1>12 DEF Options
  <2>2. a5.max > 0
    BY <1>10, <2>1
  <2>3. a5.win = i /\ ~a5.tie
    BY <1>10, <1>12, <2>2
  <2>4. QED
    BY <1>1, <1>10, <2>2, <2>3
<1>13. ASSUME \A i \in Options : \E j \in Options \ {i} : ~(weights[i] > weights[j])
       PROVE  Consensus(weights) = Skip
  <2>1. CASE a5.max = 0
    BY <1>1, <2>1
  <2>2. CASE a5.max > 0
    <3>1. PICK j \in Options \ {a5.win} : ~(weights[a5.win] > weights[j])
      BY <1>10, <1>13, <2>2
    <3>2. weights[j] = a5.max
      BY <1>10, <2>2, <3>1
    <3>3. a5.tie
      BY <1>10, <2>2, <3>2
    <3>4. QED
      BY <1>1, <3>3
  <2>3. QED
    BY <1>10, <2>1, <2>2
<1>14. QED
  BY <1>11, <1>12, <1>13

\* The inductive invariant of the ballot.
BallotInv ==
    /\ \A i \in 0..3 : voteWeights[i] > 0 => i \in slate
    /\ status \in {"AwaitingCollateral", "Active"} => winningVote = Consensus(voteWeights)
    /\ status = "Active" => winningVote \in slate

LEMMA BallotInvSuffices ==
    ASSUME TypeOK, BallotInv
    PROVE  BallotDecides
<1>1. voteWeights \in [Options -> Nat]
  BY DEF TypeOK, RoundTypeOK
<1>2. CASE status \in {"AwaitingCollateral", "Active"}
  <2>1. winningVote = Consensus(voteWeights)
    BY <1>2 DEF BallotInv
  <2>2. winningVote \in slate \cup {Skip}
    BY <1>1, <2>1, ConsensusLeads DEF BallotInv, Options, Skip
  <2>3. QED
    BY <1>1, <2>1, <2>2, ConsensusLeads DEF BallotDecides, BallotInv
<1>3. QED
  BY <1>2 DEF BallotDecides

\* A step that changes neither weights, winner nor slate, and enters neither
\* of the two phases.
LEMMA BallotUntouched ==
    ASSUME BallotInv, UNCHANGED <<slate, voteWeights, winningVote>>,
           \/ status' = status
           \/ status' \notin {"AwaitingCollateral", "Active"}
    PROVE  BallotInv'
<1>1. Consensus(voteWeights)' = Consensus(voteWeights)
  OBVIOUS
<1>2. QED
  BY <1>1 DEF BallotInv

LEMMA BallotCleared ==
    ASSUME ClearBet, status' \notin {"AwaitingCollateral", "Active"}
    PROVE  BallotInv'
  BY DEF ClearBet, BallotInv, NoVotes, Options

LEMMA BallotVote ==
    ASSUME TypeOK, BallotInv, NEW u \in Users, NEW i \in Options, CastVote(u, i)
    PROVE  BallotInv'
<1>1. /\ voteWeights \in [Options -> Nat] /\ StakeTypeOK
      /\ pos[u].deposited \in Nat /\ pos[u].voteIndex \in Options
  BY PositionType DEF TypeOK, RoundTypeOK
<1>2. /\ status = "Locked" /\ status' = status /\ slate' = slate
      /\ i = Skip \/ i \in slate
      /\ voteWeights' = [Unvoted(u) EXCEPT ![i] = @ + pos[u].deposited]
  BY DEF CastVote
<1>3. /\ Unvoted(u) \in [Options -> Nat]
      /\ \A j \in Options : Unvoted(u)[j] <= voteWeights[j]
  BY <1>1 DEF Unvoted, Monus
<1>4. ASSUME NEW j \in 0..3, voteWeights'[j] > 0 PROVE j \in slate'
  <2>1. j \in Options /\ j # Skip
    BY DEF Options, Skip
  <2>2. CASE j = i
    BY <1>2, <2>1, <2>2
  <2>3. CASE j # i
    <3>1. voteWeights[j] > 0
      BY <1>1, <1>2, <1>3, <1>4, <2>1, <2>3
    <3>2. QED
      BY <1>2, <3>1 DEF BallotInv
  <2>4. QED
    BY <2>2, <2>3
<1>5. QED
  BY <1>2, <1>4 DEF BallotInv

LEMMA BallotStep ==
    ASSUME TypeOK, BallotInv, OpenNext
    PROVE  BallotInv'
<1>1. CASE InitializeBatch
  BY <1>1, BallotUntouched DEF InitializeBatch, roundVars
<1>2. ASSUME NEW u \in Users, NEW a \in Stakes, JoinBatch(u, a) \/ LeaveBatch(u, a)
      PROVE  BallotInv'
  BY <1>2, BallotUntouched DEF JoinBatch, LeaveBatch, roundVars
<1>3. CASE StartBatch
  BY <1>3, BallotUntouched DEF StartBatch, roundVars
<1>4. ASSUME NEW filled \in Slates, NEW k \in Kickoffs, ProposeMatch(filled, k)
      PROVE  BallotInv'
  BY <1>4 DEF ProposeMatch, BallotInv, NoVotes, Options
<1>5. ASSUME NEW u \in Users, NEW i \in Options, CastVote(u, i) PROVE BallotInv'
  BY <1>5, BallotVote
<1>6. CASE FinalizeConsensus
  <2>1. /\ winningVote' = Consensus(voteWeights) /\ UNCHANGED <<slate, voteWeights>>
        /\ status' = "AwaitingCollateral"
    BY <1>6 DEF FinalizeConsensus
  <2>2. Consensus(voteWeights)' = Consensus(voteWeights)
    BY <2>1
  <2>3. QED
    BY <2>1, <2>2 DEF BallotInv
<1>7. CASE PenalizeMissedCollateral
  BY <1>7, BallotCleared DEF PenalizeMissedCollateral
<1>8. ASSUME CompleteBet PROVE BallotInv'
  BY <1>8, BallotCleared DEF CompleteBet
<1>9. ASSUME NEW x \in Overpay, DepositCollateralSkip(x) PROVE BallotInv'
  BY <1>8, <1>9 DEF DepositCollateralSkip
<1>10. ASSUME NEW o \in Odds, NEW x \in Overpay, DepositCollateralBet(o, x) PROVE BallotInv'
  <2>1. /\ UNCHANGED <<slate, voteWeights, winningVote>> /\ status' = "Active"
        /\ status = "AwaitingCollateral" /\ winningVote \in slate
    BY <1>10 DEF DepositCollateralBet
  <2>2. Consensus(voteWeights)' = Consensus(voteWeights)
    BY <2>1
  <2>3. QED
    BY <2>1, <2>2 DEF BallotInv
<1>11. CASE SettleUsersWon
  BY <1>8, <1>11 DEF SettleUsersWon
<1>12. CASE SettleOperatorWon
  BY <1>8, <1>12 DEF SettleOperatorWon
<1>13. CASE SettleDefault
  BY <1>8, <1>13 DEF SettleDefault
<1>14. ASSUME NEW u \in Users, Claim(u) \/ ClaimEffect(u) PROVE BallotInv'
  BY <1>14, BallotUntouched DEF Claim, ClaimEffect, roundVars
<1>15. CASE ClaimOperatorYield
  BY <1>15, BallotUntouched DEF ClaimOperatorYield, batchVars, roundVars
<1>16. CASE ClockTick
  BY <1>16, BallotUntouched DEF ClockTick, TimePasses, batchVars, roundVars
<1>17. CASE OthersUseVault
  BY <1>17, BallotUntouched DEF OthersUseVault, batchVars, roundVars
<1>18. CASE TokensElsewhere
  BY <1>18, BallotUntouched DEF TokensElsewhere, batchVars, roundVars
<1>19. QED
  BY <1>1, <1>2, <1>3, <1>4, <1>5, <1>6, <1>7, <1>9, <1>10, <1>11, <1>12, <1>13, <1>14,
     <1>15, <1>16, <1>17, <1>18 DEF Next, OpenNext

LEMMA OpenBallot == OpenSpec => []BallotDecides
<1>1. Init => BallotInv
  BY DEF Init, BallotInv, NoVotes, Options
<1>2. TypeOK /\ BallotInv /\ [OpenNext]_vars => BallotInv'
  <2>1. BallotInv /\ UNCHANGED vars => BallotInv'
    BY BallotUntouched DEF vars, batchVars, roundVars
  <2>2. QED
    BY <2>1, BallotStep
<1>3. TypeOK /\ BallotInv => BallotDecides
  BY BallotInvSuffices
<1>4. QED
  BY <1>1, <1>2, <1>3, OpenTypeCorrect, PTL DEF OpenSpec

\* The bet that is covered and settled is the one the vote weights decide,
\* and it was on the slate.
THEOREM BallotIsDecisive == Spec => []BallotDecides
  BY OpenBallot, SpecIsOpen

-----------------------------------------------------------------------------
(***************************************************************************)
(* The vault while batches and wallets use it: the guarantees that         *)
(* YieldVaultProofs gives for wallets alone hold with the batch's own      *)
(* deposits, withdrawals and sweeps too.                                   *)
(***************************************************************************)
VaultSafe == PriceAtLeastOne /\ UnderlyingIsHeld

LEMMA SameVault ==
    ASSUME VaultTypeOK, VaultSafe, UNCHANGED vaultVars, tok'[VaultAcct] = tok[VaultAcct]
    PROVE  VaultSafe' /\ PriceStep
  BY DEF VaultSafe, vaultVars, PriceAtLeastOne, UnderlyingIsHeld, PriceStep, VaultTypeOK

LEMMA SafeDeposit ==
    ASSUME VaultTypeOK, VaultSafe, NEW amount \in Nat, VaultDeposit(Batch, amount),
           tok'[VaultAcct] = tok[VaultAcct] + amount
    PROVE  VaultSafe' /\ PriceStep
<1>1. PriceAtLeastOne' /\ PriceStep
  BY AccountFacts, DepositKeepsPrice DEF VaultSafe, PriceStep
<1>2. UnderlyingIsHeld'
  BY DEF VaultSafe, UnderlyingIsHeld, VaultDeposit
<1>3. QED
  BY <1>1, <1>2 DEF VaultSafe

LEMMA SafeWithdraw ==
    ASSUME VaultTypeOK, VaultSafe, NEW s \in Nat, VaultWithdraw(Batch, s),
           tok'[VaultAcct] = tok[VaultAcct] - Worth(s)
    PROVE  VaultSafe' /\ PriceStep
<1>1. PriceAtLeastOne' /\ PriceStep
  BY AccountFacts, WithdrawKeepsPrice DEF VaultSafe, PriceStep
<1>2. UnderlyingIsHeld'
  BY DEF VaultSafe, UnderlyingIsHeld, VaultWithdraw
<1>3. QED
  BY <1>1, <1>2 DEF VaultSafe

LEMMA SweptFromVault ==
    ASSUME VaultTypeOK, NEW s, Worth(s) \in Nat, NEW to \in TokenAccounts, to # VaultAcct
    PROVE  Swept(s, to)[VaultAcct] = tok[VaultAcct] - Worth(s)
  BY AccountFacts DEF Swept, Moved, VaultTypeOK

LEMMA CoreVaultStep ==
    ASSUME TypeOK, VaultSafe, OpenNext
    PROVE  VaultSafe' /\ PriceStep
<1>1. VaultTypeOK /\ StakeTypeOK /\ tok \in [TokenAccounts -> Nat]
  BY DEF TypeOK, VaultTypeOK
<1>2. ASSUME UNCHANGED vaultSystemVars PROVE VaultSafe' /\ PriceStep
  BY <1>1, <1>2, SameVault DEF vaultSystemVars, vaultVars
<1>3. CASE InitializeBatch
  BY <1>2, <1>3 DEF InitializeBatch
<1>4. ASSUME NEW u \in Users, NEW a \in Stakes, JoinBatch(u, a)
      PROVE  VaultSafe' /\ PriceStep
  <2>1. a \in Nat
    BY ParameterFacts
  <2>2. VaultDeposit(Batch, a) /\ tok' = Moved(tok, u, VaultAcct, a)
    BY <1>4, Zenon DEF JoinBatch
  <2>3. tok'[VaultAcct] = tok[VaultAcct] + a
    BY <1>1, <2>1, <2>2, AccountFacts DEF Moved
  <2>4. QED
    BY <1>1, <2>1, <2>2, <2>3, SafeDeposit
<1>5. ASSUME NEW u \in Users, NEW a \in Stakes, LeaveBatch(u, a)
      PROVE  VaultSafe' /\ PriceStep
  <2> DEFINE s == SharesLeaving(u, a)
  <2>1. a \in Nat
    BY ParameterFacts
  <2>2. /\ a > 0 /\ a <= pos[u].deposited
        /\ VaultWithdraw(Batch, s) /\ tok' = Swept(s, u)
    BY <1>5, Zenon DEF LeaveBatch
  <2>3. s \in Nat
    BY <1>1, <2>1, <2>2, SharesLeavingType
  <2> HIDE DEF s
  <2>4. Worth(s) \in Nat
    BY <1>1, <2>2, <2>3, AccountFacts, WithdrawTypes
  <2>5. tok'[VaultAcct] = tok[VaultAcct] - Worth(s)
    BY <1>1, <2>2, <2>4, AccountFacts, SweptFromVault
  <2>6. QED
    BY <1>1, <2>2, <2>3, <2>5, SafeWithdraw
<1>6. CASE StartBatch
  BY <1>2, <1>6 DEF StartBatch
<1>7. ASSUME NEW filled \in Slates, NEW k \in Kickoffs, ProposeMatch(filled, k)
      PROVE  VaultSafe' /\ PriceStep
  BY <1>2, <1>7 DEF ProposeMatch
<1>8. ASSUME NEW u \in Users, NEW i \in Options, CastVote(u, i)
      PROVE  VaultSafe' /\ PriceStep
  BY <1>2, <1>8 DEF CastVote
<1>9. CASE FinalizeConsensus
  BY <1>2, <1>9 DEF FinalizeConsensus
<1>10. CASE PenalizeMissedCollateral
  BY <1>2, <1>10 DEF PenalizeMissedCollateral
<1>11. ASSUME NEW x \in Overpay, DepositCollateralSkip(x) PROVE VaultSafe' /\ PriceStep
  BY <1>1, <1>11, AccountFacts, MovedElsewhere, SameVault DEF DepositCollateralSkip
<1>12. ASSUME NEW o \in Odds, NEW x \in Overpay, DepositCollateralBet(o, x)
       PROVE  VaultSafe' /\ PriceStep
  BY <1>1, <1>12, AccountFacts, MovedElsewhere, SameVault DEF DepositCollateralBet
<1>13. CASE SettleUsersWon
  <2> DEFINE c == tok[CollateralAcct]
  <2>1. c \in Nat
    BY <1>1, AccountFacts
  <2>2. /\ tok' = Moved(tok, CollateralAcct, VaultAcct, c)
        /\ c > 0 => VaultDeposit(Batch, c)
        /\ ~(c > 0) => UNCHANGED vaultVars
    BY <1>13 DEF SettleUsersWon
  <2> HIDE DEF c
  <2>3. tok'[VaultAcct] = tok[VaultAcct] + c
    BY <1>1, <2>1, <2>2, AccountFacts DEF Moved
  <2>4. CASE c > 0
    BY <1>1, <2>1, <2>2, <2>3, <2>4, SafeDeposit
  <2>5. CASE c = 0
    <3>1. tok'[VaultAcct] = tok[VaultAcct]
      BY <1>1, <2>3, <2>5, AccountFacts
    <3>2. QED
      BY <1>1, <2>2, <2>5, <3>1, SameVault
  <2>6. QED
    BY <2>1, <2>4, <2>5
<1>14. CASE SettleOperatorWon
  BY <1>1, <1>14, AccountFacts, MovedElsewhere, SameVault DEF SettleOperatorWon
<1>15. CASE SettleDefault
  BY <1>1, <1>15, AccountFacts, MovedElsewhere, SameVault DEF SettleDefault
<1>16. ASSUME NEW u \in Users, Claim(u) \/ ClaimEffect(u) PROVE VaultSafe' /\ PriceStep
  <2> DEFINE s == ClaimShares(u)
  <2>1. /\ s \in Nat /\ Payout(u) \in Nat /\ Payout(u) = IF s > 0 THEN Worth(s) ELSE 0
    BY <1>1, <1>16, ClaimHasEffect, ClaimVaultTypes DEF Payout
  <2>2. /\ tok'[VaultAcct] = tok[VaultAcct] - Payout(u)
        /\ s > 0 => VaultWithdraw(Batch, s)
        /\ ~(s > 0) => UNCHANGED vaultVars
    BY <1>1, <1>16, ClaimHasEffect DEF ClaimEffect
  <2> HIDE DEF s
  <2>3. CASE s > 0
    BY <1>1, <2>1, <2>2, <2>3, SafeWithdraw
  <2>4. CASE s = 0
    <3>1. tok'[VaultAcct] = tok[VaultAcct]
      BY <1>1, <2>1, <2>2, <2>4, AccountFacts
    <3>2. QED
      BY <1>1, <2>2, <2>4, <3>1, SameVault
  <2>5. QED
    BY <2>1, <2>3, <2>4
<1>17. CASE ClaimOperatorYield
  <2> DEFINE s == OperatorShares
  <2>1. /\ VaultWithdraw(Batch, s) /\ tok' = Swept(s, OperatorAcct) /\ s \in Nat
    BY <1>17, OperatorSharesType DEF ClaimOperatorYield
  <2> HIDE DEF s
  <2>2. Worth(s) \in Nat
    BY <1>1, <2>1, AccountFacts, WithdrawTypes
  <2>3. tok'[VaultAcct] = tok[VaultAcct] - Worth(s)
    BY <1>1, <2>1, <2>2, AccountFacts, SweptFromVault
  <2>4. QED
    BY <1>1, <2>1, <2>3, SafeWithdraw
<1>18. CASE ClockTick
  BY <1>2, <1>18 DEF ClockTick, TimePasses
<1>19. CASE OthersUseVault
  BY <1>1, <1>19, VaultStepPrice, VaultStepHeld DEF OthersUseVault, VaultSafe
<1>20. CASE TokensElsewhere
  BY <1>1, <1>20, SameVault DEF TokensElsewhere
<1>21. QED
  BY <1>3, <1>4, <1>5, <1>6, <1>7, <1>8, <1>9, <1>10, <1>11, <1>12, <1>13, <1>14, <1>15,
     <1>16, <1>17, <1>18, <1>19, <1>20 DEF Next, OpenNext

LEMMA OpenVault == OpenSpec => [](PriceAtLeastOne /\ UnderlyingIsHeld)
<1>1. Init => VaultSafe
  BY VaultConstants DEF Init, VaultInit, VaultSafe, PriceAtLeastOne, UnderlyingIsHeld
<1>2. TypeOK /\ VaultSafe /\ [OpenNext]_vars => VaultSafe'
  <2>1. VaultSafe /\ UNCHANGED vars => VaultSafe'
    BY DEF vars, vaultSystemVars, VaultSafe, PriceAtLeastOne, UnderlyingIsHeld
  <2>2. QED
    BY <2>1, CoreVaultStep
<1>3. QED
  BY <1>1, <1>2, OpenTypeCorrect, PTL DEF OpenSpec, VaultSafe

\* Batches do not weaken the vault: its counters are still backed by tokens
\* and a share is still worth at least one base unit.
THEOREM VaultIsSafeWithBatches == Spec => [](PriceAtLeastOne /\ UnderlyingIsHeld)
  BY OpenVault, SpecIsOpen

LEMMA OpenPrice == OpenSpec => PriceNeverFalls
<1>1. TypeOK /\ VaultSafe /\ [OpenNext]_vars => [PriceStep]_vaultSystemVars
  <2>1. UNCHANGED vars => UNCHANGED vaultSystemVars
    BY DEF vars
  <2>2. QED
    BY <2>1, CoreVaultStep
<1>2. OpenSpec => []VaultSafe
  BY OpenVault DEF VaultSafe
<1>3. QED
  BY <1>1, <1>2, OpenTypeCorrect, PTL DEF OpenSpec, PriceNeverFalls, PriceStep

\* No instruction of the batch program lowers the price of a vault share
\* either: joins, exits, claims, compounded winnings and the operator's yield
\* leave everyone else's shares worth at least what they were.
THEOREM PriceIsMonotoneWithBatches == Spec => PriceNeverFalls
  BY OpenPrice, SpecIsOpen

-----------------------------------------------------------------------------
(***************************************************************************)
(* The refinement: each instruction is a step of BatchLifecycle or leaves  *)
(* everything it speaks of unchanged.                                      *)
(***************************************************************************)
LEMMA LifecycleStutter ==
    ASSUME UNCHANGED <<status, tallyVars>>, tok'[CollateralAcct] = tok[CollateralAcct]
    PROVE  UNCHANGED Lifecycle!lifecycleVars
  BY DEF Lifecycle!lifecycleVars, tallyVars

\* A completed bet, as the lifecycle sees it.
LEMMA LifecycleEnd ==
    ASSUME TypeOK, RoundLedger, CompleteBet, status # "Settled", tok'[CollateralAcct] = 0
    PROVE  Lifecycle!End
<1>1. betsCompleted \in Nat /\ betsCompleted < MaxBets /\ MaxBets \in Nat
      /\ winsCount + lossesCount + skipsCount = betsCompleted
  BY ParameterFacts DEF TypeOK, TallyTypeOK, RoundLedger
<1>2. QED
  BY <1>1 DEF CompleteBet, Lifecycle!End

LEMMA LifecycleStep ==
    ASSUME TypeOK, RoundLedger, EscrowMatchesBet, OpenNext
    PROVE  [Lifecycle!Next]_Lifecycle!lifecycleVars
<1> USE DEF Lifecycle!Next
<1>1. VaultTypeOK /\ tok \in [TokenAccounts -> Nat] /\ CollateralAcct \in TokenAccounts
  BY AccountFacts DEF TypeOK, VaultTypeOK
<1>2. CASE InitializeBatch
  BY <1>2 DEF InitializeBatch, tallyVars, vaultSystemVars, Lifecycle!Open, Lifecycle!Enter
<1>3. ASSUME NEW u \in Users, NEW a \in Stakes, JoinBatch(u, a)
      PROVE  UNCHANGED Lifecycle!lifecycleVars
  BY <1>1, <1>3, AccountFacts, MovedElsewhere, LifecycleStutter DEF JoinBatch
<1>4. ASSUME NEW u \in Users, NEW a \in Stakes, LeaveBatch(u, a)
      PROVE  UNCHANGED Lifecycle!lifecycleVars
  BY <1>1, <1>4, AccountFacts, SweptElsewhere, LifecycleStutter DEF LeaveBatch
<1>5. CASE StartBatch
  BY <1>5 DEF StartBatch, tallyVars, vaultSystemVars, Lifecycle!Lock, Lifecycle!Enter
<1>6. ASSUME NEW filled \in Slates, NEW k \in Kickoffs, ProposeMatch(filled, k)
      PROVE  UNCHANGED Lifecycle!lifecycleVars
  BY <1>6, LifecycleStutter DEF ProposeMatch, vaultSystemVars
<1>7. ASSUME NEW u \in Users, NEW i \in Options, CastVote(u, i)
      PROVE  UNCHANGED Lifecycle!lifecycleVars
  BY <1>7, LifecycleStutter DEF CastVote, vaultSystemVars
<1>8. CASE FinalizeConsensus
  BY <1>8 DEF FinalizeConsensus, tallyVars, vaultSystemVars, Lifecycle!Decide, Lifecycle!Enter
<1>9. CASE PenalizeMissedCollateral
  BY <1>9 DEF PenalizeMissedCollateral, Slashed, Monus, vaultSystemVars,
              Lifecycle!Miss, Lifecycle!Cut
<1>10. ASSUME NEW x \in Overpay, DepositCollateralSkip(x) PROVE Lifecycle!Next
  <2>1. tok'[CollateralAcct] = 0
    BY <1>1, <1>10, AccountFacts, MovedElsewhere DEF DepositCollateralSkip, EscrowMatchesBet
  <2>2. Lifecycle!End
    BY <1>10, <2>1, LifecycleEnd DEF DepositCollateralSkip
  <2>3. QED
    BY <1>10, <2>2 DEF DepositCollateralSkip, Lifecycle!Pass
<1>11. ASSUME NEW o \in Odds, NEW x \in Overpay, DepositCollateralBet(o, x)
       PROVE  Lifecycle!Next
  <2>1. CollateralRequired(o) + x \in Nat
    BY CollateralType, ParameterFacts DEF TypeOK
  <2>2. tok'[CollateralAcct] \in Nat
    BY <1>1, <1>11, <2>1, AccountFacts DEF DepositCollateralBet, Moved
  <2>3. QED
    BY <1>11, <2>2 DEF DepositCollateralBet, tallyVars, Lifecycle!Cover
<1>12. CASE SettleUsersWon
  <2>1. tok'[CollateralAcct] = 0
    BY <1>1, <1>12, AccountFacts, EscrowLeaves DEF SettleUsersWon
  <2>2. Lifecycle!End
    BY <1>12, <2>1, LifecycleEnd DEF SettleUsersWon, ProofAccepted
  <2>3. QED
    BY <1>12, <2>2 DEF SettleUsersWon, ProofAccepted, Lifecycle!Win
<1>13. CASE SettleOperatorWon
  <2>1. tok'[CollateralAcct] = 0
    BY <1>1, <1>13, AccountFacts, EscrowLeaves DEF SettleOperatorWon
  <2>2. Lifecycle!End
    BY <1>13, <2>1, LifecycleEnd DEF SettleOperatorWon, ProofAccepted
  <2>3. QED
    BY <1>13, <2>2 DEF SettleOperatorWon, ProofAccepted, Lifecycle!Lose
<1>14. CASE SettleDefault
  <2>1. tok'[CollateralAcct] = 0
    BY <1>1, <1>14, AccountFacts, EscrowLeaves DEF SettleDefault
  <2>2. Lifecycle!End
    BY <1>14, <2>1, LifecycleEnd DEF SettleDefault, CanDefault
  <2>3. operatorYieldBps' = Lifecycle!Cut
    BY <1>14 DEF SettleDefault, Slashed, Monus, Lifecycle!Cut
  <2>4. QED
    BY <1>14, <2>2, <2>3 DEF SettleDefault, CanDefault, Lifecycle!Default
<1>15. ASSUME NEW u \in Users, Claim(u) \/ ClaimEffect(u)
       PROVE  UNCHANGED Lifecycle!lifecycleVars
  <2>1. ClaimEffect(u)
    BY <1>1, <1>15, ClaimHasEffect DEF TypeOK
  <2>2. QED
    BY <2>1, LifecycleStutter DEF ClaimEffect
<1>16. CASE ClaimOperatorYield
  BY <1>1, <1>16, AccountFacts, SweptElsewhere, LifecycleStutter
  DEF ClaimOperatorYield, batchVars
<1>17. CASE ClockTick
  BY <1>17, LifecycleStutter DEF ClockTick, TimePasses, batchVars, vaultSystemVars
<1>18. CASE OthersUseVault
  BY <1>1, <1>18, VaultStepElsewhere, LifecycleStutter DEF OthersUseVault, batchVars
<1>19. CASE TokensElsewhere
  BY <1>19, LifecycleStutter DEF TokensElsewhere, batchVars
<1>20. QED
  BY <1>2, <1>3, <1>4, <1>5, <1>6, <1>7, <1>8, <1>9, <1>10, <1>11, <1>12, <1>13, <1>14,
     <1>15, <1>16, <1>17, <1>18, <1>19 DEF Next, OpenNext

LEMMA OpenLifecycle == OpenSpec => ImplementsLifecycle
<1>1. Init => Lifecycle!Init
  BY EmptyAtFirst DEF Init, VaultInit, Lifecycle!Init
<1>2. TypeOK /\ RoundLedger /\ EscrowMatchesBet /\ [OpenNext]_vars
        => [Lifecycle!Next]_Lifecycle!lifecycleVars
  <2>1. UNCHANGED vars => UNCHANGED Lifecycle!lifecycleVars
    BY LifecycleStutter DEF vars, batchVars, vaultSystemVars
  <2>2. QED
    BY <2>1, LifecycleStep
<1>3. QED
  BY <1>1, <1>2, OpenTypeCorrect, OpenRounds, OpenEscrow, PTL
  DEF OpenSpec, ImplementsLifecycle, Lifecycle!Spec

\* The batch program implements its abstract lifecycle: a bet ends exactly
\* once, its whole escrow goes to the side that won, and the operator's share
\* of the yield is cut exactly when it misses a deadline.
THEOREM LifecycleIsImplemented == Spec => ImplementsLifecycle
  BY OpenLifecycle, SpecIsOpen

=============================================================================
