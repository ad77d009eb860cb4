------------------------- MODULE UndegenBooksProofs -------------------------
(***************************************************************************)
(* The books of the batch for any number of users, stakes and rounds: the  *)
(* stakes add up to total_deposited, the shares to the batch's position,   *)
(* the weights never exceed the voters' stake, and so every claim is paid, *)
(* nearly in full.                                                         *)
(***************************************************************************)
EXTENDS UndegenCoreProofs

-----------------------------------------------------------------------------
(***************************************************************************)
(* The steps, sorted by what they do to positions and vault.               *)
(***************************************************************************)
Started == status \notin {"None", "Lobby"}

\* A step that changes neither, in a batch that is not opened or started.
QuietStep ==
    /\ UNCHANGED <<stakeVars, vaultVars>>
    /\ status \in {"None", "Lobby", "Settled"} => status' = status
    /\ Started => Started'

LEMMA StepKinds ==
    ASSUME VaultTypeOK, StakeTypeOK, OpenNext
    PROVE  \/ InitializeBatch
           \/ \E u \in Users, a \in Stakes : JoinBatch(u, a) \/ LeaveBatch(u, a)
           \/ StartBatch
           \/ \E u \in Users, i \in Options : CastVote(u, i)
           \/ SettleUsersWon
           \/ \E u \in Users : ClaimEffect(u)
           \/ ClaimOperatorYield
           \/ OthersUseVault
           \/ QuietStep
<1> USE DEF QuietStep, Started
<1>1. ASSUME NEW filled \in Slates, NEW k \in Kickoffs, ProposeMatch(filled, k)
      PROVE  QuietStep
  BY <1>1 DEF ProposeMatch, vaultSystemVars, vaultVars
<1>2. FinalizeConsensus => QuietStep
  BY DEF FinalizeConsensus, vaultSystemVars, vaultVars
<1>3. PenalizeMissedCollateral => QuietStep
  BY DEF PenalizeMissedCollateral, vaultSystemVars, vaultVars
<1>4. ASSUME NEW x \in Overpay, DepositCollateralSkip(x) PROVE QuietStep
  BY <1>4 DEF DepositCollateralSkip, CompleteBet
<1>5. ASSUME NEW o \in Odds, NEW x \in Overpay, DepositCollateralBet(o, x) PROVE QuietStep
  BY <1>5 DEF DepositCollateralBet
<1>6. SettleOperatorWon => QuietStep
  BY DEF SettleOperatorWon, ProofAccepted, CompleteBet
<1>7. SettleDefault => QuietStep
  BY DEF SettleDefault, CanDefault, CompleteBet
<1>8. ClockTick => QuietStep
  BY DEF ClockTick, batchVars, vaultSystemVars, vaultVars
<1>9. TokensElsewhere => QuietStep
  BY DEF TokensElsewhere, batchVars
<1>10. ASSUME NEW u \in Users, Claim(u) PROVE ClaimEffect(u)
  BY <1>10, ClaimHasEffect
<1>11. QED
  BY <1>1, <1>2, <1>3, <1>4, <1>5, <1>6, <1>7, <1>8, <1>9, <1>10 DEF Next, OpenNext

-----------------------------------------------------------------------------
(***************************************************************************)
(* The stake.                                                              *)
(***************************************************************************)
Staked == [u \in Users |-> IF pos[u].claimed THEN 0 ELSE pos[u].deposited]
Stakers == {u \in Users : pos[u].deposited > 0}

StakeInv ==
    /\ totalDeposited = Total(Staked, Users)
    /\ participantCount = Cardinality(Stakers)
    /\ \A u \in Users : pos[u].claimed => status = "Settled"

LEMMA StakedType ==
    ASSUME StakeTypeOK
    PROVE  /\ \A u \in Users : Staked[u] \in Nat
           /\ Total(Staked, Users) \in Nat
           /\ IsFiniteSet(Stakers)
<1>1. \A u \in Users : Staked[u] \in Nat
  BY PositionType DEF Staked
<1>2. QED
  BY <1>1, FiniteUsers, TotalType, FS_Subset DEF Stakers

\* What one user's unclaimed stake gains or loses, the sum does.
LEMMA StakedChange ==
    ASSUME StakeTypeOK, StakeTypeOK', NEW u \in Users,
           \A v \in Users \ {u} : pos'[v] = pos[v]
    PROVE  /\ Total(Staked', Users) + Staked[u] = Total(Staked, Users) + Staked'[u]
           /\ Staked[u] <= Total(Staked, Users)
           /\ Total(Staked', Users) \in Nat /\ Total(Staked, Users) \in Nat
           /\ Staked[u] \in Nat /\ Staked'[u] \in Nat
<1>1. \A v \in Users : Staked[v] \in Nat
  BY PositionType DEF Staked
<1>2. \A v \in Users : Staked'[v] \in Nat
  BY DEF StakeTypeOK, Position, Staked
<1>3. \A v \in Users \ {u} : Staked[v] = Staked'[v]
  BY DEF Staked
<1>4. QED
  BY <1>1, <1>2, <1>3, FiniteUsers, TotalChange, TotalType

\* A join counts a participant exactly when there was no stake.
LEMMA JoinKeepsStake ==
    ASSUME TypeOK, TypeOK', StakeInv, NEW u \in Users, NEW a \in Stakes, JoinBatch(u, a)
    PROVE  StakeInv'
<1>1. a \in Nat /\ StakeTypeOK /\ StakeTypeOK'
  BY ParameterFacts DEF TypeOK
<1>2. /\ a > 0 /\ status = "Lobby" /\ status' = status
      /\ totalDeposited' = totalDeposited + a
      /\ participantCount' = IF pos[u].deposited = 0 THEN participantCount + 1
                             ELSE participantCount
      /\ pos' = [pos EXCEPT ![u] = Joined(u, a)]
  BY DEF JoinBatch
<1>3. /\ pos[u].deposited \in Nat /\ ~pos[u].claimed
      /\ \A v \in Users \ {u} : pos'[v] = pos[v]
      /\ pos'[u].deposited = pos[u].deposited + a
      /\ ~pos'[u].claimed
  <2>1. pos'[u] = Joined(u, a) /\ \A v \in Users \ {u} : pos'[v] = pos[v]
    BY <1>1, <1>2 DEF StakeTypeOK
  <2>2. pos[u] \in Position /\ pos[u].deposited \in Nat /\ ~pos[u].claimed
    BY <1>1, <1>2, PositionType DEF StakeInv
  <2>3. CASE pos[u].deposited = 0
    BY <1>1, <2>1, <2>2, <2>3 DEF Joined, ClosedPosition
  <2>4. CASE pos[u].deposited # 0
    BY <1>1, <2>1, <2>2, <2>4 DEF Joined, Position
  <2>5. QED
    BY <2>1, <2>2, <2>3, <2>4
<1>4. totalDeposited' = Total(Staked', Users)
  <2>1. Staked[u] = pos[u].deposited /\ Staked'[u] = pos[u].deposited + a
    BY <1>3 DEF Staked
  <2>2. /\ Total(Staked', Users) + Staked[u] = Total(Staked, Users) + Staked'[u]
        /\ Total(Staked', Users) \in Nat /\ Total(Staked, Users) \in Nat
    BY <1>1, <1>3, StakedChange
  <2>3. Total(Staked', Users) = Total(Staked, Users) + a
    BY <1>1, <1>3, <2>1, <2>2
  <2>4. QED
    BY <1>2, <2>3 DEF StakeInv
<1>5. participantCount' = Cardinality(Stakers')
  <2>1. Stakers' = Stakers \cup {u}
    BY <1>1, <1>2, <1>3 DEF Stakers
  <2>2. u \in Stakers <=> pos[u].deposited # 0
    BY <1>3 DEF Stakers
  <2>3. QED
    BY <1>1, <1>2, <2>1, <2>2, StakedType, FS_AddElement DEF StakeInv
<1>6. \A v \in Users : pos'[v].claimed => status' = "Settled"
  BY <1>2, <1>3 DEF StakeInv
<1>7. QED
  BY <1>4, <1>5, <1>6 DEF StakeInv

LEMMA LeaveKeepsStake ==
    ASSUME TypeOK, TypeOK', StakeInv, NEW u \in Users, NEW a \in Stakes, LeaveBatch(u, a)
    PROVE  StakeInv'
<1>1. a \in Nat /\ StakeTypeOK /\ StakeTypeOK'
  BY ParameterFacts DEF TypeOK
<1>2. /\ a > 0 /\ a <= pos[u].deposited /\ status = "Lobby" /\ status' = status
      /\ totalDeposited' = Monus(totalDeposited, a)
      /\ participantCount' = IF a = pos[u].deposited
                             THEN Monus(participantCount, 1) ELSE participantCount
      /\ pos' = [pos EXCEPT ![u] = Left(u, a)]
  BY Zenon DEF LeaveBatch
<1>3. /\ pos[u].deposited \in Nat /\ ~pos[u].claimed
      /\ \A v \in Users \ {u} : pos'[v] = pos[v]
      /\ pos'[u].deposited = pos[u].deposited - a
      /\ ~pos'[u].claimed
  <2>1. pos'[u] = Left(u, a) /\ \A v \in Users \ {u} : pos'[v] = pos[v]
    BY <1>1, <1>2 DEF StakeTypeOK
  <2>2. pos[u] \in Position /\ pos[u].deposited \in Nat /\ ~pos[u].claimed
    BY <1>1, <1>2, PositionType DEF StakeInv
  <2>3. QED
    BY <1>1, <2>1, <2>2 DEF Left, Position
<1>4. totalDeposited' = Total(Staked', Users)
  <2>1. Staked[u] = pos[u].deposited /\ Staked'[u] = pos[u].deposited - a
    BY <1>3 DEF Staked
  <2>2. /\ Total(Staked', Users) + Staked[u] = Total(Staked, Users) + Staked'[u]
        /\ Staked[u] <= Total(Staked, Users)
        /\ Total(Staked', Users) \in Nat /\ Total(Staked, Users) \in Nat
    BY <1>1, <1>3, StakedChange
  <2>3. Total(Staked', Users) = Total(Staked, Users) - a /\ a <= Total(Staked, Users)
    BY <1>1, <1>2, <1>3, <2>1, <2>2
  <2>4. QED
    BY <1>2, <2>3 DEF StakeInv, Monus
<1>5. participantCount' = Cardinality(Stakers')
  <2>1. u \in Stakers /\ IsFiniteSet(Stakers) /\ Cardinality(Stakers) \in Nat
    BY <1>1, <1>2, <1>3, StakedType, FS_CardinalityType DEF Stakers
  <2>2. CASE a = pos[u].deposited
    <3>1. Stakers' = Stakers \ {u}
      BY <1>1, <1>3, <2>2 DEF Stakers
    <3>2. Cardinality(Stakers') = Cardinality(Stakers) - 1 /\ Cardinality(Stakers) # 0
      BY <2>1, <3>1, FS_RemoveElement, FS_EmptySet
    <3>3. QED
      BY <1>2, <2>1, <2>2, <3>2 DEF StakeInv, Monus
  <2>3. CASE a # pos[u].deposited
    <3>1. Stakers' = Stakers
      BY <1>1, <1>2, <1>3, <2>3 DEF Stakers
    <3>2. QED
      BY <1>2, <2>3, <3>1 DEF StakeInv
  <2>4. QED
    BY <2>2, <2>3
<1>6. \A v \in Users : pos'[v].claimed => status' = "Settled"
  BY <1>2, <1>3 DEF StakeInv
<1>7. QED
  BY <1>4, <1>5, <1>6 DEF StakeInv

\* Positions with the same stakes and claims have the same books.
LEMMA SameStake ==
    ASSUME StakeInv, UNCHANGED <<totalDeposited, participantCount>>,
           \A u \in Users : /\ pos'[u].deposited = pos[u].deposited
                            /\ pos'[u].claimed = pos[u].claimed,
           status = "Settled" => status' = "Settled"
    PROVE  StakeInv'
<1>1. \A u \in Users : Staked[u] = Staked'[u]
  BY DEF Staked
<1>2. Total(Staked, Users) = Total(Staked', Users)
  BY <1>1, TotalSame
<1>3. Stakers' = Stakers
  BY DEF Stakers
<1>4. QED
  BY <1>2, <1>3 DEF StakeInv

LEMMA VotedKeepsStake ==
    ASSUME StakeTypeOK, NEW u \in Users, NEW i \in Options, CastVote(u, i)
    PROVE  \A v \in Users : /\ pos'[v].deposited = pos[v].deposited
                            /\ pos'[v].shares = pos[v].shares
                            /\ pos'[v].claimed = pos[v].claimed
<1>1. pos' = [pos EXCEPT ![u] = Voted(u, i)]
  BY DEF CastVote
<1>2. QED
  BY <1>1 DEF StakeTypeOK, Position, Voted

LEMMA ClaimKeepsStake ==
    ASSUME TypeOK, TypeOK', StakeInv, NEW u \in Users, ClaimEffect(u)
    PROVE  StakeInv'
<1>1. StakeTypeOK /\ StakeTypeOK'
  BY DEF TypeOK
<1>2. /\ ~pos[u].claimed /\ status = "Settled" /\ status' = status
      /\ pos[u].deposited <= totalDeposited
      /\ totalDeposited' = totalDeposited - pos[u].deposited
      /\ participantCount' = participantCount
      /\ pos' = [pos EXCEPT ![u] = [@ EXCEPT !.claimed = TRUE]]
  BY Zenon DEF ClaimEffect, CanClaim
<1>3. /\ \A v \in Users \ {u} : pos'[v] = pos[v]
      /\ pos'[u].deposited = pos[u].deposited /\ pos'[u].claimed
  BY <1>1, <1>2, PositionType DEF StakeTypeOK, Position
<1>4. totalDeposited' = Total(Staked', Users)
  <2>1. Staked[u] = pos[u].deposited /\ Staked'[u] = 0
    BY <1>2, <1>3 DEF Staked
  <2>2. /\ Total(Staked', Users) + Staked[u] = Total(Staked, Users) + Staked'[u]
        /\ Total(Staked', Users) \in Nat /\ Total(Staked, Users) \in Nat
        /\ Staked[u] \in Nat
    BY <1>1, <1>3, StakedChange
  <2>3. Total(Staked', Users) = Total(Staked, Users) - pos[u].deposited
    BY <2>1, <2>2
  <2>4. QED
    BY <1>2, <2>3 DEF StakeInv
<1>5. Stakers' = Stakers
  BY <1>3 DEF Stakers
<1>6. QED
  BY <1>2, <1>4, <1>5 DEF StakeInv

LEMMA StakeStep ==
    ASSUME TypeOK, TypeOK', StakeInv, OpenNext
    PROVE  StakeInv'
<1>1. StakeTypeOK
  BY DEF TypeOK
<1>2. ASSUME UNCHANGED stakeVars, status = "Settled" => status' = "Settled"
      PROVE  StakeInv'
  BY <1>2, SameStake DEF stakeVars
<1>3. CASE InitializeBatch
  BY <1>2, <1>3 DEF InitializeBatch
<1>4. ASSUME NEW u \in Users, NEW a \in Stakes, JoinBatch(u, a) \/ LeaveBatch(u, a)
      PROVE  StakeInv'
  BY <1>4, JoinKeepsStake, LeaveKeepsStake
<1>5. CASE StartBatch
  BY <1>2, <1>5 DEF StartBatch
<1>6. ASSUME NEW u \in Users, NEW i \in Options, CastVote(u, i) PROVE StakeInv'
  BY <1>1, <1>6, VotedKeepsStake, SameStake DEF CastVote
<1>7. CASE SettleUsersWon
  BY <1>2, <1>7 DEF SettleUsersWon, ProofAccepted
<1>8. ASSUME NEW u \in Users, ClaimEffect(u) PROVE StakeInv'
  BY <1>8, ClaimKeepsStake
<1>9. CASE ClaimOperatorYield
  BY <1>2, <1>9 DEF ClaimOperatorYield, batchVars
<1>10. CASE OthersUseVault
  BY <1>2, <1>10 DEF OthersUseVault, batchVars
<1>11. CASE QuietStep
  BY <1>2, <1>11 DEF QuietStep
<1>12. QED
  BY <1>3, <1>4, <1>5, <1>6, <1>7, <1>8, <1>9, <1>10, <1>11, StepKinds DEF TypeOK

LEMMA StakeAlwaysBooked == OpenSpec => []StakeInv
<1>1. Init => StakeInv
  <2> SUFFICES ASSUME Init PROVE StakeInv
    OBVIOUS
  <2>1. \A u \in Users : Staked[u] = 0 /\ ~pos[u].claimed
    BY DEF Init, ClosedPosition, Staked
  <2>2. Total(Staked, Users) = 0
    BY <2>1, FiniteUsers, TotalZero
  <2>3. Stakers = {}
    BY DEF Init, ClosedPosition, Stakers
  <2>4. QED
    BY <2>1, <2>2, <2>3, FS_EmptySet DEF Init, StakeInv
<1>2. TypeOK /\ TypeOK' /\ StakeInv /\ [OpenNext]_vars => StakeInv'
  <2>1. StakeInv /\ UNCHANGED vars => StakeInv'
    BY DEF vars, batchVars, stakeVars, StakeInv, Staked, Stakers
  <2>2. QED
    BY <2>1, StakeStep
<1>3. QED
  BY <1>1, <1>2, OpenTypeCorrect, PTL DEF OpenSpec

-----------------------------------------------------------------------------
(***************************************************************************)
(* The vault's positions add up to its shares, with the batch's own        *)
(* deposits and withdrawals.                                               *)
(***************************************************************************)
LEMMA SameShares ==
    ASSUME SharesAddUp, UNCHANGED vaultVars
    PROVE  SharesAddUp'
  BY DEF SharesAddUp, vaultVars

LEMMA AddUpStep ==
    ASSUME TypeOK, SharesAddUp, OpenNext
    PROVE  SharesAddUp'
<1>1. VaultTypeOK /\ StakeTypeOK /\ Batch \in Depositors
  BY AccountFacts DEF TypeOK
<1>2. CASE InitializeBatch
  BY <1>2, SameShares DEF InitializeBatch, vaultSystemVars, vaultVars
<1>3. ASSUME NEW u \in Users, NEW a \in Stakes, JoinBatch(u, a) PROVE SharesAddUp'
  <2>1. VaultDeposit(Batch, a)
    BY <1>3 DEF JoinBatch
  <2>2. a \in Nat
    BY ParameterFacts
  <2>3. QED
    BY <1>1, <2>1, <2>2, DepositAddsUp
<1>4. ASSUME NEW u \in Users, NEW a \in Stakes, LeaveBatch(u, a) PROVE SharesAddUp'
  <2>1. VaultWithdraw(Batch, SharesLeaving(u, a)) /\ a > 0 /\ a <= pos[u].deposited
    BY <1>4, Zenon DEF LeaveBatch
  <2>2. a \in Nat
    BY ParameterFacts
  <2>3. QED
    BY <1>1, <2>1, <2>2, SharesLeavingType, WithdrawAddsUp
<1>5. CASE StartBatch
  BY <1>5, SameShares DEF StartBatch, vaultSystemVars, vaultVars
<1>6. ASSUME NEW u \in Users, NEW i \in Options, CastVote(u, i) PROVE SharesAddUp'
  BY <1>6, SameShares DEF CastVote, vaultSystemVars, vaultVars
<1>7. CASE SettleUsersWon
  <2>1. tok[CollateralAcct] \in Nat
    BY <1>1, AccountFacts DEF VaultTypeOK
  <2>2. \/ VaultDeposit(Batch, tok[CollateralAcct])
        \/ UNCHANGED vaultVars
    BY <1>7 DEF SettleUsersWon
  <2>3. QED
    BY <1>1, <2>1, <2>2, DepositAddsUp, SameShares
<1>8. ASSUME NEW u \in Users, ClaimEffect(u) PROVE SharesAddUp'
  <2>1. VaultWithdraw(Batch, ClaimShares(u)) \/ UNCHANGED vaultVars
    BY <1>8 DEF ClaimEffect
  <2>2. QED
    BY <1>1, <1>8, <2>1, ClaimVaultTypes, WithdrawAddsUp, SameShares
<1>9. CASE ClaimOperatorYield
  <2>1. VaultWithdraw(Batch, OperatorShares) /\ OperatorShares \in Nat
    BY <1>9, OperatorSharesType DEF ClaimOperatorYield
  <2>2. QED
    BY <1>1, <2>1, WithdrawAddsUp
<1>10. CASE OthersUseVault
  BY <1>1, <1>10, VaultStepAddsUp DEF OthersUseVault
<1>11. CASE QuietStep
  BY <1>11, SameShares DEF QuietStep
<1>12. QED
  BY <1>2, <1>3, <1>4, <1>5, <1>6, <1>7, <1>8, <1>9, <1>10, <1>11, StepKinds DEF TypeOK

LEMMA VaultAddsUpWithBatches == OpenSpec => []SharesAddUp
<1>1. Init => SharesAddUp
  BY NoSharesAddUp DEF Init, VaultInit
<1>2. TypeOK /\ SharesAddUp /\ [OpenNext]_vars => SharesAddUp'
  <2>1. SharesAddUp /\ UNCHANGED vars => SharesAddUp'
    BY DEF vars, vaultSystemVars, SharesAddUp
  <2>2. QED
    BY <2>1, AddUpStep
<1>3. QED
  BY <1>1, <1>2, OpenTypeCorrect, PTL DEF OpenSpec

-----------------------------------------------------------------------------
\* The operator's part of the yield never exceeds the whole.
EntitlementBounded == operatorYieldBps <= 10000

LEMMA EntitlementStep ==
    ASSUME TypeOK, EntitlementBounded, OpenNext
    PROVE  EntitlementBounded'
<1>1. operatorYieldBps \in Nat
  BY DEF TypeOK, TallyTypeOK
<1>2. operatorYieldBps' = operatorYieldBps \/ operatorYieldBps' = Slashed
  <2> USE DEF tallyVars, batchVars
  <2>1. ASSUME NEW u \in Users, NEW a \in Stakes, JoinBatch(u, a) \/ LeaveBatch(u, a)
        PROVE  operatorYieldBps' = operatorYieldBps
    BY <2>1 DEF JoinBatch, LeaveBatch
  <2>2. ASSUME NEW filled \in Slates, NEW k \in Kickoffs, ProposeMatch(filled, k)
        PROVE  operatorYieldBps' = operatorYieldBps
    BY <2>2 DEF ProposeMatch
  <2>3. ASSUME NEW u \in Users, NEW i \in Options, CastVote(u, i)
        PROVE  operatorYieldBps' = operatorYieldBps
    BY <2>3 DEF CastVote
  <2>4. ASSUME NEW x \in Overpay, DepositCollateralSkip(x)
        PROVE  operatorYieldBps' = operatorYieldBps
    BY <2>4 DEF DepositCollateralSkip
  <2>5. ASSUME NEW o \in Odds, NEW x \in Overpay, DepositCollateralBet(o, x)
        PROVE  operatorYieldBps' = operatorYieldBps
    BY <2>5 DEF DepositCollateralBet
  <2>6. ASSUME NEW u \in Users, Claim(u) \/ ClaimEffect(u)
        PROVE  operatorYieldBps' = operatorYieldBps
    BY <2>6 DEF Claim, ClaimEffect
  <2>7. InitializeBatch \/ StartBatch \/ FinalizeConsensus
          => operatorYieldBps' = operatorYieldBps
    BY DEF InitializeBatch, StartBatch, FinalizeConsensus
  <2>8. SettleUsersWon \/ SettleOperatorWon \/ ClaimOperatorYield \/ ClockTick \/ OthersUseVault
          => operatorYieldBps' = operatorYieldBps
    BY DEF SettleUsersWon, SettleOperatorWon, ClaimOperatorYield, ClockTick, OthersUseVault
  <2>9. PenalizeMissedCollateral \/ SettleDefault => operatorYieldBps' = Slashed
    BY DEF PenalizeMissedCollateral, SettleDefault
  <2>10. TokensElsewhere => operatorYieldBps' = operatorYieldBps
    BY DEF TokensElsewhere
  <2>11. QED
    BY <2>1, <2>2, <2>3, <2>4, <2>5, <2>6, <2>7, <2>8, <2>9, <2>10 DEF Next, OpenNext
<1>3. QED
  BY <1>1, <1>2 DEF EntitlementBounded, Slashed, Monus

LEMMA EntitlementAlwaysBounded == OpenSpec => []EntitlementBounded
<1>1. Init => EntitlementBounded
  BY DEF Init, EntitlementBounded
<1>2. TypeOK /\ EntitlementBounded /\ [OpenNext]_vars => EntitlementBounded'
  <2>1. EntitlementBounded /\ UNCHANGED vars => EntitlementBounded'
    BY DEF vars, batchVars, tallyVars, EntitlementBounded
  <2>2. QED
    BY <2>1, EntitlementStep
<1>3. QED
  BY <1>1, <1>2, OpenTypeCorrect, PTL DEF OpenSpec

-----------------------------------------------------------------------------
(***************************************************************************)
(* What claim and claim_operator_yield may redeem.                         *)
(***************************************************************************)
\* The pro-rata part of the position, in shares.
ShareOf(u) == (shares[Batch] * pos[u].deposited) \div totalDeposited

LEMMA ProductCancel ==
    ASSUME NEW a \in Nat, NEW b \in Nat, NEW c \in Nat, a * c < b * c
    PROVE  a < b
  OBVIOUS

\* A claim redeems at most the pro-rata part of the batch's shares, and with
\* other claims outstanding never all of them.
LEMMA ClaimBounds ==
    ASSUME VaultTypeOK, StakeTypeOK, NEW u \in Users, CanClaim(u)
    PROVE  /\ ShareOf(u) \in Nat
           /\ ClaimShares(u) \in Nat
           /\ ClaimShares(u) <= ShareOf(u)
           /\ ShareOf(u) * totalDeposited <= shares[Batch] * pos[u].deposited
           /\ ShareOf(u) <= shares[Batch]
           /\ pos[u].deposited < totalDeposited /\ shares[Batch] > 0
                => ShareOf(u) < shares[Batch]
<1> DEFINE d == pos[u].deposited
           us == ShareOf(u)
           W == Worth(us)
           und == SmallerOf(W, d)
           s == ClaimShares(u)
<1>1. /\ d \in Nat \ {0} /\ totalDeposited \in Nat \ {0} /\ d <= totalDeposited
      /\ totalShares \in Nat \ {0} /\ totalUnderlying \in Nat \ {0}
      /\ shares[Batch] \in Nat
  BY PositionType, AccountFacts DEF CanClaim, VaultTypeOK
<1>2. us \in Nat /\ us * totalDeposited <= shares[Batch] * d /\ us <= shares[Batch]
  <2>1. shares[Batch] * d \in Nat
    BY <1>1
  <2>2. QED
    BY <1>1, <2>1, DivBounds, PartBounds DEF ShareOf
<1>3. s = (und * totalShares) \div totalUnderlying
  BY DEF ClaimShares, ShareOf
<1> HIDE DEF us, s
<1>4. W \in Nat /\ W * totalShares <= us * totalUnderlying
  <2>1. us * totalUnderlying \in Nat
    BY <1>1, <1>2
  <2>2. QED
    BY <1>1, <2>1, DivBounds DEF Worth
<1> HIDE DEF W, d
<1>5. und \in Nat /\ und <= W
  BY <1>1, <1>4 DEF SmallerOf
<1> HIDE DEF und
<1>6. s \in Nat /\ s * totalUnderlying <= und * totalShares
  <2>1. und * totalShares \in Nat
    BY <1>1, <1>5
  <2>2. QED
    BY <1>1, <1>3, <2>1, DivBounds
<1>7. s <= us
  <2>1. und * totalShares <= W * totalShares
    BY <1>1, <1>4, <1>5, ProductMonotone
  <2>2. s * totalUnderlying <= us * totalUnderlying
    <3>1. /\ s * totalUnderlying \in Nat /\ und * totalShares \in Nat
          /\ W * totalShares \in Nat /\ us * totalUnderlying \in Nat
      BY <1>1, <1>2, <1>4, <1>5, <1>6
    <3>2. QED
      BY <1>4, <1>6, <2>1, <3>1
  <2>3. QED
    BY <1>1, <1>2, <1>6, <2>2, Cancel
<1>8. ASSUME d < totalDeposited, shares[Batch] > 0
      PROVE  us < shares[Batch]
  <2>1. shares[Batch] * d < shares[Batch] * totalDeposited
    BY <1>1, <1>8
  <2>2. us * totalDeposited < shares[Batch] * totalDeposited
    <3>1. /\ us * totalDeposited \in Nat /\ shares[Batch] * d \in Nat
          /\ shares[Batch] * totalDeposited \in Nat
      BY <1>1, <1>2
    <3>2. QED
      BY <1>2, <2>1, <3>1
  <2>3. QED
    BY <1>1, <1>2, <2>2, ProductCancel
<1>9. QED
  BY <1>2, <1>6, <1>7, <1>8 DEF us, s, d

\* What the operator takes leaves the whole unclaimed principal covered.
LEMMA OperatorBounds ==
    ASSUME TypeOK, EntitlementBounded, totalShares > 0, shares[Batch] > 0, YieldAmount > 0
    PROVE  /\ OperatorShares \in Nat
           /\ OperatorShares * totalUnderlying + totalDeposited * totalShares
                <= shares[Batch] * totalUnderlying
<1> DEFINE W == Worth(shares[Batch])
           Y == OperatorYield
           s == OperatorShares
           T == totalDeposited * totalShares
<1>1. /\ totalShares \in Nat \ {0} /\ totalUnderlying \in Nat
      /\ shares[Batch] \in Nat /\ totalDeposited \in Nat
      /\ operatorYieldBps \in Nat /\ operatorYieldBps <= 10000
  BY AccountFacts DEF TypeOK, VaultTypeOK, StakeTypeOK, TallyTypeOK, EntitlementBounded
<1>2. W \in Nat /\ W * totalShares <= shares[Batch] * totalUnderlying
  <2>1. shares[Batch] * totalUnderlying \in Nat
    BY <1>1
  <2>2. QED
    BY <1>1, <2>1, DivBounds DEF Worth
<1>3. totalUnderlying > 0
  <2>1. ASSUME totalUnderlying = 0 PROVE FALSE
    <3>1. (shares[Batch] * 0) \div totalShares = 0
      BY <1>1
    <3>2. W = 0
      BY <2>1, <3>1 DEF Worth
    <3>3. QED
      BY <1>1, <3>2 DEF YieldAmount, Monus
  <2>2. QED
    BY <1>1, <2>1
<1>4. YieldAmount \in Nat /\ YieldAmount + totalDeposited = W
  BY <1>1, <1>2 DEF YieldAmount, Monus
<1>5. Y \in Nat /\ Y <= YieldAmount
  BY <1>1, <1>4, PartBounds DEF OperatorYield
<1> HIDE DEF W
<1>6. s \in Nat /\ s * totalUnderlying <= Y * totalShares
  <2> HIDE DEF Y
  <2>1. Y * totalShares \in Nat
    BY <1>1, <1>5
  <2>2. s = (Y * totalShares) \div totalUnderlying
    BY DEF OperatorShares, Y
  <2> HIDE DEF s
  <2>3. QED
    BY <1>1, <1>3, <2>1, <2>2, DivBounds
<1> HIDE DEF Y, s
<1>7. Y * totalShares + T <= W * totalShares
  <2>1. Y + totalDeposited <= W /\ Y + totalDeposited \in Nat
    BY <1>1, <1>2, <1>4, <1>5
  <2>2. (Y + totalDeposited) * totalShares <= W * totalShares
    BY <1>1, <1>2, <2>1, ProductMonotone
  <2>3. (Y + totalDeposited) * totalShares = Y * totalShares + T
    BY <1>1, <1>5
  <2>4. QED
    BY <2>2, <2>3
<1>8. s * totalUnderlying + T <= shares[Batch] * totalUnderlying
  <2>1. /\ s * totalUnderlying \in Nat /\ T \in Nat /\ Y * totalShares \in Nat
        /\ W * totalShares \in Nat /\ shares[Batch] * totalUnderlying \in Nat
    BY <1>1, <1>2, <1>5, <1>6
  <2> HIDE DEF T
  <2>2. QED
    BY <1>2, <1>6, <1>7, <2>1
<1>9. QED
  BY <1>6, <1>8 DEF s

-----------------------------------------------------------------------------
(***************************************************************************)
(* The shares.                                                             *)
(***************************************************************************)
Tracked == [u \in Users |-> pos[u].shares]

SharesInv ==
    /\ ~Started => Total(Tracked, Users) = shares[Batch]
    /\ Started /\ status # "Settled" => Total(Tracked, Users) <= shares[Batch]
    /\ \A u \in Users : pos[u].deposited > 0 <=> pos[u].shares > 0

\* While there is stake left to claim the batch holds shares.
Backed == Started /\ totalDeposited > 0 => shares[Batch] > 0

LEMMA TrackedType ==
    ASSUME StakeTypeOK
    PROVE  /\ \A u \in Users : Tracked[u] \in Nat
           /\ Total(Tracked, Users) \in Nat
<1>1. \A u \in Users : Tracked[u] \in Nat
  BY PositionType DEF Tracked
<1>2. QED
  BY <1>1, FiniteUsers, TotalType

LEMMA TrackedChange ==
    ASSUME StakeTypeOK, StakeTypeOK', NEW u \in Users,
           \A v \in Users \ {u} : pos'[v] = pos[v]
    PROVE  /\ Total(Tracked', Users) + pos[u].shares = Total(Tracked, Users) + pos'[u].shares
           /\ pos[u].shares <= Total(Tracked, Users)
           /\ Total(Tracked', Users) \in Nat /\ Total(Tracked, Users) \in Nat
           /\ pos[u].shares \in Nat /\ pos'[u].shares \in Nat
<1>1. \A v \in Users : Tracked[v] \in Nat
  BY PositionType DEF Tracked
<1>2. \A v \in Users : Tracked'[v] \in Nat
  BY DEF StakeTypeOK, Position, Tracked
<1>3. \A v \in Users \ {u} : Tracked[v] = Tracked'[v]
  BY DEF Tracked
<1>4. /\ Total(Tracked', Users) + Tracked[u] = Total(Tracked, Users) + Tracked'[u]
      /\ Tracked[u] <= Total(Tracked, Users)
  BY <1>1, <1>2, <1>3, FiniteUsers, TotalChange
<1>5. Total(Tracked', Users) \in Nat /\ Total(Tracked, Users) \in Nat
  BY <1>1, <1>2, FiniteUsers, TotalType
<1>6. Tracked[u] = pos[u].shares /\ Tracked'[u] = pos'[u].shares
  BY DEF Tracked
<1>7. QED
  BY <1>1, <1>2, <1>4, <1>5, <1>6

\* The exit takes what it is entitled to, and leaves a share with the rest.
LEMMA LeavingBounds ==
    ASSUME StakeTypeOK, NEW u \in Users, NEW a \in Nat, a > 0, a <= pos[u].deposited
    PROVE  /\ SharesLeaving(u, a) \in Nat
           /\ SharesLeaving(u, a) <= pos[u].shares
           /\ a = pos[u].deposited => SharesLeaving(u, a) = pos[u].shares
           /\ a < pos[u].deposited /\ pos[u].shares > 0
                => SharesLeaving(u, a) < pos[u].shares
<1> DEFINE d == pos[u].deposited
           n == pos[u].shares
           s == SharesLeaving(u, a)
<1>1. d \in Nat \ {0} /\ n \in Nat /\ a <= d
  BY PositionType
<1>2. s = IF a = d THEN n ELSE (n * a) \div d
  BY DEF SharesLeaving
<1> HIDE DEF d, n, s
<1>3. CASE a = d
  BY <1>1, <1>2, <1>3 DEF d, n, s
<1>4. CASE a < d
  <2>1. s \in Nat /\ s * d <= n * a /\ s <= n
    <3>1. n * a \in Nat
      BY <1>1
    <3>2. QED
      BY <1>1, <1>2, <1>4, <3>1, DivBounds, PartBounds
  <2>2. ASSUME n > 0 PROVE s < n
    <3>1. n * a < n * d
      BY <1>1, <1>4, <2>2
    <3>2. n * a \in Nat /\ n * d \in Nat /\ s * d \in Nat
      BY <1>1, <2>1
    <3>3. s * d < n * d
      BY <2>1, <3>1, <3>2
    <3>4. QED
      BY <1>1, <2>1, <3>3, ProductCancel
  <2>3. QED
    BY <1>4, <2>1, <2>2 DEF d, n, s
<1>5. QED
  BY <1>1, <1>3, <1>4

LEMMA JoinKeepsShares ==
    ASSUME TypeOK, TypeOK', SharesInv, NEW u \in Users, NEW a \in Stakes, JoinBatch(u, a)
    PROVE  SharesInv' /\ Backed'
<1> DEFINE m == MintedFor(a)
<1>1. a \in Nat /\ StakeTypeOK /\ StakeTypeOK' /\ VaultTypeOK /\ Batch \in Depositors
  BY ParameterFacts, AccountFacts DEF TypeOK
<1>2. /\ a > 0 /\ status = "Lobby" /\ status' = status
      /\ VaultDeposit(Batch, a)
      /\ pos' = [pos EXCEPT ![u] = Joined(u, a)]
  BY DEF JoinBatch
<1>3. m \in Nat /\ m > 0 /\ shares'[Batch] = shares[Batch] + m /\ shares[Batch] \in Nat
  BY <1>1, <1>2, DepositTypes DEF VaultDeposit, VaultTypeOK
<1> HIDE DEF m
<1>4. /\ \A v \in Users \ {u} : pos'[v] = pos[v]
      /\ pos'[u].shares = pos[u].shares + m
      /\ pos'[u].deposited = pos[u].deposited + a
      /\ pos[u].shares \in Nat /\ pos[u].deposited \in Nat
  <2>1. pos'[u] = Joined(u, a) /\ \A v \in Users \ {u} : pos'[v] = pos[v]
    BY <1>1, <1>2 DEF StakeTypeOK
  <2>2. pos[u] \in Position /\ pos[u].deposited \in Nat /\ pos[u].shares \in Nat
    BY <1>1, PositionType
  <2>3. CASE pos[u].deposited = 0
    <3>1. pos[u].shares = 0
      BY <2>2, <2>3 DEF SharesInv
    <3>2. Joined(u, a).shares = 0 + m /\ Joined(u, a).deposited = 0 + a
      BY <2>3 DEF Joined, ClosedPosition, m
    <3>3. QED
      BY <2>1, <2>2, <2>3, <3>1, <3>2
  <2>4. CASE pos[u].deposited # 0
    BY <2>1, <2>2, <2>4 DEF Joined, Position, m
  <2>5. QED
    BY <2>1, <2>2, <2>3, <2>4
<1>5. Total(Tracked', Users) = shares'[Batch]
  <2>1. /\ Total(Tracked', Users) + pos[u].shares = Total(Tracked, Users) + pos'[u].shares
        /\ Total(Tracked', Users) \in Nat /\ Total(Tracked, Users) \in Nat
    BY <1>1, <1>4, TrackedChange
  <2>2. Total(Tracked', Users) = Total(Tracked, Users) + m
    BY <1>3, <1>4, <2>1
  <2>3. QED
    BY <1>2, <1>3, <2>2 DEF SharesInv, Started
<1>6. \A v \in Users : pos'[v].deposited > 0 <=> pos'[v].shares > 0
  BY <1>1, <1>2, <1>3, <1>4 DEF SharesInv
<1>7. QED
  BY <1>2, <1>5, <1>6 DEF SharesInv, Backed, Started

LEMMA LeaveKeepsShares ==
    ASSUME TypeOK, TypeOK', SharesInv, NEW u \in Users, NEW a \in Stakes, LeaveBatch(u, a)
    PROVE  SharesInv' /\ Backed'
<1> DEFINE s == SharesLeaving(u, a)
<1>1. a \in Nat /\ StakeTypeOK /\ StakeTypeOK' /\ VaultTypeOK /\ Batch \in Depositors
  BY ParameterFacts, AccountFacts DEF TypeOK
<1>2. /\ a > 0 /\ a <= pos[u].deposited /\ status = "Lobby" /\ status' = status
      /\ VaultWithdraw(Batch, s)
      /\ pos' = [pos EXCEPT ![u] = Left(u, a)]
  BY Zenon DEF LeaveBatch
<1>3. /\ s \in Nat /\ s <= pos[u].shares
      /\ a = pos[u].deposited => s = pos[u].shares
      /\ a < pos[u].deposited /\ pos[u].shares > 0 => s < pos[u].shares
  BY <1>1, <1>2, LeavingBounds
<1>4. /\ \A v \in Users \ {u} : pos'[v] = pos[v]
      /\ pos'[u].deposited = pos[u].deposited - a
      /\ pos'[u].shares = Monus(pos[u].shares, s)
      /\ pos[u].shares \in Nat /\ pos[u].deposited \in Nat
  BY <1>1, <1>2, PositionType DEF StakeTypeOK, Position, Left
<1>5. shares'[Batch] = shares[Batch] - s /\ shares[Batch] \in Nat
  BY <1>1, <1>2 DEF VaultWithdraw, VaultTypeOK
<1> HIDE DEF s
<1>6. pos'[u].shares = pos[u].shares - s
  BY <1>3, <1>4 DEF Monus
<1>7. Total(Tracked', Users) = shares'[Batch]
  <2>1. /\ Total(Tracked', Users) + pos[u].shares = Total(Tracked, Users) + pos'[u].shares
        /\ Total(Tracked', Users) \in Nat /\ Total(Tracked, Users) \in Nat
    BY <1>1, <1>4, TrackedChange
  <2>2. Total(Tracked', Users) = Total(Tracked, Users) - s
    BY <1>3, <1>4, <1>6, <2>1
  <2>3. QED
    BY <1>2, <1>5, <2>2 DEF SharesInv, Started
<1>8. \A v \in Users : pos'[v].deposited > 0 <=> pos'[v].shares > 0
  <2>1. pos'[u].deposited > 0 <=> pos'[u].shares > 0
    BY <1>1, <1>2, <1>3, <1>4, <1>6 DEF SharesInv
  <2>2. QED
    BY <1>4, <2>1 DEF SharesInv
<1>9. QED
  BY <1>2, <1>7, <1>8 DEF SharesInv, Backed, Started

\* Steps that move no stake.
LEMMA SameTracked ==
    ASSUME SharesInv,
           \A u \in Users : /\ pos'[u].deposited = pos[u].deposited
                            /\ pos'[u].shares = pos[u].shares,
           Started <=> Started',
           status = "Settled" => status' = "Settled",
           shares'[Batch] = shares[Batch] \/ status' = "Settled"
    PROVE  SharesInv'
<1>1. \A u \in Users : Tracked[u] = Tracked'[u]
  BY DEF Tracked
<1>2. Total(Tracked, Users) = Total(Tracked', Users)
  BY <1>1, TotalSame
<1>3. QED
  BY <1>2 DEF SharesInv, Started

LEMMA OthersLeaveTheBatch ==
    ASSUME VaultTypeOK, VaultNext
    PROVE  shares'[Batch] = shares[Batch]
<1>1. Batch \in Depositors /\ Batch \notin Wallets
  BY CoreConstants
<1>2. ASSUME NEW w \in Wallets, NEW a \in Amounts, Deposit(w, a)
      PROVE  shares'[Batch] = shares[Batch]
  BY <1>1, <1>2 DEF Deposit, VaultDeposit, VaultTypeOK
<1>3. ASSUME NEW w \in Wallets, NEW s \in 1..totalShares, Withdraw(w, s)
      PROVE  shares'[Batch] = shares[Batch]
  BY <1>1, <1>3 DEF Withdraw, VaultWithdraw, VaultTypeOK
<1>4. TickYield => shares'[Batch] = shares[Batch]
  BY DEF TickYield
<1>5. ASSUME NEW a \in Amounts, FundReserve(a) PROVE shares'[Batch] = shares[Batch]
  BY <1>5 DEF FundReserve, vaultVars
<1>6. QED
  BY <1>2, <1>3, <1>4, <1>5 DEF VaultNext

\* A won bet adds to the batch's shares.
LEMMA WinAddsShares ==
    ASSUME VaultTypeOK, SettleUsersWon
    PROVE  shares'[Batch] \in Nat /\ shares[Batch] <= shares'[Batch]
<1>1. /\ tok[CollateralAcct] \in Nat /\ Batch \in Depositors
      /\ VaultDeposit(Batch, tok[CollateralAcct]) \/ UNCHANGED vaultVars
  BY AccountFacts DEF SettleUsersWon, VaultTypeOK
<1>2. CASE VaultDeposit(Batch, tok[CollateralAcct])
  <2> DEFINE m == MintedFor(tok[CollateralAcct])
  <2>1. m \in Nat /\ shares' = [shares EXCEPT ![Batch] = @ + m]
    BY <1>1, <1>2, DepositTypes DEF VaultDeposit
  <2> HIDE DEF m
  <2>2. QED
    BY <1>1, <2>1 DEF VaultTypeOK
<1>3. CASE UNCHANGED vaultVars
  BY <1>1, <1>3 DEF vaultVars, VaultTypeOK
<1>4. QED
  BY <1>1, <1>2, <1>3

\* Some of a positive sum is positive.
LEMMA SomeStaker ==
    ASSUME StakeTypeOK, StakeInv, totalDeposited > 0
    PROVE  \E u \in Users : pos[u].deposited > 0 /\ ~pos[u].claimed
<1> SUFFICES ASSUME \A u \in Users : ~(pos[u].deposited > 0 /\ ~pos[u].claimed)
             PROVE  FALSE
  OBVIOUS
<1>1. \A u \in Users : Staked[u] = 0
  BY PositionType DEF Staked
<1>2. Total(Staked, Users) = 0
  BY <1>1, FiniteUsers, TotalZero
<1>3. QED
  BY <1>2 DEF StakeInv

\* A lobby with stake has shares.
LEMMA StakeIsBacked ==
    ASSUME TypeOK, StakeInv, SharesInv, ~Started, totalDeposited > 0
    PROVE  shares[Batch] > 0
<1>1. StakeTypeOK /\ \A u \in Users : Tracked[u] \in Nat
  BY TrackedType DEF TypeOK
<1>2. PICK u \in Users : pos[u].deposited > 0
  BY <1>1, SomeStaker
<1>3. Tracked[u] > 0 /\ Tracked[u] <= Total(Tracked, Users)
  BY <1>1, <1>2, FiniteUsers, TotalAbove DEF SharesInv, Tracked
<1>4. Total(Tracked, Users) \in Nat /\ Tracked[u] \in Nat
  BY <1>1, TrackedType
<1>5. QED
  BY <1>3, <1>4 DEF SharesInv

LEMMA SharesStep ==
    ASSUME TypeOK, TypeOK', StakeInv, SharesInv, OpenNext
    PROVE  SharesInv'
<1>1. StakeTypeOK /\ VaultTypeOK
  BY DEF TypeOK
<1>2. ASSUME UNCHANGED stakeVars, Started <=> Started',
             status = "Settled" => status' = "Settled",
             shares'[Batch] = shares[Batch] \/ status' = "Settled"
      PROVE  SharesInv'
  <2>1. pos' = pos
    BY <1>2 DEF stakeVars
  <2>2. QED
    BY <1>2, <2>1, SameTracked
<1>3. CASE InitializeBatch
  BY <1>2, <1>3 DEF InitializeBatch, vaultSystemVars, Started
<1>4. ASSUME NEW u \in Users, NEW a \in Stakes, JoinBatch(u, a) \/ LeaveBatch(u, a)
      PROVE  SharesInv'
  BY <1>4, JoinKeepsShares, LeaveKeepsShares
<1>5. CASE StartBatch
  <2>1. /\ pos' = pos /\ shares' = shares /\ ~Started /\ Started'
    BY <1>5 DEF StartBatch, stakeVars, vaultSystemVars, Started
  <2>2. Tracked' = Tracked /\ Total(Tracked, Users) \in Nat
    BY <1>1, <2>1, TrackedType DEF Tracked
  <2>3. QED
    BY <2>1, <2>2 DEF SharesInv
<1>6. ASSUME NEW u \in Users, NEW i \in Options, CastVote(u, i) PROVE SharesInv'
  BY <1>1, <1>6, VotedKeepsStake, SameTracked DEF CastVote, vaultSystemVars, Started
<1>7. CASE SettleUsersWon
  <2>1. pos' = pos /\ Started /\ status # "Settled" /\ Started'
    BY <1>7 DEF SettleUsersWon, ProofAccepted, CompleteBet, stakeVars, Started
  <2>2. shares'[Batch] \in Nat /\ shares[Batch] <= shares'[Batch] /\ shares[Batch] \in Nat
    BY <1>1, <1>7, WinAddsShares, AccountFacts DEF VaultTypeOK
  <2>3. Tracked' = Tracked /\ Total(Tracked, Users) \in Nat
    BY <1>1, <2>1, TrackedType DEF Tracked
  <2>4. QED
    BY <2>1, <2>2, <2>3 DEF SharesInv
<1>8. ASSUME NEW u \in Users, ClaimEffect(u) PROVE SharesInv'
  <2>1. /\ pos' = [pos EXCEPT ![u] = [@ EXCEPT !.claimed = TRUE]]
        /\ status = "Settled" /\ status' = "Settled"
    BY <1>8, Zenon DEF ClaimEffect, CanClaim
  <2>2. \A v \in Users : /\ pos'[v].deposited = pos[v].deposited
                          /\ pos'[v].shares = pos[v].shares
    BY <1>1, <2>1 DEF StakeTypeOK, Position
  <2>3. QED
    BY <2>1, <2>2, SameTracked DEF Started
<1>9. CASE ClaimOperatorYield
  BY <1>2, <1>9 DEF ClaimOperatorYield, batchVars, Started
<1>10. CASE OthersUseVault
  BY <1>1, <1>2, <1>10, OthersLeaveTheBatch DEF OthersUseVault, batchVars, Started
<1>11. CASE QuietStep
  BY <1>2, <1>11 DEF QuietStep, vaultVars, Started
<1>12. QED
  BY <1>3, <1>4, <1>5, <1>6, <1>7, <1>8, <1>9, <1>10, <1>11, StepKinds DEF TypeOK

\* Neither the last claim but one nor the operator empties the position.
LEMMA BackedStep ==
    ASSUME TypeOK, TypeOK', StakeInv, SharesInv, EntitlementBounded, Backed, OpenNext
    PROVE  Backed'
<1>1. /\ StakeTypeOK /\ VaultTypeOK /\ Batch \in Depositors
      /\ shares[Batch] \in Nat /\ totalDeposited \in Nat
  BY AccountFacts DEF TypeOK, VaultTypeOK, StakeTypeOK
<1>2. ASSUME totalDeposited' = totalDeposited, Started <=> Started', shares'[Batch] = shares[Batch]
      PROVE  Backed'
  BY <1>2 DEF Backed
<1>3. CASE InitializeBatch
  BY <1>3 DEF InitializeBatch, Backed, Started
<1>4. ASSUME NEW u \in Users, NEW a \in Stakes, JoinBatch(u, a) \/ LeaveBatch(u, a)
      PROVE  Backed'
  BY <1>4, JoinKeepsShares, LeaveKeepsShares
<1>5. CASE StartBatch
  <2>1. /\ ~Started /\ totalDeposited > 0 /\ shares' = shares
    BY <1>5 DEF StartBatch, Started, vaultSystemVars
  <2>2. QED
    BY <2>1, StakeIsBacked DEF Backed
<1>6. ASSUME NEW u \in Users, NEW i \in Options, CastVote(u, i) PROVE Backed'
  BY <1>2, <1>6 DEF CastVote, vaultSystemVars, Started
<1>7. CASE SettleUsersWon
  <2>1. totalDeposited' = totalDeposited /\ Started
    BY <1>7 DEF SettleUsersWon, ProofAccepted, stakeVars, Started
  <2>2. shares'[Batch] \in Nat /\ shares[Batch] <= shares'[Batch]
    BY <1>1, <1>7, WinAddsShares
  <2>3. QED
    BY <1>1, <2>1, <2>2 DEF Backed
<1>8. ASSUME NEW u \in Users, ClaimEffect(u) PROVE Backed'
  <2> DEFINE s == ClaimShares(u)
  <2>1. /\ CanClaim(u)
        /\ s > 0 => VaultWithdraw(Batch, s)
        /\ ~(s > 0) => UNCHANGED vaultVars
        /\ totalDeposited' = totalDeposited - pos[u].deposited
        /\ UNCHANGED status
    BY <1>8, Zenon DEF ClaimEffect
  <2>2. /\ s \in Nat /\ ShareOf(u) \in Nat /\ s <= ShareOf(u)
        /\ pos[u].deposited < totalDeposited /\ shares[Batch] > 0
              => ShareOf(u) < shares[Batch]
    BY <1>1, <2>1, ClaimBounds
  <2>3. pos[u].deposited \in Nat /\ pos[u].deposited <= totalDeposited /\ status = "Settled"
    BY <1>1, <2>1, PositionType DEF CanClaim
  <2> HIDE DEF s
  <2>4. shares'[Batch] = shares[Batch] - s
    <3>1. CASE s > 0
      BY <1>1, <2>1, <3>1 DEF VaultWithdraw, VaultTypeOK
    <3>2. CASE s = 0
      BY <1>1, <2>1, <2>2, <3>2 DEF vaultVars
    <3>3. QED
      BY <2>2, <3>1, <3>2
  <2>5. ASSUME totalDeposited' > 0
        PROVE  shares'[Batch] > 0
    <3>1. pos[u].deposited < totalDeposited /\ totalDeposited > 0
      BY <1>1, <2>1, <2>3, <2>5
    <3>2. shares[Batch] > 0
      BY <2>3, <3>1 DEF Backed, Started
    <3>3. s < shares[Batch]
      BY <1>1, <2>2, <3>1, <3>2
    <3>4. QED
      BY <1>1, <2>2, <2>4, <3>3
  <2>6. QED
    BY <2>5 DEF Backed
<1>9. CASE ClaimOperatorYield
  <2> DEFINE s == OperatorShares
             T == totalDeposited * totalShares
  <2>1. /\ VaultWithdraw(Batch, s)
        /\ totalShares > 0 /\ shares[Batch] > 0 /\ YieldAmount > 0
        /\ UNCHANGED batchVars
    BY <1>9, Zenon DEF ClaimOperatorYield
  <2>2. s \in Nat /\ s * totalUnderlying + T <= shares[Batch] * totalUnderlying
    BY <2>1, OperatorBounds
  <2> HIDE DEF s
  <2>3. shares'[Batch] = shares[Batch] - s
    BY <1>1, <2>1 DEF VaultWithdraw, VaultTypeOK
  <2>4. ASSUME totalDeposited > 0 PROVE s < shares[Batch]
    <3>1. totalShares \in Nat \ {0} /\ totalUnderlying \in Nat
      BY <2>1 DEF TypeOK, VaultTypeOK
    <3>2. T \in Nat /\ T > 0
      BY <1>1, <2>4, <3>1
    <3>3. s * totalUnderlying \in Nat /\ shares[Batch] * totalUnderlying \in Nat
      BY <1>1, <2>2, <3>1
    <3> HIDE DEF T
    <3>4. s * totalUnderlying < shares[Batch] * totalUnderlying
      BY <2>2, <3>2, <3>3
    <3>5. QED
      BY <1>1, <2>2, <3>1, <3>4, ProductCancel
  <2>5. totalDeposited' = totalDeposited
    BY <2>1 DEF batchVars, stakeVars
  <2>6. QED
    BY <1>1, <2>2, <2>3, <2>4, <2>5 DEF Backed
<1>10. CASE OthersUseVault
  BY <1>1, <1>2, <1>10, OthersLeaveTheBatch DEF OthersUseVault, batchVars, stakeVars, Started
<1>11. CASE QuietStep
  BY <1>2, <1>11 DEF QuietStep, vaultVars, stakeVars, Started
<1>12. QED
  BY <1>3, <1>4, <1>5, <1>6, <1>7, <1>8, <1>9, <1>10, <1>11, StepKinds DEF TypeOK

LEMMA SharesAlwaysBooked == OpenSpec => [](SharesInv /\ Backed)
<1>1. Init => SharesInv /\ Backed
  <2> SUFFICES ASSUME Init PROVE SharesInv /\ Backed
    OBVIOUS
  <2>1. \A u \in Users : Tracked[u] = 0 /\ ~(pos[u].deposited > 0) /\ ~(pos[u].shares > 0)
    BY DEF Init, ClosedPosition, Tracked
  <2>2. Total(Tracked, Users) = 0
    BY <2>1, FiniteUsers, TotalZero
  <2>3. shares[Batch] = 0 /\ ~Started
    BY AccountFacts DEF Init, VaultInit, Started
  <2>4. QED
    BY <2>1, <2>2, <2>3 DEF SharesInv, Backed
<1>2. TypeOK /\ TypeOK' /\ StakeInv /\ EntitlementBounded /\ SharesInv /\ Backed /\ [OpenNext]_vars
        => (SharesInv /\ Backed)'
  <2>1. SharesInv /\ Backed /\ UNCHANGED vars => (SharesInv /\ Backed)'
    BY DEF vars, batchVars, stakeVars, vaultSystemVars, SharesInv, Backed, Started, Tracked
  <2>2. QED
    BY <2>1, SharesStep, BackedStep
<1>3. QED
  BY <1>1, <1>2, OpenTypeCorrect, StakeAlwaysBooked, EntitlementAlwaysBounded, PTL DEF OpenSpec

-----------------------------------------------------------------------------
(***************************************************************************)
(* The books agree.                                                        *)
(***************************************************************************)
LEMMA StakeOfIsTotal ==
    ASSUME NEW S
    PROVE  StakeOf(S) = Total([u \in S |-> pos[u].deposited], S)
<1> DEFINE f == [u \in S |-> pos[u].deposited]
<1>1. ASSUME NEW h
      PROVE  [s \in SUBSET S |-> IF s = {} THEN 0 ELSE f[Pick(s)] + h[s \ {Pick(s)}]]
               = [s \in SUBSET S |->
                     IF s = {} THEN 0 ELSE pos[Pick(s)].deposited + h[s \ {Pick(s)}]]
  <2>1. \A s \in SUBSET S : s # {} => f[Pick(s)] = pos[Pick(s)].deposited
    BY PickIsMember
  <2> HIDE DEF f
  <2>2. QED
    BY <2>1
<1>2. Summed(f, S) =
        CHOOSE h : h = [s \in SUBSET S |->
                          IF s = {} THEN 0 ELSE pos[Pick(s)].deposited + h[s \ {Pick(s)}]]
  <2> HIDE DEF f
  <2>1. QED
    BY <1>1 DEF Summed, Adds
<1>3. StakeOf(S) =
        (CHOOSE h : h = [s \in SUBSET S |->
             IF s = {} THEN 0 ELSE pos[Pick(s)].deposited + h[s \ {Pick(s)}]])[S]
  BY DEF StakeOf, MapThenSumSet, MapThenFoldSet, Pick
<1>4. QED
  BY <1>2, <1>3 DEF Total

TrackedShares == MapThenSumSet(LAMBDA u : pos[u].shares, Users)

LEMMA TrackedIsTotal == TrackedShares = Total(Tracked, Users)
<1>1. ASSUME NEW h
      PROVE  [s \in SUBSET Users |-> IF s = {} THEN 0 ELSE Tracked[Pick(s)] + h[s \ {Pick(s)}]]
               = [s \in SUBSET Users |->
                     IF s = {} THEN 0 ELSE pos[Pick(s)].shares + h[s \ {Pick(s)}]]
  <2>1. \A s \in SUBSET Users : s # {} => Tracked[Pick(s)] = pos[Pick(s)].shares
    BY PickIsMember DEF Tracked
  <2>2. QED
    BY <2>1
<1>2. Summed(Tracked, Users) =
        CHOOSE h : h = [s \in SUBSET Users |->
                          IF s = {} THEN 0 ELSE pos[Pick(s)].shares + h[s \ {Pick(s)}]]
  BY <1>1 DEF Summed, Adds
<1>3. TrackedShares =
        (CHOOSE h : h = [s \in SUBSET Users |->
             IF s = {} THEN 0 ELSE pos[Pick(s)].shares + h[s \ {Pick(s)}]])[Users]
  BY DEF TrackedShares, MapThenSumSet, MapThenFoldSet, Pick
<1>4. QED
  BY <1>2, <1>3 DEF Total

\* The stake of a set of users is the sum over all users of a function that
\* is their stake there and 0 elsewhere.
LEMMA StakeOfPart ==
    ASSUME StakeTypeOK, NEW S \in SUBSET Users, NEW g,
           \A u \in S : g[u] = pos[u].deposited,
           \A u \in Users \ S : g[u] = 0
    PROVE  StakeOf(S) = Total(g, Users)
<1> DEFINE f == [u \in S |-> pos[u].deposited]
           h == [u \in Users |-> pos[u].deposited]
<1>1. Total(f, S) = Total(h, S)
  <2>1. \A u \in S : f[u] = h[u]
    OBVIOUS
  <2> HIDE DEF f, h
  <2>2. QED
    BY <2>1, TotalSame
<1>2. Total(g, Users) = Total(h, S)
  <2>1. /\ \A u \in Users : h[u] \in Nat
        /\ \A u \in S : g[u] = h[u]
    BY PositionType
  <2> HIDE DEF h
  <2>2. QED
    BY <2>1, FiniteUsers, TotalPart
<1>3. QED
  BY <1>1, <1>2, StakeOfIsTotal

LEMMA OpenBooks == OpenSpec => []BooksAgree
<1>1. TypeOK /\ StakeInv /\ SharesInv /\ SharesAddUp => BooksAgree
  <2> SUFFICES ASSUME TypeOK, StakeInv, SharesInv, SharesAddUp
               PROVE  BooksAgree
    OBVIOUS
  <2>1. StakeIsBooked
    <3>1. StakeTypeOK
      BY DEF TypeOK
    <3>2. /\ Unclaimed \in SUBSET Users
          /\ \A u \in Unclaimed : Staked[u] = pos[u].deposited
          /\ \A u \in Users \ Unclaimed : Staked[u] = 0
      BY DEF Unclaimed, Staked
    <3>3. StakeOf(Unclaimed) = Total(Staked, Users)
      BY <3>1, <3>2, StakeOfPart
    <3>4. QED
      BY <3>3 DEF StakeInv, StakeIsBooked, Stakers
  <2>2. SharesAreBooked
    BY TrackedIsTotal DEF SharesInv, Started, SharesAreBooked, TrackedShares
  <2>3. SharesAreOwned
    BY SharesIssuedIsTotal DEF SharesAddUp, SharesAreOwned
  <2>4. QED
    BY <2>1, <2>2, <2>3 DEF BooksAgree
<1>2. QED
  BY <1>1, OpenTypeCorrect, StakeAlwaysBooked, SharesAlwaysBooked, VaultAddsUpWithBatches, PTL

\* However users join, top up, leave and claim, and whatever is settled in
\* between: the stakes add up to total_deposited, the participants are those
\* with stake, and the tracked shares are the batch's own.
THEOREM BooksAlwaysAgree == Spec => []BooksAgree
  BY OpenBooks, SpecIsOpen

-----------------------------------------------------------------------------
(***************************************************************************)
(* Claims.                                                                 *)
(***************************************************************************)
LEMMA StakerCanClaim ==
    ASSUME TypeOK, StakeInv, SharesAddUp, VaultSafe, Backed, status = "Settled",
           NEW u \in Users, pos[u].deposited > 0, ~pos[u].claimed
    PROVE  CanClaim(u)
<1>1. StakeTypeOK /\ VaultTypeOK /\ Batch \in Depositors
  BY AccountFacts DEF TypeOK
<1>2. pos[u].deposited \in Nat /\ totalDeposited \in Nat /\ shares[Batch] \in Nat
      /\ totalShares \in Nat /\ totalUnderlying \in Nat
  BY <1>1, PositionType DEF VaultTypeOK
<1>3. pos[u].deposited <= totalDeposited
  <2>1. \A v \in Users : Staked[v] \in Nat
    BY <1>1, StakedType
  <2>2. Staked[u] <= Total(Staked, Users)
    BY <2>1, FiniteUsers, TotalAbove
  <2>3. QED
    BY <2>2 DEF StakeInv, Staked
<1>4. totalDeposited > 0
  BY <1>2, <1>3
<1>5. shares[Batch] > 0 /\ shares[Batch] <= totalShares
  BY <1>1, <1>4, SharesBelowTotal DEF Backed, Started
<1>6. totalShares > 0 /\ totalUnderlying > 0
  BY <1>2, <1>5 DEF VaultSafe, PriceAtLeastOne
<1>7. QED
  BY <1>3, <1>4, <1>6 DEF CanClaim

\* Whatever part of the batch's position is redeemed, the vault pays it.
LEMMA BatchIsPaid ==
    ASSUME VaultTypeOK, SharesAddUp, VaultSafe,
           NEW s \in Nat, s > 0, s <= shares[Batch]
    PROVE  CanWithdraw(Batch, s) /\ CanPay(tok, VaultAcct, Worth(s))
<1>1. shares[Batch] \in Nat /\ Batch \in Depositors
  BY AccountFacts DEF VaultTypeOK
<1>2. s \in 1..shares[Batch]
  BY <1>1
<1>3. CanWithdraw(Batch, s)
  BY <1>1, <1>2, PartIsRedeemable DEF VaultSafe
<1>4. tok[VaultAcct] = totalUnderlying /\ Worth(s) <= totalUnderlying
  BY <1>3 DEF CanWithdraw, VaultSafe, UnderlyingIsHeld
<1>5. Worth(s) \in Nat /\ totalUnderlying \in Nat
  <2>1. totalShares \in Nat \ {0} /\ totalUnderlying \in Nat /\ s <= totalShares
    BY <1>3 DEF CanWithdraw, VaultTypeOK
  <2>2. QED
    BY <2>1, WorthBounds
<1>6. QED
  BY <1>3, <1>4, <1>5 DEF CanPay

LEMMA OpenClaims == OpenSpec => []ClaimNeverFails
<1>1. TypeOK /\ StakeInv /\ SharesAddUp /\ VaultSafe /\ Backed => ClaimNeverFails
  <2> SUFFICES ASSUME TypeOK, StakeInv, SharesAddUp, VaultSafe, Backed,
                      status = "Settled", NEW u \in Users,
                      pos[u].deposited > 0, ~pos[u].claimed
               PROVE  /\ CanClaim(u)
                      /\ ClaimShares(u) > 0 =>
                            /\ CanWithdraw(Batch, ClaimShares(u))
                            /\ CanPay(tok, VaultAcct, Worth(ClaimShares(u)))
    BY DEF ClaimNeverFails
  <2>1. CanClaim(u)
    BY StakerCanClaim
  <2>2. StakeTypeOK /\ VaultTypeOK /\ shares[Batch] \in Nat
    BY AccountFacts DEF TypeOK, VaultTypeOK
  <2>3. ClaimShares(u) \in Nat /\ ClaimShares(u) <= shares[Batch]
    <3>1. /\ ClaimShares(u) \in Nat /\ ShareOf(u) \in Nat
          /\ ClaimShares(u) <= ShareOf(u) /\ ShareOf(u) <= shares[Batch]
      BY <2>1, <2>2, ClaimBounds
    <3>2. QED
      BY <2>2, <3>1
  <2>4. QED
    BY <2>1, <2>2, <2>3, BatchIsPaid
<1>2. OpenSpec => []VaultSafe
  BY OpenVault DEF VaultSafe
<1>3. QED
  BY <1>1, <1>2, OpenTypeCorrect, StakeAlwaysBooked, SharesAlwaysBooked,
     VaultAddsUpWithBatches, PTL

\* In a settled batch nobody's claim fails, in whatever order the users and
\* the operator claim and whatever others do with the vault.
THEOREM ClaimsNeverFail == Spec => []ClaimNeverFails
  BY OpenClaims, SpecIsOpen

(***************************************************************************)
(* The four roundings of a claim, each by less than its divisor.  The      *)
(* names are those of the code: part is the pro-rata part in shares, w its *)
(* worth, und that worth capped at the principal, s the shares redeemed.   *)
(***************************************************************************)
LEMMA RoundingChain ==
    ASSUME NEW T \in Nat \ {0}, NEW TS \in Nat \ {0}, NEW U \in Nat \ {0},
           NEW B \in Nat, NEW d \in Nat, NEW due \in Nat, NEW part \in Nat,
           NEW w \in Nat, NEW und \in Nat, NEW s \in Nat, NEW paid \in Nat,
           due <= d, due * (T * TS) <= B * d * U,
           B * d < part * T + T,
           part * U < w * TS + TS,
           und = w \/ und = d,
           und * TS < s * U + U,
           s * U < paid * TS + TS
    PROVE  due * TS <= paid * TS + 2 * U + 2 * TS
<1>1. due * TS < part * U + U
  <2>1. (B * d) * U < (part * T + T) * U
    <3>1. B * d \in Nat /\ part * T + T \in Nat
      OBVIOUS
    <3>2. QED
      BY <3>1
  <2>2. (part * T + T) * U = (part * U + U) * T
    OBVIOUS
  <2>3. due * (T * TS) = (due * TS) * T
    OBVIOUS
  <2>4. B * d * U = (B * d) * U
    OBVIOUS
  <2>5. /\ (due * TS) * T \in Nat /\ (B * d) * U \in Nat /\ (part * U + U) * T \in Nat
        /\ due * TS \in Nat /\ part * U + U \in Nat
    OBVIOUS
  <2>6. (due * TS) * T < (part * U + U) * T
    BY <2>1, <2>2, <2>3, <2>4, <2>5
  <2>7. QED
    BY <2>5, <2>6, ProductCancel
<1>2. /\ due * TS \in Nat /\ part * U \in Nat /\ w * TS \in Nat /\ und * TS \in Nat
      /\ s * U \in Nat /\ paid * TS \in Nat /\ d * TS \in Nat
  OBVIOUS
<1>3. CASE und = w
  BY <1>1, <1>2, <1>3
<1>4. CASE und = d
  <2>1. due * TS <= d * TS
    BY ProductMonotone
  <2>2. QED
    BY <1>2, <1>4, <2>1
<1>5. QED
  BY <1>3, <1>4

LEMMA ClaimLoses ==
    ASSUME VaultTypeOK, StakeTypeOK, NEW u \in Users, CanClaim(u)
    PROVE  LET d   == pos[u].deposited
               due == SmallerOf(d, (shares[Batch] * d * totalUnderlying)
                                      \div (totalDeposited * totalShares))
           IN  due * totalShares <= Payout(u) * totalShares + 2 * totalUnderlying + 2 * totalShares
<1> DEFINE d == pos[u].deposited
           B == shares[Batch]
           T == totalDeposited
           TS == totalShares
           U == totalUnderlying
           q == (B * d * U) \div (T * TS)
           due == SmallerOf(d, q)
           part == ShareOf(u)
           w == Worth(part)
           und == SmallerOf(w, d)
           s == ClaimShares(u)
           paid == Payout(u)
<1>1. /\ d \in Nat /\ T \in Nat \ {0} /\ TS \in Nat \ {0} /\ U \in Nat \ {0} /\ B \in Nat
  BY PositionType, AccountFacts DEF CanClaim, VaultTypeOK
<1>2. part \in Nat /\ B * d < part * T + T
  <2>1. B * d \in Nat
    BY <1>1
  <2>2. QED
    BY <1>1, <2>1, DivBounds DEF ShareOf
<1>3. s \in Nat
  BY ClaimBounds
<1>4. s = (und * TS) \div U
  BY DEF ClaimShares, ShareOf
<1>5. paid = IF s > 0 THEN Worth(s) ELSE 0
  BY DEF Payout
<1> HIDE DEF part, s, paid
<1>6. w \in Nat /\ part * U < w * TS + TS
  <2>1. part * U \in Nat
    BY <1>1, <1>2
  <2>2. QED
    BY <1>1, <2>1, DivBounds DEF Worth
<1> HIDE DEF w
<1>7. und \in Nat /\ (und = w \/ und = d)
  BY <1>1, <1>6 DEF SmallerOf
<1> HIDE DEF und
<1>8. und * TS < s * U + U
  <2>1. und * TS \in Nat
    BY <1>1, <1>7
  <2>2. QED
    BY <1>1, <1>4, <2>1, DivBounds
<1>9. paid \in Nat /\ s * U < paid * TS + TS
  <2>1. CASE s > 0
    <3>1. s * U \in Nat
      BY <1>1, <1>3
    <3>2. QED
      BY <1>1, <1>5, <2>1, <3>1, DivBounds DEF Worth
  <2>2. CASE s = 0
    BY <1>1, <1>5, <2>2
  <2>3. QED
    BY <1>3, <2>1, <2>2
<1>10. due \in Nat /\ due <= d /\ due * (T * TS) <= B * d * U
  <2>1. B * d * U \in Nat /\ T * TS \in Nat \ {0}
    BY <1>1
  <2>2. q \in Nat /\ q * (T * TS) <= B * d * U
    BY <2>1, DivBounds
  <2> HIDE DEF q
  <2>3. due \in Nat /\ due <= d /\ due <= q
    BY <1>1, <2>2 DEF SmallerOf
  <2> HIDE DEF due
  <2>4. due * (T * TS) <= q * (T * TS)
    BY <2>1, <2>2, <2>3, ProductMonotone
  <2>5. due * (T * TS) \in Nat /\ q * (T * TS) \in Nat
    BY <2>1, <2>2, <2>3
  <2>6. QED
    BY <2>1, <2>2, <2>3, <2>4, <2>5
<1> HIDE DEF due, d, B, T, TS, U
<1>11. due * TS <= paid * TS + 2 * U + 2 * TS
  BY <1>1, <1>2, <1>3, <1>6, <1>7, <1>8, <1>9, <1>10, RoundingChain
<1>12. QED
  BY <1>11 DEF due, d, B, T, TS, U, paid

LEMMA OpenClaimLoss == OpenSpec => []ClaimLossIsRounding
<1>1. TypeOK => ClaimLossIsRounding
  BY ClaimLoses DEF TypeOK, ClaimLossIsRounding, Payout
<1>2. QED
  BY <1>1, OpenTypeCorrect, PTL

\* A claim is short of the user's part of the position by rounding only: less
\* than two shares and two base units.
THEOREM ClaimsLoseRoundingOnly == Spec => []ClaimLossIsRounding
  BY OpenClaimLoss, SpecIsOpen

-----------------------------------------------------------------------------
(***************************************************************************)
(* Coverage.                                                               *)
(***************************************************************************)
\* A step after which the batch's shares per unclaimed base unit, and the
\* price of a share, are no lower.
LEMMA CoverageRises ==
    ASSUME NEW B \in Nat, NEW T \in Nat, NEW TS \in Nat, NEW U \in Nat,
           NEW B2 \in Nat, NEW T2 \in Nat, NEW TS2 \in Nat, NEW U2 \in Nat,
           B <= TS, TS2 > 0,
           B * T2 <= B2 * T,
           TS > 0 => U * TS2 <= U2 * TS
    PROVE  B2 * U2 * (T * TS) >= B * U * (T2 * TS2)
<1>1. CASE TS = 0
  <2>1. B = 0
    BY <1>1
  <2>2. B * U * (T2 * TS2) = 0
    BY <2>1
  <2>3. B2 * U2 * (T * TS) \in Nat
    OBVIOUS
  <2>4. QED
    BY <2>2, <2>3
<1>2. CASE TS > 0
  <2>1. (B * T2) * (U * TS2) <= (B2 * T) * (U * TS2)
    <3>1. B * T2 \in Nat /\ B2 * T \in Nat /\ U * TS2 \in Nat
      OBVIOUS
    <3>2. QED
      BY <3>1, ProductMonotone
  <2>2. (U * TS2) * (B2 * T) <= (U2 * TS) * (B2 * T)
    <3>1. U2 * TS \in Nat /\ B2 * T \in Nat /\ U * TS2 \in Nat
      OBVIOUS
    <3>2. QED
      BY <1>2, <3>1, ProductMonotone
  <2>3. (B * T2) * (U * TS2) = B * U * (T2 * TS2)
    OBVIOUS
  <2>4. (U2 * TS) * (B2 * T) = B2 * U2 * (T * TS)
    OBVIOUS
  <2>5. (B2 * T) * (U * TS2) = (U * TS2) * (B2 * T)
    OBVIOUS
  <2>6. /\ (B * T2) * (U * TS2) \in Nat /\ (B2 * T) * (U * TS2) \in Nat
        /\ (U2 * TS) * (B2 * T) \in Nat
    OBVIOUS
  <2>7. QED
    BY <2>1, <2>2, <2>3, <2>4, <2>5, <2>6
<1>3. QED
  BY <1>1, <1>2

\* The principal stays covered when the position covers it at the old price.
LEMMA CoverageKept ==
    ASSUME NEW B2 \in Nat, NEW T \in Nat, NEW TS \in Nat \ {0}, NEW U \in Nat,
           NEW TS2 \in Nat, NEW U2 \in Nat,
           T * TS <= B2 * U,
           U * TS2 <= U2 * TS
    PROVE  B2 * U2 >= T * TS2
<1>1. (T * TS) * TS2 <= (B2 * U) * TS2
  <2>1. T * TS \in Nat /\ B2 * U \in Nat
    OBVIOUS
  <2>2. QED
    BY <2>1, ProductMonotone
<1>2. (U * TS2) * B2 <= (U2 * TS) * B2
  <2>1. U * TS2 \in Nat /\ U2 * TS \in Nat
    OBVIOUS
  <2>2. QED
    BY <2>1, ProductMonotone
<1>3. /\ (T * TS) * TS2 = (T * TS2) * TS
      /\ (B2 * U) * TS2 = (U * TS2) * B2
      /\ (U2 * TS) * B2 = (B2 * U2) * TS
  OBVIOUS
<1>4. /\ (T * TS2) * TS \in Nat /\ (U * TS2) * B2 \in Nat /\ (B2 * U2) * TS \in Nat
      /\ T * TS2 \in Nat /\ B2 * U2 \in Nat
  OBVIOUS
<1>5. (T * TS2) * TS <= (B2 * U2) * TS
  BY <1>1, <1>2, <1>3, <1>4
<1>6. QED
  BY <1>4, <1>5, Cancel

CoverageStep ==
    (status \notin {"None", "Lobby"} /\ totalDeposited' > 0 /\ totalShares' > 0) =>
         \/ shares'[Batch] * totalUnderlying' >= totalDeposited' * totalShares'
         \/ shares'[Batch] * totalUnderlying' * (totalDeposited * totalShares)
               >= shares[Batch] * totalUnderlying * (totalDeposited' * totalShares')

\* A claim leaves those who stay their part of the batch's shares: it redeems
\* no more of the position than it takes off the unclaimed principal.
LEMMA ClaimKeepsPart ==
    ASSUME VaultTypeOK, StakeTypeOK, NEW u \in Users, ClaimEffect(u)
    PROVE  /\ shares'[Batch] \in Nat /\ shares'[Batch] <= shares[Batch]
           /\ shares[Batch] * totalDeposited' <= shares'[Batch] * totalDeposited
<1> DEFINE s == ClaimShares(u)
           d == pos[u].deposited
           B == shares[Batch]
<1>1. B \in Nat /\ d \in Nat /\ totalDeposited \in Nat /\ Batch \in Depositors
  BY AccountFacts, PositionType DEF VaultTypeOK, StakeTypeOK
<1>2. /\ CanClaim(u) /\ d <= totalDeposited
      /\ s > 0 => VaultWithdraw(Batch, s)
      /\ ~(s > 0) => UNCHANGED vaultVars
      /\ totalDeposited' = totalDeposited - d
  BY Zenon DEF ClaimEffect, CanClaim
<1>3. /\ s \in Nat /\ ShareOf(u) \in Nat /\ s <= ShareOf(u)
      /\ ShareOf(u) * totalDeposited <= B * d /\ ShareOf(u) <= B
  BY <1>2, ClaimBounds
<1> HIDE DEF s, d
<1>4. shares'[Batch] = B - s /\ s <= B
  <2>1. CASE s > 0
    BY <1>1, <1>2, <1>3, <2>1 DEF VaultWithdraw, VaultTypeOK
  <2>2. CASE s = 0
    BY <1>1, <1>2, <1>3, <2>2 DEF vaultVars
  <2>3. QED
    BY <1>1, <1>3, <2>1, <2>2
<1> HIDE DEF B
<1>5. s * totalDeposited <= B * d
  <2>1. s * totalDeposited <= ShareOf(u) * totalDeposited
    BY <1>1, <1>3, ProductMonotone
  <2>2. /\ s * totalDeposited \in Nat /\ ShareOf(u) * totalDeposited \in Nat
        /\ B * d \in Nat
    BY <1>1, <1>3
  <2>3. QED
    BY <1>3, <2>1, <2>2
<1>6. /\ B * totalDeposited' = B * totalDeposited - B * d
      /\ shares'[Batch] * totalDeposited = B * totalDeposited - s * totalDeposited
  BY <1>1, <1>2, <1>3, <1>4
<1>7. B * totalDeposited \in Nat /\ B * d \in Nat /\ s * totalDeposited \in Nat
  BY <1>1, <1>3
<1>8. B * totalDeposited' <= shares'[Batch] * totalDeposited
  BY <1>5, <1>6, <1>7
<1>9. QED
  BY <1>1, <1>3, <1>4, <1>8 DEF B

LEMMA CoverageHolds ==
    ASSUME TypeOK, TypeOK', SharesAddUp, VaultSafe, EntitlementBounded, OpenNext
    PROVE  CoverageStep
<1> SUFFICES ASSUME Started, totalDeposited' > 0, totalShares' > 0
             PROVE  \/ shares'[Batch] * totalUnderlying' >= totalDeposited' * totalShares'
                    \/ shares'[Batch] * totalUnderlying' * (totalDeposited * totalShares)
                          >= shares[Batch] * totalUnderlying * (totalDeposited' * totalShares')
  BY DEF CoverageStep, Started
<1>1. /\ StakeTypeOK /\ VaultTypeOK /\ Batch \in Depositors
      /\ shares[Batch] \in Nat /\ totalDeposited \in Nat
      /\ totalShares \in Nat /\ totalUnderlying \in Nat
      /\ shares'[Batch] \in Nat /\ totalDeposited' \in Nat
      /\ totalShares' \in Nat /\ totalUnderlying' \in Nat
      /\ shares[Batch] <= totalShares
  BY AccountFacts, SharesBelowTotal DEF TypeOK, VaultTypeOK, StakeTypeOK
<1>2. totalShares > 0 => totalUnderlying * totalShares' <= totalUnderlying' * totalShares
  BY CoreVaultStep DEF PriceStep
<1>3. ASSUME shares[Batch] * totalDeposited' <= shares'[Batch] * totalDeposited
      PROVE  shares'[Batch] * totalUnderlying' * (totalDeposited * totalShares)
               >= shares[Batch] * totalUnderlying * (totalDeposited' * totalShares')
  BY <1>1, <1>2, <1>3, CoverageRises
<1>4. ASSUME totalDeposited' = totalDeposited, shares[Batch] <= shares'[Batch]
      PROVE  shares[Batch] * totalDeposited' <= shares'[Batch] * totalDeposited
  BY <1>1, <1>4, ProductMonotone
<1>5. CASE InitializeBatch \/ StartBatch
  BY <1>5 DEF InitializeBatch, StartBatch, Started
<1>6. ASSUME NEW u \in Users, NEW a \in Stakes, JoinBatch(u, a) \/ LeaveBatch(u, a)
      PROVE  FALSE
  BY <1>6, Zenon DEF JoinBatch, LeaveBatch, Started
<1>7. ASSUME NEW u \in Users, NEW i \in Options, CastVote(u, i)
      PROVE  shares[Batch] * totalDeposited' <= shares'[Batch] * totalDeposited
  <2>1. totalDeposited' = totalDeposited /\ shares' = shares
    BY <1>7 DEF CastVote, vaultSystemVars
  <2>2. QED
    BY <1>1, <1>4, <2>1
<1>8. CASE SettleUsersWon
  <2>1. totalDeposited' = totalDeposited /\ shares[Batch] <= shares'[Batch]
    BY <1>1, <1>8, WinAddsShares DEF SettleUsersWon, stakeVars
  <2>2. QED
    BY <1>3, <1>4, <2>1
<1>9. ASSUME NEW u \in Users, ClaimEffect(u)
      PROVE  shares[Batch] * totalDeposited' <= shares'[Batch] * totalDeposited
  BY <1>1, <1>9, ClaimKeepsPart
<1>10. CASE ClaimOperatorYield
  <2> DEFINE s == OperatorShares
             T == totalDeposited * totalShares
  <2>1. /\ VaultWithdraw(Batch, s)
        /\ totalShares > 0 /\ shares[Batch] > 0 /\ YieldAmount > 0
        /\ UNCHANGED batchVars
    BY <1>10, Zenon DEF ClaimOperatorYield
  <2>2. s \in Nat /\ s * totalUnderlying + T <= shares[Batch] * totalUnderlying
    BY <2>1, OperatorBounds
  <2> HIDE DEF s
  <2>3. shares'[Batch] = shares[Batch] - s /\ totalDeposited' = totalDeposited
    BY <1>1, <2>1 DEF VaultWithdraw, VaultTypeOK, batchVars, stakeVars
  <2>4. shares'[Batch] * totalUnderlying
          = shares[Batch] * totalUnderlying - s * totalUnderlying
    BY <1>1, <2>2, <2>3
  <2>5. T \in Nat /\ s * totalUnderlying \in Nat /\ shares[Batch] * totalUnderlying \in Nat
    BY <1>1, <2>2
  <2>6. T <= shares'[Batch] * totalUnderlying
    <3> HIDE DEF T
    <3>1. QED
      BY <2>2, <2>4, <2>5
  <2>7. shares'[Batch] * totalUnderlying' >= totalDeposited * totalShares'
    <3>1. totalShares \in Nat \ {0}
      BY <1>1, <2>1
    <3>2. totalUnderlying * totalShares' <= totalUnderlying' * totalShares
      BY <1>2, <2>1
    <3>3. totalDeposited * totalShares <= shares'[Batch] * totalUnderlying
      BY <2>6
    <3>4. QED
      BY <1>1, <3>1, <3>2, <3>3, CoverageKept
  <2>8. QED
    BY <2>3, <2>7
<1>11. CASE OthersUseVault
  <2>1. totalDeposited' = totalDeposited /\ shares'[Batch] = shares[Batch]
    BY <1>1, <1>11, OthersLeaveTheBatch DEF OthersUseVault, batchVars, stakeVars
  <2>2. QED
    BY <1>1, <1>3, <1>4, <2>1
<1>12. CASE QuietStep
  <2>1. totalDeposited' = totalDeposited /\ shares'[Batch] = shares[Batch]
    BY <1>12 DEF QuietStep, vaultVars, stakeVars
  <2>2. QED
    BY <1>1, <1>3, <1>4, <2>1
<1>13. QED
  BY <1>3, <1>5, <1>6, <1>7, <1>8, <1>9, <1>10, <1>11, <1>12, StepKinds DEF TypeOK

LEMMA OpenCoverage == OpenSpec => CoverageNeverFalls
<1>1. TypeOK /\ TypeOK' /\ SharesAddUp /\ VaultSafe /\ EntitlementBounded /\ [OpenNext]_vars
        => [CoverageStep]_vars
  BY CoverageHolds
<1>2. OpenSpec => []VaultSafe
  BY OpenVault DEF VaultSafe
<1>3. QED
  BY <1>1, <1>2, OpenTypeCorrect, VaultAddsUpWithBatches, EntitlementAlwaysBounded, PTL
  DEF OpenSpec, CoverageNeverFalls, CoverageStep

\* No step lowers the part of the unclaimed principal the position covers,
\* unless all of it stays covered.
THEOREM CoverageIsKept == Spec => CoverageNeverFalls
  BY OpenCoverage, SpecIsOpen

-----------------------------------------------------------------------------
(***************************************************************************)
(* The votes.                                                              *)
(***************************************************************************)
\* The stake behind option i in this round.
VotesFor(i) ==
    [u \in Users |-> IF VotedThisRound(u) /\ pos[u].voteIndex = i THEN pos[u].deposited ELSE 0]

VoteInv ==
    /\ ~Started => voteWeights = NoVotes
    /\ \A i \in Options : voteWeights[i] <= Total(VotesFor(i), Users)

LEMMA VotesType ==
    ASSUME StakeTypeOK, NEW i \in Options
    PROVE  /\ \A u \in Users : VotesFor(i)[u] \in Nat
           /\ Total(VotesFor(i), Users) \in Nat
<1>1. \A u \in Users : VotesFor(i)[u] \in Nat
  BY PositionType DEF VotesFor
<1>2. QED
  BY <1>1, FiniteUsers, TotalType

LEMMA VotesTypeNext ==
    ASSUME StakeTypeOK', NEW i \in Options
    PROVE  /\ \A u \in Users : VotesFor(i)'[u] \in Nat
           /\ Total(VotesFor(i)', Users) \in Nat
<1>1. \A u \in Users : VotesFor(i)'[u] \in Nat
  BY DEF StakeTypeOK, Position, VotesFor
<1>2. QED
  BY <1>1, FiniteUsers, TotalType

\* A cleared ballot is in order, and one that nobody touches stays so.
LEMMA ClearedVotes ==
    ASSUME StakeTypeOK', voteWeights' = NoVotes
    PROVE  VoteInv'
<1>1. \A i \in Options : voteWeights'[i] = 0 /\ Total(VotesFor(i)', Users) \in Nat
  BY VotesTypeNext DEF NoVotes
<1>2. QED
  BY <1>1 DEF VoteInv

LEMMA SameVotes ==
    ASSUME VoteInv, UNCHANGED <<voteWeights, betsCompleted>>, Started => Started',
           \A u \in Users : /\ pos'[u].hasVoted = pos[u].hasVoted
                            /\ pos'[u].votedRound = pos[u].votedRound
                            /\ pos'[u].voteIndex = pos[u].voteIndex
                            /\ pos'[u].deposited = pos[u].deposited
    PROVE  VoteInv'
<1>1. ASSUME NEW i \in Options
      PROVE  voteWeights'[i] <= Total(VotesFor(i)', Users)
  <2>1. \A u \in Users : VotesFor(i)[u] = VotesFor(i)'[u]
    BY DEF VotesFor, VotedThisRound
  <2>2. Total(VotesFor(i), Users) = Total(VotesFor(i)', Users)
    BY <2>1, TotalSame
  <2>3. QED
    BY <2>2 DEF VoteInv
<1>2. QED
  BY <1>1 DEF VoteInv

\* A vote takes the voter's stake from the option it was on, if it was cast
\* in this round, and adds it to the new one.
LEMMA CastVoteCounts ==
    ASSUME TypeOK, TypeOK', VoteInv, NEW u \in Users, NEW i \in Options, CastVote(u, i)
    PROVE  VoteInv'
<1> DEFINE d == pos[u].deposited
           j == pos[u].voteIndex
<1>1. StakeTypeOK /\ StakeTypeOK' /\ voteWeights \in [Options -> Nat]
      /\ d \in Nat /\ j \in Options
  BY PositionType DEF TypeOK, RoundTypeOK
<1>2. /\ pos' = [pos EXCEPT ![u] = Voted(u, i)]
      /\ voteWeights' = [Unvoted(u) EXCEPT ![i] = @ + d]
      /\ betsCompleted' = betsCompleted
      /\ Started /\ Started'
  BY DEF CastVote, tallyVars, Started
<1>3. /\ \A v \in Users \ {u} : pos'[v] = pos[v]
      /\ pos'[u].deposited = d /\ pos'[u].voteIndex = i
      /\ VotedThisRound(u)'
  BY <1>1, <1>2 DEF StakeTypeOK, Position, Voted, VotedThisRound
<1> HIDE DEF d, j
<1>4. ASSUME NEW k \in Options
      PROVE  voteWeights'[k] <= Total(VotesFor(k)', Users)
  <2> DEFINE f == VotesFor(k)
             g == VotesFor(k)'
             w == voteWeights[k]
  <2>1. /\ f[u] = IF VotedThisRound(u) /\ j = k THEN d ELSE 0
        /\ g[u] = IF i = k THEN d ELSE 0
    BY <1>3 DEF VotesFor, d, j
  <2>2. /\ \A v \in Users : f[v] \in Nat /\ g[v] \in Nat
        /\ Total(f, Users) \in Nat /\ Total(g, Users) \in Nat
    BY <1>1, VotesType, VotesTypeNext
  <2>3. \A v \in Users \ {u} : f[v] = g[v]
    BY <1>2, <1>3 DEF VotesFor, VotedThisRound
  <2>4. w \in Nat /\ w <= Total(f, Users)
    BY <1>1 DEF VoteInv
  <2>5. voteWeights'[k] = (IF VotedThisRound(u) /\ j = k THEN Monus(w, d) ELSE w)
                            + (IF i = k THEN d ELSE 0)
    <3>1. Unvoted(u)[k] = IF VotedThisRound(u) /\ j = k THEN Monus(w, d) ELSE w
      BY <1>1 DEF Unvoted, d, j
    <3>2. Unvoted(u) \in [Options -> Nat]
      BY <1>1, MonusType DEF Unvoted, d, j
    <3>3. voteWeights'[k] = IF i = k THEN Unvoted(u)[k] + d ELSE Unvoted(u)[k]
      BY <1>2, <3>2
    <3>4. Unvoted(u)[k] \in Nat
      BY <3>2
    <3>5. QED
      BY <3>1, <3>3, <3>4
  <2> HIDE DEF f, g, w
  <2>6. Total(g, Users) + f[u] = Total(f, Users) + g[u] /\ f[u] <= Total(f, Users)
    BY <2>2, <2>3, FiniteUsers, TotalChange
  <2>7. CASE VotedThisRound(u) /\ j = k
    <3>1. f[u] = d /\ voteWeights'[k] = Monus(w, d) + (IF i = k THEN d ELSE 0)
      BY <2>1, <2>5, <2>7
    <3>2. Monus(w, d) + d <= Total(f, Users) /\ Monus(w, d) \in Nat
      BY <1>1, <2>2, <2>4, <2>6, <3>1 DEF Monus
    <3>3. CASE i = k
      BY <1>1, <2>1, <2>2, <2>6, <3>1, <3>2, <3>3 DEF g
    <3>4. CASE i # k
      BY <1>1, <2>1, <2>2, <2>6, <3>1, <3>2, <3>4 DEF g
    <3>5. QED
      BY <3>3, <3>4
  <2>8. CASE ~(VotedThisRound(u) /\ j = k)
    <3>1. f[u] = 0 /\ voteWeights'[k] = w + (IF i = k THEN d ELSE 0)
      BY <2>1, <2>5, <2>8
    <3>2. QED
      BY <1>1, <2>1, <2>2, <2>4, <2>6, <3>1 DEF g
  <2>9. QED
    BY <2>7, <2>8
<1>5. QED
  BY <1>2, <1>4 DEF VoteInv

LEMMA VoteStep ==
    ASSUME TypeOK, TypeOK', VoteInv, OpenNext
    PROVE  VoteInv'
<1>1. StakeTypeOK /\ StakeTypeOK'
  BY DEF TypeOK
<1>2. ASSUME UNCHANGED <<voteWeights, betsCompleted, pos>>, Started => Started'
      PROVE  VoteInv'
  BY <1>2, SameVotes
<1>3. ASSUME CompleteBet PROVE VoteInv'
  BY <1>1, <1>3, ClearedVotes DEF CompleteBet, ClearBet
<1>4. InitializeBatch => VoteInv'
  BY <1>2 DEF InitializeBatch, stakeVars, tallyVars, roundVars, Started
<1>5. ASSUME NEW u \in Users, NEW a \in Stakes, JoinBatch(u, a) \/ LeaveBatch(u, a)
      PROVE  VoteInv'
  <2>1. ~Started /\ voteWeights' = voteWeights
    BY <1>5, Zenon DEF JoinBatch, LeaveBatch, roundVars, Started
  <2>2. QED
    BY <1>1, <2>1, ClearedVotes DEF VoteInv
<1>6. StartBatch => VoteInv'
  BY <1>2 DEF StartBatch, stakeVars, tallyVars, roundVars, Started
<1>7. ASSUME NEW filled \in Slates, NEW k \in Kickoffs, ProposeMatch(filled, k)
      PROVE  VoteInv'
  BY <1>1, <1>7, ClearedVotes DEF ProposeMatch
<1>8. ASSUME NEW u \in Users, NEW i \in Options, CastVote(u, i) PROVE VoteInv'
  BY <1>8, CastVoteCounts
<1>9. FinalizeConsensus => VoteInv'
  BY <1>2 DEF FinalizeConsensus, stakeVars, tallyVars, Started
<1>10. PenalizeMissedCollateral => VoteInv'
  BY <1>1, ClearedVotes DEF PenalizeMissedCollateral, ClearBet
<1>11. ASSUME NEW x \in Overpay, DepositCollateralSkip(x) PROVE VoteInv'
  BY <1>3, <1>11 DEF DepositCollateralSkip
<1>12. ASSUME NEW o \in Odds, NEW x \in Overpay, DepositCollateralBet(o, x) PROVE VoteInv'
  BY <1>2, <1>12 DEF DepositCollateralBet, stakeVars, tallyVars, Started
<1>13. SettleUsersWon \/ SettleOperatorWon \/ SettleDefault => VoteInv'
  BY <1>3 DEF SettleUsersWon, SettleOperatorWon, SettleDefault
<1>14. ASSUME NEW u \in Users, Claim(u) \/ ClaimEffect(u) PROVE VoteInv'
  <2>1. /\ pos' = [pos EXCEPT ![u] = [@ EXCEPT !.claimed = TRUE]]
        /\ UNCHANGED <<voteWeights, betsCompleted, status>>
    BY <1>14, Zenon DEF Claim, ClaimEffect, roundVars, tallyVars
  <2>2. \A v \in Users : /\ pos'[v].hasVoted = pos[v].hasVoted
                          /\ pos'[v].votedRound = pos[v].votedRound
                          /\ pos'[v].voteIndex = pos[v].voteIndex
                          /\ pos'[v].deposited = pos[v].deposited
    BY <1>1, <2>1 DEF StakeTypeOK, Position
  <2>3. QED
    BY <2>1, <2>2, SameVotes DEF Started
<1>15. ClaimOperatorYield \/ ClockTick \/ OthersUseVault \/ TokensElsewhere => VoteInv'
  BY <1>2 DEF ClaimOperatorYield, ClockTick, OthersUseVault, TokensElsewhere, batchVars,
              stakeVars, tallyVars, roundVars, Started
<1>16. QED
  BY <1>4, <1>5, <1>6, <1>7, <1>8, <1>9, <1>10, <1>11, <1>12, <1>13, <1>14, <1>15
  DEF Next, OpenNext

LEMMA OpenVotes == OpenSpec => []NoPhantomVotes
<1>1. Init => VoteInv
  <2> SUFFICES ASSUME Init PROVE VoteInv
    OBVIOUS
  <2>1. StakeTypeOK /\ voteWeights = NoVotes
    BY TypeInit DEF Init, TypeOK
  <2>2. \A i \in Options : voteWeights[i] = 0 /\ Total(VotesFor(i), Users) \in Nat
    BY <2>1, VotesType DEF NoVotes
  <2>3. QED
    BY <2>1, <2>2 DEF VoteInv
<1>2. TypeOK /\ TypeOK' /\ VoteInv /\ [OpenNext]_vars => VoteInv'
  <2>1. VoteInv /\ UNCHANGED vars => VoteInv'
    BY SameVotes DEF vars, batchVars, stakeVars, tallyVars, roundVars, Started
  <2>2. QED
    BY <2>1, VoteStep
<1>3. TypeOK /\ VoteInv => NoPhantomVotes
  <2> SUFFICES ASSUME TypeOK, VoteInv, NEW i \in Options
               PROVE  voteWeights[i] <= StakeOf({u \in Users : VotedThisRound(u)
                                                              /\ pos[u].voteIndex = i})
    BY DEF NoPhantomVotes
  <2> DEFINE S == {u \in Users : VotedThisRound(u) /\ pos[u].voteIndex = i}
  <2>1. /\ S \in SUBSET Users
        /\ \A u \in S : VotesFor(i)[u] = pos[u].deposited
        /\ \A u \in Users \ S : VotesFor(i)[u] = 0
    BY DEF VotesFor
  <2>2. StakeOf(S) = Total(VotesFor(i), Users)
    <3> HIDE DEF S
    <3>1. QED
      BY <2>1, StakeOfPart DEF TypeOK
  <2>3. QED
    BY <2>2 DEF VoteInv
<1>4. QED
  BY <1>1, <1>2, <1>3, OpenTypeCorrect, PTL DEF OpenSpec

\* The weight of an option never exceeds the stake of those whose vote of
\* this round is for it, however often they switch.
THEOREM VotesAreNeverPhantom == Spec => []NoPhantomVotes
  BY OpenVotes, SpecIsOpen

=============================================================================
