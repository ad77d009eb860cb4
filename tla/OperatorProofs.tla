--------------------------- MODULE OperatorProofs ---------------------------
(***************************************************************************)
(* What holds of any number of operator instances: they are signers of the *)
(* program's instructions like any other, so all that is proved of the     *)
(* program holds beside them; the lock keeps them apart; and the metadata  *)
(* in Redis fits every bet they have covered.                              *)
(***************************************************************************)
EXTENDS Operator, UndegenCoreProofs

-----------------------------------------------------------------------------
(***************************************************************************)
(* Types, and the service as a signer.                                     *)
(***************************************************************************)
LEMMA GotoMoves ==
    ASSUME OperatorTypeOK, NEW o \in Instances, NEW stage \in Stages, Goto(o, stage)
    PROVE  /\ pc' \in [Instances -> Stages]
           /\ pc'[o] = stage
           /\ \A p \in Instances \ {o} : pc'[p] = pc[p]
  BY DEF OperatorTypeOK, Goto

LEMMA LandedMoves ==
    ASSUME OperatorTypeOK, NEW o \in Instances, NEW next \in Stages, Landed(o, next)
    PROVE  /\ pc' \in [Instances -> Stages]
           /\ pc'[o] \in {next, "done"}
           /\ \A p \in Instances \ {o} : pc'[p] = pc[p]
<1>1. "done" \in Stages
  BY DEF Stages, Working
<1>2. QED
  BY <1>1, GotoMoves DEF Landed

LEMMA ForgetMoves ==
    ASSUME OperatorTypeOK, NEW o \in Instances, Forget(o)
    PROVE  /\ pc' \in [Instances -> Stages]
           /\ pick' \in [Instances -> Matches]
           /\ pc'[o] = "idle"
           /\ \A p \in Instances \ {o} : pc'[p] = pc[p] /\ pick'[p] = pick[p]
<1>1. "idle" \in Stages /\ NoMatch \in Matches
  BY DEF Stages, Matches
<1>2. QED
  BY <1>1, GotoMoves DEF OperatorTypeOK, Forget

\* A match that the program accepts is one that was discovered.
LEMMA ProposedMatch ==
    ASSUME NEW match \in Matches, ProposeMatch(match.slots, match.fixture)
    PROVE  match.fixture \in Kickoffs /\ match.slots \in Slates
<1>1. match # NoMatch
  BY DEF ProposeMatch, NoMatch
<1>2. QED
  BY <1>1 DEF Matches

\* The steps of an instance that stay within the service.
Inside(o) ==
    \/ FetchBatch(o) \/ AcquireLock(o) \/ ReleaseLock(o) \/ GiveUp(o) \/ Crash(o)
    \/ HandleLobby(o) \/ HandleLocked(o) \/ HandleAwaitingCollateral(o) \/ HandleActive(o)
    \/ DiscoverMatch(o) \/ StoreMetadata(o)

LEMMA InsideLeavesChain ==
    ASSUME NEW o \in Instances, Inside(o)
    PROVE  UNCHANGED vars
  BY DEF Inside, FetchBatch, AcquireLock, ReleaseLock, GiveUp, Crash, HandleLobby,
         HandleLocked, HandleAwaitingCollateral, HandleActive, DiscoverMatch, StoreMetadata

LEMMA ServiceStepsTheProgram ==
    ASSUME OperatorTypeOK, [OperatorNext]_allVars
    PROVE  [Next]_vars
<1>1. ASSUME NEW o \in Instances, Tick(o) PROVE [Next]_vars
  <2>1. CASE Inside(o)
    BY <2>1, InsideLeavesChain
  <2>2. CASE StartBatchLands(o)
    BY <2>2 DEF StartBatchLands, Next
  <2>3. CASE ProposeMatchLands(o)
    <3>1. pick[o] \in Matches
      BY DEF OperatorTypeOK
    <3>2. QED
      BY <2>3, <3>1, ProposedMatch DEF ProposeMatchLands, Next
  <2>4. CASE FinalizeConsensusLands(o)
    BY <2>4 DEF FinalizeConsensusLands, Next
  <2>5. CASE DepositCollateralLands(o)
    BY <2>5 DEF DepositCollateralLands, Next
  <2>6. CASE SettleWithProofLands(o)
    BY <2>6 DEF SettleWithProofLands, Next
  <2>7. QED
    BY <1>1, <2>1, <2>2, <2>3, <2>4, <2>5, <2>6 DEF Tick, Inside
<1>2. LockExpires => UNCHANGED vars
  BY DEF LockExpires
<1>3. Elsewhere => Next
  BY DEF Elsewhere, Next
<1>4. UNCHANGED allVars => UNCHANGED vars
  BY DEF allVars
<1>5. QED
  BY <1>1, <1>2, <1>3, <1>4 DEF OperatorNext

LEMMA TypeStepWithService ==
    ASSUME TypeOK, OperatorTypeOK, [OperatorNext]_allVars
    PROVE  TypeOK'
<1>1. TypeOK /\ UNCHANGED vars => TypeOK'
  BY PartsUnchanged DEF vars, batchVars, TypeOK
<1>2. QED
  BY <1>1, TypeStep, ServiceStepsTheProgram DEF OpenNext

LEMMA ClockOnlyAdvances ==
    ASSUME TypeOK, [Next]_vars
    PROVE  now' \in Nat /\ now <= now'
<1> now \in Nat
  BY DEF TypeOK, LobbyTypeOK
<1>1. CASE UNCHANGED now
  BY <1>1
<1>2. CASE ClockTick
  BY <1>2 DEF ClockTick, TimePasses
<1>3. CASE InitializeBatch \/ StartBatch \/ FinalizeConsensus \/ PenalizeMissedCollateral
  BY <1>1, <1>3 DEF InitializeBatch, StartBatch, FinalizeConsensus, PenalizeMissedCollateral
<1>4. CASE SettleUsersWon \/ SettleOperatorWon \/ SettleDefault \/ ClaimOperatorYield
  BY <1>1, <1>4 DEF SettleUsersWon, SettleOperatorWon, SettleDefault, ClaimOperatorYield
<1>5. CASE OthersUseVault \/ \E u \in Users : Claim(u)
  BY <1>1, <1>5 DEF OthersUseVault, Claim
<1>6. CASE \E u \in Users, a \in Stakes : JoinBatch(u, a) \/ LeaveBatch(u, a)
  BY <1>1, <1>6 DEF JoinBatch, LeaveBatch
<1>7. CASE \/ \E u \in Users, i \in Options : CastVote(u, i)
           \/ \E filled \in Slates, k \in Kickoffs : ProposeMatch(filled, k)
  BY <1>1, <1>7 DEF CastVote, ProposeMatch
<1>8. CASE \/ \E x \in Overpay : DepositCollateralSkip(x)
           \/ \E o \in Odds, x \in Overpay : DepositCollateralBet(o, x)
  BY <1>1, <1>8 DEF DepositCollateralSkip, DepositCollateralBet
<1>9. CASE UNCHANGED vars
  BY <1>1, <1>9 DEF vars
<1>10. QED
  BY <1>2, <1>3, <1>4, <1>5, <1>6, <1>7, <1>8, <1>9 DEF Next

\* Only a lobby that is seen sets the timestamp.
LEMMA OnlyLobbiesAreSeen ==
    ASSUME NEW o \in Instances, Tick(o), ~HandleLobby(o)
    PROVE  UNCHANGED seen
  BY DEF Tick, FetchBatch, AcquireLock, ReleaseLock, GiveUp, Crash, HandleLocked,
         HandleAwaitingCollateral, HandleActive, DiscoverMatch, StoreMetadata,
         StartBatchLands, ProposeMatchLands, FinalizeConsensusLands,
         DepositCollateralLands, SettleWithProofLands

LEMMA SeenTypeStep ==
    ASSUME TypeOK, OperatorTypeOK, [OperatorNext]_allVars
    PROVE  SeenTypeOK'
<1>1. now \in Nat /\ now' \in Nat /\ now <= now'
  BY ServiceStepsTheProgram, ClockOnlyAdvances DEF TypeOK, LobbyTypeOK
<1>2. UNCHANGED seen => SeenTypeOK'
  BY <1>1 DEF OperatorTypeOK, SeenTypeOK
<1>3. seen' = {now} => SeenTypeOK'
  BY <1>1 DEF SeenTypeOK
<1>4. ASSUME NEW o \in Instances, Tick(o) PROVE seen' = {now} \/ UNCHANGED seen
  BY <1>4, OnlyLobbiesAreSeen DEF HandleLobby, Noted
<1>5. LockExpires \/ UNCHANGED operatorVars => UNCHANGED seen
  BY DEF LockExpires, operatorVars
<1>6. UNCHANGED allVars => UNCHANGED operatorVars
  BY DEF allVars
<1>7. QED
  BY <1>2, <1>3, <1>4, <1>5, <1>6 DEF OperatorNext

LEMMA HistoryTypeStep ==
    ASSUME OperatorTypeOK, [OperatorNext]_allVars
    PROVE  lost' \subseteq Instances /\ strayed' \in BOOLEAN
<1> USE DEF OperatorTypeOK
<1>1. ASSUME NEW o \in Instances, Tick(o)
      PROVE  lost' \subseteq Instances /\ strayed' \in BOOLEAN
  <2>1. lost' \subseteq lost \cup Workers
    BY <1>1 DEF Tick, FetchBatch, AcquireLock, ReleaseLock, GiveUp, Crash, HandleLobby,
                HandleLocked, HandleAwaitingCollateral, HandleActive, DiscoverMatch,
                StoreMetadata, StartBatchLands, ProposeMatchLands, FinalizeConsensusLands,
                DepositCollateralLands, SettleWithProofLands
  <2>2. CASE StoreMetadata(o) \/ DepositCollateralLands(o)
    BY <2>1, <2>2 DEF StoreMetadata, DepositCollateralLands, Workers
  <2>3. CASE ~StoreMetadata(o) /\ ~DepositCollateralLands(o)
    <3>1. UNCHANGED strayed
      BY <1>1, <2>3 DEF Tick, FetchBatch, AcquireLock, ReleaseLock, GiveUp, Crash,
                  HandleLobby, HandleLocked, HandleAwaitingCollateral, HandleActive,
                  DiscoverMatch, StartBatchLands, ProposeMatchLands,
                  FinalizeConsensusLands, SettleWithProofLands
    <3>2. QED
      BY <2>1, <3>1 DEF Workers
  <2>4. QED
    BY <2>2, <2>3
<1>2. CASE LockExpires
  BY <1>2 DEF LockExpires, Workers
<1>3. CASE UNCHANGED operatorVars
  BY <1>3 DEF operatorVars
<1>4. UNCHANGED allVars => UNCHANGED operatorVars
  BY DEF allVars
<1>5. QED
  BY <1>1, <1>2, <1>3, <1>4 DEF OperatorNext

LEMMA ServiceTypeStep ==
    ASSUME TypeOK, OperatorTypeOK, [OperatorNext]_allVars
    PROVE  OperatorTypeOK'
<1> SeenTypeOK' /\ lost' \subseteq Instances /\ strayed' \in BOOLEAN
  BY SeenTypeStep, HistoryTypeStep
<1> USE DEF OperatorTypeOK
<1>1. ASSUME NEW o \in Instances, Tick(o) PROVE OperatorTypeOK'
  <2> Working \subseteq Stages /\ {"fetched", "idle"} \subseteq Stages
    BY DEF Stages
  <2> {"locked", "starting", "discovering", "proposing", "storing",
       "finalizing", "depositing", "settling", "done"} \subseteq Stages
    BY DEF Stages, Working
  <2>1. CASE FetchBatch(o)
    BY <2>1, GotoMoves DEF FetchBatch
  <2>2. CASE AcquireLock(o)
    BY <2>2, GotoMoves, ForgetMoves DEF AcquireLock
  <2>3. CASE ReleaseLock(o) \/ Crash(o)
    BY <2>3, ForgetMoves DEF ReleaseLock, Crash
  <2>4. CASE GiveUp(o)
    BY <2>4, GotoMoves DEF GiveUp
  <2>5. CASE HandleLobby(o)
    <3>1. pc' \in [Instances -> Stages]
      BY <2>5, GotoMoves DEF HandleLobby
    <3>2. QED
      BY <2>5, <3>1 DEF HandleLobby
  <2>6. CASE HandleLocked(o)
    BY <2>6, GotoMoves DEF HandleLocked
  <2>7. CASE HandleAwaitingCollateral(o)
    BY <2>7, GotoMoves DEF HandleAwaitingCollateral
  <2>8. CASE HandleActive(o)
    BY <2>8, GotoMoves DEF HandleActive
  <2>9. CASE DiscoverMatch(o)
    <3>1. PICK match \in Markets :
            \/ Goto(o, "done") /\ UNCHANGED pick
            \/ pick' = [pick EXCEPT ![o] = match] /\ Goto(o, "proposing")
      BY <2>9 DEF DiscoverMatch
    <3>2. match \in Matches
      BY DEF Markets, Matches
    <3>3. QED
      BY <2>9, <3>1, <3>2, GotoMoves DEF DiscoverMatch
  <2>10. CASE StoreMetadata(o)
    BY <2>10, GotoMoves DEF StoreMetadata
  <2>11. CASE StartBatchLands(o)
    BY <2>11, LandedMoves DEF StartBatchLands
  <2>12. CASE ProposeMatchLands(o)
    BY <2>12, LandedMoves DEF ProposeMatchLands
  <2>13. CASE FinalizeConsensusLands(o)
    BY <2>13, GotoMoves DEF FinalizeConsensusLands
  <2>14. CASE DepositCollateralLands(o)
    BY <2>14, GotoMoves DEF DepositCollateralLands
  <2>15. CASE SettleWithProofLands(o)
    BY <2>15, GotoMoves DEF SettleWithProofLands
  <2>16. QED
    BY <1>1, <2>1, <2>2, <2>3, <2>4, <2>5, <2>6, <2>7, <2>8, <2>9, <2>10, <2>11, <2>12,
       <2>13, <2>14, <2>15 DEF Tick
<1>2. CASE LockExpires
  BY <1>2 DEF LockExpires
<1>3. CASE UNCHANGED operatorVars
  BY <1>3 DEF operatorVars
<1>4. UNCHANGED allVars => UNCHANGED operatorVars
  BY DEF allVars
<1>5. QED
  BY <1>1, <1>2, <1>3, <1>4 DEF OperatorNext

LEMMA ServiceTypeInit == OperatorInit => OperatorTypeOK
  BY DEF OperatorInit, OperatorTypeOK, SeenTypeOK, Stages, Matches

\* The service and Redis stay well typed, and a lobby's timestamp is written
\* once.
THEOREM ServiceTypeCorrect == OperatorSpec => [](TypeOK /\ OperatorTypeOK)
<1>1. OperatorInit => TypeOK /\ OperatorTypeOK
  BY TypeInit, ServiceTypeInit DEF OperatorInit
<1>2. TypeOK /\ OperatorTypeOK /\ [OperatorNext]_allVars => (TypeOK /\ OperatorTypeOK)'
  BY TypeStepWithService, ServiceTypeStep
<1>3. QED
  BY <1>1, <1>2, PTL DEF OperatorSpec

\* Whatever the instances read, miss, repeat or forget, they are one more
\* signer: every step of the system is a step of the batch program.
THEOREM ServiceIsASigner == OperatorSpec => Spec
<1>1. OperatorInit => Init
  BY DEF OperatorInit
<1>2. OperatorTypeOK /\ [OperatorNext]_allVars => [Next]_vars
  BY ServiceStepsTheProgram
<1>3. QED
  BY <1>1, <1>2, ServiceTypeCorrect, PTL DEF OperatorSpec, Spec

\* So the ledger, the escrow, the ballot and the vault are safe with them.
COROLLARY BatchIsSafeWithService ==
    OperatorSpec => [](RoundLedger /\ EscrowMatchesBet /\ BallotDecides
                         /\ PriceAtLeastOne /\ UnderlyingIsHeld)
  BY ServiceIsASigner, RoundsAreCounted, EscrowIsTheBets, BallotIsDecisive,
     VaultIsSafeWithBatches, PTL

-----------------------------------------------------------------------------
(***************************************************************************)
(* The lock.  LockKeepsApart is inductive once the history is known to name *)
(* only instances at work.                                                 *)
(***************************************************************************)
Apart == lost \subseteq Workers /\ LockKeepsApart

\* Most steps of a tick neither touch the lock nor begin or end the work.
LEMMA WorkersStayApart ==
    ASSUME OperatorTypeOK, Apart, NEW o \in Instances, UNCHANGED <<lock, lost>>,
           pc'[o] \in Working <=> pc[o] \in Working,
           \A p \in Instances \ {o} : pc'[p] = pc[p]
    PROVE  Apart'
<1>1. Workers' = Workers
  BY DEF Workers
<1>2. QED
  BY <1>1 DEF Apart, LockKeepsApart

LEMMA ApartStep ==
    ASSUME OperatorTypeOK, Apart, [OperatorNext]_allVars
    PROVE  Apart'
<1>1. ASSUME NEW o \in Instances, Tick(o) PROVE Apart'
  <2> DEFINE Others == \A p \in Instances \ {o} : pc'[p] = pc[p]
  <2> Working \subseteq Stages /\ {"fetched", "idle"} \subseteq Stages
    BY DEF Stages
  <2> {"locked", "starting", "discovering", "proposing", "storing",
       "finalizing", "depositing", "settling", "done"} \subseteq Working
    BY DEF Working
  <2> "idle" \notin Working /\ "fetched" \notin Working
    BY DEF Working
  <2>1. CASE FetchBatch(o)
    <3>1. pc[o] = "idle" /\ pc'[o] = "fetched" /\ Others /\ UNCHANGED <<lock, lost>>
      BY <2>1, GotoMoves DEF FetchBatch
    <3>2. QED
      BY <3>1, WorkersStayApart
  <2>2. CASE AcquireLock(o) /\ lock
    <3>1. pc[o] = "fetched" /\ pc'[o] = "idle" /\ Others /\ UNCHANGED <<lock, lost>>
      BY <2>2, ForgetMoves DEF AcquireLock, LockIsFree
    <3>2. QED
      BY <3>1, WorkersStayApart
  <2>3. CASE AcquireLock(o) /\ ~lock
    <3>1. lock' /\ Others /\ pc'[o] = "locked" /\ UNCHANGED lost
      BY <2>3, GotoMoves DEF AcquireLock, LockIsFree
    <3>2. Workers' = Workers \cup {o} /\ Workers \subseteq lost
      BY <2>3, <3>1 DEF Workers, Apart, LockKeepsApart
    <3>3. QED
      BY <3>1, <3>2 DEF Apart, LockKeepsApart
  <2>4. CASE ReleaseLock(o)
    <3>1. Workers' = Workers \ {o} /\ o \in Workers
      BY <2>4, ForgetMoves DEF ReleaseLock, Workers
    <3>2. Workers' \subseteq lost' /\ lost' \subseteq Workers'
      BY <2>4, <3>1 DEF ReleaseLock, Apart, LockKeepsApart
    <3>3. QED
      BY <3>2 DEF Apart, LockKeepsApart
  <2>5. CASE Crash(o)
    <3>1. Workers' = Workers \ {o} /\ UNCHANGED lock /\ lost' = lost \ {o}
      BY <2>5, ForgetMoves DEF Crash, Workers
    <3>2. QED
      BY <3>1 DEF Apart, LockKeepsApart
  <2>6. CASE \/ GiveUp(o) \/ HandleLobby(o) \/ HandleLocked(o)
             \/ HandleAwaitingCollateral(o) \/ HandleActive(o)
    <3>1. pc[o] \in Working /\ UNCHANGED <<lock, lost>>
      BY <2>6 DEF GiveUp, HandleLobby, HandleLocked, HandleAwaitingCollateral, HandleActive,
                  Handles
    <3>2. \E stage \in Working : Goto(o, stage)
      BY <2>6 DEF GiveUp, HandleLobby, HandleLocked, HandleAwaitingCollateral, HandleActive
    <3>3. pc'[o] \in Working /\ Others
      BY <3>2, GotoMoves
    <3>4. QED
      BY <3>1, <3>3, WorkersStayApart
  <2>7. CASE DiscoverMatch(o) \/ StoreMetadata(o)
    <3>1. pc[o] \in Working /\ UNCHANGED <<lock, lost>>
      BY <2>7 DEF DiscoverMatch, StoreMetadata
    <3>2. \E stage \in Working : Goto(o, stage)
      BY <2>7 DEF DiscoverMatch, StoreMetadata
    <3>3. pc'[o] \in Working /\ Others
      BY <3>2, GotoMoves
    <3>4. QED
      BY <3>1, <3>3, WorkersStayApart
  <2>8. CASE StartBatchLands(o) \/ ProposeMatchLands(o)
    <3>1. pc[o] \in Working /\ UNCHANGED <<lock, lost>>
      BY <2>8 DEF StartBatchLands, ProposeMatchLands
    <3>2. pc'[o] \in Working /\ Others
      BY <2>8, LandedMoves DEF StartBatchLands, ProposeMatchLands
    <3>3. QED
      BY <3>1, <3>2, WorkersStayApart
  <2>9. CASE FinalizeConsensusLands(o) \/ DepositCollateralLands(o) \/ SettleWithProofLands(o)
    <3>1. pc[o] \in Working /\ Goto(o, "done") /\ UNCHANGED <<lock, lost>>
      BY <2>9 DEF FinalizeConsensusLands, DepositCollateralLands, SettleWithProofLands
    <3>2. pc'[o] \in Working /\ Others
      BY <3>1, GotoMoves
    <3>3. QED
      BY <3>1, <3>2, WorkersStayApart
  <2>10. QED
    BY <1>1, <2>1, <2>2, <2>3, <2>4, <2>5, <2>6, <2>7, <2>8, <2>9 DEF Tick
<1>2. CASE LockExpires
  <2>1. lost' = Workers /\ Workers' = Workers
    BY <1>2 DEF LockExpires, Workers
  <2>2. QED
    BY <2>1 DEF Apart, LockKeepsApart
<1>3. CASE UNCHANGED operatorVars
  BY <1>3 DEF operatorVars, Apart, LockKeepsApart, Workers
<1>4. UNCHANGED allVars => UNCHANGED operatorVars
  BY DEF allVars
<1>5. QED
  BY <1>1, <1>2, <1>3, <1>4 DEF OperatorNext

\* An instance at work has the lock to itself, whoever else is at work,
\* unless it has outlived it or one that had outlived its own deleted it.
THEOREM InstancesWorkApart == OperatorSpec => []LockKeepsApart
<1>1. OperatorInit => Apart
  BY DEF OperatorInit, Apart, LockKeepsApart, Workers, Working
<1>2. OperatorTypeOK /\ Apart /\ [OperatorNext]_allVars => Apart'
  BY ApartStep
<1>3. Apart => LockKeepsApart
  BY DEF Apart
<1>4. QED
  BY <1>1, <1>2, <1>3, ServiceTypeCorrect, PTL DEF OperatorSpec

-----------------------------------------------------------------------------
(***************************************************************************)
(* The metadata.  An instance with the lock that is about to store it has  *)
(* proposed, and nobody else with the lock can have covered a bet since;   *)
(* one about to deposit has taken its odds from it, and nobody else with   *)
(* the lock can have changed it since.                                     *)
(***************************************************************************)
Described ==
    ~strayed =>
        /\ \A o \in Instances \ lost : pc[o] = "storing" => status # "Active"
        /\ \A o \in Instances \ lost : pc[o] = "depositing" => pick[o] = meta
        /\ status = "Active" => meta.fixture = kickoff

\* Without the service no bet becomes covered and no covered bet changes.
LEMMA NothingCoveredElsewhere ==
    ASSUME Elsewhere, status' = "Active"
    PROVE  status = "Active" /\ kickoff' = kickoff
<1>1. ~InitializeBatch /\ ~FinalizeConsensus /\ ~PenalizeMissedCollateral
  BY DEF InitializeBatch, FinalizeConsensus, PenalizeMissedCollateral
<1>2. ASSUME NEW u \in Users, NEW a \in Stakes PROVE ~JoinBatch(u, a) /\ ~LeaveBatch(u, a)
  BY DEF JoinBatch, LeaveBatch
<1>3. ASSUME NEW u \in Users, NEW i \in Options PROVE ~CastVote(u, i)
  BY DEF CastVote
<1>4. ~SettleDefault
  BY DEF SettleDefault, CompleteBet
<1>5. ASSUME NEW u \in Users PROVE ~Claim(u)
  BY DEF Claim, CanClaim
<1>6. ClockTick \/ OthersUseVault
  BY <1>1, <1>2, <1>3, <1>4, <1>5 DEF Elsewhere
<1>7. QED
  BY <1>6 DEF ClockTick, OthersUseVault, batchVars, roundVars

\* A step of one instance that neither touches the chain nor the metadata, and
\* leads to neither of the two stages.
LEMMA QuietSteps ==
    ASSUME OperatorTypeOK, Described, NEW o \in Instances,
           UNCHANGED <<status, kickoff, meta, strayed>>,
           pc'[o] \notin {"storing", "depositing"},
           lost \ {o} \subseteq lost',
           \A p \in Instances \ {o} : pc'[p] = pc[p] /\ pick'[p] = pick[p]
    PROVE  Described'
  BY DEF Described

\* A step of one instance after which no bet is covered.
LEMMA UncoveringSteps ==
    ASSUME OperatorTypeOK, Described, NEW o \in Instances,
           UNCHANGED <<pick, meta, lost>>,
           strayed => strayed',
           status' # "Active",
           pc'[o] # "depositing",
           \A p \in Instances \ {o} : pc'[p] = pc[p]
    PROVE  Described'
  BY DEF Described

LEMMA CompletingSteps ==
    ASSUME CompleteBet
    PROVE  status' # "Active"
  BY DEF CompleteBet

LEMMA InsideDescribes ==
    ASSUME OperatorTypeOK, Apart, Described, NEW o \in Instances, Inside(o)
    PROVE  Described'
<1> {"locked", "starting", "discovering", "proposing", "storing",
     "finalizing", "depositing", "settling", "done"} \subseteq Working
  BY DEF Working
<1> Working \subseteq Stages /\ {"fetched", "idle"} \subseteq Stages
  BY DEF Stages
<1> UNCHANGED <<status, kickoff>>
  BY InsideLeavesChain DEF vars, batchVars, roundVars
<1>1. CASE FetchBatch(o) \/ GiveUp(o)
  <2>1. /\ pc'[o] \notin {"storing", "depositing"}
        /\ \A p \in Instances \ {o} : pc'[p] = pc[p]
    BY <1>1, GotoMoves DEF FetchBatch, GiveUp
  <2>2. UNCHANGED <<pick, meta, lost, strayed>>
    BY <1>1 DEF FetchBatch, GiveUp
  <2>3. QED
    BY <2>1, <2>2, QuietSteps
<1>2. CASE AcquireLock(o) \/ ReleaseLock(o) \/ Crash(o)
  <2>1. \/ Goto(o, "locked") /\ UNCHANGED pick
        \/ Forget(o)
    BY <1>2 DEF AcquireLock, ReleaseLock, Crash
  <2>2. /\ pc'[o] \notin {"storing", "depositing"}
        /\ \A p \in Instances \ {o} : pc'[p] = pc[p] /\ pick'[p] = pick[p]
    BY <2>1, GotoMoves, ForgetMoves
  <2>3. UNCHANGED <<meta, strayed>> /\ lost \ {o} \subseteq lost'
    BY <1>2 DEF AcquireLock, ReleaseLock, Crash, Apart
  <2>4. QED
    BY <2>2, <2>3, QuietSteps
<1>3. CASE HandleLobby(o) \/ HandleLocked(o)
  <2>1. \E stage \in {"starting", "discovering", "finalizing", "done"} : Goto(o, stage)
    BY <1>3 DEF HandleLobby, HandleLocked
  <2>2. /\ pc'[o] \notin {"storing", "depositing"}
        /\ \A p \in Instances \ {o} : pc'[p] = pc[p]
    BY <2>1, GotoMoves
  <2>3. UNCHANGED <<pick, meta, lost, strayed>>
    BY <1>3 DEF HandleLobby, HandleLocked
  <2>4. QED
    BY <2>2, <2>3, QuietSteps
<1>4. CASE HandleAwaitingCollateral(o)
  <2>1. CASE pick' = [pick EXCEPT ![o] = meta] /\ Goto(o, "depositing")
    <3>1. /\ pc'[o] = "depositing" /\ pick'[o] = meta
          /\ \A p \in Instances \ {o} : pc'[p] = pc[p] /\ pick'[p] = pick[p]
      BY <2>1, GotoMoves DEF OperatorTypeOK
    <3>2. UNCHANGED <<meta, lost, strayed>>
      BY <1>4 DEF HandleAwaitingCollateral
    <3>3. QED
      BY <3>1, <3>2 DEF Described
  <2>2. CASE UNCHANGED pick /\ Goto(o, "done")
    <3>1. UNCHANGED <<meta, lost, strayed>>
      BY <1>4 DEF HandleAwaitingCollateral
    <3>2. QED
      BY <2>2, <3>1, GotoMoves, QuietSteps
  <2>3. QED
    BY <1>4, <2>1, <2>2 DEF HandleAwaitingCollateral
<1>5. CASE HandleActive(o) \/ DiscoverMatch(o)
  <2>1. \E stage \in {"settling", "proposing", "done"} : Goto(o, stage)
    BY <1>5 DEF HandleActive, DiscoverMatch
  <2>2. /\ pc'[o] \notin {"storing", "depositing"}
        /\ \A p \in Instances \ {o} : pc'[p] = pc[p]
    BY <2>1, GotoMoves
  <2>3. \A p \in Instances \ {o} : pick'[p] = pick[p]
    BY <1>5 DEF HandleActive, DiscoverMatch, OperatorTypeOK
  <2>4. UNCHANGED <<meta, lost, strayed>>
    BY <1>5 DEF HandleActive, DiscoverMatch
  <2>5. QED
    BY <2>2, <2>3, <2>4, QuietSteps
<1>6. CASE StoreMetadata(o)
  <2>1. pc[o] = "storing" /\ UNCHANGED <<pick, lost>>
    BY <1>6 DEF StoreMetadata
  <2>2. pc'[o] = "done" /\ \A p \in Instances \ {o} : pc'[p] = pc[p]
    BY <1>6, GotoMoves DEF StoreMetadata
  <2>3. ASSUME o \notin lost, status # "Active" PROVE Described'
    <3>1. \A p \in Instances \ lost : p # o => pc[p] \notin {"storing", "depositing"}
      BY <2>1, <2>3 DEF Apart, LockKeepsApart, Workers
    <3>2. QED
      BY <2>1, <2>2, <2>3, <3>1 DEF Described
  <2>4. ASSUME o \in lost PROVE Described'
    BY <1>6, <2>4 DEF StoreMetadata, Described
  <2>5. ASSUME o \notin lost, status = "Active" PROVE Described'
    <3>1. strayed
      BY <2>1, <2>5 DEF Described
    <3>2. strayed'
      BY <1>6, <2>5, <3>1 DEF StoreMetadata
    <3>3. QED
      BY <3>2 DEF Described
  <2>6. QED
    BY <2>3, <2>4, <2>5
<1>7. QED
  BY <1>1, <1>2, <1>3, <1>4, <1>5, <1>6 DEF Inside

LEMMA LandingDescribes ==
    ASSUME OperatorTypeOK, Apart, Described, NEW o \in Instances,
           \/ StartBatchLands(o) \/ ProposeMatchLands(o) \/ FinalizeConsensusLands(o)
           \/ DepositCollateralLands(o) \/ SettleWithProofLands(o)
    PROVE  Described'
<1> {"locked", "starting", "discovering", "proposing", "storing",
     "finalizing", "depositing", "settling", "done"} \subseteq Working \cap Stages
  BY DEF Working, Stages
<1> UNCHANGED <<pick, meta, lost>>
  BY DEF StartBatchLands, ProposeMatchLands, FinalizeConsensusLands,
         DepositCollateralLands, SettleWithProofLands
<1>a. strayed => strayed'
  <2>1. CASE DepositCollateralLands(o)
    BY <2>1 DEF DepositCollateralLands
  <2>2. CASE ~DepositCollateralLands(o)
    BY <2>2 DEF StartBatchLands, ProposeMatchLands, FinalizeConsensusLands,
                SettleWithProofLands
  <2>3. QED
    BY <2>1, <2>2
<1> /\ pc'[o] # "depositing"
    /\ \A p \in Instances \ {o} : pc'[p] = pc[p]
  BY GotoMoves, LandedMoves
     DEF StartBatchLands, ProposeMatchLands, FinalizeConsensusLands,
         DepositCollateralLands, SettleWithProofLands
<1>1. CASE status' # "Active"
  BY <1>1, <1>a, UncoveringSteps
<1>2. CASE status' = "Active"
  <2>1. ~StartBatchLands(o) /\ ~ProposeMatchLands(o) /\ ~FinalizeConsensusLands(o)
    BY <1>2 DEF StartBatchLands, StartBatch, ProposeMatchLands, ProposeMatch,
                FinalizeConsensusLands, FinalizeConsensus
  <2>2. ~SettleWithProofLands(o)
    BY <1>2, CompletingSteps DEF SettleWithProofLands, SettleUsersWon, SettleOperatorWon
  <2>4. DepositCollateralLands(o)
    BY <2>1, <2>2
  <2>5. OddsMatchBet(o) /\ \E odds \in Odds, extra \in Overpay : DepositCollateralBet(odds, extra)
    BY <1>2, <2>4, CompletingSteps DEF DepositCollateralLands, DepositCollateralSkip
  <2>6. UNCHANGED kickoff
    BY <2>5 DEF DepositCollateralBet
  <2>7. pc[o] = "depositing" /\ pc'[o] = "done"
    BY <2>4, GotoMoves DEF DepositCollateralLands
  <2>8. CASE o \in lost
    <3>1. strayed'
      BY <2>4, <2>8 DEF DepositCollateralLands
    <3>2. QED
      BY <3>1 DEF Described
  <2>9. CASE o \notin lost
    <3>1. \A p \in Instances \ lost : p # o => pc[p] \notin {"storing", "depositing"}
      BY <2>7, <2>9 DEF Apart, LockKeepsApart, Workers
    <3>2. ~strayed => meta.fixture = kickoff
      BY <2>5, <2>7, <2>9 DEF OddsMatchBet, Described
    <3>3. QED
      BY <1>a, <2>6, <2>7, <3>1, <3>2 DEF Described
  <2>10. QED
    BY <2>8, <2>9
<1>3. QED
  BY <1>1, <1>2

LEMMA DescribedStep ==
    ASSUME OperatorTypeOK, Apart, Described, [OperatorNext]_allVars
    PROVE  Described'
<1>1. ASSUME NEW o \in Instances, Tick(o) PROVE Described'
  BY <1>1, InsideDescribes, LandingDescribes DEF Tick, Inside
<1>2. CASE LockExpires
  BY <1>2 DEF LockExpires, vars, batchVars, roundVars, Described, Apart
<1>3. CASE Elsewhere /\ UNCHANGED operatorVars
  BY <1>3, NothingCoveredElsewhere DEF operatorVars, Described
<1>4. CASE UNCHANGED allVars
  BY <1>4 DEF allVars, operatorVars, vars, batchVars, roundVars, Described
<1>5. QED
  BY <1>1, <1>2, <1>3, <1>4 DEF OperatorNext

\* Whatever answers are lost, whoever crashes between a proposal and its
\* metadata, however stale the status an instance acts on and whichever locks
\* expire, the metadata is the match of the bet the service has covered, up to
\* the first time an instance that lost its lock covers a bet or stores.
THEOREM CoveredBetsAreDescribed == OperatorSpec => []CoveredBetIsDescribed
<1>1. OperatorInit => Apart /\ Described
  BY DEF OperatorInit, Init, Apart, LockKeepsApart, Workers, Described, Working
<1>2. OperatorTypeOK /\ Apart /\ Described /\ [OperatorNext]_allVars => (Apart /\ Described)'
  BY ApartStep, DescribedStep
<1>3. Described => CoveredBetIsDescribed
  BY DEF Described, CoveredBetIsDescribed
<1>4. QED
  BY <1>1, <1>2, <1>3, ServiceTypeCorrect, PTL DEF OperatorSpec

-----------------------------------------------------------------------------
(***************************************************************************)
(* The start.  What Redis holds of a lobby is never earlier than its       *)
(* creation, so an instance about to start one is not too early, whoever   *)
(* has noted the lobby again since it looked.                              *)
(***************************************************************************)
StartIsDue ==
    /\ createdAt <= now
    /\ status = "None" => seen = {} /\ \A o \in Instances : pc[o] = "idle"
    /\ \A t \in seen : createdAt <= t
    /\ \A o \in Instances : pc[o] = "starting" => createdAt + LobbyDuration <= now

LEMMA CreatedOnce ==
    ASSUME [Next]_vars, ~InitializeBatch
    PROVE  createdAt' = createdAt /\ (status' = "None" => status = "None")
<1>1. CASE StartBatch \/ FinalizeConsensus \/ PenalizeMissedCollateral
  BY <1>1 DEF StartBatch, FinalizeConsensus, PenalizeMissedCollateral, lobbyVars
<1>2. CASE SettleUsersWon \/ SettleOperatorWon \/ SettleDefault
  BY <1>2 DEF SettleUsersWon, SettleOperatorWon, SettleDefault, CompleteBet, lobbyVars
<1>3. CASE ClaimOperatorYield \/ ClockTick \/ OthersUseVault
  BY <1>3 DEF ClaimOperatorYield, ClockTick, OthersUseVault, batchVars, lobbyVars
<1>4. CASE \E u \in Users, a \in Stakes : JoinBatch(u, a) \/ LeaveBatch(u, a)
  BY <1>4 DEF JoinBatch, LeaveBatch, lobbyVars
<1>5. CASE \/ \E u \in Users, i \in Options : CastVote(u, i)
           \/ \E filled \in Slates, k \in Kickoffs : ProposeMatch(filled, k)
  BY <1>5 DEF CastVote, ProposeMatch, lobbyVars
<1>6. CASE \/ \E x \in Overpay : DepositCollateralSkip(x)
           \/ \E o \in Odds, x \in Overpay : DepositCollateralBet(o, x)
  BY <1>6 DEF DepositCollateralSkip, DepositCollateralBet, CompleteBet, lobbyVars
<1>7. CASE \E u \in Users : Claim(u)
  BY <1>7 DEF Claim, lobbyVars
<1>8. CASE UNCHANGED vars
  BY <1>8 DEF vars, batchVars, lobbyVars
<1>9. QED
  BY <1>1, <1>2, <1>3, <1>4, <1>5, <1>6, <1>7, <1>8 DEF Next

\* A tick works on a batch that exists.
LEMMA TicksNeedABatch ==
    ASSUME StartIsDue, NEW o \in Instances, Tick(o)
    PROVE  status # "None" /\ ~InitializeBatch
<1>1. status # "None"
  BY DEF Tick, FetchBatch, AcquireLock, ReleaseLock, GiveUp, Crash, HandleLobby, HandleLocked,
         HandleAwaitingCollateral, HandleActive, Handles, DiscoverMatch, StoreMetadata,
         StartBatchLands, ProposeMatchLands, FinalizeConsensusLands, DepositCollateralLands,
         SettleWithProofLands, StartIsDue, Working
<1>2. QED
  BY <1>1 DEF InitializeBatch

LEMMA StartIsDueStep ==
    ASSUME TypeOK, OperatorTypeOK, StartIsDue, [OperatorNext]_allVars
    PROVE  StartIsDue'
<1> {"locked", "starting", "discovering", "proposing", "storing",
     "finalizing", "depositing", "settling", "done"} \subseteq Working \cap Stages
  BY DEF Working, Stages
<1> {"fetched", "idle"} \subseteq Stages
  BY DEF Stages
<1> /\ seen \subseteq 0..now /\ now \in Nat /\ now' \in Nat /\ now <= now'
    /\ createdAt \in Nat /\ LobbyDuration \in Nat
  BY ServiceStepsTheProgram, ClockOnlyAdvances, OperatorConstants
     DEF TypeOK, LobbyTypeOK, OperatorTypeOK, SeenTypeOK
<1>1. ASSUME ~InitializeBatch, UNCHANGED seen,
             status = "None" => UNCHANGED pc,
             \A o \in Instances : pc'[o] = "starting" => pc[o] = "starting"
      PROVE  StartIsDue'
  <2>1. createdAt' = createdAt /\ (status' = "None" => status = "None")
    BY <1>1, ServiceStepsTheProgram, CreatedOnce
  <2>2. QED
    BY <1>1, <2>1 DEF StartIsDue
<1>2. ASSUME NEW o \in Instances, HandleLobby(o) PROVE StartIsDue'
  <2>1. status # "None" /\ UNCHANGED <<now, createdAt, status>>
    BY <1>2, InsideLeavesChain, TicksNeedABatch
       DEF HandleLobby, Tick, Inside, vars, batchVars, lobbyVars
  <2>2. \A p \in Instances \ {o} : pc'[p] = pc[p]
    BY <1>2, GotoMoves DEF HandleLobby
  <2>3. CASE seen' = Noted /\ Goto(o, "done")
    <3>1. createdAt <= now
      BY <1>2 DEF HandleLobby, StartIsDue
    <3>2. QED
      BY <2>1, <2>2, <2>3, <3>1, GotoMoves DEF StartIsDue, Noted
  <2>4. CASE LobbyIsOver /\ UNCHANGED seen
    <3>1. createdAt + LobbyDuration <= now
      BY <2>4 DEF LobbyIsOver, StartIsDue
    <3>2. QED
      BY <2>1, <2>2, <2>4, <3>1 DEF StartIsDue
  <2>5. QED
    BY <1>2, <2>3, <2>4 DEF HandleLobby
<1>3. ASSUME NEW o \in Instances, Tick(o), ~HandleLobby(o) PROVE StartIsDue'
  <2>1. UNCHANGED seen
    BY <1>3, OnlyLobbiesAreSeen
  <2>2. \/ \E stage \in Stages \ {"starting"} : Goto(o, stage)
        \/ Forget(o)
    <3>1. CASE FetchBatch(o) \/ AcquireLock(o) \/ ReleaseLock(o) \/ GiveUp(o) \/ Crash(o)
      BY <3>1 DEF FetchBatch, AcquireLock, ReleaseLock, GiveUp, Crash
    <3>2. CASE HandleLocked(o) \/ HandleAwaitingCollateral(o) \/ HandleActive(o)
      BY <3>2 DEF HandleLocked, HandleAwaitingCollateral, HandleActive
    <3>3. CASE DiscoverMatch(o) \/ StoreMetadata(o)
      BY <3>3 DEF DiscoverMatch, StoreMetadata
    <3>4. CASE \/ StartBatchLands(o) \/ ProposeMatchLands(o) \/ FinalizeConsensusLands(o)
               \/ DepositCollateralLands(o) \/ SettleWithProofLands(o)
      BY <3>4 DEF StartBatchLands, ProposeMatchLands, FinalizeConsensusLands,
                  DepositCollateralLands, SettleWithProofLands, Landed
    <3>5. QED
      BY <1>3, <3>1, <3>2, <3>3, <3>4 DEF Tick
  <2>3. pc'[o] # "starting" /\ \A p \in Instances \ {o} : pc'[p] = pc[p]
    BY <2>2, GotoMoves, ForgetMoves
  <2>4. QED
    BY <1>1, <1>3, <2>1, <2>3, TicksNeedABatch
<1>4. CASE LockExpires
  BY <1>1, <1>4 DEF LockExpires, InitializeBatch, vars, batchVars
<1>5. CASE Elsewhere /\ UNCHANGED operatorVars
  <2>1. CASE InitializeBatch
    BY <1>5, <2>1 DEF InitializeBatch, operatorVars, StartIsDue
  <2>2. QED
    BY <1>1, <1>5, <2>1 DEF operatorVars
<1>6. CASE UNCHANGED allVars
  BY <1>1, <1>6 DEF allVars, operatorVars, vars, batchVars, InitializeBatch
<1>7. QED
  BY <1>2, <1>3, <1>4, <1>5, <1>6 DEF OperatorNext

LEMMA NothingStartsElsewhere ==
    ASSUME Elsewhere
    PROVE  ~(status = "Lobby" /\ status' = "Locked")
<1>1. status' = status \/ status # "Lobby"
  BY DEF Elsewhere, InitializeBatch, JoinBatch, LeaveBatch, CastVote, FinalizeConsensus,
         PenalizeMissedCollateral, SettleDefault, CanDefault, Claim, CanClaim, ClockTick,
         OthersUseVault, batchVars
<1>2. QED
  BY <1>1

LEMMA OnlyDueLobbiesStart ==
    ASSUME OperatorTypeOK, StartIsDue, [OperatorNext]_allVars,
           status = "Lobby", status' = "Locked"
    PROVE  createdAt + LobbyDuration <= now /\ now <= createdAt + LobbyExpiry
<1>1. ~Elsewhere /\ ~LockExpires /\ ~UNCHANGED allVars
  BY NothingStartsElsewhere DEF LockExpires, allVars, vars, batchVars
<1>2. PICK o \in Instances : Tick(o)
  BY <1>1 DEF OperatorNext
<1>3. ~Inside(o)
  BY InsideLeavesChain DEF vars, batchVars
<1>4. ~ProposeMatchLands(o) /\ ~FinalizeConsensusLands(o)
  BY DEF ProposeMatchLands, ProposeMatch, FinalizeConsensusLands, FinalizeConsensus
<1>5. ~DepositCollateralLands(o)
  BY DEF DepositCollateralLands, DepositCollateralSkip, DepositCollateralBet
<1>6. ~SettleWithProofLands(o)
  BY DEF SettleWithProofLands, SettleUsersWon, SettleOperatorWon, ProofAccepted
<1>7. StartBatchLands(o)
  BY <1>2, <1>3, <1>4, <1>5, <1>6 DEF Tick, Inside
<1>8. createdAt + LobbyDuration <= now
  BY <1>7 DEF StartBatchLands, StartIsDue
<1>9. now <= createdAt + LobbyExpiry
  BY <1>7 DEF StartBatchLands, StartBatch, LobbyOpen
<1>10. QED
  BY <1>8, <1>9

\* Whatever the locks do, a lobby is started only between its duration and its
\* expiry, both counted from its creation.
THEOREM LobbiesRunTheirCourse == OperatorSpec => LobbyRunsItsCourse
<1>1. OperatorInit => StartIsDue
  BY DEF OperatorInit, Init, StartIsDue
<1>2. TypeOK /\ OperatorTypeOK /\ StartIsDue /\ [OperatorNext]_allVars => StartIsDue'
  BY StartIsDueStep
<1>3. OperatorTypeOK /\ StartIsDue /\ [OperatorNext]_allVars
        => [status = "Lobby" /\ status' = "Locked" =>
              createdAt + LobbyDuration <= now /\ now <= createdAt + LobbyExpiry]_allVars
  BY OnlyDueLobbiesStart
<1>4. QED
  BY <1>1, <1>2, <1>3, ServiceTypeCorrect, PTL DEF OperatorSpec, LobbyRunsItsCourse

=============================================================================
