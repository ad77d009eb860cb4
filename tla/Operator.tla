------------------------------ MODULE Operator ------------------------------
(***************************************************************************)
(* The operator service (operator/src): instances of a polling daemon that *)
(* drive one batch.  An instance reads the batch from the chain, takes the *)
(* batch's lock in Redis, does what the status it READ calls for, and      *)
(* deletes the lock.  It awaits every RPC, Redis and HTTP call, so other   *)
(* instances, other signers and the clock move between any two of them;    *)
(* it may crash at any of them; and a transaction may land although the    *)
(* instance is told that it failed.                                        *)
(*                                                                         *)
(* The chain is module UndegenCore: the operator's instructions happen     *)
(* when one of its transactions lands, the others at any time.  A          *)
(* transaction lands while its sender waits for it or never: the client    *)
(* waits until the blockhash has expired, and a sender that dies is taken  *)
(* to die when its transaction has landed or no longer can.  A fixture is  *)
(* identified by its kickoff.  Batches share nothing but tokens.           *)
(***************************************************************************)
EXTENDS UndegenCore

CONSTANTS
    Instances,       \* the processes running the service
    LobbyDuration,   \* lobby_duration_secs
    MinBatchUsers,   \* min_batch_users
    Lookback,        \* fixtures_lookback_hours
    Provable         \* slots on a period whose final score the operator finds

ASSUME OperatorConstants ==
    /\ LobbyDuration \in Nat /\ MinBatchUsers \in Nat /\ Lookback \in Nat
    /\ Provable \subseteq 0..3
    /\ \A filled \in Slates : 0 \in filled

VARIABLES
    pc,        \* where each instance is in its tick
    view,      \* the batch as it read it
    pick,      \* the match it is about to propose, cover or settle
    lock,      \* undegen:lock:batch:{id} exists; it does not say whose it is
    seen,      \* {undegen:batch:{id}:created_at}, empty before it is set
    meta,      \* undegen:batch:{id}, the match the service knows
    lost,      \* history: instances at work whose lock has expired, or has
               \* been deleted by one of them
    strayed    \* history: one of them has covered a bet or stored metadata
               \* since metadata was last stored under the lock, no bet covered

operatorVars == <<pc, view, pick, lock, seen, meta, lost, strayed>>
allVars == <<vars, operatorVars>>

-----------------------------------------------------------------------------
Working == {"locked", "starting", "discovering", "proposing", "storing",
            "finalizing", "depositing", "settling", "done"}
Stages == {"idle", "fetched"} \cup Working

NoMatch == [fixture |-> 0, slots |-> {}]
Matches == {NoMatch} \cup [fixture : Kickoffs, slots : Slates]

NoView == [status |-> "None", kickoff |-> 0, winning |-> NoWinner, covered |-> FALSE]

BatchOnChain ==
    [status |-> status, kickoff |-> kickoff, winning |-> winningVote,
     covered |-> collateralDeposited # 0]

OperatorInit ==
    /\ Init
    /\ pc = [o \in Instances |-> "idle"]
    /\ view = [o \in Instances |-> NoView]
    /\ pick = [o \in Instances |-> NoMatch]
    /\ lock = FALSE
    /\ seen = {}
    /\ meta = NoMatch
    /\ lost = {}
    /\ strayed = FALSE

Goto(o, stage) == pc' = [pc EXCEPT ![o] = stage]

\* The transaction landed; the answer says so, or is lost and read as an error.
Landed(o, next) == Goto(o, next) \/ Goto(o, "done")

Workers == {o \in Instances : pc[o] \in Working}

\* The instance forgets everything but what is in Redis.
Forget(o) ==
    /\ Goto(o, "idle")
    /\ view' = [view EXCEPT ![o] = NoView]
    /\ pick' = [pick EXCEPT ![o] = NoMatch]

-----------------------------------------------------------------------------
(***************************************************************************)
(* A tick: read, lock, work, unlock.                                       *)
(***************************************************************************)
FetchBatch(o) ==
    /\ pc[o] = "idle"
    /\ status \notin {"None", "Settled"}
    /\ view' = [view EXCEPT ![o] = BatchOnChain]
    /\ Goto(o, "fetched")
    /\ UNCHANGED <<vars, pick, lock, seen, meta, lost, strayed>>

\* Mutant of LockIsFree: SET without NX.
LockIsFreeAlways == TRUE

LockIsFree == ~lock

\* The batch is not read again under the lock.
AcquireLock(o) ==
    /\ pc[o] = "fetched"
    /\ IF LockIsFree
       THEN lock' = TRUE /\ Goto(o, "locked") /\ UNCHANGED <<view, pick>>
       ELSE Forget(o) /\ UNCHANGED lock
    /\ UNCHANGED <<vars, seen, meta, lost, strayed>>

\* The lock is deleted whoever holds it.
ReleaseLock(o) ==
    /\ pc[o] = "done"
    /\ Forget(o)
    /\ lock' = FALSE
    /\ lost' = IF o \in lost THEN Workers \ {o} ELSE lost
    /\ UNCHANGED <<vars, seen, meta, strayed>>

\* The process dies, and starts again with the next tick.
Crash(o) ==
    /\ pc[o] # "idle"
    /\ Forget(o)
    /\ lost' = lost \ {o}
    /\ UNCHANGED <<vars, lock, seen, meta, strayed>>

\* After 25 seconds, which a tick may outlive: it sends transactions that
\* have to be finalized and never renews its lock.
LockExpires ==
    /\ lock
    /\ lock' = FALSE
    /\ lost' = Workers
    /\ UNCHANGED <<vars, pc, view, pick, seen, meta, strayed>>

\* An RPC, Redis or HTTP call fails, or the chain refuses the transaction.
GiveUp(o) ==
    /\ pc[o] \in Working \ {"done"}
    /\ Goto(o, "done")
    /\ UNCHANGED <<vars, view, pick, lock, seen, meta, lost, strayed>>

-----------------------------------------------------------------------------
(***************************************************************************)
(* The work, by the status that was read.                                  *)
(***************************************************************************)
Handles(o, phase) == pc[o] = "locked" /\ view[o].status = phase

\* Mutant of LobbyIsOver: the duration is not added.
LobbyIsOverOnSight == \E t \in seen : now >= t

LobbyIsOver == \E t \in seen : now >= t + LobbyDuration

\* The lobby is taken to have been created when it is first seen.
Noted == {now}

\* Accounts, not stakes, are counted: one that left in full still counts.
EnoughUsers == Cardinality({u \in Users : pos[u].open}) >= MinBatchUsers

\* The timestamp is absent before it is set, after its week, and when the GET
\* fails, which reads as absent.  A lobby that is not over is left (GiveUp).
HandleLobby(o) ==
    /\ Handles(o, "Lobby")
    /\ \/ seen' = Noted /\ Goto(o, "done")
       \/ LobbyIsOver /\ EnoughUsers /\ UNCHANGED seen /\ Goto(o, "starting")
    /\ UNCHANGED <<vars, view, pick, lock, meta, lost, strayed>>

NeedsProposal(o) == view[o].kickoff = 0

HandleLocked(o) ==
    /\ Handles(o, "Locked")
    /\ Goto(o, CASE NeedsProposal(o) -> "discovering"
                 [] ~NeedsProposal(o) /\ now + VoteCutoff >= view[o].kickoff -> "finalizing"
                 [] OTHER -> "done")
    /\ UNCHANGED <<vars, view, pick, lock, seen, meta, lost, strayed>>

\* The slot of the metadata the odds are fetched for.
OddsSlot(o) == IF view[o].winning = Skip THEN 0 ELSE view[o].winning

HandleAwaitingCollateral(o) ==
    /\ Handles(o, "AwaitingCollateral")
    /\ IF ~view[o].covered /\ OddsSlot(o) \in meta.slots
       THEN pick' = [pick EXCEPT ![o] = meta] /\ Goto(o, "depositing")
       ELSE UNCHANGED pick /\ Goto(o, "done")
    /\ UNCHANGED <<vars, view, lock, seen, meta, lost, strayed>>

\* resolve_sequence_number finds a final score of a match that has been played,
\* on a period that it knows.
ScoreIsFinal(o) == now >= meta.fixture /\ view[o].winning \in Provable

\* A match of the metadata with no final score yet is GiveUp.
HandleActive(o) ==
    /\ Handles(o, "Active")
    /\ meta # NoMatch
    /\ ScoreIsFinal(o)
    /\ pick' = [pick EXCEPT ![o] = meta]
    /\ Goto(o, "settling")
    /\ UNCHANGED <<vars, view, lock, seen, meta, lost, strayed>>

\* get_markets: the matches the window lets through, with what is priced.
Markets == [fixture : {k \in Kickoffs : k + Lookback >= now}, slots : Slates]

\* propose_match_for_batch up to the transaction: the earliest fixture that
\* has markets now, which may be any the window lets through.  A match equal
\* to the metadata is skipped if its message ids are equal as well.
DiscoverMatch(o) ==
    /\ pc[o] = "discovering"
    /\ \E match \in Markets :
        \/ match = meta /\ Goto(o, "done") /\ UNCHANGED pick
        \/ pick' = [pick EXCEPT ![o] = match] /\ Goto(o, "proposing")
    /\ UNCHANGED <<vars, view, lock, seen, meta, lost, strayed>>

StoreMetadata(o) ==
    /\ pc[o] = "storing"
    /\ meta' = pick[o]
    /\ Goto(o, "done")
    /\ strayed' = (o \in lost \/ (strayed /\ status = "Active"))
    /\ UNCHANGED <<vars, view, pick, lock, seen, lost>>

-----------------------------------------------------------------------------
(***************************************************************************)
(* The transactions that land.                                             *)
(***************************************************************************)
StartBatchLands(o) ==
    /\ pc[o] = "starting"
    /\ StartBatch
    /\ Landed(o, "discovering")
    /\ UNCHANGED <<view, pick, lock, seen, meta, lost, strayed>>

ProposeMatchLands(o) ==
    /\ pc[o] = "proposing"
    /\ ProposeMatch(pick[o].slots, pick[o].fixture)
    /\ Landed(o, "storing")
    /\ UNCHANGED <<view, pick, lock, seen, meta, lost, strayed>>

FinalizeConsensusLands(o) ==
    /\ pc[o] = "finalizing"
    /\ FinalizeConsensus
    /\ Goto(o, "done")
    /\ UNCHANGED <<view, pick, lock, seen, meta, lost, strayed>>

\* The service reads the odds in thousandths, the program in ten-thousandths.
DepositAmount(o, odds) ==
    IF view[o].winning = Skip THEN betSize ELSE (betSize * odds) \div 1000

\* Mutant of OddsMatchBet: the fixture of the odds is not compared.
OddsMatchBetAny(o) == TRUE

\* The odds proof is for the fixture of the metadata; the program compares it
\* with the bet's.
OddsMatchBet(o) == pick[o].fixture = kickoff

DepositCollateralLands(o) ==
    /\ pc[o] = "depositing"
    /\ \E odds \in Odds, extra \in Overpay :
        /\ DepositAmount(o, odds) = CollateralRequired(odds) + extra
        /\ \/ DepositCollateralSkip(extra)
           \/ OddsMatchBet(o) /\ DepositCollateralBet(odds, extra)
    /\ Goto(o, "done")
    /\ strayed' = (strayed \/ o \in lost)
    /\ UNCHANGED <<view, pick, lock, seen, meta, lost>>

SettleWithProofLands(o) ==
    /\ pc[o] = "settling"
    /\ pick[o].fixture = kickoff
    /\ SettleUsersWon \/ SettleOperatorWon
    /\ Goto(o, "done")
    /\ UNCHANGED <<view, pick, lock, seen, meta, lost, strayed>>

Tick(o) ==
    \/ FetchBatch(o) \/ AcquireLock(o) \/ ReleaseLock(o) \/ GiveUp(o) \/ Crash(o)
    \/ HandleLobby(o) \/ HandleLocked(o) \/ HandleAwaitingCollateral(o) \/ HandleActive(o)
    \/ DiscoverMatch(o) \/ StoreMetadata(o)
    \/ StartBatchLands(o) \/ ProposeMatchLands(o) \/ FinalizeConsensusLands(o)
    \/ DepositCollateralLands(o) \/ SettleWithProofLands(o)

\* What happens to the batch without the service.  claim_operator_yield is not
\* among the steps: a tick skips a Settled batch before it looks at it.
Elsewhere ==
    \/ InitializeBatch
    \/ \E u \in Users, a \in Stakes : JoinBatch(u, a) \/ LeaveBatch(u, a)
    \/ \E u \in Users, i \in Options : CastVote(u, i)
    \/ FinalizeConsensus
    \/ PenalizeMissedCollateral
    \/ SettleDefault
    \/ \E u \in Users : Claim(u)
    \/ ClockTick
    \/ OthersUseVault

OperatorNext ==
    \/ \E o \in Instances : Tick(o)
    \/ LockExpires
    \/ Elsewhere /\ UNCHANGED operatorVars

OperatorSpec == OperatorInit /\ [][OperatorNext]_allVars

-----------------------------------------------------------------------------
(***************************************************************************)
(* Properties.                                                             *)
(***************************************************************************)
SeenTypeOK == seen \subseteq 0..now /\ \A s, t \in seen : s = t

\* Instances and their Redis keys stay in their domains; the time a lobby was
\* first seen is one time, and not in the future.
OperatorTypeOK ==
    /\ pc \in [Instances -> Stages]
    /\ pick \in [Instances -> Matches] /\ meta \in Matches
    /\ lock \in BOOLEAN /\ strayed \in BOOLEAN
    /\ lost \subseteq Instances
    /\ SeenTypeOK

\* The lock keeps apart what it can: an instance at work has it to itself
\* unless it has outlived it or was robbed of it by one that had outlived
\* its own, although the lock does not say whose it is, any instance deletes
\* it and crashes leave it behind.  Instances on time never rob each other.
LockKeepsApart ==
    \A o \in Workers \ lost : lock /\ \A p \in Workers \ lost : p = o

\* The service starts a lobby only once it has been open for its duration and
\* is not expired, whichever instance notes the lobby again between the check
\* of another and its transaction, with or without the lock: what Redis holds
\* is never earlier than the creation.
LobbyRunsItsCourse ==
    [][status = "Lobby" /\ status' = "Locked" =>
         createdAt + LobbyDuration <= now /\ now <= createdAt + LobbyExpiry]_allVars

\* The metadata the service settles from describes the bet it has put its
\* collateral on, so that the score proof is asked for the right match:
\* whatever answers were lost, whoever crashed between a proposal and its
\* metadata, however stale the batch it read and whichever locks expired.  The
\* promise is off once an instance that has lost its lock covers a bet or
\* stores metadata, until one that has it stores metadata between two bets.
CoveredBetIsDescribed ==
    ~strayed /\ status = "Active" => meta.fixture = kickoff

=============================================================================
