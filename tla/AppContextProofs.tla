-------------------------- MODULE AppContextProofs --------------------------
(***************************************************************************)
(* What holds of the program context for any number of batches, wallets,   *)
(* overlapping loads and changes of the chain: types, and that the screen  *)
(* never goes back behind an acknowledged transaction.                     *)
(*                                                                         *)
(* ReadYourWrites is not inductive.  It needs that a load started after    *)
(* the confirmation has read nothing older (LateReadsAreNew), that loads   *)
(* are kept in the order they started (LateLoadsLast), so that applying    *)
(* one of the late ones supersedes all early ones (EarlyLoadsOvertaken).   *)
(***************************************************************************)
EXTENDS LivePage, SequenceTheorems, WellFoundedInduction, TLAPS

-----------------------------------------------------------------------------
(***************************************************************************)
(* Sequences and sets.                                                     *)
(***************************************************************************)
LEMMA AppendTo ==
    ASSUME NEW S, NEW s \in Seq(S), NEW e \in S
    PROVE  /\ Append(s, e) \in Seq(S)
           /\ Len(Append(s, e)) = Len(s) + 1
           /\ \A i \in 1..Len(s) : Append(s, e)[i] = s[i]
           /\ Append(s, e)[Len(s) + 1] = e
  OBVIOUS

LEMMA FunctionIsSeq ==
    ASSUME NEW S, NEW n \in Nat, NEW f \in [1..n -> S]
    PROVE  f \in Seq(S) /\ Len(f) = n
  OBVIOUS

\* Naturals bounded by n have a largest and a smallest member.
LEMMA MinIsMember ==
    ASSUME NEW S \in SUBSET Nat, S # {}
    PROVE  Min(S) \in S /\ \A y \in S : Min(S) <= y
<1> DEFINE Less == {ss \in Nat \X Nat : ss[1] < ss[2]}
<1>1. Less = OpToRel(<, Nat)
  BY DEF OpToRel
<1>2. PICK x \in S : \A y \in S : ~(<<y, x>> \in Less)
  <2>1. IsWellFoundedOn(Less, Nat)
    BY <1>1, NatLessThanWellFounded, Zenon
  <2> HIDE DEF Less
  <2>2. QED
    BY <2>1, WFMin
<1>3. ASSUME NEW y \in S PROVE x <= y
  <2>1. x \in Nat /\ y \in Nat
    OBVIOUS
  <2>2. y < x => <<y, x>> \in Less
    BY <2>1
  <2>3. QED
    BY <1>2, <2>1, <2>2
<1>4. QED
  BY <1>3 DEF Min

LEMMA MaxIsMember ==
    ASSUME NEW n \in Nat, NEW S \in SUBSET Nat, S # {}, \A y \in S : y < n
    PROVE  Max(S) \in S
<1> DEFINE T == {n - y : y \in S}
<1>1. T \in SUBSET Nat /\ T # {}
  <2>1. ASSUME NEW y \in S PROVE n - y \in Nat
    <3>1. y \in Nat /\ y < n
      OBVIOUS
    <3>2. QED
      BY <3>1
  <2>2. T \subseteq Nat
    BY <2>1
  <2>3. T # {}
    OBVIOUS
  <2>4. QED
    BY <2>2, <2>3
<1>2. PICK t \in T : \A u \in T : t <= u
  BY <1>1, MinIsMember
<1>3. PICK x \in S : t = n - x
  OBVIOUS
<1>4. \A y \in S : x >= y
  BY <1>2, <1>3
<1>5. QED
  BY <1>4 DEF Max

-----------------------------------------------------------------------------
(***************************************************************************)
(* The chain.                                                              *)
(***************************************************************************)
LEMMA SlotSets == {} \in SUBSET (0..3) /\ Slates \subseteq SUBSET (0..3)
  BY ChainConstants

\* What the instructions write into an account, with any slots and winner.
LEMMA FilledType ==
    ASSUME NEW b \in BatchAccount, NEW f \in SUBSET (0..3), NEW c \in BOOLEAN
    PROVE  [b EXCEPT !.filled = f, !.closed = c] \in BatchAccount
  BY DEF BatchAccount

LEMMA ReplayedType ==
    ASSUME NEW b \in BatchAccount, b.status # "Settled",
           NEW f \in SUBSET (0..3), NEW w \in 0..5
    PROVE  [b EXCEPT !.status = "Locked", !.filled = f, !.winner = w, !.closed = TRUE]
              \in BatchAccount
  BY DEF BatchAccount

LEMMA CountedType ==
    ASSUME NEW b \in BatchAccount, b.status # "Settled",
           NEW f \in SUBSET (0..3), NEW w \in 0..5
    PROVE  [b EXCEPT !.bets = @ + 1, !.filled = f, !.winner = w, !.closed = TRUE,
                     !.status = IF b.bets + 1 >= MaxBets THEN "Settled" ELSE "Locked"]
              \in BatchAccount
<1> DEFINE n == b.bets + 1
<1>1. n \in 0..MaxBets /\ MaxBets \in Nat
  BY ChainConstants DEF BatchAccount
<1> HIDE DEF n
<1>2. CASE n >= MaxBets
  BY <1>1, <1>2 DEF BatchAccount, n
<1>3. CASE ~(n >= MaxBets)
  <2>1. n < MaxBets
    BY <1>1, <1>3
  <2>2. QED
    BY <1>1, <1>3, <2>1 DEF BatchAccount, n
<1>4. QED
  BY <1>2, <1>3

LEMMA BetEndedType ==
    ASSUME NEW b \in BatchAccount, b.status # "Settled"
    PROVE  BetEnded(b) \in BatchAccount
<1>1. NoneYet \in 0..5
  BY DEF NoneYet
<1>2. QED
  BY <1>1, SlotSets, CountedType DEF BetEnded

LEMMA PositionAfterType ==
    ASSUME NEW p \in PositionAccount, NEW b \in BatchAccount, NEW r \in Requests
    PROVE  PositionAfter(p, b, r) \in PositionAccount
<1>1. NoPosition \in PositionAccount
  BY ChainConstants DEF NoPosition, PositionAccount
<1>2. b.bets \in 0..MaxBets /\ r.slot \in 0..4
  BY DEF BatchAccount, Requests
<1>3. CASE r.kind = "join"
  BY <1>1, <1>3 DEF PositionAfter, PositionAccount
<1>4. CASE r.kind = "leave"
  BY <1>4 DEF PositionAfter, PositionAccount
<1>5. CASE r.kind = "vote"
  BY <1>2, <1>5 DEF PositionAfter, PositionAccount
<1>6. CASE r.kind \in {"claim", "wager"}
  BY <1>6 DEF PositionAfter, PositionAccount
<1>7. CASE r.kind = "default"
  BY <1>7 DEF PositionAfter
<1>8. QED
  BY <1>3, <1>4, <1>5, <1>6, <1>7 DEF Requests

LEMMA ChainUpdate ==
    ASSUME chain \in ChainState, NEW b, NEW a \in BatchAccount
    PROVE  [chain EXCEPT !.batch[b] = a] \in ChainState
  BY DEF ChainState

LEMMA ExecuteType ==
    ASSUME chain \in ChainState, NEW u, NEW r \in Requests, Execute(u, r)
    PROVE  chain' \in ChainState
<1> DEFINE b == chain.batch[r.batch]
           p == chain.pos[u][r.batch]
<1>1. /\ r.batch \in Batches
      /\ r.kind = "default" => b.status # "Settled"
  BY DEF Execute, Accepts, Requests
<1>2. b \in BatchAccount
  BY <1>1 DEF ChainState
<1>3. u \in Wallets => PositionAfter(p, b, r) \in PositionAccount
  BY <1>1, <1>2, PositionAfterType DEF ChainState
<1>4. (IF r.kind = "default" THEN BetEnded(b) ELSE b) \in BatchAccount
  BY <1>1, <1>2, BetEndedType
<1>5. chain' = [chain EXCEPT !.pos[u][r.batch] = PositionAfter(p, b, r),
                             !.batch[r.batch] = IF r.kind = "default" THEN BetEnded(b) ELSE b]
  BY DEF Execute
<1> HIDE DEF b, p
<1>6. QED
  BY <1>1, <1>3, <1>4, <1>5 DEF ChainState

LEMMA OperatorNextType ==
    ASSUME chain \in ChainState, OperatorNext
    PROVE  chain' \in ChainState
<1>1. CASE NewBatch
  BY <1>1 DEF NewBatch, ChainState
<1>2. ASSUME NEW b \in Batches,
             \/ Start(b) \/ (\E filled \in Slates : Propose(b, filled)) \/ CutOff(b)
             \/ (\E w \in 0..4 : Finalize(b, w)) \/ Cover(b) \/ EndBet(b) \/ MissBet(b)
      PROVE  chain' \in ChainState
  <2>1. chain.batch[b] \in BatchAccount
    BY DEF ChainState
  <2>2. PICK a \in BatchAccount : chain' = [chain EXCEPT !.batch[b] = a]
    <3>1. CASE Start(b)
      <4>1. [chain.batch[b] EXCEPT !.status = "Locked"] \in BatchAccount
        BY <2>1, <3>1 DEF BatchAccount, Start
      <4>2. QED
        BY <3>1, <4>1 DEF Start, ChainState
    <3>2. ASSUME NEW filled \in Slates, Propose(b, filled)
          PROVE  \E a \in BatchAccount : chain' = [chain EXCEPT !.batch[b] = a]
      <4>1. filled \in SUBSET (0..3)
        BY <3>2, SlotSets
      <4>2. PICK late \in BOOLEAN :
                chain' = [chain EXCEPT !.batch[b].filled = filled, !.batch[b].closed = late]
        BY <3>2 DEF Propose
      <4>3. [chain.batch[b] EXCEPT !.filled = filled, !.closed = late] \in BatchAccount
        BY <2>1, <4>1, FilledType
      <4>4. chain' = [chain EXCEPT !.batch[b] =
                         [chain.batch[b] EXCEPT !.filled = filled, !.closed = late]]
        BY <4>2 DEF ChainState
      <4>5. QED
        BY <4>3, <4>4
    <3>3. ASSUME NEW w \in 0..4, Finalize(b, w)
          PROVE  \E a \in BatchAccount : chain' = [chain EXCEPT !.batch[b] = a]
      <4>1. chain.batch[b].status # "Settled" /\ w \in 0..5
        BY <3>3 DEF Finalize
      <4>2. [chain.batch[b] EXCEPT !.winner = w, !.status = "AwaitingCollateral"]
               \in BatchAccount
        BY <2>1, <4>1 DEF BatchAccount
      <4>3. QED
        BY <3>3, <4>2 DEF Finalize, ChainState
    <3>4. CASE Cover(b)
      <4>1. [chain.batch[b] EXCEPT !.status = "Active"] \in BatchAccount
        BY <2>1, <3>4 DEF BatchAccount, Cover
      <4>2. QED
        BY <3>4, <4>1 DEF Cover, ChainState
    <3>5. CASE EndBet(b)
      <4>1. BetEnded(chain.batch[b]) \in BatchAccount
        BY <2>1, <3>5, BetEndedType DEF EndBet
      <4>2. QED
        BY <3>5, <4>1 DEF EndBet
    <3>6. CASE MissBet(b)
      <4>1. chain.batch[b].status # "Settled" /\ NoneYet \in 0..5
        BY <3>6 DEF MissBet, NoneYet
      <4>2. [chain.batch[b] EXCEPT !.status = "Locked", !.filled = {}, !.winner = NoneYet,
                                   !.closed = TRUE]
               \in BatchAccount
        BY <2>1, <4>1, SlotSets, ReplayedType
      <4>3. chain' = [chain EXCEPT !.batch[b] =
                         [chain.batch[b] EXCEPT !.status = "Locked", !.filled = {},
                                                !.winner = NoneYet, !.closed = TRUE]]
        BY <3>6 DEF MissBet, ChainState
      <4>4. QED
        BY <4>2, <4>3
    <3>7. CASE CutOff(b)
      <4>1. [chain.batch[b] EXCEPT !.closed = TRUE] \in BatchAccount
        BY <2>1 DEF BatchAccount
      <4>2. QED
        BY <3>7, <4>1 DEF CutOff, ChainState
    <3>8. QED
      BY <1>2, <3>1, <3>2, <3>3, <3>4, <3>5, <3>6, <3>7
  <2>3. QED
    BY <2>2, ChainUpdate
<1>3. QED
  BY <1>1, <1>2 DEF OperatorNext

-----------------------------------------------------------------------------
(***************************************************************************)
(* Loads.  ls is a sequence of loads, v the version of the chain, a the    *)
(* version of the acknowledged transaction and s whether it was seen.      *)
(***************************************************************************)
TypedLoads(ls, v) ==
    /\ ls \in Seq(Load)
    /\ \A k \in 1..Len(ls) : ls[k].batches <= v /\ ls[k].positions <= v

\* The loads that started after the acknowledgement are the last ones.
LateLoadsLast(ls) ==
    \A i \in 1..Len(ls), j \in 1..Len(ls) : i < j /\ ls[i].after => ls[j].after

\* What they have read is no older.
LateReadsAreNew(ls, a) ==
    \A k \in 1..Len(ls) : ls[k].after =>
        /\ ls[k].batches = 0 \/ ls[k].batches >= a
        /\ ls[k].positions = 0 \/ ls[k].positions >= a

\* The others are not applied any more.
EarlyLoadsOvertaken(ls) == \A k \in 1..Len(ls) : ls[k].after \/ ls[k].superseded

LoadsOK(ls, v, a, s) ==
    /\ TypedLoads(ls, v)
    /\ LateLoadsLast(ls)
    /\ LateReadsAreNew(ls, a)
    /\ s => EarlyLoadsOvertaken(ls)

\* A load that has just started after the acknowledgement.
Started(l) == l \in Load /\ l.after /\ l.batches = 0 /\ l.positions = 0

LEMMA NewLoadStarts ==
    ASSUME NEW w \in Wallets \cup {NoWallet}, NEW silent \in BOOLEAN, NEW refresh \in BOOLEAN
    PROVE  Started(NewLoad(w, silent, refresh, TRUE))
  BY DEF Started, NewLoad, Load

LEMMA AppendedLoads ==
    ASSUME NEW v \in Nat, NEW a \in Nat, NEW s \in BOOLEAN, NEW ls,
           LoadsOK(ls, v, a, s), NEW l, Started(l)
    PROVE  LoadsOK(Append(ls, l), v, a, s)
<1> DEFINE n == Len(ls)
           as == Append(ls, l)
<1>1. ls \in Seq(Load) /\ l \in Load /\ n \in Nat
  BY LenProperties DEF LoadsOK, TypedLoads, Started
<1>2. /\ as \in Seq(Load) /\ Len(as) = n + 1
      /\ \A i \in 1..n : as[i] = ls[i]
      /\ as[n + 1] = l
  BY <1>1, AppendTo
<1> HIDE DEF as, n
<1>3. ASSUME NEW i \in 1..Len(as)
      PROVE  (i \in 1..n /\ as[i] = ls[i]) \/ as[i] = l
  <2>1. i \in 1..n \/ i = n + 1
    BY <1>1, <1>2
  <2>2. QED
    BY <1>2, <2>1
<1>4. TypedLoads(as, v)
  <2>1. ASSUME NEW i \in 1..Len(as)
        PROVE  as[i].batches <= v /\ as[i].positions <= v
    <3>1. CASE i \in 1..n /\ as[i] = ls[i]
      BY <3>1 DEF LoadsOK, TypedLoads, n
    <3>2. CASE as[i] = l
      BY <3>2 DEF Started
    <3>3. QED
      BY <1>3, <3>1, <3>2
  <2>2. QED
    BY <1>2, <2>1 DEF TypedLoads
<1>5. LateLoadsLast(as)
  <2> SUFFICES ASSUME NEW i \in 1..Len(as), NEW j \in 1..Len(as), i < j, as[i].after
               PROVE  as[j].after
    BY DEF LateLoadsLast
  <2>1. CASE j = n + 1
    BY <1>2, <2>1 DEF Started
  <2>2. CASE j # n + 1
    <3>1. i \in 1..n /\ j \in 1..n
      BY <1>1, <1>2, <2>2
    <3>2. QED
      BY <1>2, <3>1 DEF LoadsOK, LateLoadsLast, n
  <2>3. QED
    BY <2>1, <2>2
<1>6. LateReadsAreNew(as, a)
  BY <1>3 DEF LoadsOK, LateReadsAreNew, Started, n
<1>7. s => EarlyLoadsOvertaken(as)
  BY <1>3 DEF LoadsOK, EarlyLoadsOvertaken, Started, n
<1>8. QED
  BY <1>4, <1>5, <1>6, <1>7 DEF LoadsOK, as

LEMMA LoadsOfALaterChain ==
    ASSUME NEW v \in Nat, NEW w \in Nat, v <= w, NEW a, NEW s, NEW ls, LoadsOK(ls, v, a, s)
    PROVE  LoadsOK(ls, w, a, s)
<1>1. \A k \in 1..Len(ls) : ls[k] \in Load
  BY ElementOfSeq DEF LoadsOK, TypedLoads
<1>2. TypedLoads(ls, w)
  BY <1>1 DEF LoadsOK, TypedLoads, Load
<1>3. QED
  BY <1>2 DEF LoadsOK

\* Replacing load k by one that differs in new reads only.
LEMMA ReadLoads ==
    ASSUME NEW v \in Nat, NEW a \in Nat, a <= v, NEW s \in BOOLEAN, NEW ls,
           LoadsOK(ls, v, a, s), NEW k \in 1..Len(ls), NEW l \in Load,
           l.after = ls[k].after, l.superseded = ls[k].superseded,
           l.batches \in {ls[k].batches, v},
           l.positions \in {ls[k].positions, v}
    PROVE  LoadsOK([ls EXCEPT ![k] = l], v, a, s)
<1> DEFINE es == [ls EXCEPT ![k] = l]
<1>1. ls \in Seq(Load)
  BY DEF LoadsOK, TypedLoads
<1>2. /\ es \in Seq(Load) /\ Len(es) = Len(ls)
      /\ \A j \in 1..Len(ls) : es[j] = IF j = k THEN l ELSE ls[j]
  BY <1>1, ExceptSeq
<1> HIDE DEF es
<1>3. ls[k] \in Load
  BY <1>1, ElementOfSeq
<1>4. TypedLoads(es, v)
  <2>1. ASSUME NEW j \in 1..Len(es)
        PROVE  es[j].batches <= v /\ es[j].positions <= v
    BY <1>2, <1>3 DEF LoadsOK, TypedLoads
  <2>2. QED
    BY <1>2, <2>1 DEF TypedLoads
<1>5. \A j \in 1..Len(ls) : es[j].after = ls[j].after /\ es[j].superseded = ls[j].superseded
  BY <1>2
<1>6. LateLoadsLast(es)
  BY <1>2, <1>5 DEF LoadsOK, LateLoadsLast
<1>7. LateReadsAreNew(es, a)
  BY <1>2, <1>3 DEF LoadsOK, LateReadsAreNew, Load
<1>8. s => EarlyLoadsOvertaken(es)
  BY <1>2, <1>5 DEF LoadsOK, EarlyLoadsOvertaken
<1>9. QED
  BY <1>4, <1>6, <1>7, <1>8 DEF LoadsOK, es

\* Where the i-th load is after the k-th was taken out.
LEMMA WithoutLoad ==
    ASSUME loads \in Seq(Load), NEW k \in 1..Len(loads)
    PROVE  /\ Without(k) \in Seq(Load)
           /\ Len(Without(k)) = Len(loads) - 1
           /\ \A i \in 1..(Len(loads) - 1) :
                 Without(k)[i] = IF i < k THEN loads[i] ELSE loads[i + 1]
<1> DEFINE n == Len(loads) - 1
<1>1. n \in Nat /\ \A i \in 1..Len(loads) : loads[i] \in Load
  BY LenProperties, ElementOfSeq
<1>2. \A i \in 1..n : (IF i < k THEN loads[i] ELSE loads[i + 1]) \in Load
  BY <1>1
<1> HIDE DEF n
<1>3. Without(k) = [i \in 1..n |-> IF i < k THEN loads[i] ELSE loads[i + 1]]
  BY DEF Without, n
<1>4. Without(k) \in [1..n -> Load]
  BY <1>2, <1>3
<1>5. Without(k) \in Seq(Load) /\ Len(Without(k)) = n
  BY <1>1, <1>4, FunctionIsSeq
<1>6. \A i \in 1..n : Without(k)[i] = IF i < k THEN loads[i] ELSE loads[i + 1]
  BY <1>3
<1>7. QED
  BY <1>5, <1>6 DEF n

LEMMA LoadsWithout ==
    ASSUME NEW v \in Nat, NEW a \in Nat, NEW s \in BOOLEAN,
           LoadsOK(loads, v, a, s), NEW k \in 1..Len(loads)
    PROVE  LoadsOK(Without(k), v, a, s)
<1> DEFINE n == Len(loads)
           ws == Without(k)
<1>1. loads \in Seq(Load) /\ n \in Nat
  BY LenProperties DEF LoadsOK, TypedLoads
<1>2. /\ ws \in Seq(Load) /\ Len(ws) = n - 1
      /\ \A i \in 1..(n - 1) : ws[i] = IF i < k THEN loads[i] ELSE loads[i + 1]
  BY <1>1, WithoutLoad
<1> HIDE DEF ws, n
<1>3. \A i \in 1..Len(ws) : \E j \in 1..n : ws[i] = loads[j]
  BY <1>1, <1>2 DEF n
<1>4. TypedLoads(ws, v)
  BY <1>2, <1>3 DEF LoadsOK, TypedLoads, n
<1>5. LateLoadsLast(ws)
  <2> SUFFICES ASSUME NEW i \in 1..Len(ws), NEW j \in 1..Len(ws), i < j, ws[i].after
               PROVE  ws[j].after
    BY DEF LateLoadsLast
  <2> DEFINE p == IF i < k THEN i ELSE i + 1
             q == IF j < k THEN j ELSE j + 1
  <2>1. i \in 1..(n - 1) /\ j \in 1..(n - 1)
    BY <1>2
  <2>2. p \in 1..n /\ q \in 1..n /\ p < q
    BY <1>1, <2>1 DEF n
  <2>3. ws[i] = loads[p] /\ ws[j] = loads[q]
    BY <1>2, <2>1
  <2> HIDE DEF p, q
  <2>4. QED
    BY <2>2, <2>3 DEF LoadsOK, LateLoadsLast, n
<1>6. LateReadsAreNew(ws, a)
  BY <1>3 DEF LoadsOK, LateReadsAreNew, n
<1>7. s => EarlyLoadsOvertaken(ws)
  BY <1>3 DEF LoadsOK, EarlyLoadsOvertaken, n
<1>8. QED
  BY <1>4, <1>5, <1>6, <1>7 DEF LoadsOK, ws

\* Applying a late load leaves no early one that is not superseded.
LEMMA LoadsOvertaken ==
    ASSUME NEW v \in Nat, NEW a \in Nat, NEW s \in BOOLEAN,
           LoadsOK(loads, v, a, s), NEW k \in 1..Len(loads)
    PROVE  /\ LoadsOK(Overtaken(k), v, a, s)
           /\ loads[k].after => LoadsOK(Overtaken(k), v, a, TRUE)
<1> DEFINE n == Len(loads)
           ws == Without(k)
           os == Overtaken(k)
<1>1. loads \in Seq(Load) /\ n \in Nat
  BY LenProperties DEF LoadsOK, TypedLoads
<1>2. /\ ws \in Seq(Load) /\ Len(ws) = n - 1
      /\ \A i \in 1..(n - 1) : ws[i] = IF i < k THEN loads[i] ELSE loads[i + 1]
  BY <1>1, WithoutLoad
<1>3. LoadsOK(ws, v, a, s)
  BY LoadsWithout
<1>4. os = [i \in 1..(n - 1) |-> [ws[i] EXCEPT !.superseded = @ \/ i < k]]
  BY DEF Overtaken
<1> HIDE DEF ws, os
<1>5. \A i \in 1..(n - 1) : ws[i] \in Load
  BY <1>2, ElementOfSeq
<1>6. ASSUME NEW i \in 1..(n - 1)
      PROVE  /\ os[i] \in Load
             /\ os[i].after = ws[i].after
             /\ os[i].batches = ws[i].batches
             /\ os[i].positions = ws[i].positions
             /\ ws[i].superseded \/ i < k => os[i].superseded
  <2>1. ws[i] \in Load
    BY <1>5
  <2>2. os[i] = [ws[i] EXCEPT !.superseded = ws[i].superseded \/ i < k]
    BY <1>4
  <2>3. QED
    BY <2>1, <2>2 DEF Load
<1>7. os \in Seq(Load) /\ Len(os) = n - 1
  <2>1. os \in [1..(n - 1) -> Load]
    BY <1>4, <1>6
  <2>2. n - 1 \in Nat
    BY <1>1
  <2>3. QED
    BY <2>1, <2>2, FunctionIsSeq
<1>8. TypedLoads(os, v)
  <2>1. ASSUME NEW i \in 1..Len(os)
        PROVE  os[i].batches <= v /\ os[i].positions <= v
    BY <1>2, <1>3, <1>6, <1>7 DEF LoadsOK, TypedLoads
  <2>2. QED
    BY <1>7, <2>1 DEF TypedLoads
<1>9. LateLoadsLast(os)
  BY <1>2, <1>3, <1>6, <1>7 DEF LoadsOK, LateLoadsLast
<1>10. LateReadsAreNew(os, a)
  BY <1>2, <1>3, <1>6, <1>7 DEF LoadsOK, LateReadsAreNew
<1>11. s => EarlyLoadsOvertaken(os)
  BY <1>2, <1>3, <1>6, <1>7 DEF LoadsOK, EarlyLoadsOvertaken
<1>12. loads[k].after => EarlyLoadsOvertaken(os)
  <2> SUFFICES ASSUME loads[k].after, NEW i \in 1..(n - 1)
               PROVE  os[i].after \/ os[i].superseded
    BY <1>7 DEF EarlyLoadsOvertaken
  <2>1. CASE i < k
    BY <1>6, <2>1
  <2>2. CASE ~(i < k)
    <3>1. i + 1 \in 1..n /\ k < i + 1 /\ ws[i] = loads[i + 1]
      BY <1>1, <1>2, <2>2
    <3>2. loads[i + 1].after
      BY <3>1 DEF LoadsOK, LateLoadsLast
    <3>3. QED
      BY <1>6, <3>1, <3>2
  <2>3. QED
    BY <2>1, <2>2
<1>13. QED
  BY <1>8, <1>9, <1>10, <1>11, <1>12 DEF LoadsOK, os

\* When a transaction is acknowledged, every load in flight is an early one.
AcknowledgedLoads == [k \in 1..Len(loads) |-> [loads[k] EXCEPT !.after = @ /\ tx.at = 0]]

LEMMA LoadsAcknowledged ==
    ASSUME NEW v \in Nat, NEW a \in Nat, NEW s \in BOOLEAN, LoadsOK(loads, v, a, s)
    PROVE  IF tx.at = 0 THEN LoadsOK(AcknowledgedLoads, v, a, s)
                        ELSE \A b \in Nat : LoadsOK(AcknowledgedLoads, v, b, FALSE)
<1> DEFINE n == Len(loads)
           ks == AcknowledgedLoads
<1>1. loads \in Seq(Load) /\ n \in Nat /\ \A k \in 1..n : loads[k] \in Load
  BY LenProperties, ElementOfSeq DEF LoadsOK, TypedLoads
<1>2. ASSUME NEW k \in 1..n
      PROVE  /\ ks[k] \in Load
             /\ ks[k].after <=> loads[k].after /\ tx.at = 0
             /\ ks[k].batches = loads[k].batches
             /\ ks[k].positions = loads[k].positions
             /\ ks[k].superseded = loads[k].superseded
  <2>1. loads[k] \in Load
    BY <1>1
  <2>2. ks[k] = [loads[k] EXCEPT !.after = loads[k].after /\ tx.at = 0]
    BY DEF AcknowledgedLoads
  <2>3. QED
    BY <2>1, <2>2 DEF Load
<1>3. ks \in Seq(Load) /\ Len(ks) = n
  <2>1. ks \in [1..n -> Load]
    BY <1>2 DEF AcknowledgedLoads
  <2>2. QED
    BY <1>1, <2>1, FunctionIsSeq
<1> HIDE DEF ks
<1>4. TypedLoads(ks, v)
  <2>1. ASSUME NEW k \in 1..Len(ks)
        PROVE  ks[k].batches <= v /\ ks[k].positions <= v
    BY <1>2, <1>3 DEF LoadsOK, TypedLoads
  <2>2. QED
    BY <1>3, <2>1 DEF TypedLoads
<1>5. LateLoadsLast(ks)
  BY <1>2, <1>3 DEF LoadsOK, LateLoadsLast
<1>6. CASE tx.at = 0
  <2>1. LateReadsAreNew(ks, a)
    BY <1>2, <1>3, <1>6 DEF LoadsOK, LateReadsAreNew
  <2>2. s => EarlyLoadsOvertaken(ks)
    BY <1>2, <1>3, <1>6 DEF LoadsOK, EarlyLoadsOvertaken
  <2>3. QED
    BY <1>4, <1>5, <1>6, <2>1, <2>2 DEF LoadsOK, ks
<1>7. CASE tx.at # 0
  <2>1. \A b \in Nat : LateReadsAreNew(ks, b)
    BY <1>2, <1>3, <1>7 DEF LateReadsAreNew
  <2>2. QED
    BY <1>4, <1>5, <1>7, <2>1 DEF LoadsOK, ks
<1>8. QED
  BY <1>6, <1>7

-----------------------------------------------------------------------------
(***************************************************************************)
(* The inductive invariant.                                                *)
(***************************************************************************)
LedgerOK == ledger \in Seq(ChainState) /\ Version > 0 /\ chain = ledger[Version]

UserOK ==
    /\ wallet \in Wallets \cup {NoWallet} /\ balanceOf \in Wallets \cup {NoWallet}
    /\ tx \in Transaction /\ tx.at \in Versions
    /\ acked \in Versions /\ ackSeen \in BOOLEAN

ScreenOK ==
    /\ selected \in Batches \cup {NoBatch} /\ autoSelected \in BOOLEAN /\ isLoading \in BOOLEAN
    /\ shown \in View /\ {shown.batches, shown.positions} \subseteq Versions

ContextInv ==
    /\ LedgerOK /\ UserOK /\ ScreenOK
    /\ LoadsOK(loads, Version, acked, ackSeen)
    /\ ReadYourWrites

LEMMA VersionType == ASSUME LedgerOK PROVE Version \in Nat \ {0}
  BY LenProperties DEF LedgerOK, Version

LEMMA InvImplies ==
    ASSUME ContextInv
    PROVE  ContextTypeOK /\ ReadYourWrites
<1>1. loads \in Seq(Load) /\ \A k \in 1..Len(loads) : loads[k] \in Load
  BY ElementOfSeq DEF ContextInv, LoadsOK, TypedLoads
<1>2. Version \in Nat
  BY VersionType DEF ContextInv
<1>3. ASSUME NEW k \in 1..Len(loads)
      PROVE  {loads[k].batches, loads[k].positions} \subseteq Versions
  <2>1. loads[k] \in Load
    BY <1>1
  <2>2. loads[k].batches <= Version /\ loads[k].positions <= Version
    BY DEF ContextInv, LoadsOK, TypedLoads
  <2>3. QED
    BY <1>2, <2>1, <2>2 DEF Load, Versions
<1>4. QED
  BY <1>1, <1>3 DEF ContextInv, ContextTypeOK, LedgerOK, UserOK, ScreenOK

LEMMA InitInv == ContextInit => ContextInv
<1> SUFFICES ASSUME ContextInit PROVE ContextInv
  OBVIOUS
<1> DEFINE l == NewLoad(wallet, FALSE, FALSE, FALSE)
<1>1. chain \in ChainState /\ ledger = <<chain>>
  BY ContextConstants DEF ContextInit
<1>2. LedgerOK /\ Version = 1
  BY <1>1 DEF LedgerOK, Version
<1>3. wallet \in Wallets \cup {NoWallet}
  BY DEF ContextInit
<1>4. UserOK
  <2>1. tx \in Transaction /\ tx.at = 0
    BY DEF ContextInit, NoTx, Transaction, Requests, VoteRequest
  <2>2. balanceOf = NoWallet /\ acked \in Versions /\ tx.at \in Versions /\ ackSeen = FALSE
    BY <1>2, <2>1 DEF ContextInit, Versions
  <2>3. QED
    BY <1>3, <2>1, <2>2 DEF UserOK
<1>5. ScreenOK
  <2>1. shown \in View /\ shown.batches = 0 /\ shown.positions = 0
    BY DEF ContextInit, NothingShown, View
  <2>2. selected = NoBatch /\ autoSelected = FALSE /\ isLoading = TRUE /\ 0 \in Versions
    BY <1>2 DEF ContextInit, Versions
  <2>3. QED
    BY <2>1, <2>2 DEF ScreenOK
<1>6. LoadsOK(loads, Version, acked, ackSeen)
  <2>1. loads = <<l>> /\ acked = 0 /\ ackSeen = FALSE
    BY DEF ContextInit
  <2>2. l \in Load /\ l.after = FALSE /\ l.batches = 0 /\ l.positions = 0
    BY <1>3 DEF NewLoad, Load
  <2> HIDE DEF l
  <2>3. QED
    BY <1>2, <2>1, <2>2
       DEF LoadsOK, TypedLoads, LateLoadsLast, LateReadsAreNew
<1>7. ReadYourWrites
  BY DEF ContextInit, ReadYourWrites
<1>8. QED
  BY <1>2, <1>4, <1>5, <1>6, <1>7 DEF ContextInv

LEMMA SameLedger ==
    ASSUME LedgerOK, UNCHANGED chainVars
    PROVE  LedgerOK' /\ Version' = Version /\ Versions' = Versions
  BY DEF LedgerOK, chainVars, Version, Versions

LEMMA NextLedger ==
    ASSUME LedgerOK, chain' \in ChainState, ledger' = Append(ledger, chain')
    PROVE  LedgerOK' /\ Version' = Version + 1 /\ Versions \subseteq Versions'
<1>1. Version \in Nat
  BY VersionType
<1>2. /\ ledger' \in Seq(ChainState) /\ Len(ledger') = Len(ledger) + 1
      /\ ledger'[Len(ledger) + 1] = chain'
  BY AppendTo DEF LedgerOK
<1>3. QED
  BY <1>1, <1>2 DEF LedgerOK, Version, Versions

\* What a step owes beside the ledger, when it leaves a part alone.
LEMMA SameLoads ==
    ASSUME ContextInv, Version' \in Nat, Version <= Version', UNCHANGED <<loads, acked, ackSeen>>
    PROVE  LoadsOK(loads', Version', acked', ackSeen')
<1>1. Version \in Nat
  BY VersionType DEF ContextInv
<1>2. LoadsOK(loads, Version, acked, ackSeen)
  BY DEF ContextInv
<1>3. LoadsOK(loads, Version', acked, ackSeen)
  BY <1>1, <1>2, LoadsOfALaterChain
<1>4. QED
  BY <1>3, Zenon

LEMMA SameScreen ==
    ASSUME ScreenOK, Versions \subseteq Versions',
           UNCHANGED <<selected, autoSelected, shown, isLoading>>
    PROVE  ScreenOK'
  BY DEF ScreenOK

LEMMA SameView ==
    ASSUME ReadYourWrites, UNCHANGED <<shown, acked, ackSeen>>
    PROVE  ReadYourWrites'
  BY DEF ReadYourWrites

LEMMA InvFacts ==
    ASSUME ContextInv
    PROVE  /\ Version \in Nat \ {0} /\ acked \in Nat /\ acked <= Version /\ ackSeen \in BOOLEAN
           /\ 0 \in Versions /\ Version \in Versions
           /\ wallet \in Wallets \cup {NoWallet}
           /\ LoadsOK(loads, Version, acked, ackSeen)
           /\ LedgerOK /\ UserOK /\ ScreenOK /\ ReadYourWrites
<1>1. Version \in Nat \ {0}
  BY VersionType DEF ContextInv
<1>2. QED
  BY <1>1 DEF ContextInv, UserOK, Versions

LEMMA LoadFacts ==
    ASSUME ContextInv, NEW k \in 1..Len(loads)
    PROVE  /\ loads[k] \in Load
           /\ {loads[k].batches, loads[k].positions} \subseteq Versions
<1>1. loads[k] \in Load
  BY ElementOfSeq DEF ContextInv, LoadsOK, TypedLoads
<1>2. QED
  BY InvImplies DEF ContextTypeOK

LEMMA ChainMovesInv == ASSUME ContextInv, ChainMoves PROVE ContextInv'
<1>1. chain \in ChainState
  BY InvImplies, ElementOfSeq, VersionType DEF ContextTypeOK, LedgerOK, Version
<1>2. ASSUME NEW u \in Wallets, NEW r \in Requests, Execute(u, r) PROVE chain' \in ChainState
  BY <1>1, <1>2, ExecuteType
<1>3. chain' \in ChainState
  BY <1>1, <1>2, OperatorNextType DEF ChainMoves
<1>4. LedgerOK' /\ Version' = Version + 1 /\ Versions \subseteq Versions'
  BY <1>3, InvFacts, NextLedger DEF ChainMoves
<1>5. UserOK'
  BY <1>4, InvFacts DEF ChainMoves, historyVars, UserOK
<1>6. ScreenOK'
  BY <1>4, InvFacts, SameScreen DEF ChainMoves, viewVars
<1>7. LoadsOK(loads', Version', acked', ackSeen')
  BY <1>4, InvFacts, SameLoads DEF ChainMoves, viewVars, historyVars
<1>8. ReadYourWrites'
  BY InvFacts, SameView DEF ChainMoves, viewVars, historyVars
<1>9. QED
  BY <1>4, <1>5, <1>6, <1>7, <1>8 DEF ContextInv

LEMMA LoadSilentlyInv == ASSUME ContextInv, LoadSilently PROVE ContextInv'
<1> DEFINE l == NewLoad(wallet, TRUE, FALSE, TRUE)
<1>1. LedgerOK' /\ Version' = Version /\ Versions' = Versions
  BY InvFacts, SameLedger DEF LoadSilently
<1>2. UserOK'
  BY <1>1, InvFacts DEF LoadSilently, historyVars, UserOK
<1>3. ScreenOK'
  BY <1>1, InvFacts, SameScreen DEF LoadSilently
<1>4. LoadsOK(loads', Version', acked', ackSeen')
  <2>1. Started(l)
    BY InvFacts, NewLoadStarts
  <2>2. loads' = Append(loads, l) /\ acked' = acked /\ ackSeen' = ackSeen
    BY DEF LoadSilently, historyVars
  <2> HIDE DEF l
  <2>3. LoadsOK(Append(loads, l), Version, acked, ackSeen)
    BY <2>1, InvFacts, AppendedLoads
  <2>4. QED
    BY <1>1, <2>2, <2>3, Zenon
<1>5. ReadYourWrites'
  BY InvFacts, SameView DEF LoadSilently, historyVars
<1>6. QED
  BY <1>1, <1>2, <1>3, <1>4, <1>5 DEF ContextInv

LEMMA ChangeWalletInv ==
    ASSUME ContextInv, NEW w \in Wallets \cup {NoWallet}, ChangeWallet(w)
    PROVE  ContextInv'
<1> DEFINE l == NewLoad(w, FALSE, FALSE, TRUE)
<1>1. LedgerOK' /\ Version' = Version /\ Versions' = Versions
  BY InvFacts, SameLedger DEF ChangeWallet
<1>2. UserOK'
  BY <1>1, InvFacts DEF ChangeWallet, historyVars, UserOK
<1>3. ScreenOK'
  BY <1>1, InvFacts DEF ChangeWallet, ScreenOK
<1>4. LoadsOK(loads', Version', acked', ackSeen')
  <2>1. Started(l)
    BY NewLoadStarts
  <2>2. loads' = Append(loads, l) /\ acked' = acked /\ ackSeen' = ackSeen
    BY DEF ChangeWallet, historyVars
  <2> HIDE DEF l
  <2>3. LoadsOK(Append(loads, l), Version, acked, ackSeen)
    BY <2>1, InvFacts, AppendedLoads
  <2>4. QED
    BY <1>1, <2>2, <2>3, Zenon
<1>5. ReadYourWrites'
  BY InvFacts, SameView DEF ChangeWallet, historyVars
<1>6. QED
  BY <1>1, <1>2, <1>3, <1>4, <1>5 DEF ContextInv

LEMMA ChainTyped == ASSUME ContextInv PROVE chain \in ChainState
  BY InvImplies, ElementOfSeq, VersionType DEF ContextTypeOK, LedgerOK, Version

LEMMA ReadNextInv ==
    ASSUME ContextInv, NEW k \in 1..Len(loads), ReadNext(k)
    PROVE  ContextInv'
<1>1. LedgerOK' /\ Version' = Version /\ Versions' = Versions
  BY InvFacts, SameLedger DEF ReadNext
<1>2. UserOK'
  BY <1>1, InvFacts DEF ReadNext, historyVars, UserOK
<1>3. ScreenOK'
  BY <1>1, InvFacts, SameScreen DEF ReadNext
<1>4. PICK l \in Load : /\ loads' = [loads EXCEPT ![k] = l]
                        /\ l.after = loads[k].after /\ l.superseded = loads[k].superseded
                        /\ l.batches \in {loads[k].batches, Version}
                        /\ l.positions \in {loads[k].positions, Version}
  <2>1. loads[k] \in Load /\ Version \in Nat
    BY LoadFacts, InvFacts
  <2>2. CASE ReadIds(k)
    <3>1. [loads[k] EXCEPT !.next = chain.next] \in Load
      BY <2>1, ChainTyped DEF Load, ChainState
    <3>2. loads' = [loads EXCEPT ![k] = [loads[k] EXCEPT !.next = chain.next]]
      BY <2>2 DEF ReadIds
    <3>3. QED
      BY <2>1, <3>1, <3>2 DEF Load
  <2>3. CASE ReadBatches(k)
    <3>1. [loads[k] EXCEPT !.batches = Version] \in Load
      BY <2>1 DEF Load
    <3>2. loads' = [loads EXCEPT ![k] = [loads[k] EXCEPT !.batches = Version]]
      BY <2>3 DEF ReadBatches
    <3>3. QED
      BY <2>1, <3>1, <3>2 DEF Load
  <2>4. CASE ReadPositions(k)
    <3>1. [loads[k] EXCEPT !.positions = Version] \in Load
      BY <2>1, <2>4 DEF Load, ReadPositions
    <3>2. loads' = [loads EXCEPT ![k] = [loads[k] EXCEPT !.positions = Version]]
      BY <2>4 DEF ReadPositions
    <3>3. QED
      BY <2>1, <3>1, <3>2 DEF Load
  <2>5. QED
    BY <2>2, <2>3, <2>4 DEF ReadNext
<1>5. LoadsOK(loads', Version', acked', ackSeen')
  <2>1. acked' = acked /\ ackSeen' = ackSeen
    BY DEF ReadNext, historyVars
  <2>2. LoadsOK([loads EXCEPT ![k] = l], Version, acked, ackSeen)
    BY <1>4, InvFacts, ReadLoads
  <2>3. QED
    BY <1>1, <1>4, <2>1, <2>2, Zenon
<1>6. ReadYourWrites'
  BY InvFacts, SameView DEF ReadNext, historyVars
<1>7. QED
  BY <1>1, <1>2, <1>3, <1>5, <1>6 DEF ContextInv

\* The selection is of a batch that was answered.
LEMMA SelectionType ==
    ASSUME LedgerOK, NEW v, v.batches \in Versions, selected \in Batches \cup {NoBatch}
    PROVE  AutoSelection(v) \in Batches \cup {NoBatch}
<1>1. Known(v) \subseteq Batches /\ LiveBatches(v) \subseteq Known(v)
  BY ContextConstants DEF Known, LiveBatches, Listed
<1>2. CASE Known(v) = {}
  BY <1>1, <1>2 DEF AutoSelection
<1>3. CASE Known(v) # {}
  <2>1. v.batches \in 1..Len(ledger)
    BY <1>3, VersionType DEF Known, Versions, Version
  <2>2. ledger[v.batches] \in ChainState
    BY <2>1, ElementOfSeq DEF LedgerOK
  <2> DEFINE n == ledger[v.batches].next
  <2>3. n \in Nat
    BY <2>2 DEF ChainState
  <2>4. \A b \in Known(v) : b < n
    BY DEF Known
  <2>5. Known(v) \in SUBSET Nat /\ LiveBatches(v) \in SUBSET Nat
    BY <1>1, ChainConstants
  <2> HIDE DEF n
  <2>6. LiveBatches(v) # {} => Max(LiveBatches(v)) \in LiveBatches(v)
    BY <1>1, <2>3, <2>4, <2>5, MaxIsMember
  <2>7. Min(Known(v)) \in Known(v)
    BY <1>3, <2>5, MinIsMember
  <2>8. QED
    BY <1>1, <1>3, <2>6, <2>7 DEF AutoSelection
<1>4. QED
  BY <1>2, <1>3

LEMMA LoadEndsType ==
    ASSUME ContextInv, NEW k \in 1..Len(loads), LoadEnds(k)
    PROVE  isLoading' \in BOOLEAN /\ tx' \in Transaction /\ tx'.at = tx.at
<1>1. tx \in Transaction /\ isLoading \in BOOLEAN /\ loads[k].silent \in BOOLEAN
  BY LoadFacts, InvFacts DEF UserOK, ScreenOK, Load
<1>2. tx' = tx \/ tx' = [tx EXCEPT !.stage = "balance"]
  BY DEF LoadEnds
<1>3. tx' \in Transaction /\ tx'.at = tx.at
  BY <1>1, <1>2 DEF Transaction
<1>4. QED
  BY <1>1, <1>3 DEF LoadEnds

LEMMA ApplyInv ==
    ASSUME ContextInv, NEW k \in 1..Len(loads), Apply(k)
    PROVE  ContextInv'
<1> DEFINE v == Answer(loads[k])
<1>1. LedgerOK' /\ Version' = Version /\ Versions' = Versions
  BY InvFacts, SameLedger DEF Apply
<1>2. loads[k] \in Load /\ {loads[k].batches, loads[k].positions} \subseteq Versions
  BY LoadFacts
<1>3. /\ v \in View /\ v.wallet = loads[k].wallet
      /\ v.batches = loads[k].batches /\ v.positions = loads[k].positions
  BY <1>2 DEF Answer, View, Load
<1> HIDE DEF v
<1>4. shown' = v /\ selected' = AutoSelection(v) /\ autoSelected' = TRUE
  BY DEF Apply, v
<1>5. ScreenOK'
  <2>1. selected' \in Batches \cup {NoBatch}
    BY <1>2, <1>3, <1>4, InvFacts, SelectionType DEF ScreenOK
  <2>2. isLoading' \in BOOLEAN
    BY LoadEndsType DEF Apply
  <2>3. QED
    BY <1>1, <1>2, <1>3, <1>4, <2>1, <2>2 DEF ScreenOK
<1>6. loads[k].after \in BOOLEAN /\ ackSeen \in BOOLEAN
  BY <1>2, InvFacts DEF Load
<1>7. UserOK'
  <2>1. tx' \in Transaction /\ tx'.at = tx.at
    BY LoadEndsType DEF Apply
  <2>2. wallet' = wallet /\ balanceOf' = balanceOf /\ acked' = acked /\ ackSeen' \in BOOLEAN
    BY <1>6 DEF Apply
  <2>3. QED
    BY <1>1, <2>1, <2>2, InvFacts DEF UserOK
<1>8. LoadsOK(loads', Version', acked', ackSeen')
  <2>1. loads' = Overtaken(k) /\ acked' = acked
    BY DEF Apply
  <2>2. /\ LoadsOK(Overtaken(k), Version, acked, ackSeen)
        /\ loads[k].after => LoadsOK(Overtaken(k), Version, acked, TRUE)
    BY InvFacts, LoadsOvertaken
  <2>3. ackSeen' = ackSeen \/ (loads[k].after /\ ackSeen' = TRUE)
    BY <1>6 DEF Apply
  <2>4. LoadsOK(Overtaken(k), Version, acked, ackSeen')
    BY <2>2, <2>3
  <2>5. QED
    BY <1>1, <2>1, <2>4, Zenon
<1>9. ReadYourWrites'
  <2> SUFFICES ASSUME ackSeen'
               PROVE  /\ shown'.batches >= acked
                      /\ shown'.wallet # NoWallet => shown'.positions >= acked
    BY DEF ReadYourWrites, Apply
  <2>1. loads[k].after
    <3>1. CASE ackSeen
      <4>1. loads[k].after \/ loads[k].superseded
        BY <3>1, InvFacts DEF LoadsOK, EarlyLoadsOvertaken
      <4>2. QED
        BY <4>1 DEF Apply, Stale
    <3>2. CASE ~ackSeen
      BY <3>2 DEF Apply
    <3>3. QED
      BY <3>1, <3>2
  <2>2. /\ loads[k].batches = 0 \/ loads[k].batches >= acked
        /\ loads[k].positions = 0 \/ loads[k].positions >= acked
    BY <2>1, InvFacts DEF LoadsOK, LateReadsAreNew
  <2>3. loads[k].batches > 0 /\ (loads[k].wallet # NoWallet => loads[k].positions > 0)
    BY DEF Apply, Answered
  <2>4. QED
    BY <1>3, <1>4, <2>2, <2>3
<1>10. QED
  BY <1>1, <1>5, <1>7, <1>8, <1>9 DEF ContextInv

\* A load that ends without being applied.
LEMMA LoadGivenUpInv ==
    ASSUME ContextInv, NEW k \in 1..Len(loads), Drop(k) \/ Fail(k)
    PROVE  ContextInv'
<1>1. LedgerOK' /\ Version' = Version /\ Versions' = Versions
  BY InvFacts, SameLedger DEF Drop, Fail
<1>2. /\ loads' = Without(k) /\ LoadEnds(k)
      /\ UNCHANGED <<wallet, selected, autoSelected, shown, balanceOf, acked, ackSeen>>
  BY DEF Drop, Fail, historyVars
<1>3. isLoading' \in BOOLEAN /\ tx' \in Transaction /\ tx'.at = tx.at
  BY <1>2, LoadEndsType
<1>4. UserOK'
  BY <1>1, <1>2, <1>3, InvFacts DEF UserOK
<1>5. ScreenOK'
  BY <1>1, <1>2, <1>3, InvFacts DEF ScreenOK
<1>6. LoadsOK(loads', Version', acked', ackSeen')
  <2>1. LoadsOK(Without(k), Version, acked, ackSeen)
    BY InvFacts, LoadsWithout
  <2>2. QED
    BY <1>1, <1>2, <2>1, Zenon
<1>7. ReadYourWrites'
  BY <1>2, InvFacts, SameView
<1>8. QED
  BY <1>1, <1>4, <1>5, <1>6, <1>7 DEF ContextInv

\* Steps that touch neither the chain nor a load nor what is on screen.
LEMMA UserStepInv ==
    ASSUME ContextInv, UNCHANGED <<chainVars, shown, loads, acked, ackSeen>>,
           autoSelected' = autoSelected, isLoading' = isLoading, wallet' = wallet,
           selected' \in Batches \cup {NoBatch}, balanceOf' \in Wallets \cup {NoWallet},
           tx' \in Transaction, tx'.at \in Versions
    PROVE  ContextInv'
<1>1. LedgerOK' /\ Version' = Version /\ Versions' = Versions
  BY InvFacts, SameLedger
<1>2. UserOK'
  BY <1>1, InvFacts DEF UserOK
<1>3. ScreenOK'
  BY <1>1, InvFacts DEF ScreenOK
<1>4. LoadsOK(loads', Version', acked', ackSeen')
  BY <1>1, InvFacts, SameLoads
<1>5. QED
  BY <1>1, <1>2, <1>3, <1>4, InvFacts, SameView DEF ContextInv

LEMMA TransactionFacts ==
    ASSUME ContextInv
    PROVE  /\ tx \in Transaction /\ tx.at \in Versions
           /\ tx.wallet \in Wallets \cup {NoWallet} /\ tx.request \in Requests
           /\ NoTx \in Transaction /\ NoTx.at \in Versions
           /\ selected \in Batches \cup {NoBatch} /\ balanceOf \in Wallets \cup {NoWallet}
<1>1. NoTx \in Transaction /\ NoTx.at = 0
  BY DEF NoTx, Transaction, Requests, VoteRequest
<1>2. QED
  BY <1>1, InvFacts DEF UserOK, ScreenOK, Transaction

LEMMA SubmitInv == ASSUME ContextInv, NEW r \in Requests, Submit(r) PROVE ContextInv'
<1>1. wallet \in Wallets \cup {NoWallet}
  BY InvFacts
<1>2. tx' \in Transaction /\ tx'.at = 0
  BY <1>1 DEF Submit, Transaction
<1>3. QED
  BY <1>2, InvFacts, TransactionFacts, UserStepInv DEF Submit, viewVars, historyVars

LEMMA SelectInv == ASSUME ContextInv, NEW b \in Batches, Select(b) PROVE ContextInv'
<1>1. selected' = b /\ UNCHANGED <<chainVars, wallet, autoSelected, shown, isLoading, balanceOf,
                                   loads, tx, historyVars>>
  BY DEF Select
<1>2. QED
  BY <1>1, TransactionFacts, UserStepInv DEF historyVars

\* Every handler of the context starts a transaction and does no more.
LEMMA HandlersInv ==
    ASSUME ContextInv,
           \/ \E b \in Batches : UserAsks(b)
           \/ \E i \in 0..4 : VoteBySlotIndex(i)
    PROVE  ContextInv'
<1>1. PICK r \in Asked : Submit(r)
  BY DEF UserAsks, Deposit, Withdraw, Claim, ClaimAndJoinLottery, SettleDefault,
         VoteBySlotIndex, Ask
<1>2. QED
  BY <1>1, ContextConstants, SubmitInv

LEMMA UserStepsInv ==
    ASSUME ContextInv,
           \/ BalanceArrives \/ (\E b \in Batches : Select(b))
           \/ Send \/ Revert \/ Throw \/ RefreshBalance
    PROVE  ContextInv'
<1>1. CASE BalanceArrives
  BY <1>1, InvFacts, TransactionFacts, UserStepInv DEF BalanceArrives, viewVars, historyVars
<1>2. CASE \E b \in Batches : Select(b)
  BY <1>2, SelectInv
<1>3. CASE Send
  <2>1. tx' \in Transaction /\ tx'.at = tx.at
    BY <1>3, TransactionFacts DEF Send, Transaction
  <2>2. QED
    BY <1>3, <2>1, TransactionFacts, UserStepInv DEF Send, viewVars, historyVars
<1>4. CASE Revert
  <2>1. tx' \in Transaction /\ tx'.at \in Versions
    BY <1>4, TransactionFacts DEF Revert, Transaction
  <2>2. QED
    BY <1>4, <2>1, TransactionFacts, UserStepInv DEF Revert, viewVars, historyVars
<1>5. CASE Throw
  BY <1>5, TransactionFacts, UserStepInv DEF Throw, viewVars, historyVars
<1>6. CASE RefreshBalance
  BY <1>6, TransactionFacts, UserStepInv DEF RefreshBalance, viewVars, historyVars
<1>7. QED
  BY <1>1, <1>2, <1>3, <1>4, <1>5, <1>6

LEMMA LandInv == ASSUME ContextInv, Land PROVE ContextInv'
<1>1. chain \in ChainState
  BY ChainTyped
<1>2. chain' \in ChainState
  BY <1>1, TransactionFacts, ExecuteType DEF Land
<1>3. LedgerOK' /\ Version' = Version + 1 /\ Versions \subseteq Versions'
  BY <1>2, InvFacts, NextLedger DEF Land
<1>4. UserOK'
  <2>1. tx' \in Transaction /\ tx'.at = Version + 1
    <3>1. Version + 1 \in Nat
      BY InvFacts
    <3>2. tx' = [NoTx EXCEPT !.stage = "landed", !.wallet = tx.wallet, !.at = Version + 1]
      BY DEF Land
    <3>3. QED
      BY <3>1, <3>2, TransactionFacts DEF Transaction
  <2>2. Version + 1 \in Versions'
    BY <1>3, InvFacts DEF Versions
  <2>3. QED
    BY <1>3, <2>1, <2>2, InvFacts DEF Land, historyVars, UserOK
<1>5. ScreenOK'
  BY <1>3, InvFacts, SameScreen DEF Land, viewVars
<1>6. LoadsOK(loads', Version', acked', ackSeen')
  BY <1>3, InvFacts, SameLoads DEF Land, viewVars, historyVars
<1>7. ReadYourWrites'
  BY InvFacts, SameView DEF Land, viewVars, historyVars
<1>8. QED
  BY <1>3, <1>4, <1>5, <1>6, <1>7 DEF ContextInv

LEMMA AcknowledgeInv == ASSUME ContextInv, Acknowledge PROVE ContextInv'
<1> DEFINE l == NewLoad(tx.wallet, TRUE, TRUE, TRUE)
<1>1. LedgerOK' /\ Version' = Version /\ Versions' = Versions
  BY InvFacts, SameLedger DEF Acknowledge
<1>2. tx.at \in Nat
  BY TransactionFacts DEF Versions
<1>3. \/ tx.at = 0 /\ acked' = acked /\ ackSeen' = ackSeen
      \/ tx.at # 0 /\ acked' = tx.at /\ ackSeen' = FALSE
  <2>1. CASE tx.at = 0
    BY <2>1 DEF Acknowledge
  <2>2. CASE tx.at # 0
    <3>1. tx.at > 0
      BY <1>2, <2>2
    <3>2. acked' = tx.at
      BY <3>1 DEF Acknowledge
    <3>3. ackSeen' = FALSE
      BY <3>1 DEF Acknowledge
    <3>4. QED
      BY <2>2, <3>2, <3>3
  <2>3. QED
    BY <2>1, <2>2
<1>4. UserOK'
  <2>1. tx' \in Transaction /\ tx'.at = 0 /\ 0 \in Versions
    BY InvFacts, TransactionFacts DEF Acknowledge, Transaction, Versions
  <2>2. acked' \in Versions /\ ackSeen' \in BOOLEAN
    BY <1>3, InvFacts, TransactionFacts DEF UserOK
  <2>3. wallet' = wallet /\ balanceOf' = balanceOf
    BY DEF Acknowledge
  <2>4. QED
    BY <1>1, <2>1, <2>2, <2>3, InvFacts, TransactionFacts DEF UserOK
<1>5. ScreenOK'
  BY <1>1, InvFacts, SameScreen DEF Acknowledge
<1>6. LoadsOK(loads', Version', acked', ackSeen')
  <2>1. Started(l)
    BY TransactionFacts, NewLoadStarts
  <2>2. loads' = Append(AcknowledgedLoads, l)
    BY DEF Acknowledge, AcknowledgedLoads
  <2> HIDE DEF l
  <2>3. IF tx.at = 0 THEN LoadsOK(AcknowledgedLoads, Version, acked, ackSeen)
                     ELSE \A b \in Nat : LoadsOK(AcknowledgedLoads, Version, b, FALSE)
    BY InvFacts, LoadsAcknowledged
  <2>4. CASE tx.at = 0 /\ acked' = acked /\ ackSeen' = ackSeen
    <3>1. LoadsOK(Append(AcknowledgedLoads, l), Version, acked, ackSeen)
      BY <2>1, <2>3, <2>4, InvFacts, AppendedLoads
    <3>2. QED
      BY <1>1, <2>2, <2>4, <3>1, Zenon
  <2>5. CASE tx.at # 0 /\ acked' = tx.at /\ ackSeen' = FALSE
    <3>1. LoadsOK(AcknowledgedLoads, Version, tx.at, FALSE)
      BY <1>2, <2>3, <2>5
    <3>2. LoadsOK(Append(AcknowledgedLoads, l), Version, tx.at, FALSE)
      BY <1>2, <2>1, <3>1, InvFacts, AppendedLoads
    <3>3. QED
      BY <1>1, <2>2, <2>5, <3>2, Zenon
  <2>6. QED
    BY <1>3, <2>4, <2>5
<1>7. ReadYourWrites'
  <2>1. shown' = shown
    BY DEF Acknowledge
  <2>2. QED
    BY <1>3, <2>1, InvFacts DEF ReadYourWrites
<1>8. QED
  BY <1>1, <1>4, <1>5, <1>6, <1>7 DEF ContextInv

LEMMA ContextStep == ContextInv /\ [ContextNext]_contextVars => ContextInv'
<1> SUFFICES ASSUME ContextInv, [ContextNext]_contextVars PROVE ContextInv'
  OBVIOUS
<1>1. CASE ChainMoves
  BY <1>1, ChainMovesInv
<1>2. CASE Poll \/ Push
  BY <1>2, LoadSilentlyInv DEF Poll, Push
<1>3. CASE \E w \in Wallets \cup {NoWallet} : ChangeWallet(w)
  BY <1>3, ChangeWalletInv
<1>4. CASE \E k \in 1..Len(loads) : ReadNext(k) \/ Apply(k) \/ Drop(k) \/ Fail(k)
  BY <1>4, ReadNextInv, ApplyInv, LoadGivenUpInv
<1>5. CASE \/ BalanceArrives \/ (\E b \in Batches : Select(b))
           \/ Send \/ Revert \/ Throw \/ RefreshBalance
  BY <1>5, UserStepsInv
<1>6. CASE (\E b \in Batches : UserAsks(b)) \/ (\E i \in 0..4 : VoteBySlotIndex(i))
  BY <1>6, HandlersInv
<1>7. CASE Land
  BY <1>7, LandInv
<1>8. CASE Acknowledge
  BY <1>8, AcknowledgeInv
<1>9. CASE UNCHANGED contextVars
  BY <1>9, InvFacts, TransactionFacts, UserStepInv DEF contextVars, viewVars, historyVars
<1>10. QED
  BY <1>1, <1>2, <1>3, <1>4, <1>5, <1>6, <1>7, <1>8, <1>9 DEF ContextNext

-----------------------------------------------------------------------------
\* Whatever is answered, late or torn, and whichever wallet asks: every
\* variable of the context keeps its domain, and every version on screen or in
\* flight is one the chain went through (UndegenProgramContext.tsx).
THEOREM ContextTyped == ContextSpec => []ContextTypeOK
<1>1. ContextInv => ContextTypeOK
  BY InvImplies
<1>2. QED
  BY <1>1, InitInv, ContextStep, PTL DEF ContextSpec

\* Once a load that started after the confirmation of a transaction has been
\* applied, no answer takes the screen back behind it (loadState and its
\* request ids).
THEOREM WritesAreRead == ContextSpec => []ReadYourWrites
<1>1. ContextInv => ReadYourWrites
  BY InvImplies
<1>2. QED
  BY <1>1, InitInv, ContextStep, PTL DEF ContextSpec

-----------------------------------------------------------------------------
(***************************************************************************)
(* The live page.                                                          *)
(*                                                                         *)
(* ProposalsAreLive speaks of the moment when no description is in flight. *)
(* Before that, the last one asked for is of the batch and the version on  *)
(* screen and not superseded, or it has been applied and all that are      *)
(* still in flight are superseded (DescriptionsOK).  OnlyCutoffRefusesVote *)
(* needs besides that a mounted panel has a batch to show.                 *)
(***************************************************************************)
Description == [batch : Batches, version : Nat, superseded : BOOLEAN]

Panel == [mounted : BOOLEAN, seed : 0..5, voted : 0..5, chosen : 0..5]

DescriptionOf(live, version) == [batch |-> live, version |-> version, superseded |-> FALSE]

DescriptionsOK(ds, ps, live, version) ==
    live # NoBatch =>
        \/ Len(ds) > 0 /\ ds[Len(ds)] = DescriptionOf(live, version)
        \/ /\ ps = [batch |-> live, version |-> version]
           /\ \A k \in 1..Len(ds) : ds[k].superseded

PageTypes == describing \in Seq(Description) /\ panel \in Panel /\ voteSlot \in 0..5

PageInv ==
    /\ ContextInv
    /\ PageTypes
    /\ panel.mounted => Live # NoBatch
    /\ DescriptionsOK(describing, proposals, Live, shown.batches)

\* The batch on the page is one of those the answer lists, if it lists any.
LEMMA LiveBatchListed ==
    ASSUME LedgerOK, NEW v, v.batches \in Versions, NEW s
    PROVE  /\ LiveBatches(v) \subseteq Known(v) /\ Known(v) \subseteq Batches
           /\ LiveBatch(v, s) # NoBatch => LiveBatch(v, s) \in LiveBatches(v)
           /\ LiveBatch(v, s) \in Batches \cup {NoBatch}
<1>1. Known(v) \subseteq Batches /\ LiveBatches(v) \subseteq Known(v)
  BY ContextConstants DEF Known, LiveBatches, Listed
<1>2. ASSUME LiveBatches(v) # {}
      PROVE  Max(LiveBatches(v)) \in LiveBatches(v)
  <2>1. v.batches \in 1..Len(ledger)
    BY <1>1, <1>2, VersionType DEF Known, Versions, Version
  <2>2. ledger[v.batches] \in ChainState
    BY <2>1, ElementOfSeq DEF LedgerOK
  <2> DEFINE n == ledger[v.batches].next
  <2>3. n \in Nat /\ \A b \in LiveBatches(v) : b < n
    BY <1>1, <2>2 DEF ChainState, Known
  <2>4. LiveBatches(v) \in SUBSET Nat
    BY <1>1, ChainConstants
  <2> HIDE DEF n
  <2>5. QED
    BY <1>2, <2>3, <2>4, MaxIsMember
<1>3. LiveBatch(v, s) # NoBatch => LiveBatch(v, s) \in LiveBatches(v)
  BY <1>2 DEF LiveBatch, Highest
<1>4. QED
  BY <1>1, <1>3

\* What the page decides by is an account that was on chain.
LEMMA FetchedTypes ==
    ASSUME LedgerOK, NEW v \in View, {v.batches, v.positions} \subseteq Versions,
           NEW b \in Known(v)
    PROVE  /\ ledger[v.batches].batch[b] \in BatchAccount
           /\ Fetched(v, b).votedIndex \in 0..5
<1>1. b \in Batches /\ v.batches \in 1..Len(ledger)
  BY ContextConstants, VersionType DEF Known, Versions, Version
<1>2. ledger[v.batches] \in ChainState
  BY <1>1, ElementOfSeq DEF LedgerOK
<1> DEFINE p == IF v.positions = 0 THEN NoPosition ELSE ledger[v.positions].pos[v.wallet][b]
<1>3. p \in PositionAccount
  <2>1. CASE v.positions = 0
    BY <2>1, ChainConstants DEF NoPosition, PositionAccount
  <2>2. CASE v.positions # 0
    <3>1. v.positions \in 1..Len(ledger) /\ v.wallet \in Wallets
      BY <2>2, VersionType DEF Versions, Version, View
    <3>2. ledger[v.positions] \in ChainState
      BY <3>1, ElementOfSeq DEF LedgerOK
    <3>3. QED
      BY <1>1, <2>2, <3>1, <3>2 DEF ChainState
  <2>3. QED
    BY <2>1, <2>2
<1> DEFINE a == ledger[v.batches].batch[b]
<1>4. a \in BatchAccount
  BY <1>1, <1>2 DEF ChainState
<1>5. Fetched(v, b).votedIndex = VotedIndex(b, a, p)
  BY DEF Fetched, BatchState
<1> HIDE DEF p, a
<1>6. VotedIndex(b, a, p) \in 0..5
  BY <1>3 DEF VotedIndex, PositionAccount, NoneYet
<1>7. QED
  BY <1>4, <1>5, <1>6 DEF a

-----------------------------------------------------------------------------
\* A step of the context changes the ledger or what is shown, not both.
ShowsSame == ledger' = Append(ledger, chain') /\ UNCHANGED <<shown, selected>>

LEMMA OneOfBoth ==
    ASSUME ContextNext
    PROVE  UNCHANGED ledger \/ ShowsSame
<1>1. CASE ChainMoves \/ Land
  BY <1>1 DEF ChainMoves, Land, viewVars, ShowsSame
<1>2. CASE Poll \/ Push \/ (\E w \in Wallets \cup {NoWallet} : ChangeWallet(w))
  BY <1>2 DEF Poll, Push, LoadSilently, ChangeWallet, chainVars
<1>3. CASE \E k \in 1..Len(loads) : ReadNext(k) \/ Apply(k) \/ Drop(k) \/ Fail(k)
  BY <1>3 DEF ReadNext, Apply, Drop, Fail, chainVars
<1>4. CASE \E b \in Batches : Select(b) \/ UserAsks(b)
  BY <1>4 DEF Select, UserAsks, Deposit, Withdraw, Claim, ClaimAndJoinLottery, SettleDefault,
              Ask, Submit, chainVars
<1>5. CASE \E i \in 0..4 : VoteBySlotIndex(i)
  BY <1>5 DEF VoteBySlotIndex, Ask, Submit, chainVars
<1>6. CASE BalanceArrives \/ Send \/ Revert \/ Throw \/ Acknowledge \/ RefreshBalance
  BY <1>6 DEF BalanceArrives, Send, Revert, Throw, Acknowledge, RefreshBalance, chainVars
<1>7. QED
  BY <1>1, <1>2, <1>3, <1>4, <1>5, <1>6 DEF ContextNext

\* The ledger only grows, so what a version shows does not depend on when it
\* is looked at.
LEMMA LiveNow ==
    ASSUME LedgerOK, ScreenOK, UNCHANGED ledger \/ ShowsSame
    PROVE  Live' = LiveBatch(shown', selected')
<1>1. CASE UNCHANGED ledger
  BY <1>1 DEF Live, LiveBatch, LiveBatches, Listed, Known
<1>2. CASE ShowsSame
  <2>1. shown.batches \in Versions
    BY DEF ScreenOK
  <2>2. shown.batches # 0 => ledger'[shown.batches] = ledger[shown.batches]
    <3>1. ASSUME shown.batches # 0 PROVE shown.batches \in 1..Len(ledger)
      BY <2>1, <3>1, VersionType DEF Versions, Version
    <3>2. QED
      BY <1>2, <3>1 DEF ShowsSame, LedgerOK
  <2>3. Known(shown)' = Known(shown)
    BY <1>2, <2>2 DEF ShowsSame, Known
  <2>4. LiveBatches(shown)' = LiveBatches(shown)
    <3>1. Known(shown) # {} => shown.batches # 0
      BY DEF Known
    <3>2. QED
      BY <1>2, <2>2, <2>3, <3>1 DEF ShowsSame, LiveBatches, Listed
  <2>5. QED
    BY <1>2, <2>4 DEF ShowsSame, Live, LiveBatch
<1>3. QED
  BY <1>1, <1>2

LEMMA FreshPanelType == ASSUME NEW seed \in 0..5 PROVE FreshPanel(seed) \in Panel
  BY DEF FreshPanel, Panel

LEMMA NoPanelType == NoPanel \in Panel /\ ~NoPanel.mounted /\ NoneYet \in 0..5
  BY DEF NoPanel, Panel, NoneYet

LEMMA ContextMovesInv == ASSUME PageInv, ContextMoves PROVE PageInv'
<1> DEFINE l == LiveBatch(shown', selected')
<1>1. ContextInv /\ ContextNext /\ ContextInv'
  BY ContextStep DEF PageInv, ContextMoves
<1>2. UNCHANGED ledger \/ ShowsSame
  BY <1>1, OneOfBoth
<1>3. LedgerOK /\ ScreenOK /\ LedgerOK' /\ ScreenOK'
  BY <1>1 DEF ContextInv
<1>4. Live' = l
  BY <1>2, <1>3, LiveNow
<1>5. shown' \in View /\ {shown'.batches, shown'.positions} \subseteq Versions
  BY <1>2, <1>3 DEF ScreenOK, ShowsSame, Versions, Version
<1>6. /\ l \in Batches \cup {NoBatch}
      /\ l # NoBatch => l \in Known(shown') /\ l \in Batches
  BY <1>3, <1>5, LiveBatchListed
<1>7. l # NoBatch => Fetched(shown', l).votedIndex \in 0..5
  BY <1>3, <1>5, <1>6, FetchedTypes
<1>8. shown'.batches \in Nat
  BY <1>5 DEF View
<1> HIDE DEF l
<1>9. PageTypes
  BY DEF PageInv
<1>10. /\ panel' \in Panel /\ voteSlot' \in 0..5
       /\ panel'.mounted => l # NoBatch
  <2>1. CASE isLoading' \/ l = NoBatch
    <3>1. panel' = NoPanel /\ voteSlot' = NoneYet
      BY <2>1 DEF ContextMoves, Render, l
    <3>2. QED
      BY <3>1, NoPanelType
  <2>2. CASE ~(isLoading' \/ l = NoBatch)
    <3>1. panel' = Seeded(panel, Fetched(shown', l).votedIndex) /\ voteSlot' = voteSlot
      BY <2>2 DEF ContextMoves, Render, l
    <3>2. QED
      BY <1>7, <1>9, <2>2, <3>1, FreshPanelType DEF Seeded, PageTypes
  <2>3. QED
    BY <2>1, <2>2
<1>11. /\ describing' \in Seq(Description)
       /\ DescriptionsOK(describing', proposals', l, shown'.batches)
  <2>1. CASE l = NoBatch
    <3>1. describing' = describing
      BY <2>1 DEF ContextMoves, Describe, l
    <3>2. QED
      BY <1>9, <2>1, <3>1 DEF PageTypes, DescriptionsOK
  <2>2. CASE l # NoBatch /\ (shown' # shown \/ l # Live)
    <3> DEFINE d == DescriptionOf(l, shown'.batches)
    <3>1. describing' = Append(describing, d)
      BY <2>2 DEF ContextMoves, Describe, l, DescriptionOf
    <3>2. d \in Description
      BY <1>6, <1>8, <2>2 DEF DescriptionOf, Description
    <3> HIDE DEF d
    <3>3. /\ describing' \in Seq(Description)
          /\ Len(describing') = Len(describing) + 1
          /\ describing'[Len(describing) + 1] = d
      BY <1>9, <3>1, <3>2, AppendTo DEF PageTypes
    <3>4. Len(describing) \in Nat
      BY <1>9, LenProperties DEF PageTypes
    <3>5. Len(describing') > 0 /\ describing'[Len(describing')] = d
      BY <3>3, <3>4
    <3>6. QED
      BY <3>3, <3>5 DEF DescriptionsOK, d
  <2>3. CASE l # NoBatch /\ ~(shown' # shown \/ l # Live)
    <3>1. UNCHANGED <<proposals, describing>>
      BY <2>3 DEF ContextMoves, Describe, l
    <3>2. l = Live /\ shown'.batches = shown.batches
      BY <2>3
    <3>3. QED
      BY <1>9, <3>1, <3>2 DEF PageInv, PageTypes
  <2>4. QED
    BY <2>1, <2>2, <2>3
<1>12. QED
  BY <1>1, <1>4, <1>10, <1>11 DEF PageInv, PageTypes

-----------------------------------------------------------------------------
\* Steps of the page itself show the same batch in the same version.
LEMMA SameLive ==
    ASSUME UNCHANGED <<ledger, shown, selected>>
    PROVE  Live' = Live
  BY DEF Live, LiveBatch, LiveBatches, Listed, Known

LEMMA SameContext ==
    ASSUME ContextInv, UNCHANGED contextVars
    PROVE  ContextInv' /\ UNCHANGED <<ledger, shown, selected>>
  BY ContextStep DEF contextVars, chainVars, viewVars

\* The descriptions without the k-th, those before it superseded or not.
LEMMA DescriptionsWithout ==
    ASSUME describing \in Seq(Description), NEW k \in 1..Len(describing), NEW ds,
           \/ ds = Superseding(k)
           \/ ds = [i \in 1..(Len(describing) - 1) |->
                       IF i < k THEN describing[i] ELSE describing[i + 1]]
    PROVE  /\ ds \in Seq(Description) /\ Len(ds) = Len(describing) - 1
           /\ \A i \in 1..Len(ds) : i >= k => ds[i] = describing[i + 1]
           /\ ds = Superseding(k) => \A i \in 1..Len(ds) : i < k => ds[i].superseded
           /\ \A i \in 1..Len(ds) : i < k /\ describing[i].superseded => ds[i].superseded
<1> DEFINE n == Len(describing) - 1
<1>1. n \in Nat /\ \A i \in 1..Len(describing) : describing[i] \in Description
  BY LenProperties, ElementOfSeq
<1>2. ASSUME NEW i \in 1..n
      PROVE  /\ i >= k => ds[i] = describing[i + 1] /\ ds[i] \in Description
             /\ i < k => \/ ds[i] = describing[i]
                         \/ ds[i] = [describing[i] EXCEPT !.superseded = TRUE]
             /\ ds = Superseding(k) /\ i < k =>
                   ds[i] = [describing[i] EXCEPT !.superseded = TRUE]
  <2>1. i + 1 \in 1..Len(describing)
    BY <1>1
  <2>2. Superseding(k)[i] = IF i < k THEN [describing[i] EXCEPT !.superseded = TRUE]
                                     ELSE describing[i + 1]
    BY DEF Superseding
  <2>3. CASE ds = Superseding(k)
    BY <1>1, <2>1, <2>2, <2>3
  <2>4. CASE ds = [j \in 1..(Len(describing) - 1) |->
                      IF j < k THEN describing[j] ELSE describing[j + 1]]
    <3>1. ds[i] = IF i < k THEN describing[i] ELSE describing[i + 1]
      BY <2>4
    <3>2. i \in Nat /\ k \in Nat
      BY <1>1
    <3>3. ds = Superseding(k) /\ i < k => ds[i] = [describing[i] EXCEPT !.superseded = TRUE]
      BY <2>2
    <3> HIDE <2>4
    <3>4. QED
      BY <1>1, <2>1, <3>1, <3>2, <3>3
  <2>5. QED
    BY <2>3, <2>4
<1>3. ASSUME NEW i \in 1..n, i < k
      PROVE  /\ ds[i] \in Description
             /\ describing[i].superseded => ds[i].superseded
             /\ ds = Superseding(k) => ds[i].superseded
  <2>1. describing[i] \in Description
    BY <1>1
  <2>2. QED
    BY <1>2, <1>3, <2>1 DEF Description
<1>4. ds \in [1..n -> Description]
  <2>1. ASSUME NEW i \in 1..n PROVE ds[i] \in Description
    <3>1. i < k \/ i >= k
      BY <1>1
    <3> HIDE DEF n
    <3>2. QED
      BY <1>2, <1>3, <3>1
  <2>2. \/ ds = [i \in 1..n |-> IF i < k THEN [describing[i] EXCEPT !.superseded = TRUE]
                                         ELSE describing[i + 1]]
        \/ ds = [i \in 1..n |-> IF i < k THEN describing[i] ELSE describing[i + 1]]
    BY DEF Superseding
  <2> HIDE DEF n
  <2>3. QED
    BY <2>1, <2>2
<1> HIDE DEF n
<1>5. ds \in Seq(Description) /\ Len(ds) = n
  BY <1>1, <1>4, FunctionIsSeq
<1>6. QED
  BY <1>2, <1>3, <1>5 DEF n

LEMMA ProposalsArriveInv ==
    ASSUME PageInv, NEW k \in 1..Len(describing), ProposalsArrive(k)
    PROVE  PageInv'
<1> DEFINE n == Len(describing)
           d == describing[k]
<1>1. describing \in Seq(Description) /\ n \in Nat /\ k \in 1..n /\ d \in Description
  BY LenProperties, ElementOfSeq DEF PageInv, PageTypes
<1>2. /\ ContextInv' /\ Live' = Live /\ shown' = shown
      /\ panel' = panel /\ voteSlot' = voteSlot
  BY SameContext, SameLive DEF PageInv, ProposalsArrive
<1>3. /\ describing' \in Seq(Description) /\ Len(describing') = n - 1
      /\ \A i \in 1..(n - 1) : i >= k => describing'[i] = describing[i + 1]
      /\ ~d.superseded => \A i \in 1..(n - 1) : i < k => describing'[i].superseded
      /\ \A i \in 1..(n - 1) : i < k /\ describing[i].superseded => describing'[i].superseded
  BY <1>1, DescriptionsWithout DEF ProposalsArrive
<1>4. IF d.superseded THEN proposals' = proposals
                      ELSE proposals' = [batch |-> d.batch, version |-> d.version]
  BY DEF ProposalsArrive
<1> HIDE DEF n, d
<1>5. DescriptionsOK(describing', proposals', Live, shown.batches)
  <2> SUFFICES ASSUME Live # NoBatch
               PROVE  \/ /\ Len(describing') > 0
                         /\ describing'[Len(describing')] = DescriptionOf(Live, shown.batches)
                      \/ /\ proposals' = [batch |-> Live, version |-> shown.batches]
                         /\ \A i \in 1..Len(describing') : describing'[i].superseded
    BY DEF DescriptionsOK
  <2>1. CASE n > 0 /\ describing[n] = DescriptionOf(Live, shown.batches)
    <3>1. CASE k = n
      <4>1. ~d.superseded /\ d.batch = Live /\ d.version = shown.batches
        BY <2>1, <3>1 DEF d, DescriptionOf
      <4>2. \A i \in 1..(n - 1) : describing'[i].superseded
        BY <1>1, <1>3, <3>1, <4>1
      <4>3. QED
        BY <1>3, <1>4, <4>1, <4>2
    <3>2. CASE k # n
      <4>1. n - 1 \in 1..(n - 1) /\ n - 1 >= k /\ n - 1 > 0
        BY <1>1, <3>2
      <4>2. describing'[n - 1] = describing[n]
        <5>1. describing'[n - 1] = describing[(n - 1) + 1] /\ (n - 1) + 1 = n
          BY <1>1, <1>3, <4>1
        <5>2. QED
          BY <5>1
      <4>3. QED
        BY <1>3, <2>1, <4>1, <4>2
    <3>3. QED
      BY <3>1, <3>2
  <2>2. CASE /\ proposals = [batch |-> Live, version |-> shown.batches]
             /\ \A i \in 1..n : describing[i].superseded
    <3>1. d.superseded
      BY <1>1, <2>2 DEF d
    <3>2. ASSUME NEW i \in 1..(n - 1) PROVE describing'[i].superseded
      <4>1. i \in 1..n /\ i + 1 \in 1..n
        BY <1>1
      <4>2. i < k \/ i >= k
        BY <1>1
      <4>3. QED
        BY <1>3, <2>2, <4>1, <4>2
    <3>3. QED
      BY <1>3, <1>4, <2>2, <3>1, <3>2
  <2>3. QED
    BY <2>1, <2>2 DEF PageInv, DescriptionsOK, n
<1>6. QED
  BY <1>2, <1>3, <1>5 DEF PageInv, PageTypes

LEMMA ChooseInv == ASSUME PageInv, NEW i \in 0..4, Choose(i) PROVE PageInv'
<1>1. /\ ContextInv' /\ Live' = Live /\ shown' = shown
      /\ UNCHANGED <<proposals, describing, voteSlot>>
  BY SameContext, SameLive DEF PageInv, Choose
<1>2. panel \in Panel
  BY DEF PageInv, PageTypes
<1>3. panel' \in Panel /\ panel'.mounted = panel.mounted
  <2>1. (IF i = panel.chosen THEN NoneYet ELSE i) \in 0..5
    BY DEF NoneYet
  <2>2. panel' = [panel EXCEPT !.chosen = IF i = panel.chosen THEN NoneYet ELSE i]
    BY DEF Choose
  <2>3. QED
    BY <1>2, <2>1, <2>2 DEF Panel
<1>4. QED
  BY <1>1, <1>3 DEF PageInv, PageTypes

LEMMA VoteInv == ASSUME PageInv, Vote PROVE PageInv'
<1>1. panel.chosen \in 0..4 /\ selected \in Batches \cup {NoBatch}
  BY DEF Vote, VoteEnabled, PageInv, PageTypes, Panel, NoneYet, ContextInv, ScreenOK
<1>2. VoteRequest(selected, panel.chosen) \in Requests
  BY <1>1 DEF VoteRequest, Requests
<1>3. ContextInv'
  BY <1>2, SubmitInv DEF PageInv, Vote
<1>4. UNCHANGED <<ledger, shown, selected>>
  BY DEF Vote, Submit, chainVars, viewVars
<1>5. Live' = Live
  BY <1>4, SameLive
<1>6. QED
  BY <1>1, <1>3, <1>4, <1>5 DEF PageInv, PageTypes, Vote

LEMMA VoteEndsInv == ASSUME PageInv, VoteEnds PROVE PageInv'
<1>1. ContextNext
  BY DEF VoteEnds, ContextNext
<1>2. ContextInv'
  BY <1>1, ContextStep DEF PageInv
<1>3. UNCHANGED <<ledger, shown, selected>>
  BY DEF VoteEnds, RefreshBalance, Throw, chainVars, viewVars
<1>4. Live' = Live
  BY <1>3, SameLive
<1>5. panel \in Panel /\ voteSlot \in 0..5
  BY DEF PageInv, PageTypes
<1>6. panel' \in Panel /\ panel'.mounted = panel.mounted /\ voteSlot' \in 0..5
  <2>1. \/ panel' = panel
        \/ panel' = [panel EXCEPT !.voted = IF voteSlot = NoneYet THEN panel.voted ELSE voteSlot]
    BY DEF VoteEnds
  <2>2. voteSlot' = NoneYet
    BY DEF VoteEnds
  <2>3. QED
    BY <1>5, <2>1, <2>2 DEF Panel, NoneYet
<1>7. QED
  BY <1>2, <1>3, <1>4, <1>6 DEF PageInv, PageTypes, VoteEnds

LEMMA LiveStep == PageInv /\ [LiveNext]_liveVars => PageInv'
<1> SUFFICES ASSUME PageInv, [LiveNext]_liveVars PROVE PageInv'
  OBVIOUS
<1>1. CASE ContextMoves
  BY <1>1, ContextMovesInv
<1>2. CASE \E k \in 1..Len(describing) : ProposalsArrive(k)
  BY <1>2, ProposalsArriveInv
<1>3. CASE \E i \in 0..4 : Choose(i)
  BY <1>3, ChooseInv
<1>4. CASE Vote
  BY <1>4, VoteInv
<1>5. CASE VoteEnds
  BY <1>5, VoteEndsInv
<1>6. CASE UNCHANGED liveVars
  <2>1. UNCHANGED contextVars /\ UNCHANGED <<proposals, describing, panel, voteSlot>>
    BY <1>6 DEF liveVars, pageVars
  <2>2. ContextInv' /\ UNCHANGED <<ledger, shown, selected>>
    BY <2>1, SameContext DEF PageInv
  <2>3. Live' = Live
    BY <2>2, SameLive
  <2>4. QED
    BY <2>1, <2>2, <2>3 DEF PageInv, PageTypes
<1>7. QED
  BY <1>1, <1>2, <1>3, <1>4, <1>5, <1>6 DEF LiveNext

LEMMA LiveInitInv == LiveInit => PageInv
<1> SUFFICES ASSUME LiveInit PROVE PageInv
  OBVIOUS
<1>1. ContextInv
  BY InitInv DEF LiveInit
<1>2. describing = <<>> /\ panel = NoPanel /\ voteSlot = NoneYet
  BY DEF LiveInit
<1>3. PageTypes
  BY <1>2, NoPanelType DEF PageTypes
<1>4. Live = NoBatch
  BY DEF LiveInit, ContextInit, NothingShown, Live, LiveBatch, LiveBatches, Listed, Known,
         Highest
<1>5. QED
  BY <1>1, <1>2, <1>3, <1>4, NoPanelType DEF PageInv, DescriptionsOK

-----------------------------------------------------------------------------
\* Once every description has been answered, the proposals above the vote
\* buttons are of the batch on the page, in the version on the page, however
\* many descriptions overlapped and in whatever order they came back
\* (app/page.tsx: the description effect and its cancelled flag).
THEOREM LiveProposals == LiveSpec => []ProposalsAreLive
<1>1. PageInv => ProposalsAreLive
  <2> SUFFICES ASSUME PageInv, describing = <<>>, Live # NoBatch
               PROVE  proposals = [batch |-> Live, version |-> shown.batches]
    BY DEF ProposalsAreLive
  <2>1. Len(describing) = 0
    OBVIOUS
  <2>2. QED
    BY <2>1 DEF PageInv, DescriptionsOK
<1>2. QED
  BY <1>1, LiveInitInv, LiveStep, PTL DEF LiveSpec

\* On a screen that is up to date, the program refuses a click on Vote for
\* nothing but the cut-off before the kickoff: the voter has a position, the
\* batch is Locked and the slot is on its slate, whatever loads, descriptions
\* and changes of the chain came before (ConsensusVoting.tsx: handleVoteSlot;
\* cast_vote.rs).
THEOREM OnlyCutoffRefusesVotes == LiveSpec => []OnlyCutoffRefusesVote
<1>1. PageInv => OnlyCutoffRefusesVote
  <2> SUFFICES ASSUME PageInv, Settled, describing = <<>>, selected = Live, VoteEnabled,
                      panel.chosen \in ProposedSlots \cup {SkipVote}
               PROVE  \/ Accepts(wallet, VoteRequest(selected, panel.chosen))
                      \/ /\ chain.batch[selected].closed
                         /\ Votable(chain.batch[selected], chain.pos[wallet][selected],
                                    panel.chosen)
    BY DEF OnlyCutoffRefusesVote
  <2>1. ContextInv /\ LedgerOK /\ ScreenOK /\ Live # NoBatch
    BY DEF PageInv, VoteEnabled, ContextInv
  <2>2. /\ wallet \in Wallets /\ shown.wallet = wallet
        /\ shown.batches = Version /\ shown.positions = Version /\ shown.next = chain.next
    BY <2>1, InvFacts DEF VoteEnabled, CanVote, Settled, UpToDate
  <2>3. Version \in Nat \ {0} /\ ledger[Version] = chain /\ chain \in ChainState
    BY <2>1, VersionType, ChainTyped DEF LedgerOK
  <2>4. proposals = [batch |-> Live, version |-> Version]
    <3>1. Len(describing) = 0
      OBVIOUS
    <3>2. QED
      BY <2>1, <2>2, <3>1 DEF PageInv, DescriptionsOK
  <2>5. ProposedSlots = chain.batch[Live].filled
    BY <2>1, <2>3, <2>4 DEF ProposedSlots
  <2>6. Live \in LiveBatches(shown) /\ Live \in Known(shown) /\ Live \in Batches
    BY <2>1, LiveBatchListed DEF ScreenOK, Live
  <2> DEFINE b == chain.batch[Live]
             p == chain.pos[wallet][Live]
  <2>7. b \in BatchAccount /\ p \in PositionAccount
    BY <2>2, <2>3, <2>6 DEF ChainState
  <2>8. Exists(Live)
    BY <2>2, <2>3, <2>6 DEF Known, Exists
  <2>9. LiveState = BatchState(Live, b, p)
    BY <2>2, <2>3 DEF LiveState, Fetched
  <2>10. b.status = "Locked"
    <3>1. Phase(b.status) = "Active"
      BY <2>2, <2>3, <2>6 DEF LiveBatches, Listed
    <3>2. b.status \notin {"AwaitingCollateral", "Active"}
      BY <2>9 DEF VoteEnabled, VotingCompleted, BatchState
    <3>3. QED
      BY <2>7, <3>1, <3>2 DEF Phase, BatchAccount
  <2>11. p.open
    <3>1. p.stake
      BY <2>9 DEF VoteEnabled, CanVote, BatchState
    <3>2. QED
      BY <2>7, <3>1 DEF PositionAccount
  <2> HIDE DEF b, p
  <2>12. Votable(b, p, panel.chosen)
    BY <2>5, <2>10, <2>11 DEF Votable, b
  <2>13. ~b.closed => Accepts(wallet, VoteRequest(Live, panel.chosen))
    BY <2>6, <2>8, <2>12 DEF Accepts, VoteRequest, b, p
  <2>14. QED
    BY <2>12, <2>13 DEF b, p
<1>2. QED
  BY <1>1, LiveInitInv, LiveStep, PTL DEF LiveSpec
=============================================================================
