----------------------------- MODULE FeedProofs ----------------------------
(***************************************************************************)
(* What the app makes of bet_terms, feed and Redis is the bet that is      *)
(* settled, for any catalog of options, any slates and any number of       *)
(* goals: the terms of single bets first, then what a batch's slots are    *)
(* labelled, voted by and announced as.                                    *)
(*                                                                         *)
(* The inductive invariant (FeedInv) says where everything comes from:     *)
(* bet_terms are the encoded options of the last proposal, and what Redis  *)
(* holds or is about to hold carries the message of the option stored with *)
(* it, under the edition of its day; the index stored with it is claimed   *)
(* nothing of.                                                             *)
(***************************************************************************)
EXTENDS MatchFeed, SequenceTheorems, WellFoundedInduction, TLAPS

-----------------------------------------------------------------------------
(***************************************************************************)
(* The terms of bets: for every line, outcome and score.                   *)
(***************************************************************************)
\* A number of goals is above a line exactly when it is above its floor, and
\* below exactly when it is below its ceiling.
LEMMA LineIsFloor ==
    ASSUME NEW n \in Int, NEW q \in Int
    PROVE  /\ Floor(q) \in Int /\ Ceiling(q) \in Int
           /\ n > Floor(q) <=> 4 * n > q
           /\ n < Ceiling(q) <=> 4 * n < q
BY SMT DEF Floor, Ceiling

\* A score gives a natural number of goals to both participants.
LEMMA ScoresHaveGoals ==
    ASSUME NEW score \in Scores(Nat), NEW p \in Periods
    PROVE  score[p][1] \in Nat /\ score[p][2] \in Nat
BY DEF Scores

\* Encoding (processor.rs) and settling agree: whatever the line and the
\* period, the predicate an option is proposed with holds on exactly the
\* scores on which the option wins, at the line the operator takes it to have.
THEOREM EncodingSettlesAsOption ==
    ASSUME NEW o \in Option, Encodable(o), NEW score \in Scores(Nat)
    PROVE  Holds(EncodedTerm(o), score) <=> Wins([o EXCEPT !.line = TakenLine(o)], score)
<1> DEFINE home == score[o.period][1]
           away == score[o.period][2]
           t == EncodedTerm(o)
           q == TakenLine(o)
           taken == [o EXCEPT !.line = q]
<1>1. o.period \in Periods /\ q \in Int /\ o.outcome \in Outcomes
  BY DEF Option, TakenLine
<1>2. home \in Nat /\ away \in Nat
  BY <1>1, ScoresHaveGoals
<1>3. Stat(o.period + 1, score) = home /\ Stat(o.period + 2, score) = away
  <2>1. CASE o.period = 0
    BY <2>1 DEF Stat
  <2>2. CASE o.period = 1000
    BY <2>2 DEF Stat
  <2>3. CASE o.period = 3000
    BY <2>3 DEF Stat
  <2> QED BY <1>1, <2>1, <2>2, <2>3 DEF Periods
<1>4. /\ taken.market = o.market /\ taken.outcome = o.outcome
      /\ taken.period = o.period /\ taken.line = q
  BY DEF Option
<1> HIDE DEF taken
<1>5. CASE o.market = "1X2"
  <2>1. t.statA = o.period + 1 /\ t.statB = o.period + 2 /\ t.op = "Subtract"
            /\ t.threshold = 0 /\ t.comparison = ResultComparison(o.outcome)
    BY <1>5 DEF EncodedTerm
  <2>2. o.outcome \in {"part1", "part2", "draw"}
    BY <1>5 DEF Encodable
  <2> HIDE DEF t, q
  <2>3. Holds(t, score) <=> CASE t.comparison = "Greater" -> home - away > 0
                              [] t.comparison = "Less" -> home - away < 0
                              [] OTHER -> home - away = 0
    BY <1>3, <2>1 DEF Holds
  <2>4. Wins(taken, score) <=> \/ o.outcome = "part1" /\ 4 * home > 4 * away
                               \/ o.outcome = "part2" /\ 4 * home < 4 * away
                               \/ o.outcome = "draw" /\ 4 * home = 4 * away
    BY <1>4, <1>5 DEF Wins
  <2> HIDE DEF home, away
  <2>5. Holds(t, score) <=> Wins(taken, score)
    BY <1>2, <2>1, <2>2, <2>3, <2>4 DEF ResultComparison
  <2> QED BY <2>5 DEF t, q, taken
<1>6. CASE o.market = "OverUnder"
  <2> DEFINE line == IF o.outcome = "over" THEN Floor(q) ELSE Ceiling(q)
             cmp == IF o.outcome = "over" THEN "Greater" ELSE "Less"
  <2>1. t.statA = o.period + 1 /\ t.statB = o.period + 2 /\ t.op = "Add"
            /\ t.threshold = line /\ t.comparison = cmp
    BY <1>6 DEF EncodedTerm
  <2> HIDE DEF t, q
  <2>2. Holds(t, score) <=> IF o.outcome = "over" THEN home + away > Floor(q)
                                                  ELSE home + away < Ceiling(q)
    BY <1>3, <2>1 DEF Holds
  <2>3. home + away \in Int
    BY <1>2
  <2>4. (home + away > Floor(q) <=> 4 * (home + away) > q)
            /\ (home + away < Ceiling(q) <=> 4 * (home + away) < q)
    BY <1>1, <2>3, LineIsFloor
  <2>5. 4 * (home + away) = 4 * home + 4 * away
    BY <1>2
  <2>6. Wins(taken, score) <=> IF o.outcome = "over" THEN 4 * home + 4 * away > q
                                                    ELSE 4 * home + 4 * away < q
    BY <1>4, <1>6 DEF Wins
  <2>7. Holds(t, score) <=> Wins(taken, score)
    BY <2>2, <2>4, <2>5, <2>6
  <2> QED BY <2>7 DEF t, q, taken
<1> QED BY <1>5, <1>6 DEF Encodable

\* Decoding (undegenProgram.ts) is as good for full-time options: the bet that
\* the label of an option recovered for a slot reads as wins on exactly the
\* scores on which the slot's predicate holds, handicaps included, which
\* nobody proposes, and however the feed spells the outcome.
THEOREM RecoverySettlesAsTerm ==
    ASSUME NEW o \in Option, NEW t \in Term, Recovers(o, t), o.period = 0,
           NEW score \in Scores(Nat)
    PROVE  Holds(t, score) <=> Wins(ReadAs(o), score)
<1> DEFINE home == score[0][1]
           away == score[0][2]
           p == DerivedPredicate(o)
           as == AppOutcome(o)
           read == ReadAs(o)
<1>1. o.line \in Int /\ -o.line \in Int /\ o.market \in Markets
  BY DEF Option
<1>2. home \in Nat /\ away \in Nat
  BY ScoresHaveGoals DEF Periods
<1>3. t.statA = 1 /\ t.statB = 2 /\ t.op = p.op /\ t.threshold = p.threshold
          /\ t.comparison = p.comparison
  BY DEF Recovers, DerivedTerm
<1>4. Stat(1, score) = home /\ Stat(2, score) = away
  BY DEF Stat
<1> DEFINE v == IF p.op = "Add" THEN home + away ELSE home - away
<1>5. Holds(t, score) <=> CASE p.comparison = "Greater" -> v > p.threshold
                            [] p.comparison = "Less" -> v < p.threshold
                            [] OTHER -> v = p.threshold
  BY <1>3, <1>4 DEF Holds
<1>9. read.market = o.market /\ read.period = 0 /\ read.line = o.line
  BY DEF ReadAs, Option
<1>10. o.market # "1X2" => read.outcome = as
  BY DEF ReadAs, Option
<1>11. o.market = "1X2" => read = o
  BY DEF ReadAs
<1> HIDE DEF home, away, as, read
<1>6. CASE o.market = "1X2"
  <2>1. o.outcome \in {"part1", "part2", "draw"}
    BY <1>6 DEF Recovers, Derivable, AppOutcome, Option
  <2>2. p = [op |-> "Subtract", threshold |-> 0, comparison |-> ResultComparison(o.outcome)]
    BY <1>6 DEF DerivedPredicate
  <2>3. Wins(read, score) <=> \/ o.outcome = "part1" /\ 4 * home > 4 * away
                              \/ o.outcome = "part2" /\ 4 * home < 4 * away
                              \/ o.outcome = "draw" /\ 4 * home = 4 * away
    BY <1>6, <1>9, <1>11 DEF Wins, home, away
  <2> HIDE DEF p
  <2>4. Holds(t, score) <=> Wins(read, score)
    BY <1>2, <1>5, <2>1, <2>2, <2>3 DEF ResultComparison
  <2> QED BY <2>4 DEF read
<1>7. CASE o.market = "OverUnder"
  <2>1. p = IF as = "over"
            THEN [op |-> "Add", threshold |-> Floor(o.line), comparison |-> "Greater"]
            ELSE [op |-> "Add", threshold |-> Ceiling(o.line), comparison |-> "Less"]
    BY <1>7 DEF DerivedPredicate, as
  <2>2. Wins(read, score) <=> IF as = "over" THEN 4 * home + 4 * away > o.line
                                                ELSE 4 * home + 4 * away < o.line
    BY <1>7, <1>9, <1>10 DEF Wins, home, away
  <2>3. home + away \in Int /\ 4 * (home + away) = 4 * home + 4 * away
    BY <1>2
  <2>4. (home + away > Floor(o.line) <=> 4 * (home + away) > o.line)
            /\ (home + away < Ceiling(o.line) <=> 4 * (home + away) < o.line)
    BY <1>1, <2>3, LineIsFloor
  <2> HIDE DEF p
  <2>5. Holds(t, score) <=> Wins(read, score)
    BY <1>5, <2>1, <2>2, <2>3, <2>4
  <2> QED BY <2>5 DEF read
<1>8. CASE o.market = "Handicap"
  <2>1. p = IF as = "part1"
            THEN [op |-> "Subtract", threshold |-> Floor(-o.line), comparison |-> "Greater"]
            ELSE [op |-> "Subtract", threshold |-> Ceiling(-o.line), comparison |-> "Less"]
    BY <1>8 DEF DerivedPredicate, as
  <2>2. Wins(read, score) <=> IF as = "part1" THEN 4 * home + o.line > 4 * away
                                                 ELSE 4 * home + o.line < 4 * away
    BY <1>8, <1>9, <1>10 DEF Wins, home, away
  <2>3. home - away \in Int /\ 4 * (home - away) = 4 * home - 4 * away
    BY <1>2
  <2>4. (home - away > Floor(-o.line) <=> 4 * (home - away) > -o.line)
            /\ (home - away < Ceiling(-o.line) <=> 4 * (home - away) < -o.line)
    BY <1>1, <2>3, LineIsFloor
  <2>5. (4 * home - 4 * away > -o.line <=> 4 * home + o.line > 4 * away)
            /\ (4 * home - 4 * away < -o.line <=> 4 * home + o.line < 4 * away)
    BY <1>1, <1>2
  <2> HIDE DEF p
  <2>6. Holds(t, score) <=> Wins(read, score)
    BY <1>5, <2>1, <2>2, <2>3, <2>4, <2>5
  <2> QED BY <2>6 DEF read
<1> QED BY <1>1, <1>6, <1>7, <1>8 DEF Markets

-----------------------------------------------------------------------------
(***************************************************************************)
(* Options and places.                                                     *)
(***************************************************************************)
LEMMA FirstPlace ==
    ASSUME NEW S \in SUBSET Nat, S # {}
    PROVE  Min(S) \in S
<1> DEFINE Less == {ss \in Nat \X Nat : ss[1] < ss[2]}
<1>1. Less = OpToRel(<, Nat)
  BY DEF OpToRel
<1>2. PICK x \in S : \A y \in S : ~(<<y, x>> \in Less)
  BY <1>1, NatLessThanWellFounded, WFMin
<1>3. ASSUME NEW y \in S PROVE x <= y
  <2>1. x \in Nat /\ y \in Nat
    OBVIOUS
  <2>2. y < x => <<y, x>> \in Less
    BY <2>1
  <2>3. QED
    BY <1>2, <2>1, <2>2
<1>4. QED
  BY <1>3 DEF Min

LEMMA OptionsTyped == ASSUME NEW o \in Options PROVE o \in Option /\ o # NoOption
<1>1. o \in Option
  BY FeedConstants, ElementOfSeq DEF Options
<1>2. QED
  BY <1>1 DEF Option, NoOption

LEMMA CatalogPlaces ==
    /\ Feed \subseteq 1..Len(Catalog) /\ 1..Len(Catalog) \subseteq Nat
    /\ \A f : Candidates(f) \subseteq Feed
    /\ \A k \in 1..Len(Catalog) : Catalog[k] \in Options
BY DEF Feed, Candidates, Options

\* The option recovered for a term is one of the feed that recovers it; there
\* is one if any candidate does.
LEMMA Recovered ==
    ASSUME NEW t
    PROVE  /\ RecoveredOption(t) # NoOption =>
                 RecoveredOption(t) \in Options /\ Recovers(RecoveredOption(t), t)
           /\ \A k \in Candidates(t.fixture) :
                 Recovers(Catalog[k], t) => RecoveredOption(t) # NoOption
<1> DEFINE found == {k \in Candidates(t.fixture) : Recovers(Catalog[k], t)}
<1>1. RecoveredOption(t) = IF found = {} THEN NoOption ELSE Catalog[Min(found)]
  BY DEF RecoveredOption, FirstOption
<1>2. found \in SUBSET Nat /\ found \subseteq 1..Len(Catalog)
  BY CatalogPlaces
<1>3. found # {} => Min(found) \in found
  BY <1>2, FirstPlace
<1>4. \A k \in found : Catalog[k] \in Options /\ Recovers(Catalog[k], t)
  BY <1>2, CatalogPlaces
<1>5. \A k \in Candidates(t.fixture) : Recovers(Catalog[k], t) => k \in found
  OBVIOUS
<1> HIDE DEF found
<1>6. found # {} => Catalog[Min(found)] # NoOption
  BY <1>3, <1>4, OptionsTyped
<1>7. QED
  BY <1>1, <1>3, <1>4, <1>5, <1>6

-----------------------------------------------------------------------------
(***************************************************************************)
(* The inductive invariant.                                                *)
(***************************************************************************)
SlateOK(slate) ==
    /\ slate \in Seq(Options) /\ Len(slate) <= 4
    /\ \A k \in 1..Len(slate) : Encodable(slate[k])

Stored ==
    {m \in [option : Options, id : [message : Nat, edition : Nat, index : 0..2],
            named : BOOLEAN] :
        m.id.message = m.option.message}

FeedInv ==
    /\ SlateOK(proposed)
    /\ terms = [i \in Slots |-> IF i < Len(proposed) THEN EncodedTerm(proposed[i + 1])
                                                     ELSE NoTerm]
    /\ mapping \in Seq(Stored) /\ unsaved \in Seq(Stored)
    /\ edition \in Nat

LEMMA NoSlateOK == SlateOK(NoSlate) /\ NoSlate \in Seq(Stored) /\ Len(NoSlate) = 0
  BY DEF SlateOK, NoSlate

LEMMA SlateTyped ==
    ASSUME NEW slate \in Slates
    PROVE  slate \in Seq(Options) /\ Len(slate) \in 1..4
<1>1. PICK n \in 1..MaxSlate : slate \in [1..n -> Options]
  BY DEF Slates
<1>2. n \in Nat /\ n \in 1..4
  BY FeedConstants
<1>3. QED
  BY <1>1, <1>2

LEMMA SlateStored ==
    ASSUME NEW slate \in Seq(Options), NEW named \in BOOLEAN, edition \in Nat
    PROVE  StoredSlots(slate, named) \in Seq(Stored)
<1> DEFINE n == Len(slate)
           m == StoredSlots(slate, named)
<1>1. n \in Nat /\ \A k \in 1..n : slate[k] \in Options
  BY LenProperties, ElementOfSeq
<1>2. ASSUME NEW k \in 1..n PROVE m[k] \in Stored
  <2>1. slate[k] \in Options /\ slate[k] \in Option
    BY <1>1, OptionsTyped
  <2> DEFINE stored == IF named THEN slate[k].index ELSE NamedIndex(slate[k])
  <2>2. m[k] = [option |-> slate[k], named |-> named,
                id |-> [message |-> slate[k].message, edition |-> edition, index |-> stored]]
    BY DEF StoredSlots, Identity
  <2>3. slate[k].message \in Nat /\ stored \in 0..2
    BY <2>1 DEF Option, Outcomes, NamedIndex
  <2> HIDE DEF stored
  <2> HIDE DEF m
  <2>4. QED
    BY <2>1, <2>2, <2>3 DEF Stored
<1>3. m \in [1..n -> Stored]
  BY <1>2 DEF StoredSlots
<1>4. QED
  BY <1>1, <1>3

LEMMA FeedInitInv == FeedInit => FeedInv
<1> SUFFICES ASSUME FeedInit PROVE FeedInv
  OBVIOUS
<1>1. proposed = NoSlate /\ mapping = NoSlate /\ unsaved = NoSlate /\ edition = 0
  BY DEF FeedInit
<1>2. terms = [i \in Slots |-> IF i < 0 THEN EncodedTerm(proposed[i + 1]) ELSE NoTerm]
  BY DEF FeedInit, NoTerms, Slots
<1>3. QED
  BY <1>1, <1>2, NoSlateOK DEF FeedInv

LEMMA ProposeInv ==
    ASSUME FeedInv, NEW slate \in Slates, NEW named \in BOOLEAN, Propose(slate, named)
    PROVE  FeedInv'
<1>1. SlateOK(slate)
  BY SlateTyped DEF SlateOK, Propose
<1>2. StoredSlots(slate, named) \in Seq(Stored)
  BY SlateTyped, SlateStored DEF FeedInv
<1>3. /\ proposed' = slate /\ unsaved' = StoredSlots(slate, named)
      /\ terms' = [i \in Slots |-> IF i < Len(slate) THEN EncodedTerm(slate[i + 1]) ELSE NoTerm]
      /\ mapping' = mapping /\ edition' = edition
  BY DEF Propose
<1>4. QED
  BY <1>1, <1>2, <1>3 DEF FeedInv

LEMMA ClearTermsInv == ASSUME FeedInv, ClearTerms PROVE FeedInv'
<1>1. /\ proposed' = NoSlate /\ terms' = NoTerms
      /\ UNCHANGED <<edition, mapping, unsaved>>
  BY DEF ClearTerms
<1>2. terms' = [i \in Slots |-> IF i < 0 THEN EncodedTerm(proposed'[i + 1]) ELSE NoTerm]
  BY <1>1 DEF NoTerms, Slots
<1>3. QED
  BY <1>1, <1>2, NoSlateOK DEF FeedInv

LEMMA FeedStep == FeedInv /\ [FeedNext]_feedVars => FeedInv'
<1> SUFFICES ASSUME FeedInv, [FeedNext]_feedVars PROVE FeedInv'
  OBVIOUS
<1>1. CASE \E slate \in Slates, named \in BOOLEAN : Propose(slate, named)
  BY <1>1, ProposeInv
<1>2. CASE StoreMapping
  BY <1>2, NoSlateOK DEF StoreMapping, FeedInv
<1>3. CASE \E w \in Slots \cup {SkipSlot} : Decide(w)
  BY <1>3 DEF Decide, FeedInv
<1>4. CASE ClearTerms
  BY <1>4, ClearTermsInv
<1>5. CASE \E f \in Fixtures : KickOff(f)
  BY <1>5 DEF KickOff, FeedInv
<1>6. CASE Republish
  BY <1>6 DEF Republish, FeedInv
<1>7. CASE UNCHANGED feedVars
  BY <1>7 DEF feedVars, FeedInv
<1>8. QED
  BY <1>1, <1>2, <1>3, <1>4, <1>5, <1>6, <1>7 DEF FeedNext

-----------------------------------------------------------------------------
(***************************************************************************)
(* What is recovered for a slot.                                           *)
(***************************************************************************)
LEMMA GoalsAreNumbers == Scores(Goals) \subseteq Scores(Nat)
  BY FeedConstants DEF Scores

LEMMA EncodedTyped ==
    ASSUME NEW o \in Option, Encodable(o)
    PROVE  /\ EncodedTerm(o) \in Term
           /\ EncodedTerm(o).fixture = o.fixture /\ EncodedTerm(o).fixture > 0
           /\ EncodedTerm(o).period = o.period /\ EncodedTerm(o).statA = o.period + 1
<1> DEFINE line == IF o.outcome = "over" THEN Floor(TakenLine(o)) ELSE Ceiling(TakenLine(o))
<1>1. /\ o.fixture \in Nat \ {0} /\ o.period \in Nat /\ o.period + 1 \in Nat
      /\ o.period + 2 \in Nat /\ TakenLine(o) \in Int
  BY DEF Option, Periods, TakenLine
<1>2. line \in Int /\ ResultComparison(o.outcome) \in Comparisons
  BY <1>1, LineIsFloor DEF ResultComparison, Comparisons
<1>3. CASE o.market = "1X2"
  BY <1>1, <1>2, <1>3 DEF EncodedTerm, Term
<1>4. CASE o.market # "1X2"
  <2>1. EncodedTerm(o) = [fixture |-> o.fixture, period |-> o.period,
                          statA |-> o.period + 1, statB |-> o.period + 2,
                          op |-> "Add", threshold |-> line,
                          comparison |-> IF o.outcome = "over" THEN "Greater" ELSE "Less"]
    BY <1>4 DEF EncodedTerm
  <2> HIDE DEF line
  <2>2. QED
    BY <1>1, <1>2, <2>1 DEF Term, Comparisons
<1>5. QED
  BY <1>3, <1>4

\* A slot is filled when the last proposal has an option for it.
LEMMA SlotTerms ==
    ASSUME FeedInv, NEW i \in Slots
    PROVE  /\ i \in FilledSlots <=> i + 1 \in 1..Len(proposed)
           /\ i \in FilledSlots => /\ proposed[i + 1] \in Options
                                   /\ Encodable(proposed[i + 1])
                                   /\ terms[i] = EncodedTerm(proposed[i + 1])
<1>1. i \in Nat /\ Len(proposed) \in Nat
  BY LenProperties DEF FeedInv, SlateOK, Slots
<1>2. CASE i < Len(proposed)
  <2>1. i + 1 \in 1..Len(proposed)
    BY <1>1, <1>2
  <2>2. proposed[i + 1] \in Options /\ Encodable(proposed[i + 1])
    BY <2>1, ElementOfSeq DEF FeedInv, SlateOK
  <2>3. terms[i] = EncodedTerm(proposed[i + 1])
    BY <1>2 DEF FeedInv
  <2>4. terms[i].fixture > 0
    BY <2>2, <2>3, OptionsTyped, EncodedTyped
  <2>5. QED
    BY <2>1, <2>2, <2>3, <2>4 DEF FilledSlots
<1>3. CASE ~(i < Len(proposed))
  <2>1. terms[i] = NoTerm
    BY <1>3 DEF FeedInv
  <2>2. QED
    BY <1>1, <1>3, <2>1 DEF FilledSlots, NoTerm
<1>4. QED
  BY <1>2, <1>3

LEMMA ProposedIsTheBet ==
    ASSUME FeedInv, NEW i \in FilledSlots, proposed[i + 1].stated
    PROVE  SameBet(proposed[i + 1], terms[i])
<1> DEFINE o == proposed[i + 1]
<1>1. /\ proposed[i + 1] \in Option /\ Encodable(proposed[i + 1])
      /\ terms[i] = EncodedTerm(proposed[i + 1])
  BY SlotTerms, OptionsTyped DEF FilledSlots
<1>2. [o EXCEPT !.line = TakenLine(o)] = o
  BY <1>1 DEF Option, TakenLine
<1> HIDE DEF o
<1>3. o \in Option /\ Encodable(o) /\ terms[i] = EncodedTerm(o)
  BY <1>1 DEF o
<1>4. SameBet(o, terms[i])
  BY <1>2, <1>3, GoalsAreNumbers, EncodingSettlesAsOption DEF SameBet
<1>5. QED
  BY <1>4 DEF o

\* Only full-time slots are recovered: the stat keys of the others carry
\* their period.
LEMMA RecoveredIsTheBet ==
    ASSUME FeedInv, NEW i \in Slots, NEW o \in Options, Recovers(o, terms[i])
    PROVE  i \in FilledSlots /\ SameBet(ReadAs(o), terms[i])
<1>1. i \in FilledSlots
  BY DEF Recovers, FilledSlots
<1> DEFINE p == proposed[i + 1]
<1>2. p \in Option /\ Encodable(p) /\ terms[i] = EncodedTerm(p)
  BY <1>1, SlotTerms, OptionsTyped
<1>3. /\ terms[i] \in Term /\ terms[i].period = p.period
      /\ terms[i].statA = p.period + 1 /\ p.period \in Int
  BY <1>2, EncodedTyped DEF Option, Periods
<1>4. terms[i].statA = 1 /\ terms[i].period = o.period
  BY DEF Recovers, DerivedTerm
<1>5. o.period = 0
  BY <1>3, <1>4
<1>6. o \in Option
  BY OptionsTyped
<1>7. QED
  BY <1>1, <1>3, <1>5, <1>6, GoalsAreNumbers, RecoverySettlesAsTerm DEF SameBet

\* What Redis names, when it is of the proposal on chain.
LEMMA StoredIsTheBet ==
    ASSUME FeedInv, MappingIsCurrent, NEW i \in Slots, i + 1 \in DOMAIN mapping,
           mapping[i + 1].option.stated
    PROVE  i \in FilledSlots /\ SameBet(mapping[i + 1].option, terms[i])
<1>1. mapping \in Seq(Stored)
  BY DEF FeedInv
<1>2. DOMAIN mapping = 1..Len(mapping) /\ mapping # NoSlate
  BY <1>1, LenProperties DEF NoSlate
<1>3. i + 1 \in 1..Len(proposed) /\ mapping[i + 1].option = proposed[i + 1]
  BY <1>2 DEF MappingIsCurrent
<1>4. i \in FilledSlots
  BY <1>3, SlotTerms
<1>5. QED
  BY <1>3, <1>4, ProposedIsTheBet

\* Redis names the option that was stored, if the index is the feed's.
LEMMA NamedIsStored ==
    ASSUME FeedInv, MappingIsTrue, NEW i \in Slots, i + 1 \in DOMAIN mapping,
           NEW o \in Options,
           o.message = mapping[i + 1].id.message, o.index = mapping[i + 1].id.index
    PROVE  o = mapping[i + 1].option
<1> DEFINE m == mapping[i + 1]
<1>1. m \in Stored
  <2>1. mapping \in Seq(Stored)
    BY DEF FeedInv
  <2>2. i + 1 \in 1..Len(mapping)
    BY <2>1, LenProperties
  <2>3. QED
    BY <2>1, <2>2, ElementOfSeq
<1>2. m.id.index = m.option.index
  BY DEF MappingIsTrue
<1>3. o.message = m.id.message /\ o.index = m.id.index
  OBVIOUS
<1> HIDE DEF m
<1>4. m.option \in Options /\ m.id.message = m.option.message
  BY <1>1 DEF Stored
<1>5. o = m.option
  BY <1>2, <1>3, <1>4, OneBetPerIdentity
<1>6. QED
  BY <1>5 DEF m

\* An option found in the feed under the identity Redis names is the option
\* that was stored, whatever was published since.
LEMMA MappedIsStored ==
    ASSUME FeedInv, MappingIsTrue, NEW i \in Slots, MappedOption(i) # NoOption
    PROVE  i + 1 \in DOMAIN mapping /\ MappedOption(i) = mapping[i + 1].option
<1>1. i + 1 \in DOMAIN mapping
  BY DEF MappedOption
<1> DEFINE m == mapping[i + 1]
           found == {k \in Feed : Identity(Catalog[k]) = m.id}
<1>2. MappedOption(i) = IF found = {} THEN NoOption ELSE Catalog[Min(found)]
  BY <1>1 DEF MappedOption, FirstOption
<1>3. found # {} /\ found \in SUBSET Nat
  BY <1>2, CatalogPlaces
<1>4. Min(found) \in found
  BY <1>3, FirstPlace
<1> DEFINE o == Catalog[Min(found)]
<1>5. o \in Options /\ Identity(o) = m.id
  BY <1>4, CatalogPlaces
<1>6. o.message = m.id.message /\ o.index = m.id.index
  <2>1. Identity(o).message = o.message /\ Identity(o).index = o.index
    <3> HIDE DEF o
    <3> QED BY DEF Identity
  <2> HIDE DEF o, m
  <2>2. Identity(o) = m.id
    BY <1>5
  <2> QED BY <2>1, <2>2
<1>7. MappedOption(i) = o
  BY <1>2, <1>3
<1> HIDE DEF o, found
<1>8. o = m.option
  BY <1>1, <1>5, <1>6, NamedIsStored
<1>9. QED
  BY <1>1, <1>7, <1>8

\* And so is the one whose archived price is shown.
LEMMA ArchivedIsStored ==
    ASSUME FeedInv, MappingIsTrue, NEW i \in Slots, ArchivedPrice(i) # NoOption
    PROVE  i + 1 \in DOMAIN mapping /\ ArchivedPrice(i) = mapping[i + 1].option
<1>1. i + 1 \in DOMAIN mapping
  BY DEF ArchivedPrice
<1> DEFINE m == mapping[i + 1]
           found == {k \in 1..Len(Catalog) : /\ Catalog[k].message = m.id.message
                                            /\ Catalog[k].index = m.id.index}
<1>2. ArchivedPrice(i) = IF found = {} THEN NoOption ELSE Catalog[Min(found)]
  BY <1>1 DEF ArchivedPrice, FirstOption
<1>3. found # {} /\ found \in SUBSET Nat
  BY <1>2, CatalogPlaces
<1>4. Min(found) \in found
  BY <1>3, FirstPlace
<1> DEFINE o == Catalog[Min(found)]
<1>5. o \in Options /\ o.message = m.id.message /\ o.index = m.id.index
  BY <1>4, CatalogPlaces
<1>6. ArchivedPrice(i) = o
  BY <1>2, <1>3
<1> HIDE DEF o, found
<1>7. o = m.option
  BY <1>1, <1>5, NamedIsStored
<1>8. QED
  BY <1>1, <1>6, <1>7

-----------------------------------------------------------------------------
\* An option announced for a slot, and legible, is the bet the slot settles:
\* recovered from bet_terms, or named by Redis if the mapping is current.
LEMMA RecoveredReadsAsBet ==
    ASSUME FeedInv, NEW i \in Slots, RecoveredOption(terms[i]) # NoOption
    PROVE  i \in FilledSlots /\ SameBet(ReadAs(RecoveredOption(terms[i])), terms[i])
<1>1. /\ RecoveredOption(terms[i]) \in Options
      /\ Recovers(RecoveredOption(terms[i]), terms[i])
  BY Recovered
<1>2. QED
  BY <1>1, RecoveredIsTheBet

LEMMA NamedReadsAsBet ==
    ASSUME FeedInv, MappingIsCurrent, NEW i \in Slots, i + 1 \in DOMAIN mapping,
           NEW o, o = mapping[i + 1].option, Legible(o)
    PROVE  i \in FilledSlots /\ SameBet(o, terms[i])
  BY StoredIsTheBet DEF Legible

\* The label next to a slot reads as the bet that the slot settles: always when
\* the app recovers it, and else when Redis holds the mapping of this proposal;
\* and the multiplier is the price of that bet when Redis says nothing of the
\* slot or is true (describeBatchBetTerms).
THEOREM LabelsAreBets == FeedSpec => []LabelIsTheBet
<1>1. FeedInv => LabelIsTheBet
  <2> SUFFICES ASSUME FeedInv, NEW i \in FilledSlots
               PROVE  LET shown == Described(i)
                      IN  /\ RecoveredOption(terms[i]) # NoOption =>
                                SameBet(ReadAs(shown.label), terms[i])
                          /\ MappingIsCurrent /\ shown.label # NoOption /\ Legible(shown.label)
                                => SameBet(shown.label, terms[i])
                          /\ i + 1 \notin DOMAIN mapping \/ MappingIsTrue =>
                                \A p \in shown.prices : Legible(p) => SameBet(p, terms[i])
    BY DEF LabelIsTheBet
  <2> DEFINE recovered == RecoveredOption(terms[i])
             label == IF recovered # NoOption THEN recovered ELSE StoredOption(i)
  <2>1. Described(i).label = label /\ Described(i).prices = Prices(i)
    BY DEF Described
  <2>2. i \in Slots
    BY DEF FilledSlots
  <2>3. recovered # NoOption => SameBet(ReadAs(recovered), terms[i])
    BY <2>2, RecoveredReadsAsBet
  <2>4. ASSUME MappingIsCurrent, i + 1 \in DOMAIN mapping, NEW o,
               o = mapping[i + 1].option, Legible(o)
        PROVE  SameBet(o, terms[i])
    BY <2>2, <2>4, NamedReadsAsBet
  <2>5. StoredOption(i) # NoOption =>
           i + 1 \in DOMAIN mapping /\ StoredOption(i) = mapping[i + 1].option
    BY DEF StoredOption
  <2>6. FallbackPrice(i) = label
    BY DEF FallbackPrice
  <2> HIDE DEF recovered
  <2>7. ASSUME MappingIsCurrent, label # NoOption, Legible(label)
        PROVE  SameBet(label, terms[i])
    BY <2>3, <2>4, <2>5, <2>7 DEF Legible
  <2>8. ASSUME i + 1 \notin DOMAIN mapping \/ MappingIsTrue,
               NEW p \in Prices(i), Legible(p)
        PROVE  SameBet(p, terms[i])
    <3>1. p # NoOption /\ p \in {ArchivedPrice(i), label}
      BY <2>6 DEF Prices
    <3>2. CASE i + 1 \notin DOMAIN mapping
      <4>1. ArchivedPrice(i) = NoOption /\ StoredOption(i) = NoOption
        BY <3>2 DEF ArchivedPrice, StoredOption
      <4>2. p = recovered /\ recovered # NoOption
        BY <3>1, <4>1
      <4>3. QED
        BY <2>3, <2>8, <4>2 DEF Legible
    <3>3. CASE MappingIsTrue
      <4>1. MappingIsCurrent
        BY <3>3 DEF MappingIsTrue
      <4>2. CASE p = ArchivedPrice(i)
        <5>1. i + 1 \in DOMAIN mapping /\ p = mapping[i + 1].option
          BY <2>2, <3>1, <3>3, <4>2, ArchivedIsStored
        <5>2. QED
          BY <2>4, <2>8, <4>1, <5>1
      <4>3. CASE p = label
        BY <2>7, <2>8, <3>1, <4>1, <4>3
      <4>4. QED
        BY <3>1, <4>2, <4>3
    <3>4. QED
      BY <2>8, <3>2, <3>3
  <2>9. recovered # NoOption => SameBet(ReadAs(label), terms[i])
    BY <2>3
  <2> HIDE DEF label
  <2>10. QED
    BY <2>1, <2>7, <2>8, <2>9 DEF recovered
<1>2. QED
  BY <1>1, FeedInitInv, FeedStep, PTL DEF FeedSpec

\* A vote for an option of the feed goes to a slot that settles as the option
\* does (resolveVoteIndex), and the option announced as decided is the bet
\* decided on (fetchLiveMatchForBatch): whatever Redis holds, as long as it
\* does not name the option, and if it does, when the mapping is true.
THEOREM VotesAreBets == FeedSpec => []VoteIsTheBet
<1>1. ASSUME FeedInv, NEW k \in Feed, ResolvedIndex(Catalog[k]) # NoSlot,
             Legible(Catalog[k]),
             (~\E j \in Slots : MappedOption(j) = Catalog[k]) \/ MappingIsTrue
      PROVE  /\ ResolvedIndex(Catalog[k]) \in FilledSlots
             /\ SameBet(Catalog[k], terms[ResolvedIndex(Catalog[k])])
  <2> DEFINE o == Catalog[k]
             mapped == {i \in Slots : MappedOption(i) = o}
             recovered == {i \in FilledSlots : RecoveredOption(terms[i]) = o}
  <2>1. o \in Options /\ o # NoOption /\ Legible(o)
    BY <1>1, CatalogPlaces, OptionsTyped
  <2>2. mapped \in SUBSET Nat /\ recovered \in SUBSET Nat /\ FilledSlots \subseteq Slots
    BY DEF Slots, FilledSlots
  <2>3. ResolvedIndex(o) = CASE mapped # {} -> Min(mapped)
                             [] mapped = {} /\ recovered # {} -> Min(recovered)
                             [] OTHER -> NoSlot
    BY DEF ResolvedIndex
  <2>4. mapped = {} \/ MappingIsTrue
    BY <1>1
  <2> HIDE DEF o
  <2>5. ASSUME NEW i \in mapped PROVE i \in FilledSlots /\ SameBet(o, terms[i])
    <3>1. i \in Slots /\ MappedOption(i) = o /\ MappingIsTrue
      BY <2>4
    <3>2. i + 1 \in DOMAIN mapping /\ o = mapping[i + 1].option
      BY <1>1, <2>1, <3>1, MappedIsStored
    <3>3. MappingIsCurrent
      BY <3>1 DEF MappingIsTrue
    <3>4. QED
      BY <1>1, <2>1, <3>1, <3>2, <3>3, NamedReadsAsBet
  <2>6. ASSUME NEW i \in recovered PROVE i \in FilledSlots /\ SameBet(o, terms[i])
    <3>1. i \in Slots /\ RecoveredOption(terms[i]) = o /\ ReadAs(o) = o
      BY <2>1, <2>2 DEF Legible
    <3>2. QED
      BY <1>1, <2>1, <3>1, RecoveredReadsAsBet
  <2> HIDE DEF mapped, recovered
  <2>7. ResolvedIndex(o) \in mapped \cup recovered
    <3>1. mapped # {} => Min(mapped) \in mapped
      BY <2>2, FirstPlace
    <3>2. recovered # {} => Min(recovered) \in recovered
      BY <2>2, FirstPlace
    <3>3. ResolvedIndex(o) # NoSlot
      BY <1>1 DEF o
    <3>4. QED
      BY <2>3, <3>1, <3>2, <3>3
  <2>8. ResolvedIndex(o) \in FilledSlots /\ SameBet(o, terms[ResolvedIndex(o)])
    BY <2>5, <2>6, <2>7
  <2>9. QED
    BY <2>8 DEF o
<1>2. ASSUME FeedInv, Decision # NoOption, Legible(Decision), ~RedisAnswers \/ MappingIsTrue
      PROVE  SameBet(Decision, terms[winner])
  <2>1. winner \in Slots /\ Decision = LiveSlots[winner]
    BY <1>2 DEF Decision
  <2>2. Decision = IF RedisAnswers THEN RedisOption(winner) ELSE RecoveredOption(terms[winner])
    BY <2>1 DEF LiveSlots
  <2>3. CASE ~RedisAnswers
    BY <1>2, <2>1, <2>2, <2>3, RecoveredReadsAsBet DEF Legible
  <2>4. CASE RedisAnswers
    <3>1. MappingIsTrue /\ MappingIsCurrent
      BY <1>2, <2>4 DEF MappingIsTrue
    <3>2. Decision \in {MappedOption(winner), StoredOption(winner)}
      BY <2>2, <2>4 DEF RedisOption
    <3>3. winner + 1 \in DOMAIN mapping /\ Decision = mapping[winner + 1].option
      <4>1. CASE Decision = MappedOption(winner)
        BY <1>2, <2>1, <3>1, <4>1, MappedIsStored
      <4>2. CASE Decision = StoredOption(winner)
        BY <1>2, <4>2 DEF StoredOption
      <4>3. QED
        BY <3>2, <4>1, <4>2
    <3>4. QED
      BY <1>2, <2>1, <3>1, <3>3, NamedReadsAsBet
  <2>5. QED
    BY <2>3, <2>4
<1>3. FeedInv => VoteIsTheBet
  BY <1>1, <1>2 DEF VoteIsTheBet
<1>4. QED
  BY <1>3, FeedInitInv, FeedStep, PTL DEF FeedSpec

\* As long as the feed carries its fixture, every slot of a full-time proposal
\* is recovered from bet_terms alone (matchBetTermsToOptions), unless only the
\* proposer can read its option.
THEOREM FullTimeAlwaysRecovered == FeedSpec => []FullTimeIsRecovered
<1>1. FeedInv => FullTimeIsRecovered
  <2> SUFFICES ASSUME FeedInv, NEW i \in FilledSlots,
                      proposed[i + 1].fixture \in upcoming, proposed[i + 1].period = 0,
                      proposed[i + 1].stated,
                      AppOutcome(proposed[i + 1]) = proposed[i + 1].outcome
               PROVE  RecoveredOption(terms[i]) # NoOption
    BY DEF FullTimeIsRecovered
  <2> DEFINE o == proposed[i + 1]
             t == terms[i]
  <2>1. o \in Options /\ o \in Option /\ Encodable(o) /\ t = EncodedTerm(o)
    BY SlotTerms, OptionsTyped DEF FilledSlots
  <2>2. PICK k \in 1..Len(Catalog) : o = Catalog[k]
    BY <2>1 DEF Options
  <2>3. o.fixture \in upcoming /\ o.period = 0 /\ o.stated /\ AppOutcome(o) = o.outcome
    OBVIOUS
  <2> HIDE DEF o
  <2>4. t.fixture = o.fixture /\ t.fixture > 0
    BY <2>1, EncodedTyped
  <2>5. k \in Candidates(t.fixture)
    BY <2>2, <2>3, <2>4 DEF Candidates, Feed
  <2>6. DerivedTerm(o) = EncodedTerm(o)
    <3>1. CASE o.market = "1X2"
      BY <2>3, <3>1 DEF DerivedTerm, DerivedPredicate, EncodedTerm
    <3>2. CASE o.market # "1X2"
      <4>1. o.market = "OverUnder" /\ TakenLine(o) = o.line
        BY <2>1, <2>3, <3>2 DEF Encodable, TakenLine
      <4> DEFINE line == IF o.outcome = "over" THEN Floor(o.line) ELSE Ceiling(o.line)
                 cmp == IF o.outcome = "over" THEN "Greater" ELSE "Less"
      <4>2. DerivedPredicate(o) = [op |-> "Add", threshold |-> line, comparison |-> cmp]
        BY <2>3, <4>1 DEF DerivedPredicate
      <4>3. EncodedTerm(o) = [fixture |-> o.fixture, period |-> o.period,
                              statA |-> o.period + 1, statB |-> o.period + 2,
                              op |-> "Add", threshold |-> line, comparison |-> cmp]
        BY <4>1 DEF EncodedTerm
      <4> HIDE DEF line, cmp
      <4>4. QED
        BY <2>3, <4>2, <4>3 DEF DerivedTerm
    <3>3. QED
      BY <3>1, <3>2
  <2>7. Derivable(o)
    BY <2>1, <2>3 DEF Encodable, Derivable
  <2>8. Recovers(Catalog[k], t)
    BY <2>1, <2>2, <2>4, <2>6, <2>7 DEF Recovers
  <2>9. QED
    BY <2>5, <2>8, Recovered
<1>2. QED
  BY <1>1, FeedInitInv, FeedStep, PTL DEF FeedSpec
=============================================================================
