------------------------------ MODULE BetTerms -----------------------------
(***************************************************************************)
(* What a priced outcome of the TxOdds feed becomes on chain, and back.    *)
(*                                                                         *)
(* Whoever proposes a match encodes an option as a bet term (EncodedTerm); *)
(* the app, which only sees bet_terms, re-derives the term of every option *)
(* of the feed (DerivedTerm) and shows the first whose term equals the     *)
(* slot's.  Nothing else ties the label a voter reads to the predicate     *)
(* that settles the bet.                                                   *)
(*                                                                         *)
(* An option's line is counted in quarter goals, the finest step the feed  *)
(* uses.  A goal stat has key 1 (first participant) or 2, plus a period    *)
(* prefix; a score gives the goals of both participants in each period.    *)
(*                                                                         *)
(* The feed's names of outcomes and its lines are strings, and the two     *)
(* sides read them differently.  The proposers accept a name in any case,  *)
(* and "1", "2", "x" for a result; the app compares names exactly.  The    *)
(* operator takes 2.5 for a line it cannot read; the app reads none.       *)
(***************************************************************************)
EXTENDS Integers

Markets == {"1X2", "OverUnder", "Handicap"}
Outcomes == {"part1", "part2", "draw", "over", "under"}
Periods == {0, 1000, 3000}                \* full time, first half, second half
Spellings == {"plain", "capital", "short"}

\* A priced outcome of the feed; message and index are its TxOdds identity,
\* spelled how its name is written, stated whether its line can be read.
Option ==
    {o \in [fixture : Nat \ {0}, market : Markets, outcome : Outcomes, line : Int,
            period : Periods, message : Nat, index : 0..2,
            spelled : Spellings, stated : BOOLEAN] :
        /\ o.spelled = "short" => o.market = "1X2"
        /\ o.market = "1X2" => o.stated}

Floor(quarters) == quarters \div 4
Ceiling(quarters) == -((-quarters) \div 4)

\* Only whole and half lines become terms: rawLine % 0.5.
OnHalfGoals(line) == line % 2 = 0

Comparisons == {"Greater", "Less", "Equal"}

\* A slot of bet_terms; an unused slot has fixture 0.
Term == [fixture : Nat, period : Nat, statA : Nat, statB : Nat,
         op : {"Add", "Subtract"}, threshold : Int, comparison : Comparisons]

NoTerm == [fixture |-> 0, period |-> 0, statA |-> 0, statB |-> 0,
           op |-> "Add", threshold |-> 0, comparison |-> "Greater"]

-----------------------------------------------------------------------------
(***************************************************************************)
(* Encoding: the operator proposes results and totals, with stat keys that *)
(* carry the period.  The proposal page differs only in that it proposes   *)
(* no total whose line it cannot read.                                     *)
(***************************************************************************)
Encodable(o) ==
    \/ o.market = "1X2" /\ o.outcome \in {"part1", "part2", "draw"}
    \/ o.market = "OverUnder" /\ (o.stated => OnHalfGoals(o.line))

\* What the proposal page offers (getBetTermsBuffer).
PageEncodable(o) == Encodable(o) /\ o.stated

\* The line the operator takes a total to have; unwrap_or(2.5).
TakenLine(o) == IF o.stated THEN o.line ELSE 10

ResultComparison(outcome) ==
    CASE outcome = "part1" -> "Greater"
      [] outcome = "part2" -> "Less"
      [] OTHER -> "Equal"

EncodedTerm(o) ==
    LET goals == [fixture |-> o.fixture, period |-> o.period,
                  statA |-> o.period + 1, statB |-> o.period + 2,
                  op |-> "Subtract", threshold |-> 0,
                  comparison |-> ResultComparison(o.outcome)]
    IN  IF o.market = "1X2"
        THEN goals
        ELSE [goals EXCEPT
                 !.op = "Add",
                 !.threshold = IF o.outcome = "over" THEN Floor(TakenLine(o))
                                                     ELSE Ceiling(TakenLine(o)),
                 !.comparison = IF o.outcome = "over" THEN "Greater" ELSE "Less"]

-----------------------------------------------------------------------------
(***************************************************************************)
(* Decoding: deriveBetTermFromOption and matchBetTermsToOptions.           *)
(***************************************************************************)
\* What the app takes an option's outcome for: a total that is not called
\* "over" is under, a handicap not called "part1" is part2, and a result under
\* another name is none it knows.
AppOutcome(o) ==
    CASE o.spelled = "plain" -> o.outcome
      [] o.spelled # "plain" /\ o.market = "OverUnder" -> "under"
      [] o.spelled # "plain" /\ o.market = "Handicap" -> "part2"
      [] o.spelled # "plain" /\ o.market = "1X2" -> "other"

\* The bet an option's label reads as: the label of a total or a handicap is
\* worded after AppOutcome, the label of any other option repeats its name.
ReadAs(o) == IF o.market = "1X2" THEN o ELSE [o EXCEPT !.outcome = AppOutcome(o)]

\* An option whose label says what it is.
Legible(o) == o.stated /\ ReadAs(o) = o

\* An option without a line has no number in its label to read one from.  (A
\* participant whose name has digits is left out.)
Derivable(o) ==
    \/ o.market = "1X2" /\ AppOutcome(o) \in {"part1", "part2", "draw"}
    \/ o.market \in {"OverUnder", "Handicap"} /\ o.stated /\ OnHalfGoals(o.line)

\* Mutant of DerivedPredicate: an under line rounded down.
DerivedPredicateUnderFloored(o) ==
    CASE o.market = "1X2" ->
            [op |-> "Subtract", threshold |-> 0, comparison |-> ResultComparison(o.outcome)]
      [] o.market = "OverUnder" ->
            [op |-> "Add", threshold |-> Floor(o.line),
             comparison |-> IF AppOutcome(o) = "over" THEN "Greater" ELSE "Less"]
      [] OTHER ->
            IF AppOutcome(o) = "part1"
            THEN [op |-> "Subtract", threshold |-> Floor(-o.line), comparison |-> "Greater"]
            ELSE [op |-> "Subtract", threshold |-> Ceiling(-o.line), comparison |-> "Less"]

\* The predicate an option would have been proposed with.
DerivedPredicate(o) ==
    CASE o.market = "1X2" ->
            [op |-> "Subtract", threshold |-> 0, comparison |-> ResultComparison(o.outcome)]
      [] o.market = "OverUnder" /\ AppOutcome(o) = "over" ->
            [op |-> "Add", threshold |-> Floor(o.line), comparison |-> "Greater"]
      [] o.market = "OverUnder" /\ AppOutcome(o) # "over" ->
            [op |-> "Add", threshold |-> Ceiling(o.line), comparison |-> "Less"]
      [] o.market = "Handicap" /\ AppOutcome(o) = "part1" ->
            [op |-> "Subtract", threshold |-> Floor(-o.line), comparison |-> "Greater"]
      [] o.market = "Handicap" /\ AppOutcome(o) # "part1" ->
            [op |-> "Subtract", threshold |-> Ceiling(-o.line), comparison |-> "Less"]

\* The stat keys are those of a full-time stat, whatever the option's period.
DerivedTerm(o) ==
    LET p == DerivedPredicate(o)
    IN  [fixture |-> o.fixture, period |-> o.period, statA |-> 1, statB |-> 2,
         op |-> p.op, threshold |-> p.threshold, comparison |-> p.comparison]

\* Option o is one that bet term t can have been proposed from.
Recovers(o, t) ==
    /\ Derivable(o)
    /\ t.fixture > 0
    /\ DerivedTerm(o) = t

-----------------------------------------------------------------------------
(***************************************************************************)
(* Settling: what the oracle evaluates, and what a punter would say.       *)
(***************************************************************************)
Scores(goals) == [Periods -> goals \X goals]

Stat(key, score) == LET p == (key \div 1000) * 1000 IN score[p][key - p]

\* The predicate of a term over the final score, as TxOdds evaluates it.
Holds(t, score) ==
    LET a == Stat(t.statA, score)
        b == Stat(t.statB, score)
        v == IF t.op = "Add" THEN a + b ELSE a - b
    IN  CASE t.comparison = "Greater" -> v > t.threshold
          [] t.comparison = "Less" -> v < t.threshold
          [] OTHER -> v = t.threshold

\* The reference: an option wins on a score by the rules of its market, in
\* quarter goals.  A line is given for the first participant; a push is not
\* a win.
Wins(o, score) ==
    LET home == 4 * score[o.period][1]
        away == 4 * score[o.period][2]
    IN  CASE o.market = "1X2" ->
                (o.outcome = "part1" /\ home > away) \/ (o.outcome = "part2" /\ home < away)
                    \/ (o.outcome = "draw" /\ home = away)
          [] o.market = "OverUnder" /\ o.outcome = "over" -> home + away > o.line
          [] o.market = "OverUnder" /\ o.outcome # "over" -> home + away < o.line
          [] o.market = "Handicap" /\ o.outcome = "part1" -> home + o.line > away
          [] o.market = "Handicap" /\ o.outcome # "part1" -> home + o.line < away

=============================================================================
