----------------------------- MODULE MatchFeed -----------------------------
(***************************************************************************)
(* How the app tells which match a batch is voting on.                     *)
(*                                                                         *)
(* A proposal leaves two traces: bet_terms on chain and, written later by  *)
(* the proposer and not atomically, the mapping undegen:batch:{id} in      *)
(* Redis, from slots to TxOdds identities (message, index).  The app reads *)
(* both, and the feed of priced options, which is re-published under new   *)
(* messages and loses a fixture at its kickoff.  Options, labels and vote  *)
(* tallies are recovered from whatever is there.                           *)
(*                                                                         *)
(* Nothing reconciles the two traces: a settlement, a penalty or the next  *)
(* proposal leaves the old mapping in place.                               *)
(***************************************************************************)
EXTENDS BetTerms, Sequences, FiniteSets, SequencesExt

CONSTANTS
    Catalog,         \* the options the feed can carry, in the feed's order
    MaxSlate,        \* options per proposal, at most four
    MaxEditions,     \* bound: how often the feed is published again
    Goals            \* goals of one participant in one period, for Scores

Options == {Catalog[i] : i \in 1..Len(Catalog)}

ASSUME FeedConstants ==
    /\ Catalog \in Seq(Option)
    /\ MaxSlate \in 1..4
    /\ MaxEditions \in Nat
    /\ Goals \subseteq Nat

\* What the app takes (message, index) for: the key of one bet.
ASSUME OneBetPerIdentity ==
    \A o, p \in Options : o.message = p.message /\ o.index = p.index => o = p

VARIABLES
    terms,           \* bet_terms of the batch
    winner,          \* winning_vote_index, NoSlot when there is none
    upcoming,        \* the fixtures that have not kicked off
    edition,         \* the feed's edition, part of every identity
    mapping,         \* slotsMapping in Redis, a function from some slots
    unsaved,         \* the mapping of a proposal that is not stored yet
    proposed         \* history: the options of the current bet_terms

feedVars == <<terms, winner, upcoming, edition, mapping, unsaved, proposed>>

Slots == 0..3
NoSlot == 5
SkipSlot == 4
NoTerms == [i \in Slots |-> NoTerm]
NoSlate == <<>>                       \* also: no mapping

Fixtures == {o.fixture : o \in Options}

\* The options /api/txodds returns, by their places in the catalog: those of
\* fixtures still to start.  The route lists a market's outcomes in the order
\* TxOdds sends them.
Feed == {k \in 1..Len(Catalog) : Catalog[k].fixture \in upcoming}

\* The TxOdds identity of an option in the present edition.
Identity(o) == [message |-> o.message, edition |-> edition, index |-> o.index]

FeedInit ==
    /\ terms = NoTerms /\ winner = NoSlot
    /\ upcoming = Fixtures /\ edition = 0
    /\ mapping = NoSlate /\ unsaved = NoSlate /\ proposed = NoSlate

-----------------------------------------------------------------------------
(***************************************************************************)
(* What changes under the app.                                             *)
(***************************************************************************)
\* The index the operator stores goes by the name of the outcome.
NamedIndex(o) ==
    CASE o.spelled = "short" -> 0
      [] o.spelled # "short" /\ o.outcome \in {"over", "part1"} -> 0
      [] o.spelled # "short" /\ o.outcome \in {"under", "part2"} -> 1
      [] o.spelled # "short" /\ o.outcome = "draw" -> 2

\* The slot mapping the proposer will store.  The operator stores identities
\* with its own index; the proposal page stores the feed's, and the readable
\* fields.
StoredSlots(slate, named) ==
    [k \in 1..Len(slate) |->
        LET o == slate[k]
        IN  [option |-> o, named |-> named,
             id |-> [Identity(o) EXCEPT !.index = IF named THEN @ ELSE NamedIndex(o)]]]

\* propose_match lands; a proposer that dies now never stores the mapping.
\* The operator looks back, and may propose a match that has kicked off.
Propose(slate, named) ==
    /\ winner = NoSlot
    /\ slate # NoSlate
    /\ \A k \in 1..Len(slate) : Encodable(slate[k]) /\ slate[k].fixture = slate[1].fixture
    /\ named => /\ slate[1].fixture \in upcoming
                /\ \A k \in 1..Len(slate) : PageEncodable(slate[k])
    /\ terms' = [i \in Slots |-> IF i < Len(slate) THEN EncodedTerm(slate[i + 1]) ELSE NoTerm]
    /\ proposed' = slate
    /\ unsaved' = StoredSlots(slate, named)
    /\ UNCHANGED <<winner, upcoming, edition, mapping>>

StoreMapping ==
    /\ unsaved # NoSlate
    /\ mapping' = unsaved
    /\ unsaved' = NoSlate
    /\ UNCHANGED <<terms, winner, upcoming, edition, proposed>>

\* The consensus is finalized: any filled slot, or Skip.
Decide(w) ==
    /\ proposed # NoSlate /\ winner = NoSlot
    /\ w \in {i \in Slots : terms[i].fixture > 0} \cup {SkipSlot}
    /\ winner' = w
    /\ UNCHANGED <<terms, upcoming, edition, mapping, unsaved, proposed>>

\* Settlement, default or penalty: bet_terms are cleared, Redis is not.
ClearTerms ==
    /\ winner # NoSlot
    /\ terms' = NoTerms /\ winner' = NoSlot /\ proposed' = NoSlate
    /\ UNCHANGED <<upcoming, edition, mapping, unsaved>>

KickOff(f) ==
    /\ f \in upcoming
    /\ upcoming' = upcoming \ {f}
    /\ UNCHANGED <<terms, winner, edition, mapping, unsaved, proposed>>

Republish ==
    /\ edition < MaxEditions
    /\ edition' = edition + 1
    /\ UNCHANGED <<terms, winner, upcoming, mapping, unsaved, proposed>>

Slates == {s \in UNION {[1..n -> Options] : n \in 1..MaxSlate} : IsInjective(s)}

FeedNext ==
    \/ \E slate \in Slates, named \in BOOLEAN : Propose(slate, named)
    \/ StoreMapping
    \/ \E w \in Slots \cup {SkipSlot} : Decide(w)
    \/ ClearTerms
    \/ \E f \in Fixtures : KickOff(f)
    \/ Republish

FeedSpec == FeedInit /\ [][FeedNext]_feedVars

-----------------------------------------------------------------------------
(***************************************************************************)
(* What the app makes of it.  NoOption is null or undefined.               *)
(***************************************************************************)
NoOption == [fixture |-> 0]

\* The first option, at one of the places, that satisfies a test.
FirstOption(places, Test(_)) ==
    LET found == {k \in places : Test(Catalog[k])}
    IN  IF found = {} THEN NoOption ELSE Catalog[Min(found)]

\* getFixtureCandidates: the preloaded feed, else fetched again, which the
\* route filters by the same start times.
Candidates(f) == {k \in Feed : Catalog[k].fixture = f}

\* matchBetTermsToOptions, for one slot.
RecoveredOption(t) == FirstOption(Candidates(t.fixture), LAMBDA o : Recovers(o, t))

\* The option Redis names for a slot, if the feed still carries it under that
\* identity.
MappedOption(i) ==
    IF i + 1 \in DOMAIN mapping
    THEN FirstOption(Feed, LAMBDA o : Identity(o) = mapping[i + 1].id)
    ELSE NoOption

\* optionFromStoredSlot: an option rebuilt from the readable fields, when the
\* mapping has any; all outcomes of one message share its id.
StoredOption(i) ==
    IF i + 1 \in DOMAIN mapping /\ mapping[i + 1].named THEN mapping[i + 1].option ELSE NoOption

FilledSlots == {i \in Slots : terms[i].fixture > 0}

\* The price the validation archive has for a slot: the message Redis names,
\* at the index Redis names.
ArchivedPrice(i) ==
    IF i + 1 \in DOMAIN mapping
    THEN FirstOption(1..Len(Catalog),
                     LAMBDA o : /\ o.message = mapping[i + 1].id.message
                                /\ o.index = mapping[i + 1].id.index)
    ELSE NoOption

\* The price shown without the archive, which may not answer.
FallbackPrice(i) ==
    LET recovered == RecoveredOption(terms[i])
    IN  IF recovered # NoOption THEN recovered ELSE StoredOption(i)

Prices(i) ==
    (IF ArchivedPrice(i) # NoOption THEN {ArchivedPrice(i), FallbackPrice(i)}
                                    ELSE {FallbackPrice(i)}) \ {NoOption}

\* Mutant of Described: the stored label is preferred.
DescribedFromRedis(i) ==
    [label |-> IF StoredOption(i) # NoOption THEN StoredOption(i) ELSE RecoveredOption(terms[i]),
     prices |-> Prices(i)]

\* describeBatchBetTerms: what is written next to a slot.  The label is the
\* recovered option's; a stored label stands in only for a slot that none is
\* recovered for.  The multiplier is one of Prices.
Described(i) ==
    LET recovered == RecoveredOption(terms[i])
    IN  [label |-> IF recovered # NoOption THEN recovered ELSE StoredOption(i),
         prices |-> Prices(i)]

\* The recovered options without the gaps of the slots none is found for.
RecoveredInARow ==
    SelectSeq([k \in 1..4 |-> RecoveredOption(terms[k - 1])], LAMBDA o : o # NoOption)

\* Mutant of ResolvedIndex: the position among the recovered options.
ResolvedIndexByPosition(o) ==
    LET at == {k \in 1..Len(RecoveredInARow) : RecoveredInARow[k] = o}
    IN  IF at = {} THEN NoSlot ELSE (CHOOSE k \in at : TRUE) - 1

\* resolveVoteIndex: the slot an option of the feed is voted by.  The mapping
\* is asked first and not compared with bet_terms.
ResolvedIndex(o) ==
    LET mapped    == {i \in Slots : MappedOption(i) = o}
        recovered == {i \in FilledSlots : RecoveredOption(terms[i]) = o}
    IN  CASE mapped # {} -> Min(mapped)
          [] mapped = {} /\ recovered # {} -> Min(recovered)
          [] OTHER -> NoSlot

\* What fetchLiveMatchForBatch makes of the mapping.
RedisOption(i) == IF MappedOption(i) # NoOption THEN MappedOption(i) ELSE StoredOption(i)

RedisAnswers == \E i \in Slots : RedisOption(i) # NoOption

\* fetchLiveMatchForBatch: the option of each slot, all from the mapping or,
\* when that gives none, all from bet_terms.
LiveSlots ==
    [i \in Slots |-> IF RedisAnswers THEN RedisOption(i) ELSE RecoveredOption(terms[i])]

\* The option announced as the batch's decision.
Decision == IF winner \in Slots THEN LiveSlots[winner] ELSE NoOption

-----------------------------------------------------------------------------
(***************************************************************************)
(* Properties.                                                             *)
(***************************************************************************)
\* Backing option o and backing the predicate of term t is the same bet.
SameBet(o, t) == \A score \in Scores(Goals) : Wins(o, score) <=> Holds(t, score)

\* The mapping is that of the proposal on chain, or there is none.
MappingIsCurrent ==
    \/ mapping = NoSlate
    \/ /\ Len(mapping) = Len(proposed)
       /\ \A k \in 1..Len(mapping) : mapping[k].option = proposed[k]

\* The mapping is current, and the index stored with every slot is the place
\* of its outcome in the feed's message: always if the proposal page stored
\* it, only for some outcomes if the operator did.
MappingIsTrue ==
    /\ MappingIsCurrent
    /\ \A k \in DOMAIN mapping : mapping[k].id.index = mapping[k].option.index

\* The label next to a slot on the voting page reads as a bet that wins exactly
\* when the slot's predicate holds: always if it was recovered from the feed,
\* whatever Redis says, and otherwise unless the mapping is of another
\* proposal.  The multiplier next to it is the price of that bet if Redis says
\* nothing of the slot, or is true (describeBatchBetTerms).
LabelIsTheBet ==
    \A i \in FilledSlots :
        LET shown == Described(i)
        IN  /\ RecoveredOption(terms[i]) # NoOption => SameBet(ReadAs(shown.label), terms[i])
            /\ MappingIsCurrent /\ shown.label # NoOption /\ Legible(shown.label) =>
                   SameBet(shown.label, terms[i])
            /\ i + 1 \notin DOMAIN mapping \/ MappingIsTrue =>
                   \A p \in shown.prices : Legible(p) => SameBet(p, terms[i])

\* A vote for an option of the feed goes to a slot that settles as the option
\* does, whether the mapping was lost, is of an earlier proposal or says
\* something else, as long as it does not name that very option; and also if
\* it does and is true (resolveVoteIndex).  Likewise for the option announced
\* as decided and the bet the collateral goes on (fetchLiveMatchForBatch).
VoteIsTheBet ==
    /\ \A o \in {Catalog[k] : k \in Feed} :
          LET i == ResolvedIndex(o)
              named == \E j \in Slots : MappedOption(j) = o
          IN  i # NoSlot /\ Legible(o) /\ (~named \/ MappingIsTrue) =>
                 i \in FilledSlots /\ SameBet(o, terms[i])
    /\ Decision # NoOption /\ Legible(Decision) /\ (~RedisAnswers \/ MappingIsTrue) =>
          SameBet(Decision, terms[winner])

\* No slot of a full-time proposal is left without a label while the feed
\* carries its fixture, even if the mapping was never stored: unless its
\* option has a name or a line that only the proposer can read.
FullTimeIsRecovered ==
    \A i \in FilledSlots :
        LET o == proposed[i + 1]
        IN  o.fixture \in upcoming /\ o.period = 0 /\ o.stated /\ AppOutcome(o) = o.outcome =>
               RecoveredOption(terms[i]) # NoOption

=============================================================================
