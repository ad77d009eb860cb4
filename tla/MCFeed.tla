------------------------------- MODULE MCFeed ------------------------------
\* Two fixtures.  The first is priced on the draw and the away win, second
\* and third in the feed's order, on a handicap that derives the same term as
\* the win, and on the first half's result; the second on a result named "2",
\* on a capitalised over at the line of an under, and on a total whose line
\* cannot be read.
EXTENDS MatchFeed

Priced(f, market, outcome, line, period, message, index) ==
    [fixture |-> f, market |-> market, outcome |-> outcome, line |-> line,
     period |-> period, message |-> message, index |-> index,
     spelled |-> "plain", stated |-> TRUE]

MCCatalog ==
    << Priced(1, "Handicap", "part2", 0, 0, 1, 1),
       Priced(1, "1X2", "draw", 0, 0, 2, 1),
       Priced(1, "1X2", "part2", 0, 0, 2, 2),
       Priced(1, "1X2", "part1", 0, 1000, 3, 0),
       [Priced(2, "OverUnder", "over", 10, 0, 4, 0) EXCEPT !.spelled = "capital"],
       Priced(2, "OverUnder", "under", 10, 0, 4, 1),
       [Priced(2, "1X2", "part2", 0, 0, 5, 1) EXCEPT !.spelled = "short"],
       [Priced(2, "OverUnder", "over", 9, 0, 6, 0) EXCEPT !.stated = FALSE] >>
=============================================================================
