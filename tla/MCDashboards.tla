----------------------------- MODULE MCDashboards -----------------------------
(* An instance of Dashboards small enough for TLC: hours of two moments, a day *)
(* an hour long, weeks of two days, and a month that begins in the middle of   *)
(* one.                                                                        *)
EXTENDS Dashboards, TLC

CONSTANTS u1, u2

TwoUnits == {u1, u2}
Symmetry == Permutations(TwoUnits)
Mondays == {0, 4}
MonthFirsts == {0, 6}

\* Two moments have negative readings, one early in an hour and one late in the next.
SomeNegative ==
    {r \in Reading : IF r.negative THEN r.time \in {2, 5} ELSE r.time \notin {1, 2}}
=============================================================================
