------------------------------ MODULE MCShifts ------------------------------
(* The scenarios of the small instances of Shifts. *)
EXTENDS Shifts, TLC

CONSTANTS u1, u2, h1, h2, e1, e2

Scenario(kinds, width) == [kinds |-> kinds, width |-> width, ids |-> Ids]

\* Everything one request at a time; and two at a time: opening, adoption and
\* closing; sales that adopt a shift while it opens or closes; expenses entered
\* and voided while their shift closes.
DayAndRaces == {Scenario(Kinds \ {"expense", "void"}, 1),
                Scenario({"open", "current", "close"}, 2),
                Scenario({"open", "sale", "close"}, 2),
                [Scenario({"open", "close", "expense", "void"}, 2) EXCEPT !.ids = {1}]}

InAndOut == {-1, 1}

Symmetry == Permutations({u1, u2}) \cup Permutations({h1, h2}) \cup Permutations({e1, e2})
=============================================================================
