------------------------------ MODULE MCSalon ------------------------------
(* The scenarios of the small instances of TableOrders and Salon. *)
EXTENDS Salon, TLC

CONSTANTS r1, r2, s1, s2, t1, z1, z2, c1, c2

Scenario(kinds, together) == [kinds |-> kinds, together |-> together,
                              calm |-> TRUE, tokens |-> {Nothing}, crash |-> FALSE,
                              profile |-> "RESTAURANTE", rows |-> {1, 2}, zones |-> Zones,
                              techs |-> {Nothing}]

\* Identifiers that differ in case only, and one more.
Spellings == {"a1", "A1", "b2"}
NoCase    == [n \in Spellings |-> IF n = "b2" THEN "b2" ELSE "a1"]

Bill    == {"add", "split", "move", "grow", "merge", "undo", "discount", "checkout", "cancel"}
Kitchen == {"add", "update", "void", "send", "split", "move"}

A == Scenario(Bill, {})
B == Scenario(Kitchen, {})
C == [Scenario({"add", "split", "grow", "checkout"}, {"checkout"}) EXCEPT !.crash = TRUE]
D == [Scenario({"add", "send", "print"}, {"send"}) EXCEPT !.tokens = {t1}]

\* The floor of a restaurant; in a workshop, vehicles received and assigned, tables
\* created, hidden and received again, vehicles that left received again while others
\* are renumbered, and orders charged or cancelled.
E == Scenario({"create", "change", "delete", "open", "close"}, {})
F == [Scenario({"receive", "assign", "close"}, {}) EXCEPT !.profile = "TALLER",
                                                         !.zones = {z1},
                                                         !.techs = {Nothing, AutoTech}]
G == [Scenario({"create", "hide", "receive", "close"}, {}) EXCEPT !.profile = "TALLER",
                                                                  !.zones = {z1}]
H == [Scenario({"receive", "change", "close"}, {}) EXCEPT !.profile = "TALLER",
                                                         !.zones = {z1}]
I == [Scenario({"receive", "open", "close", "free"}, {}) EXCEPT !.profile = "TALLER",
                                                         !.zones = {z1}]

AllScenarios == {A, B, C, D, E, F, G, H, I}

Symmetry == Permutations({r1, r2}) \cup Permutations({s1, s2})
              \cup Permutations({z1, z2}) \cup Permutations({c1, c2})
=============================================================================
