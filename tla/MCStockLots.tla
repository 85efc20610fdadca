---------------------------- MODULE MCStockLots ----------------------------
(* The scenarios of the small instances of StockLots. *)
EXTENDS StockLots, TLC

CONSTANTS p1, p2

Scenario(kinds, together, tracks, opening, units, most, buys, sells) ==
    [kinds |-> kinds, together |-> together, tracks |-> tracks, opening |-> opening,
     units |-> units, changes |-> most, buys |-> buys, sells |-> sells]

A == Scenario({"buy", "unbuy", "sell", "refund", "relabel"}, {}, TRUE, {0}, {1, 2}, 1, 2, 1)
B == Scenario({"buy", "sell", "offline", "adjust", "adjustStock", "count", "import"},
              {}, TRUE, {2}, {1, 2}, 1, 1, 2)
C == Scenario({"buy", "unbuy", "sell", "refund", "edit", "track"}, {}, FALSE, {2}, {1}, 1, 1, 1)
E == Scenario({"buy", "sell", "offline", "refund", "track"}, {}, FALSE, {0, 1}, {1, 2}, 0, 1, 1)
H == Scenario({"buy", "sell", "refund", "import", "track", "untrack"}, {}, FALSE, {1}, {1}, 1, 1, 1)
I == LET kinds == {"sell", "refund", "import"}
     IN Scenario(kinds, kinds, FALSE, {2}, {1}, 1, 0, 1)
D == Scenario({"buy", "unbuy", "pay"}, {}, FALSE, {0}, {1, 2}, 0, 1, 0)
F == LET kinds == {"buy", "unbuy", "sell", "refund"}
     IN Scenario(kinds, kinds, TRUE, {0}, {1, 2}, 0, 2, 1)
G == LET kinds == {"buy", "unbuy", "sell", "adjust"}
     IN Scenario(kinds, kinds, TRUE, {1}, {1, 2}, 2, 1, 1)

AllScenarios == {A, B, C, D, E, F, G, H, I}
Stale == {Scenario({"buy", "sell"}, {"buy", "sell"}, TRUE, {2}, {1}, 0, 1, 1)}

Symmetry == Permutations({p1, p2})
=============================================================================
