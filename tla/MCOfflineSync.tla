--------------------------- MODULE MCOfflineSync ---------------------------
(* The scenarios and inputs of the small instances of OfflineSync. *)
EXTENDS OfflineSync, TLC

CONSTANTS t1, t2, p1, p2, h1, h2, m1, m2, s1, s2

Scenario(kinds, offline, width, tickets, units) ==
    [kinds |-> kinds, offline |-> offline, width |-> width, tickets |-> tickets, units |-> units]

\* Two-step sales: all but claims, one handler at a time; the handlers that lock the
\* ticket and its products, two at a time.
Serial == Scenario(Kinds \ {"claim"}, {}, 1, 2, 1)
Locked == Scenario({"create", "claim", "remove", "reduce", "charge", "cancel", "sweep"}, {}, 2, 2, 2)

\* Offline sales beside tickets and direct sales, one request at a time.
Beside == Scenario({"create", "cancel", "charge"}, {"offline", "sync"}, 1, 2, 1)
Direct == Scenario({"create", "sale"}, {"offline", "sync"}, 1, 1, 2)
Switching == Scenario({}, {"terminal", "offline", "sync"}, 1, 0, 0)
\* Synchronisations that overlap each other and the charge of a ticket.
Twice == Scenario({"create", "charge"}, {"offline", "sync", "crash", "refused"}, 2, 1, 1)
Copies == Scenario({}, {"catalog"}, 1, 0, 0)
\* Repeated requests: those that overlap, and those that fail, one at a time.
Keys == Scenario({}, {"key"}, 2, 0, 0)
KeysFailing == Scenario({}, {"key", "fail", "crash", "slow"}, 1, 0, 0)
Bills == Scenario({}, {"bill"}, 1, 0, 0)

AllScenarios == {Serial, Locked, Beside, Direct, Switching, Twice, Copies, Keys, KeysFailing, Bills}

Combo == [combo |-> [p \in {p1, p2} |-> 1]]

BasketLine == [price : {0, 10, 33}, qty : {1, 2}, off : {0, 3}, list : {NoList, 20},
               taxable : BOOLEAN]
Plain == {l \in BasketLine : l.qty = 1 /\ l.off = 0 /\ l.list = NoList}
SomeBaskets ==
    UNION {{<<a>> : a \in {l \in BasketLine : Net(l) >= 0}},
           {<<a, b>> : a, b \in {l \in BasketLine : l.price > 0 /\ l.list = NoList}},
           [1 .. 3 -> Plain]}
SomeDiscounts == {0, 1, 5, 500}
SomeTax == [useList : {TRUE}, included : BOOLEAN, rate : {15}]
           \cup [useList : {FALSE}, included : {FALSE}, rate : {0}]

Symmetry == Permutations({t1, t2}) \cup Permutations({p1, p2}) \cup Permutations({h1, h2})
            \cup Permutations({m1, m2}) \cup Permutations({s1, s2})
=============================================================================
