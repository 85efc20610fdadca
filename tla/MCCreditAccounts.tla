-------------------------- MODULE MCCreditAccounts --------------------------
(* What is done in the small instances of CreditAccounts. *)
EXTENDS CreditAccounts, TLC

CONSTANTS a1, a2, c1, c2, r1, r2

Plan(total, prima, interest, cuotas) ==
    [total |-> total, prima |-> prima, interest |-> interest, cuotas |-> cuotas]

Scenario(kinds, width, accounts, cuts, plans) ==
    [kinds |-> kinds, width |-> width, accounts |-> accounts, cuts |-> cuts, plans |-> plans]

\* Without and with interest, prima and a remainder in the last installment.
AllPlans  == {Plan(5, 0, 0, 3), Plan(4, 1, 2, 2), Plan(3, 0, 2, 3), Plan(3, 0, 0, 1)}
ShortPlan == {Plan(3, 0, 0, 2)}

\* Everything on one account, one transaction at a time; abonos against
\* abonos and against the statements of two accounts.
SerialAndRaces ==
    {Scenario(AllKinds, 1, {a1}, {c1, c2}, AllPlans),
     Scenario({"abono", "cut", "settle", "cancelCut"}, 2, {a1, a2}, {c1}, ShortPlan)}

Symmetry == Permutations({r1, r2})
=============================================================================
