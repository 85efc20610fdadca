----------------------------- MODULE MCPosSales -----------------------------
(* Two requests on two sales: the instance TLC explores. *)
EXTENDS PosSales, TLC

CONSTANTS r1, r2, s1, s2, h1, h2, t1

MCRequests == {r1, r2}
MCSales    == {s1, s2}
MCShifts   == {h1}
MCTokens   == {t1}

MCCash == {0, 3}
MCCard == {0, 3}
MCDiscounts == {0, 1}

Symmetry == Permutations(MCRequests) \cup Permutations(MCSales)
=============================================================================
