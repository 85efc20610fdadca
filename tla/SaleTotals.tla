----------------------------- MODULE SaleTotals -----------------------------
(***************************************************************************)
(* The bill of a sale, as the register and the synchronisation of offline  *)
(* sales both compute it:                                                  *)
(* src/src/modules/pos/sales/utils/sale-calculation.util.ts.               *)
(*                                                                         *)
(* Amounts are whole cents and quantities whole units; the ratios the code *)
(* rounds are exact here (in floating point a share that ends in half a    *)
(* cent may come out one cent lower).                                      *)
(***************************************************************************)
EXTENDS Integers, Sequences, Functions

NoList == -1   \* the line has no list price
BasketLines == [price : Nat, qty : Nat, off : Nat, list : Nat \cup {NoList}, taxable : BOOLEAN]

\* Math.round(a / b): half a cent goes up.
Round(a, b) == (2 * a + b) \div (2 * b)
Greater(a, b) == IF a > b THEN a ELSE b
Lesser(a, b) == IF a < b THEN a ELSE b

\* What a line of the basket costs: unitPrice * quantity less its own discount.
Net(l) == l.price * l.qty - l.off
Subtotal(b) == SumFunction([i \in DOMAIN b |-> Net(b[i])])

\* What the line is below its list price; it is shown and not subtracted.
ListDiscount(l, useList) ==
    IF useList /\ l.list # NoList THEN Greater(0, l.list - l.price) * l.qty ELSE 0
ListTotal(l, useList) ==
    IF useList /\ l.list # NoList THEN l.list * l.qty ELSE Greater(0, Net(l))

\* Mutant: every line rounds its share, the last one too.
EachRounded(b, discount, subtotal) ==
    [i \in DOMAIN b |-> IF discount > 0 /\ subtotal > 0
                        THEN Round(discount * Net(b[i]), subtotal) ELSE 0]

\* The cashier's discount in proportion to the lines; the last one takes the rest.
ManualShares(b, discount, subtotal) ==
    LET n == Len(b)
        share == [i \in 1 .. n - 1 |-> Round(discount * Net(b[i]), subtotal)]
    IN [i \in DOMAIN b |->
          IF discount = 0 \/ subtotal <= 0 THEN 0
          ELSE IF i < n THEN share[i]
          ELSE discount - SumFunction(share)]

LineTax(l, share) == IF l.taxable THEN Round(Greater(0, Net(l) - share) * 15, 100) ELSE 0

PerLineBill(b, asked, biz) ==
    LET subtotal == Subtotal(b)
        discount == Lesser(Greater(0, asked), subtotal)
        share == ManualShares(b, discount, subtotal)
        tax == [i \in DOMAIN b |-> LineTax(b[i], share[i])]
        taxes == SumFunction(tax)
    IN [model |-> "PER_LINE", subtotal |-> subtotal, discount |-> discount,
        share |-> share, lineTax |-> tax, tax |-> taxes,
        listTotal |-> SumFunction([i \in DOMAIN b |-> ListTotal(b[i], biz.useList)]),
        listDiscount |-> SumFunction([i \in DOMAIN b |-> ListDiscount(b[i], biz.useList)]),
        total |-> subtotal - discount + taxes]

\* Registers that do not tell what is taxed: one rate for the whole sale, on top
\* of the prices or within them.
LegacyBill(b, asked, biz) ==
    LET subtotal == Subtotal(b)
        discount == Greater(0, asked)
        final == Greater(0, subtotal - discount)
        tax == IF biz.rate = 0 THEN 0
               ELSE IF biz.included THEN final - Round(final * 100, 100 + biz.rate)
               ELSE Round(final * biz.rate, 100)
        none == [i \in DOMAIN b |-> 0]
    IN [model |-> "LEGACY", subtotal |-> subtotal, discount |-> discount,
        share |-> none, lineTax |-> none, tax |-> tax, listTotal |-> 0, listDiscount |-> 0,
        total |-> IF biz.included THEN final ELSE final + tax]

Bill(b, asked, biz, perLine) ==
    IF perLine THEN PerLineBill(b, asked, biz) ELSE LegacyBill(b, asked, biz)
=============================================================================
