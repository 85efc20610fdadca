--------------------------- MODULE PosSalesProofs ---------------------------
(***************************************************************************)
(* Proofs about PosSales for every set of requests, sales, shifts and      *)
(* tokens and every price, discount and payment the assumptions allow.     *)
(***************************************************************************)
EXTENDS PosSales, SumTheorems, TLAPS

(***************************************************************************)
(* The inductive invariant.  A transaction that reversed a sale decided on *)
(* a row it then left unlocked only at its commit: the row is still the    *)
(* one it read (RowsHeld), because no other transaction holds it           *)
(* (OneHolder) and because ids of sales being inserted are fresh           *)
(* (DraftHeld).                                                            *)
(***************************************************************************)
OneHolder ==
    \A p, q \in Requests :
       Reversing(p) /\ Reversing(q) /\ loc[p].sale = loc[q].sale => p = q

OneInserter ==
    \A p, q \in Requests : pc[p] = "checked" /\ pc[q] = "checked" => p = q

DraftHeld ==
    \A r \in Requests : pc[r] = "checked" =>
       /\ loc[r].sale \in Sales
       /\ sale[loc[r].sale].status = "NONE"
       /\ loc[r].draft.status = "COMPLETED"
       /\ loc[r].draft.qty > 0
       /\ loc[r].draft.change <= loc[r].draft.tendered
       /\ loc[r].draft.returnedQty = 0
       /\ loc[r].draft.refunded = [m \in Methods |-> 0]

RowsHeld ==
    \A r \in Requests : Reversing(r) =>
       LET x == sale[loc[r].sale]
           w == loc[r]
       IN
       /\ w.sale \in Sales
       /\ pc[r] = "voiding" => /\ x.status = "COMPLETED"
                               /\ w.shift = None <=> ~(VoidCash(x) > 0)
       /\ pc[r] = "returning" =>
             /\ x.status \in {"COMPLETED", "PARTIALLY_RETURNED"}
             /\ w.amount <= Remaining(x)
             /\ w.amount <= AvailableIn(x, w.method)

\* A row with no return has given nothing back, and a row that was never
\* voided has had no cash paid out by a void.
RowsSound ==
    \A s \in Sales :
       /\ sale[s].change <= sale[s].tendered
       /\ sale[s].status # "NONE" => sale[s].qty > 0
       /\ sale[s].status \in {"NONE", "COMPLETED", "CANCELLED"} =>
             sale[s].returnedQty = 0 /\ SumRefunded(sale[s]) = 0
       /\ sale[s].status # "CANCELLED" => voidPaid[s] = 0

IInv == /\ TypeOK
        /\ OneHolder
        /\ OneInserter
        /\ DraftHeld
        /\ RowsHeld
        /\ RowsSound
        /\ RefundsWithinPaid
        /\ ReversedOnce

-----------------------------------------------------------------------------
(***************************************************************************)
(* Arithmetic of the refund of a line.                                     *)
(***************************************************************************)

\* A product grows with either factor.
LEMMA ProductMonotone ==
    ASSUME NEW a \in Nat, NEW b \in Nat, NEW k \in Nat, a <= b
    PROVE  a * k <= b * k
  OBVIOUS

\* Rounding a quotient by a positive divisor never exceeds the dividend.
LEMMA RoundDivBounded ==
    ASSUME NEW n \in Nat, NEW d \in Nat, d > 0
    PROVE  RoundDiv(n, d) \in Nat /\ RoundDiv(n, d) <= n
<1>1. d <= d * (n + 1) /\ n <= n * d
  BY ProductMonotone
<1>2. 2 * n + d < 2 * d * (n + 1)
  BY <1>1
<1> QED
  BY <1>2 DEF RoundDiv

\* The discount a refund keeps back is never more than the price it refunds.
LEMMA LineRefundNat ==
    ASSUME NEW x \in SaleRows, x.qty > 0, NEW k \in Nat
    PROVE  LineRefund(x, k) \in Nat
<1>1. x.discount \in Nat /\ x.discount <= UnitPrice /\ x.qty \in Nat /\ UnitPrice \in Nat
  BY QuantityAssumption DEF SaleRows
<1>2. x.discount * k \in Nat /\ x.discount * k <= UnitPrice * k /\ UnitPrice * k \in Nat
  BY <1>1, ProductMonotone
<1>3. RoundDiv(x.discount * k, x.qty) \in Nat
      /\ RoundDiv(x.discount * k, x.qty) <= x.discount * k
  BY <1>1, <1>2, RoundDivBounded
<1> QED
  BY <1>2, <1>3 DEF LineRefund

-----------------------------------------------------------------------------
(***************************************************************************)
(* Type correctness.                                                       *)
(***************************************************************************)

\* A row that was never inserted is a row.
LEMMA EmptyRecords == NoSale \in SaleRows /\ NoWork \in Work
<1>1. NoSale \in SaleRows
  BY QuantityAssumption DEF NoSale, SaleRows, Methods
<1> QED
  BY <1>1 DEF NoWork, Work, Methods

LEMMA PlacedRow ==
    ASSUME NEW d \in SaleRows, NEW sh \in Shifts \cup {None}, NEW n \in Nat
    PROVE  /\ [d EXCEPT !.shift = sh, !.invoice = n] \in SaleRows
           /\ d.qty \in Nat
<1>1. [d EXCEPT !.shift = sh, !.invoice = n] \in SaleRows
  BY DEF SaleRows
<1> QED
  BY <1>1, QuantityAssumption DEF SaleRows

\* The draft of a sale whose payments were accepted is a row, with its
\* change inside what was tendered.
LEMMA DraftType ==
    ASSUME NEW qty \in 1 .. MaxQty, NEW discount \in Discounts,
           NEW currency \in Currencies, NEW tendered \in CashAmounts,
           NEW card \in CardAmounts,
           PaymentAccepted(UnitPrice * qty - discount, tendered, card)
    PROVE  LET d == Draft(qty, discount, currency, tendered, card) IN
           /\ d \in SaleRows
           /\ d.status = "COMPLETED" /\ d.qty > 0
           /\ d.change <= d.tendered
           /\ d.returnedQty = 0 /\ d.refunded = [m \in Methods |-> 0]
<1> DEFINE total == UnitPrice * qty - discount
           change == ChangeDue(total, tendered, card)
<1>1. /\ discount \in Nat /\ discount <= UnitPrice /\ tendered \in Nat
      /\ card \in Nat /\ UnitPrice \in Nat /\ qty \in Nat /\ qty >= 1
      /\ currency \in {"NIO", "USD"} /\ MaxQty \in Nat
  BY QuantityAssumption, SwitchAssumption
<1>2. UnitPrice * 1 <= UnitPrice * qty
  BY <1>1, ProductMonotone
<1>3. total \in Nat
  BY <1>1, <1>2
<1>4. change \in Nat /\ change <= tendered
  BY <1>1, <1>3 DEF ChangeDue, PaymentAccepted
<1>5. tendered - change \in Nat
  BY <1>1, <1>4
<1> HIDE DEF total, change
<1>6. Draft(qty, discount, currency, tendered, card) =
        [status |-> "COMPLETED", shift |-> None, invoice |-> 0, qty |-> qty,
         discount |-> discount, total |-> total, currency |-> currency,
         tendered |-> tendered, change |-> change,
         amountBase |-> tendered - change, card |-> card, returnedQty |-> 0,
         refunded |-> [m \in Methods |-> 0]]
  BY DEF Draft, total, change
<1>7. [m \in Methods |-> 0] \in [Methods -> Nat]
  OBVIOUS
<1> QED
  BY <1>1, <1>3, <1>4, <1>5, <1>6, <1>7 DEF SaleRows

\* What a return gives back is a natural within what is left of the total.
LEMMA RefundAmountNat ==
    ASSUME NEW x \in SaleRows, x.qty > 0, SumRefunded(x) <= x.total,
           NEW n \in {1, 2}, NEW lines \in [1 .. n -> 1 .. MaxQty]
    PROVE  /\ RefundAmount(x, lines) \in Nat
           /\ RefundAmount(x, lines) <= Remaining(x)
           /\ Units(lines) \in Nat
<1>1. lines[1] \in Nat /\ LineAt(lines, 2) \in Nat
  BY QuantityAssumption DEF LineAt
<1>2. LinesRefund(x, lines) \in Nat
  <2>1. LineRefund(x, lines[1]) \in Nat
    BY <1>1, LineRefundNat
  <2>2. LineRefund(x, LineAt(lines, 2)) \in Nat
    BY <1>1, LineRefundNat
  <2> QED
    BY <2>1, <2>2 DEF LinesRefund
<1>3. Remaining(x) \in Nat
  BY DEF Remaining, SumRefunded, SaleRows, Methods
<1>4. Units(lines) \in Nat
  BY <1>1 DEF Units
<1> QED
  BY <1>2, <1>3, <1>4 DEF RefundAmount

\* The row a return leaves behind is a row.
LEMMA ReturnedRowType ==
    ASSUME NEW x \in SaleRows, NEW k \in Nat, NEW m \in Methods, NEW a \in Nat, NEW full
    PROVE  ReturnedRow(x, k, m, a, full) \in SaleRows
<1> DEFINE units  == x.returnedQty + k
           back   == [x.refunded EXCEPT ![m] = @ + a]
           status == IF full THEN "RETURNED" ELSE "PARTIALLY_RETURNED"
<1>1. units \in Nat /\ x.refunded \in [Methods -> Nat]
  BY DEF SaleRows
<1>2. back \in [Methods -> Nat]
  BY <1>1
<1>3. status \in {"PARTIALLY_RETURNED", "RETURNED"}
  OBVIOUS
<1>4. ReturnedRow(x, k, m, a, full)
        = [x EXCEPT !.returnedQty = units, !.refunded = back, !.status = status]
  BY DEF ReturnedRow
<1> HIDE DEF units, back, status
<1> QED
  BY <1>1, <1>2, <1>3, <1>4 DEF SaleRows

\* Consuming a token, or going without one, leaves rows of tokens.
LEMMA ConsumeTokenType ==
    ASSUME TypeOK, NEW t \in Tokens \cup {None}, ConsumeToken(t)
    PROVE  /\ token' \in [Tokens -> [state : {"NONE", "FRESH", "USED", "EXPIRED"},
                                     action : {"VOID", "RETURN"}]]
           /\ uses' \in [Tokens -> Nat]
<1> DEFINE Row == [state : {"NONE", "FRESH", "USED", "EXPIRED"}, action : {"VOID", "RETURN"}]
<1>1. token \in [Tokens -> Row] /\ uses \in [Tokens -> Nat]
  BY DEF TypeOK
<1>2. CASE t = None
  BY <1>1, <1>2 DEF ConsumeToken
<1>3. CASE t # None
  <2>1. /\ token' = [token EXCEPT ![t] = [token[t] EXCEPT !.state = "USED"]]
        /\ uses' = [uses EXCEPT ![t] = uses[t] + 1]
        /\ t \in Tokens
    BY <1>3 DEF ConsumeToken
  <2>2. token[t] \in Row /\ uses[t] \in Nat
    BY <1>1, <2>1
  <2>3. [token[t] EXCEPT !.state = "USED"] \in Row
    BY <2>2
  <2> HIDE DEF Row
  <2>4. token' \in [Tokens -> Row]
    BY <1>1, <2>1, <2>3
  <2>5. uses' \in [Tokens -> Nat]
    BY <1>1, <2>1, <2>2
  <2> QED
    BY <2>4, <2>5 DEF Row
<1> QED
  BY <1>2, <1>3

\* One step keeps the types.
LEMMA TypeStep ==
    ASSUME IInv, [Next]_vars
    PROVE  TypeOK'
<1>0. TypeOK /\ NoWork \in Work /\ NoSale \in SaleRows
  BY EmptyRecords DEF IInv
<1>1. ASSUME NEW sh \in Shifts, OpenShift(sh) \/ CloseShift(sh) PROVE TypeOK'
  BY <1>0, <1>1 DEF TypeOK, OpenShift, CloseShift
<1>2. ASSUME NEW t \in Tokens, NEW a \in {"VOID", "RETURN"}, IssueToken(t, a)
      PROVE  TypeOK'
  BY <1>0, <1>2 DEF TypeOK, IssueToken
<1>3. ASSUME NEW t \in Tokens, ExpireToken(t) PROVE TypeOK'
  BY <1>0, <1>3 DEF TypeOK, ExpireToken
<1>4. ASSUME NEW r \in Requests, SaleResolve(r) PROVE TypeOK'
  <2> PICK sh \in Open :
        loc' = [loc EXCEPT ![r] = [NoWork EXCEPT !.shift = sh, !.invoice = counter]]
    BY <1>4 DEF SaleResolve
  <2>1. [NoWork EXCEPT !.shift = sh, !.invoice = counter] \in Work
    BY <1>0 DEF TypeOK, Work, Open
  <2> QED
    BY <1>0, <1>4, <2>1 DEF TypeOK, SaleResolve
<1>5. ASSUME NEW r \in Requests, SaleCheck(r) PROVE TypeOK'
  <2>a. PICK s \in Sales, qty \in 1 .. MaxQty, discount \in Discounts,
           currency \in Currencies, tendered \in CashAmounts, card \in CardAmounts :
        /\ sale[s].status = "NONE"
        /\ StockAllows(qty)
        /\ PaymentAccepted(UnitPrice * qty - discount, tendered, card)
        /\ loc' = [loc EXCEPT ![r] = [@ EXCEPT !.sale = s,
                      !.draft = Draft(qty, discount, currency, tendered, card)]]
    BY <1>5 DEF SaleCheck
  <2>1. Draft(qty, discount, currency, tendered, card) \in SaleRows
    BY <2>a, DraftType
  <2> DEFINE d == Draft(qty, discount, currency, tendered, card)
  <2> HIDE DEF d
  <2>2. [loc[r] EXCEPT !.sale = s, !.draft = d] \in Work
    <3>1. loc[r] \in Work /\ d \in SaleRows /\ s \in Sales
      BY <1>0, <2>1 DEF TypeOK, d
    <3> QED
      BY <3>1 DEF Work
  <2> QED
    BY <1>0, <1>5, <2>a, <2>2 DEF TypeOK, SaleCheck, d
<1>6. ASSUME NEW r \in Requests, SaleInsert(r) PROVE TypeOK'
  <2> DEFINE w == loc[r]
             row == [w.draft EXCEPT !.shift = w.shift, !.invoice = w.invoice]
  <2>1. w \in Work /\ w.sale \in Sales
    BY <1>0, <1>6 DEF TypeOK, IInv, DraftHeld, SaleInsert
  <2>3. w.draft \in SaleRows /\ w.shift \in Shifts \cup {None} /\ w.invoice \in Nat
    BY <2>1 DEF Work
  <2>4. row \in SaleRows /\ w.draft.qty \in Int
    <3> HIDE DEF w
    <3>1. row \in SaleRows
      BY <2>3, PlacedRow
    <3>2. w.draft.qty \in Nat
      BY <2>3, PlacedRow
    <3> QED
      BY <3>1, <3>2
  <2>2. sale' \in [Sales -> SaleRows]
    BY <1>0, <1>6, <2>1, <2>4 DEF TypeOK, SaleInsert
  <2> QED
    BY <1>0, <1>6, <2>2, <2>4 DEF TypeOK, SaleInsert
<1>7. ASSUME NEW r \in Requests, VoidCheck(r) PROVE TypeOK'
  <2> PICK s \in Sales, t \in Tokens \cup {None}, sh \in Shifts \cup {None} :
        loc' = [loc EXCEPT ![r] = [NoWork EXCEPT !.sale = s, !.token = t, !.shift = sh]]
    BY <1>7 DEF VoidCheck
  <2>1. [NoWork EXCEPT !.sale = s, !.token = t, !.shift = sh] \in Work
    BY <1>0 DEF Work
  <2> QED
    BY <1>0, <1>7, <2>1 DEF TypeOK, VoidCheck
<1>8. ASSUME NEW r \in Requests, VoidCommit(r) PROVE TypeOK'
  <2> DEFINE w == loc[r]
             x == sale[w.sale]
  <2>1. w \in Work /\ w.sale \in Sales /\ x \in SaleRows
    BY <1>0, <1>8 DEF TypeOK, IInv, RowsHeld, Reversing, VoidCommit
  <2>2. /\ w.shift \in Shifts \cup {None} /\ w.token \in Tokens \cup {None}
        /\ w.shift = None <=> ~(VoidCash(x) > 0)
    BY <2>1, <1>8 DEF IInv, RowsHeld, Reversing, Work, VoidCommit
  <2>3. x.qty \in Nat /\ VoidCash(x) \in Int
    <3> HIDE DEF x
    <3>1. x.qty \in Nat
      BY <2>1, QuantityAssumption DEF SaleRows
    <3>2. VoidCash(x) \in Int
      BY <2>1 DEF SaleRows, VoidCash
    <3> QED
      BY <3>1, <3>2
  <2>4. /\ cashOut' \in [Shifts -> Nat]
        /\ voidPaid' \in [Sales -> Nat]
    BY <1>0, <1>8, <2>1, <2>2, <2>3 DEF TypeOK, VoidCommit, PayOut
  <2>5. token' \in [Tokens -> [state : {"NONE", "FRESH", "USED", "EXPIRED"},
                                action : {"VOID", "RETURN"}]]
        /\ uses' \in [Tokens -> Nat]
    BY <1>0, <1>8, <2>2, ConsumeTokenType DEF VoidCommit
  <2>6. sale' \in [Sales -> SaleRows]
    <3>1. [x EXCEPT !.status = "CANCELLED"] \in SaleRows
      <4> HIDE DEF x
      <4> QED
        BY <2>1 DEF SaleRows
    <3> QED
      BY <1>0, <1>8, <2>1, <3>1 DEF TypeOK, VoidCommit
  <2> QED
    BY <1>0, <1>8, <2>3, <2>4, <2>5, <2>6 DEF TypeOK, VoidCommit
<1>9. ASSUME NEW r \in Requests, ReturnCheck(r) PROVE TypeOK'
  <2> PICK s \in Sales, t \in Tokens \cup {None}, sh \in Shifts \cup {None},
           method \in Methods, restock \in BOOLEAN, n \in ReturnLines :
       \E lines \in [1 .. n -> 1 .. MaxQty] :
          LET x == sale[s]
              amount == RefundAmount(x, lines)
          IN
          /\ SaleFree(s)
          /\ x.status \in {"COMPLETED", "PARTIALLY_RETURNED"}
          /\ TokenValid(t, "RETURN")
          /\ LinesAvailable(x, lines)
          /\ amount <= AvailableIn(x, method)
          /\ RefundShift(sh, IF method = "EFECTIVO" THEN amount ELSE 0)
          /\ loc' = [loc EXCEPT ![r] =
                [NoWork EXCEPT !.sale = s, !.token = t, !.shift = sh,
                    !.units = Units(lines), !.amount = amount,
                    !.method = method, !.restock = restock,
                    !.full = FullyReturned(x, lines)]]
    BY <1>9 DEF ReturnCheck
  <2> PICK lines \in [1 .. n -> 1 .. MaxQty] :
           /\ sale[s].status \in {"COMPLETED", "PARTIALLY_RETURNED"}
           /\ loc' = [loc EXCEPT ![r] =
                 [NoWork EXCEPT !.sale = s, !.token = t, !.shift = sh,
                    !.units = Units(lines), !.amount = RefundAmount(sale[s], lines),
                    !.method = method, !.restock = restock,
                    !.full = FullyReturned(sale[s], lines)]]
    OBVIOUS
  <2> DEFINE u == Units(lines)
             a == RefundAmount(sale[s], lines)
             f == FullyReturned(sale[s], lines)
  <2>1. u \in Nat /\ a \in Nat
    <3>1. sale[s] \in SaleRows /\ sale[s].qty > 0 /\ SumRefunded(sale[s]) <= sale[s].total
      BY <1>0 DEF TypeOK, IInv, RowsSound, RefundsWithinPaid
    <3>2. n \in {1, 2}
      BY SwitchAssumption
    <3> QED
      BY <3>1, <3>2, RefundAmountNat
  <2>2. f \in BOOLEAN
    BY DEF FullyReturned
  <2> HIDE DEF u, a, f
  <2>3. [NoWork EXCEPT !.sale = s, !.token = t, !.shift = sh, !.units = u, !.amount = a,
                       !.method = method, !.restock = restock, !.full = f] \in Work
    BY <1>0, <2>1, <2>2 DEF Work
  <2> QED
    BY <1>0, <1>9, <2>3 DEF TypeOK, ReturnCheck, u, a, f
<1>10. ASSUME NEW r \in Requests, ReturnCommit(r) PROVE TypeOK'
  <2> DEFINE w == loc[r]
             x == sale[w.sale]
  <2>1. w \in Work /\ w.sale \in Sales /\ x \in SaleRows
    BY <1>0, <1>10 DEF TypeOK, IInv, RowsHeld, Reversing, ReturnCommit
  <2>2. /\ w.shift \in Shifts \cup {None} /\ w.token \in Tokens \cup {None}
        /\ w.units \in Nat /\ w.amount \in Nat /\ w.method \in Methods
        /\ w.restock \in BOOLEAN
    BY <2>1 DEF Work
  <2>3. cashOut' \in [Shifts -> Nat]
    BY <1>0, <1>10, <2>2 DEF TypeOK, ReturnCommit, PayOut
  <2>4. token' \in [Tokens -> [state : {"NONE", "FRESH", "USED", "EXPIRED"},
                                action : {"VOID", "RETURN"}]]
        /\ uses' \in [Tokens -> Nat]
    <3>1. ConsumeToken(w.token)
      BY <1>10 DEF ReturnCommit
    <3> QED
      BY <1>0, <2>2, <3>1 DEF TypeOK, ConsumeToken
  <2>5. sale' = [sale EXCEPT ![w.sale] =
                   ReturnedRow(x, w.units, w.method, w.amount, w.full)]
    BY <1>10 DEF ReturnCommit
  <2>6. ReturnedRow(x, w.units, w.method, w.amount, w.full) \in SaleRows
    BY <2>1, <2>2, ReturnedRowType
  <2> QED
    BY <1>0, <1>10, <2>1, <2>2, <2>3, <2>4, <2>5, <2>6 DEF TypeOK, ReturnCommit
<1>11. ASSUME NEW r \in Requests, Rollback(r) PROVE TypeOK'
  BY <1>0, <1>11 DEF TypeOK, Rollback
<1>12. CASE UNCHANGED vars
  BY <1>0, <1>12 DEF TypeOK, vars
<1> QED
  BY <1>1, <1>2, <1>3, <1>4, <1>5, <1>6, <1>7, <1>8, <1>9, <1>10, <1>11, <1>12
     DEF Next

-----------------------------------------------------------------------------
(***************************************************************************)
(* The safety part of the invariant: every step keeps it.                  *)
(***************************************************************************)
Safe == /\ OneHolder
        /\ OneInserter
        /\ DraftHeld
        /\ RowsHeld
        /\ RowsSound
        /\ RefundsWithinPaid
        /\ ReversedOnce

\* Shifts and tokens come and go without touching a sale or a transaction.
LEMMA OutsideStep ==
    ASSUME IInv, UNCHANGED <<sale, voidPaid, pc, loc>>
    PROVE  Safe'
  BY DEF IInv, Safe, OneHolder, OneInserter, DraftHeld, RowsHeld, RowsSound,
         RefundsWithinPaid, ReversedOnce, Reversing

\* What the transaction of r does with its own pc and loc leaves the others'.
LEMMA OthersStand ==
    ASSUME TypeOK, NEW r \in Requests, NEW p, NEW l,
           pc' = [pc EXCEPT ![r] = p], loc' = [loc EXCEPT ![r] = l]
    PROVE  /\ pc'[r] = p /\ loc'[r] = l
           /\ \A q \in Requests \ {r} : pc'[q] = pc[q] /\ loc'[q] = loc[q]
  BY DEF TypeOK

\* A transaction that goes back to idle holds nothing any more.
LEMMA IdleStep ==
    ASSUME IInv, NEW r \in Requests, pc' = [pc EXCEPT ![r] = "idle"],
           loc' = [loc EXCEPT ![r] = NoWork]
    PROVE  OneHolder' /\ OneInserter'
<1>1. TypeOK /\ OneHolder /\ OneInserter
  BY DEF IInv
<1>2. /\ pc'[r] = "idle" /\ loc'[r] = NoWork
      /\ \A q \in Requests \ {r} : pc'[q] = pc[q] /\ loc'[q] = loc[q]
  BY <1>1, OthersStand
<1> QED
  BY <1>1, <1>2 DEF OneHolder, OneInserter, Reversing

\* The invoice is written: only the fresh row of the insert changes.
LEMMA SaleInsertStep ==
    ASSUME IInv, NEW r \in Requests, SaleInsert(r)
    PROVE  Safe'
<1> DEFINE w == loc[r]
           row == [w.draft EXCEPT !.shift = w.shift, !.invoice = w.invoice]
<1>1. /\ TypeOK /\ OneHolder /\ OneInserter /\ DraftHeld /\ RowsHeld /\ RowsSound
      /\ RefundsWithinPaid /\ ReversedOnce /\ pc[r] = "checked"
  BY DEF IInv, SaleInsert
<1>2. /\ pc'[r] = "idle"
      /\ \A q \in Requests \ {r} : pc'[q] = pc[q] /\ loc'[q] = loc[q]
  <2>1. pc' = [pc EXCEPT ![r] = "idle"] /\ loc' = [loc EXCEPT ![r] = NoWork]
    BY DEF SaleInsert
  <2> QED
    BY <1>1, <2>1, OthersStand
<1>3. /\ w.sale \in Sales /\ sale[w.sale].status = "NONE"
      /\ w.draft.status = "COMPLETED" /\ w.draft.qty > 0
      /\ w.draft.change <= w.draft.tendered /\ w.draft.returnedQty = 0
      /\ w.draft.refunded = [m \in Methods |-> 0]
      /\ w.draft \in SaleRows
  BY <1>1 DEF DraftHeld, TypeOK, Work
<1>4. /\ sale'[w.sale] = row
      /\ \A s \in Sales \ {w.sale} : sale'[s] = sale[s]
      /\ voidPaid' = voidPaid
  BY <1>1, <1>3 DEF SaleInsert, TypeOK
<1>5. /\ row.status = "COMPLETED" /\ row.qty > 0 /\ row.change <= row.tendered
      /\ row.returnedQty = 0 /\ row.refunded = [m \in Methods |-> 0]
      /\ row.card \in Nat /\ row.total \in Nat /\ row.tendered \in Nat /\ row.change \in Nat
  BY <1>3 DEF SaleRows
<1> HIDE DEF row
<1>6. OneHolder' /\ OneInserter'
  BY IdleStep DEF SaleInsert
<1>7. DraftHeld'
  BY <1>1, <1>2 DEF DraftHeld, OneInserter
<1>8. RowsHeld'
  <2>1. \A q \in Requests : Reversing(q)' => q # r /\ Reversing(q) /\ loc[q].sale # w.sale
    BY <1>1, <1>2, <1>3 DEF Reversing, RowsHeld
  <2> QED
    BY <1>1, <1>2, <1>4, <2>1 DEF RowsHeld, Reversing
<1>9. RowsSound'
  BY <1>1, <1>3, <1>4, <1>5 DEF RowsSound, SumRefunded, Methods
<1>10. RefundsWithinPaid'
  <2>1. \A m \in Methods : row.refunded[m] <= PaidIn(row, m)
    BY <1>5 DEF PaidIn, Methods
  <2>2. SumRefunded(row) <= row.total
    BY <1>5 DEF SumRefunded, Methods
  <2> QED
    BY <1>1, <1>4, <2>1, <2>2 DEF RefundsWithinPaid
<1>11. ReversedOnce'
  BY <1>1, <1>3, <1>4, <1>5 DEF ReversedOnce, RowsSound
<1> QED
  BY <1>6, <1>7, <1>8, <1>9, <1>10, <1>11 DEF Safe

\* The void is committed: the row it held is the one it had read.
LEMMA VoidCommitStep ==
    ASSUME IInv, NEW r \in Requests, VoidCommit(r)
    PROVE  Safe'
<1> DEFINE w == loc[r]
           x == sale[w.sale]
           row == [x EXCEPT !.status = "CANCELLED"]
<1>1. /\ TypeOK /\ OneHolder /\ OneInserter /\ DraftHeld /\ RowsHeld /\ RowsSound
      /\ RefundsWithinPaid /\ ReversedOnce /\ pc[r] = "voiding"
  BY DEF IInv, VoidCommit
<1>2. /\ pc'[r] = "idle"
      /\ \A q \in Requests \ {r} : pc'[q] = pc[q] /\ loc'[q] = loc[q]
  <2>1. pc' = [pc EXCEPT ![r] = "idle"] /\ loc' = [loc EXCEPT ![r] = NoWork]
    BY DEF VoidCommit
  <2> QED
    BY <1>1, <2>1, OthersStand
<1>3. /\ w.sale \in Sales /\ x \in SaleRows /\ x.status = "COMPLETED"
      /\ w.shift = None <=> ~(VoidCash(x) > 0)
  BY <1>1 DEF RowsHeld, Reversing, TypeOK
<1>4. /\ sale'[w.sale] = row
      /\ \A s \in Sales \ {w.sale} : sale'[s] = sale[s] /\ voidPaid'[s] = voidPaid[s]
      /\ voidPaid'[w.sale] = IF VoidCash(x) > 0 THEN VoidCash(x) ELSE 0
  <2>1. voidPaid[w.sale] = 0
    BY <1>1, <1>3 DEF RowsSound
  <2>2. VoidCash(x) \in Int
    BY <1>3 DEF SaleRows, VoidCash
  <2>3. voidPaid'[w.sale] = IF w.shift = None THEN 0 ELSE 0 + VoidCash(x)
    BY <1>1, <1>3, <2>1 DEF VoidCommit, TypeOK
  <2> QED
    BY <1>1, <1>3, <2>2, <2>3 DEF VoidCommit, TypeOK
<1>5. /\ row.status = "CANCELLED" /\ row.qty = x.qty /\ row.returnedQty = x.returnedQty
      /\ row.refunded = x.refunded /\ row.change = x.change /\ row.tendered = x.tendered
      /\ row.total = x.total /\ row.card = x.card
      /\ VoidCash(row) = VoidCash(x) /\ SumRefunded(row) = SumRefunded(x)
      /\ \A m \in Methods : PaidIn(row, m) = PaidIn(x, m)
  <2> HIDE DEF x
  <2>1. /\ row.status = "CANCELLED" /\ row.qty = x.qty /\ row.returnedQty = x.returnedQty
        /\ row.refunded = x.refunded /\ row.change = x.change /\ row.tendered = x.tendered
        /\ row.total = x.total /\ row.card = x.card /\ row.currency = x.currency
        /\ row.amountBase = x.amountBase
    BY <1>3 DEF SaleRows
  <2> QED
    BY <2>1 DEF VoidCash, SumRefunded, PaidIn
<1>6. x.returnedQty = 0 /\ SumRefunded(x) = 0 /\ x.change <= x.tendered /\ x.qty > 0
  BY <1>1, <1>3 DEF RowsSound
<1> HIDE DEF row
<1>7. OneHolder' /\ OneInserter'
  BY IdleStep DEF VoidCommit
<1>8. DraftHeld'
  <2>1. \A q \in Requests : pc'[q] = "checked" =>
           q # r /\ pc[q] = "checked" /\ loc[q].sale \in Sales \ {w.sale}
    BY <1>1, <1>2, <1>3 DEF DraftHeld
  <2> QED
    BY <1>1, <1>2, <1>4, <2>1 DEF DraftHeld
<1>9. RowsHeld'
  <2>1. \A q \in Requests : Reversing(q)' =>
           q # r /\ Reversing(q) /\ loc[q].sale \in Sales \ {w.sale}
    BY <1>1, <1>2 DEF Reversing, RowsHeld, OneHolder
  <2> QED
    BY <1>1, <1>2, <1>4, <2>1 DEF RowsHeld, Reversing
<1>10. RowsSound'
  BY <1>1, <1>3, <1>4, <1>5, <1>6 DEF RowsSound
<1>11. RefundsWithinPaid'
  BY <1>1, <1>3, <1>4, <1>5 DEF RefundsWithinPaid
<1>12. ReversedOnce'
  BY <1>1, <1>3, <1>4, <1>5, <1>6 DEF ReversedOnce
<1> QED
  BY <1>7, <1>8, <1>9, <1>10, <1>11, <1>12 DEF Safe

\* The return is committed: what it refunds fits what the row has left.
LEMMA ReturnCommitStep ==
    ASSUME IInv, NEW r \in Requests, ReturnCommit(r)
    PROVE  Safe'
<1> DEFINE w == loc[r]
           x == sale[w.sale]
           row == ReturnedRow(x, w.units, w.method, w.amount, w.full)
<1>1. /\ TypeOK /\ OneHolder /\ OneInserter /\ DraftHeld /\ RowsHeld /\ RowsSound
      /\ RefundsWithinPaid /\ ReversedOnce /\ pc[r] = "returning"
  BY DEF IInv, ReturnCommit
<1>2. /\ pc'[r] = "idle"
      /\ \A q \in Requests \ {r} : pc'[q] = pc[q] /\ loc'[q] = loc[q]
  <2>1. pc' = [pc EXCEPT ![r] = "idle"] /\ loc' = [loc EXCEPT ![r] = NoWork]
    BY DEF ReturnCommit
  <2> QED
    BY <1>1, <2>1, OthersStand
<1>3. /\ w.sale \in Sales /\ x \in SaleRows
      /\ x.status \in {"COMPLETED", "PARTIALLY_RETURNED"}
      /\ w.amount <= Remaining(x) /\ w.amount <= AvailableIn(x, w.method)
      /\ w \in Work
  BY <1>1 DEF RowsHeld, Reversing, TypeOK
<1>4. w.amount \in Nat /\ w.method \in Methods /\ w.units \in Nat
  BY <1>3 DEF Work
<1>5. /\ sale'[w.sale] = row
      /\ \A s \in Sales \ {w.sale} : sale'[s] = sale[s]
      /\ voidPaid' = voidPaid
  BY <1>1, <1>3 DEF ReturnCommit, TypeOK
<1>6. /\ x.change <= x.tendered /\ x.qty > 0 /\ voidPaid[w.sale] = 0
      /\ \A m \in Methods : x.refunded[m] <= PaidIn(x, m)
      /\ SumRefunded(x) <= x.total
  BY <1>1, <1>3 DEF RowsSound, RefundsWithinPaid
<1>7. /\ row.status \in {"RETURNED", "PARTIALLY_RETURNED"}
      /\ row.qty = x.qty /\ row.change = x.change /\ row.tendered = x.tendered
      /\ row.total = x.total /\ row.card = x.card
      /\ row.refunded = [x.refunded EXCEPT ![w.method] = @ + w.amount]
  <2> HIDE DEF x, w
  <2> QED
    BY <1>3 DEF ReturnedRow, SaleRows
<1>8. /\ \A m \in Methods : row.refunded[m] <= PaidIn(row, m)
      /\ SumRefunded(row) <= row.total
  <2> HIDE DEF row, x, w
  <2>1. x.refunded \in [Methods -> Nat] /\ x.total \in Nat
        /\ x.tendered \in Nat /\ x.change \in Nat /\ x.card \in Nat
    BY <1>3 DEF SaleRows
  <2>2. \A m \in Methods : row.refunded[m]
           = IF m = w.method THEN x.refunded[m] + w.amount ELSE x.refunded[m]
    BY <1>4, <1>7, <2>1
  <2>3. \A m \in Methods : PaidIn(row, m) = PaidIn(x, m) /\ PaidIn(x, m) \in Int
    BY <1>7, <2>1 DEF PaidIn
  <2>4. \A m \in Methods : row.refunded[m] <= PaidIn(row, m)
    BY <1>3, <1>4, <1>6, <2>1, <2>2, <2>3 DEF AvailableIn
  <2>5. SumRefunded(row) = SumRefunded(x) + w.amount
    BY <1>4, <2>1, <2>2 DEF SumRefunded, Methods
  <2>6. SumRefunded(x) \in Nat
    BY <2>1 DEF SumRefunded, Methods
  <2>7. SumRefunded(row) <= row.total
    BY <1>3, <1>4, <1>7, <2>1, <2>5, <2>6 DEF Remaining
  <2> QED
    BY <2>4, <2>7
<1> HIDE DEF row
<1>9. OneHolder' /\ OneInserter'
  BY IdleStep DEF ReturnCommit
<1>10. DraftHeld'
  <2>1. \A q \in Requests : pc'[q] = "checked" =>
           q # r /\ pc[q] = "checked" /\ loc[q].sale \in Sales \ {w.sale}
    BY <1>1, <1>2, <1>3 DEF DraftHeld
  <2> QED
    BY <1>1, <1>2, <1>5, <2>1 DEF DraftHeld
<1>11. RowsHeld'
  <2>1. \A q \in Requests : Reversing(q)' =>
           q # r /\ Reversing(q) /\ loc[q].sale \in Sales \ {w.sale}
    BY <1>1, <1>2 DEF Reversing, RowsHeld, OneHolder
  <2> QED
    BY <1>1, <1>2, <1>5, <2>1 DEF RowsHeld, Reversing
<1>12. RowsSound'
  BY <1>1, <1>3, <1>5, <1>6, <1>7 DEF RowsSound
<1>13. RefundsWithinPaid'
  BY <1>1, <1>3, <1>5, <1>8 DEF RefundsWithinPaid
<1>14. ReversedOnce'
  BY <1>1, <1>3, <1>5, <1>6, <1>7 DEF ReversedOnce
<1> QED
  BY <1>9, <1>10, <1>11, <1>12, <1>13, <1>14 DEF Safe

\* A transaction that read a row under its lock and decided to reverse it.
LEMMA HoldStep ==
    ASSUME IInv, NEW r \in Requests, NEW p \in {"voiding", "returning"}, NEW l \in Work,
           pc[r] = "idle",
           pc' = [pc EXCEPT ![r] = p], loc' = [loc EXCEPT ![r] = l],
           UNCHANGED <<sale, voidPaid>>,
           l.sale \in Sales, SaleFree(l.sale),
           p = "voiding" => /\ sale[l.sale].status = "COMPLETED"
                            /\ l.shift = None <=> ~(VoidCash(sale[l.sale]) > 0),
           p = "returning" => /\ sale[l.sale].status \in {"COMPLETED", "PARTIALLY_RETURNED"}
                              /\ l.amount <= Remaining(sale[l.sale])
                              /\ l.amount <= AvailableIn(sale[l.sale], l.method)
    PROVE  Safe'
<1>1. /\ TypeOK /\ OneHolder /\ OneInserter /\ DraftHeld /\ RowsHeld /\ RowsSound
      /\ RefundsWithinPaid /\ ReversedOnce
  BY DEF IInv
<1>2. /\ pc'[r] = p /\ loc'[r] = l
      /\ \A q \in Requests \ {r} : pc'[q] = pc[q] /\ loc'[q] = loc[q]
  BY <1>1, OthersStand
<1>3. OneHolder'
  BY <1>1, <1>2 DEF OneHolder, SaleFree, Reversing
<1>4. OneInserter' /\ DraftHeld'
  BY <1>1, <1>2 DEF OneInserter, DraftHeld
<1>5. RowsHeld'
  <2> SUFFICES ASSUME NEW q \in Requests, Reversing(q)'
               PROVE  LET x == sale[loc'[q].sale]
                          w == loc'[q]
                      IN
                      /\ w.sale \in Sales
                      /\ pc'[q] = "voiding" => /\ x.status = "COMPLETED"
                                               /\ w.shift = None <=> ~(VoidCash(x) > 0)
                      /\ pc'[q] = "returning" =>
                            /\ x.status \in {"COMPLETED", "PARTIALLY_RETURNED"}
                            /\ w.amount <= Remaining(x)
                            /\ w.amount <= AvailableIn(x, w.method)
    BY DEF RowsHeld, VoidCash, Remaining, AvailableIn, PaidIn, SumRefunded
  <2>1. CASE q = r
    BY <1>2, <2>1
  <2>2. CASE q # r
    BY <1>1, <1>2, <2>2 DEF RowsHeld, Reversing
  <2> QED
    BY <2>1, <2>2
<1>6. RowsSound' /\ RefundsWithinPaid' /\ ReversedOnce'
  BY <1>1 DEF RowsSound, RefundsWithinPaid, ReversedOnce
<1> QED
  BY <1>3, <1>4, <1>5, <1>6 DEF Safe

\* A sale reads, and then checks with the business row locked.
LEMMA SaleReadStep ==
    ASSUME IInv, NEW r \in Requests, SaleResolve(r) \/ SaleCheck(r)
    PROVE  Safe'
<1>1. /\ TypeOK /\ OneHolder /\ OneInserter /\ DraftHeld /\ RowsHeld /\ RowsSound
      /\ RefundsWithinPaid /\ ReversedOnce
  BY DEF IInv
<1>2. RowsSound' /\ RefundsWithinPaid' /\ ReversedOnce'
  BY <1>1 DEF RowsSound, RefundsWithinPaid, ReversedOnce, SaleResolve, SaleCheck
<1>3. CASE SaleResolve(r)
  <2> PICK l : loc' = [loc EXCEPT ![r] = l]
    BY <1>3 DEF SaleResolve
  <2>1. /\ pc'[r] = "resolved"
        /\ \A q \in Requests \ {r} : pc'[q] = pc[q] /\ loc'[q] = loc[q]
        /\ UNCHANGED <<sale, voidPaid>>
    BY <1>1, <1>3, OthersStand DEF SaleResolve
  <2>2. OneHolder' /\ OneInserter' /\ DraftHeld'
    BY <1>1, <2>1 DEF OneHolder, OneInserter, DraftHeld, Reversing
  <2>3. RowsHeld'
    BY <1>1, <2>1 DEF RowsHeld, Reversing
  <2> QED
    BY <1>2, <2>2, <2>3 DEF Safe
<1>4. CASE SaleCheck(r)
  <2>a. PICK s \in Sales, qty \in 1 .. MaxQty, discount \in Discounts,
           currency \in Currencies, tendered \in CashAmounts, card \in CardAmounts :
        /\ sale[s].status = "NONE"
        /\ StockAllows(qty)
        /\ PaymentAccepted(UnitPrice * qty - discount, tendered, card)
        /\ loc' = [loc EXCEPT ![r] = [@ EXCEPT !.sale = s,
                      !.draft = Draft(qty, discount, currency, tendered, card)]]
    BY <1>4 DEF SaleCheck
  <2> DEFINE d == Draft(qty, discount, currency, tendered, card)
             l == [loc[r] EXCEPT !.sale = s, !.draft = d]
  <2>1. /\ d.status = "COMPLETED" /\ d.qty > 0 /\ d.change <= d.tendered
        /\ d.returnedQty = 0 /\ d.refunded = [m \in Methods |-> 0]
    BY <2>a, DraftType
  <2> HIDE DEF d
  <2>2. l.sale = s /\ l.draft = d
    BY <1>1 DEF TypeOK, Work
  <2>3. /\ pc'[r] = "checked" /\ loc'[r] = l
        /\ \A q \in Requests \ {r} : pc'[q] = pc[q] /\ loc'[q] = loc[q]
        /\ UNCHANGED <<sale, voidPaid>>
    <3>1. /\ pc' = [pc EXCEPT ![r] = "checked"] /\ loc' = [loc EXCEPT ![r] = l]
          /\ UNCHANGED <<sale, voidPaid>>
      BY <1>4, <2>a DEF SaleCheck, d
    <3>2. /\ pc'[r] = "checked" /\ loc'[r] = l
          /\ \A q \in Requests \ {r} : pc'[q] = pc[q] /\ loc'[q] = loc[q]
      BY <1>1, <3>1 DEF TypeOK
    <3> QED
      BY <3>1, <3>2
  <2> HIDE DEF l
  <2>7. \A q \in Requests : pc[q] # "checked"
    BY <1>4 DEF SaleCheck, BusinessFree
  <2>4. OneHolder' /\ OneInserter'
    BY <1>1, <2>3, <2>7 DEF OneHolder, OneInserter, Reversing
  <2>8. l.sale \in Sales /\ sale'[l.sale].status = "NONE" /\ l.draft = d
    BY <2>a, <2>2, <2>3
  <2>5. DraftHeld'
    <3> SUFFICES ASSUME NEW q \in Requests, pc'[q] = "checked"
                 PROVE  loc'[q] = l
      BY <2>1, <2>8 DEF DraftHeld
    <3> QED
      BY <2>3, <2>7
  <2>6. RowsHeld'
    BY <1>1, <2>3 DEF RowsHeld, Reversing
  <2> QED
    BY <1>2, <2>4, <2>5, <2>6 DEF Safe
<1> QED
  BY <1>3, <1>4

\* Voids and returns take the lock of the sale and decide.
LEMMA ReversalCheckStep ==
    ASSUME IInv, NEW r \in Requests, VoidCheck(r) \/ ReturnCheck(r)
    PROVE  Safe'
<1>1. TypeOK /\ RowsSound /\ RefundsWithinPaid /\ NoWork \in Work
  BY EmptyRecords DEF IInv
<1>2. CASE VoidCheck(r)
  <2> PICK s \in Sales, t \in Tokens \cup {None}, sh \in Shifts \cup {None} :
        /\ SaleFree(s)
        /\ TokenValid(t, "VOID")
        /\ ~HasReturns(sale[s])
        /\ sale[s].status = "COMPLETED"
        /\ RefundShift(sh, VoidCash(sale[s]))
        /\ loc' = [loc EXCEPT ![r] = [NoWork EXCEPT !.sale = s, !.token = t, !.shift = sh]]
    BY <1>2 DEF VoidCheck
  <2> DEFINE l == [NoWork EXCEPT !.sale = s, !.token = t, !.shift = sh]
  <2>1. l \in Work
    BY <1>1 DEF Work
  <2>2. l.sale = s /\ l.shift = sh
    BY DEF NoWork
  <2>3. sh = None <=> ~(VoidCash(sale[s]) > 0)
    BY SwitchAssumption DEF RefundShift, Open
  <2>4. /\ pc[r] = "idle" /\ pc' = [pc EXCEPT ![r] = "voiding"]
        /\ loc' = [loc EXCEPT ![r] = l] /\ UNCHANGED <<sale, voidPaid>>
    BY <1>2 DEF VoidCheck
  <2> HIDE DEF l
  <2>5. "voiding" \in {"voiding", "returning"}
    OBVIOUS
  <2> QED
    BY <2>1, <2>2, <2>3, <2>4, <2>5, HoldStep
<1>3. CASE ReturnCheck(r)
  <2> PICK s \in Sales, t \in Tokens \cup {None}, sh \in Shifts \cup {None},
           method \in Methods, restock \in BOOLEAN, n \in ReturnLines :
       \E lines \in [1 .. n -> 1 .. MaxQty] :
          LET x == sale[s]
              amount == RefundAmount(x, lines)
          IN
          /\ SaleFree(s)
          /\ x.status \in {"COMPLETED", "PARTIALLY_RETURNED"}
          /\ TokenValid(t, "RETURN")
          /\ LinesAvailable(x, lines)
          /\ amount <= AvailableIn(x, method)
          /\ RefundShift(sh, IF method = "EFECTIVO" THEN amount ELSE 0)
          /\ loc' = [loc EXCEPT ![r] =
                [NoWork EXCEPT !.sale = s, !.token = t, !.shift = sh,
                    !.units = Units(lines), !.amount = amount,
                    !.method = method, !.restock = restock,
                    !.full = FullyReturned(x, lines)]]
    BY <1>3 DEF ReturnCheck
  <2> PICK lines \in [1 .. n -> 1 .. MaxQty] :
          /\ SaleFree(s)
          /\ sale[s].status \in {"COMPLETED", "PARTIALLY_RETURNED"}
          /\ RefundAmount(sale[s], lines) <= AvailableIn(sale[s], method)
          /\ loc' = [loc EXCEPT ![r] =
                [NoWork EXCEPT !.sale = s, !.token = t, !.shift = sh,
                    !.units = Units(lines), !.amount = RefundAmount(sale[s], lines),
                    !.method = method, !.restock = restock,
                    !.full = FullyReturned(sale[s], lines)]]
    OBVIOUS
  <2> DEFINE u == Units(lines)
             a == RefundAmount(sale[s], lines)
             f == FullyReturned(sale[s], lines)
             l == [NoWork EXCEPT !.sale = s, !.token = t, !.shift = sh, !.units = u,
                       !.amount = a, !.method = method, !.restock = restock, !.full = f]
  <2>1. u \in Nat /\ a \in Nat /\ a <= Remaining(sale[s])
    <3>1. sale[s] \in SaleRows /\ sale[s].qty > 0 /\ SumRefunded(sale[s]) <= sale[s].total
      BY <1>1 DEF TypeOK, RowsSound, RefundsWithinPaid
    <3>2. n \in {1, 2}
      BY SwitchAssumption
    <3> QED
      BY <3>1, <3>2, RefundAmountNat
  <2>2. f \in BOOLEAN
    BY DEF FullyReturned
  <2>3. /\ pc[r] = "idle" /\ pc' = [pc EXCEPT ![r] = "returning"]
        /\ loc' = [loc EXCEPT ![r] = l] /\ UNCHANGED <<sale, voidPaid>>
        /\ a <= AvailableIn(sale[s], method)
    BY <1>3 DEF ReturnCheck
  <2> HIDE DEF u, a, f
  <2>4. l \in Work
    BY <1>1, <2>1, <2>2 DEF Work
  <2>5. l.sale = s /\ l.amount = a /\ l.method = method
    BY DEF NoWork
  <2> HIDE DEF l
  <2>6. "returning" \in {"voiding", "returning"}
    OBVIOUS
  <2> QED
    BY <2>1, <2>3, <2>4, <2>5, <2>6, HoldStep
<1> QED
  BY <1>2, <1>3

\* A rolled back transaction leaves the rows as they were.
LEMMA RollbackStep ==
    ASSUME IInv, NEW r \in Requests, Rollback(r)
    PROVE  Safe'
<1>1. /\ TypeOK /\ OneHolder /\ OneInserter /\ DraftHeld /\ RowsHeld /\ RowsSound
      /\ RefundsWithinPaid /\ ReversedOnce
  BY DEF IInv
<1>2. /\ pc'[r] = "idle"
      /\ \A q \in Requests \ {r} : pc'[q] = pc[q] /\ loc'[q] = loc[q]
      /\ UNCHANGED <<sale, voidPaid>>
  BY <1>1, OthersStand DEF Rollback
<1>3. OneHolder' /\ OneInserter'
  BY IdleStep DEF Rollback
<1>4. DraftHeld'
  BY <1>1, <1>2 DEF DraftHeld
<1>5. RowsHeld'
  BY <1>1, <1>2 DEF RowsHeld, Reversing
<1>6. RowsSound' /\ RefundsWithinPaid' /\ ReversedOnce'
  BY <1>1, <1>2 DEF RowsSound, RefundsWithinPaid, ReversedOnce
<1> QED
  BY <1>3, <1>4, <1>5, <1>6 DEF Safe

-----------------------------------------------------------------------------
(***************************************************************************)
(* The theorems.                                                           *)
(***************************************************************************)

\* The initial state satisfies the inductive invariant.
LEMMA InitInv ==
    ASSUME Init PROVE IInv
<1>1. TypeOK
  BY EmptyRecords, QuantityAssumption DEF Init, TypeOK
<1>2. OneHolder /\ OneInserter /\ DraftHeld /\ RowsHeld
  BY DEF Init, OneHolder, OneInserter, DraftHeld, RowsHeld, Reversing
<1>3. /\ NoSale.change <= NoSale.tendered /\ NoSale.status = "NONE"
      /\ NoSale.returnedQty = 0 /\ SumRefunded(NoSale) = 0 /\ NoSale.total = 0
      /\ \A m \in Methods : NoSale.refunded[m] <= PaidIn(NoSale, m)
  BY DEF NoSale, SumRefunded, PaidIn, Methods
<1>4. RowsSound /\ RefundsWithinPaid /\ ReversedOnce
  BY <1>3 DEF Init, RowsSound, RefundsWithinPaid, ReversedOnce
<1> QED
  BY <1>1, <1>2, <1>4 DEF IInv

\* Every step keeps it.
LEMMA NextInv ==
    ASSUME IInv, [Next]_vars PROVE IInv'
<1>1. TypeOK'
  BY TypeStep
<1>2. Safe'
  <2>1. ASSUME NEW sh \in Shifts, OpenShift(sh) \/ CloseShift(sh) PROVE Safe'
    BY <2>1, OutsideStep DEF OpenShift, CloseShift
  <2>2. ASSUME NEW t \in Tokens, NEW a \in {"VOID", "RETURN"}, IssueToken(t, a)
        PROVE  Safe'
    BY <2>2, OutsideStep DEF IssueToken
  <2>3. ASSUME NEW t \in Tokens, ExpireToken(t) PROVE Safe'
    BY <2>3, OutsideStep DEF ExpireToken
  <2>4. CASE UNCHANGED vars
    BY <2>4, OutsideStep DEF vars
  <2> QED
    BY <2>1, <2>2, <2>3, <2>4, SaleReadStep, SaleInsertStep, ReversalCheckStep,
       VoidCommitStep, ReturnCommitStep, RollbackStep DEF Next
<1> QED
  BY <1>1, <1>2 DEF IInv, Safe

\* The inductive invariant holds in every state the point of sale reaches.
THEOREM Invariance == Spec => []IInv
<1>1. Init => IInv
  BY InitInv
<1>2. IInv /\ [Next]_vars => IInv'
  BY NextInv
<1> QED
  BY <1>1, <1>2, PTL DEF Spec

\* Every row keeps the types of the schema: no refund, change or payment is
\* ever negative, whatever the prices, discounts and payments.
THEOREM TypeCorrect == Spec => []TypeOK
<1>1. IInv => TypeOK
  BY DEF IInv
<1> QED
  BY <1>1, Invariance, PTL

\* For any number of concurrent requests, no payment method gives back more
\* than it took and no sale gives back more than its total.
THEOREM RefundSafety == Spec => []RefundsWithinPaid
<1>1. IInv => RefundsWithinPaid
  BY DEF IInv
<1> QED
  BY <1>1, Invariance, PTL

\* A sale is reversed either by one void or by returns, never by both, and
\* its void pays its cash out once.
THEOREM ReversalSafety == Spec => []ReversedOnce
<1>1. IInv => ReversedOnce
  BY DEF IInv
<1> QED
  BY <1>1, Invariance, PTL

-----------------------------------------------------------------------------
(***************************************************************************)
(* PosSales implements SaleLedger: the commits of a sale, a void and a     *)
(* return are the steps of the ledger, and every other step leaves its     *)
(* state alone.                                                            *)
(***************************************************************************)

(***************************************************************************)
(* What IInv does not say: the total of a sale about to be inserted is an  *)
(* amount of the ledger, and the return that completes a sale still takes  *)
(* all that is left of it.                                                 *)
(***************************************************************************)
TotalsHeld ==
    \A r \in Requests : pc[r] = "checked" => loc[r].draft.total \in 0 .. UnitPrice * MaxQty

FullHeld ==
    \A r \in Requests : pc[r] = "returning" /\ loc[r].full =>
       loc[r].amount = Remaining(sale[loc[r].sale])

RInv == IInv /\ TotalsHeld /\ FullHeld

-----------------------------------------------------------------------------
(***************************************************************************)
(* The invariant is inductive.                                             *)
(***************************************************************************)

\* The total of a draft is not negative and at most the price of MaxQty units.
LEMMA DraftTotal ==
    ASSUME NEW qty \in 1 .. MaxQty, NEW discount \in Discounts,
           NEW currency, NEW tendered, NEW card
    PROVE  Draft(qty, discount, currency, tendered, card).total \in 0 .. UnitPrice * MaxQty
<1>1. /\ discount \in Nat /\ discount <= UnitPrice /\ UnitPrice \in Nat
      /\ qty \in Nat /\ 1 <= qty /\ qty <= MaxQty /\ MaxQty \in Nat
  BY QuantityAssumption
<1>2. UnitPrice * 1 <= UnitPrice * qty /\ UnitPrice * qty <= UnitPrice * MaxQty
      /\ UnitPrice * qty \in Nat /\ UnitPrice * MaxQty \in Nat
  <2>1. 1 * UnitPrice <= qty * UnitPrice
    BY <1>1, ProductMonotone
  <2>2. qty * UnitPrice <= MaxQty * UnitPrice
    BY <1>1, ProductMonotone
  <2> QED
    BY <1>1, <2>1, <2>2
<1>3. UnitPrice * qty - discount \in 0 .. UnitPrice * MaxQty
  BY <1>1, <1>2
<1> QED
  BY <1>3 DEF Draft

\* The transaction of r ends: the others hold what they held, on rows that did
\* not change.
LEMMA EndStep ==
    ASSUME RInv, NEW r \in Requests,
           pc' = [pc EXCEPT ![r] = "idle"], loc' = [loc EXCEPT ![r] = NoWork],
           \A q \in Requests \ {r} : pc[q] = "returning" =>
              sale'[loc[q].sale] = sale[loc[q].sale]
    PROVE  TotalsHeld' /\ FullHeld'
<1>1. TypeOK /\ TotalsHeld /\ FullHeld
  BY DEF RInv, IInv
<1>2. /\ pc'[r] = "idle"
      /\ \A q \in Requests \ {r} : pc'[q] = pc[q] /\ loc'[q] = loc[q]
  BY <1>1, OthersStand
<1>3. TotalsHeld'
  BY <1>1, <1>2 DEF TotalsHeld
<1>4. FullHeld'
  BY <1>1, <1>2 DEF FullHeld
<1> QED
  BY <1>3, <1>4

\* A transaction goes on without writing a sale.
LEMMA GoOnStep ==
    ASSUME RInv, NEW r \in Requests, NEW p, NEW l,
           pc' = [pc EXCEPT ![r] = p], loc' = [loc EXCEPT ![r] = l], sale' = sale,
           p = "checked" => l.draft.total \in 0 .. UnitPrice * MaxQty,
           p = "returning" /\ l.full => l.amount = Remaining(sale[l.sale])
    PROVE  TotalsHeld' /\ FullHeld'
<1>1. TypeOK /\ TotalsHeld /\ FullHeld
  BY DEF RInv, IInv
<1>2. /\ pc'[r] = p /\ loc'[r] = l
      /\ \A q \in Requests \ {r} : pc'[q] = pc[q] /\ loc'[q] = loc[q]
  BY <1>1, OthersStand
<1>3. TotalsHeld'
  BY <1>1, <1>2 DEF TotalsHeld
<1>4. FullHeld'
  BY <1>1, <1>2 DEF FullHeld
<1> QED
  BY <1>3, <1>4

\* No other request holds the sale that a reversal writes.
LEMMA HeldAlone ==
    ASSUME IInv, NEW r \in Requests, NEW q \in Requests \ {r}, Reversing(r), Reversing(q)
    PROVE  loc[q].sale # loc[r].sale
  BY DEF IInv, OneHolder

\* Every step of a request keeps both.
LEMMA RequestStep ==
    ASSUME RInv, NEW r \in Requests,
           \/ SaleResolve(r) \/ SaleCheck(r) \/ SaleInsert(r)
           \/ VoidCheck(r) \/ VoidCommit(r)
           \/ ReturnCheck(r) \/ ReturnCommit(r)
           \/ Rollback(r)
    PROVE  TotalsHeld' /\ FullHeld'
<1>1. IInv /\ TypeOK /\ DraftHeld /\ RowsHeld
  BY DEF RInv, IInv
<1>2. CASE SaleResolve(r)
  <2> PICK l : loc' = [loc EXCEPT ![r] = l]
    BY <1>2 DEF SaleResolve
  <2>1. pc' = [pc EXCEPT ![r] = "resolved"] /\ sale' = sale
    BY <1>2 DEF SaleResolve
  <2> QED
    BY <2>1, GoOnStep
<1>3. CASE SaleCheck(r)
  <2> PICK s \in Sales, qty \in 1 .. MaxQty, discount \in Discounts,
           currency \in Currencies, tendered \in CashAmounts, card \in CardAmounts :
        /\ sale[s].status = "NONE"
        /\ StockAllows(qty)
        /\ PaymentAccepted(UnitPrice * qty - discount, tendered, card)
        /\ loc' = [loc EXCEPT ![r] = [@ EXCEPT !.sale = s,
                      !.draft = Draft(qty, discount, currency, tendered, card)]]
    BY <1>3 DEF SaleCheck
  <2> DEFINE d == Draft(qty, discount, currency, tendered, card)
             l == [loc[r] EXCEPT !.sale = s, !.draft = d]
  <2>1. d.total \in 0 .. UnitPrice * MaxQty
    BY DraftTotal
  <2>2. /\ loc' = [loc EXCEPT ![r] = l]
        /\ pc' = [pc EXCEPT ![r] = "checked"] /\ sale' = sale
    BY <1>1, <1>3 DEF SaleCheck, TypeOK
  <2> HIDE DEF d
  <2>3. l.draft = d
    BY <1>1 DEF TypeOK, Work
  <2> HIDE DEF l
  <2> QED
    BY <2>1, <2>2, <2>3, GoOnStep
<1>4. CASE SaleInsert(r)
  <2>1. /\ pc' = [pc EXCEPT ![r] = "idle"] /\ loc' = [loc EXCEPT ![r] = NoWork]
        /\ sale[loc[r].sale].status = "NONE" /\ loc[r].sale \in Sales
        /\ \A s \in Sales \ {loc[r].sale} : sale'[s] = sale[s]
    BY <1>1, <1>4 DEF SaleInsert, DraftHeld, TypeOK
  <2>2. \A q \in Requests \ {r} :
           pc[q] = "returning" => loc[q].sale \in Sales \ {loc[r].sale}
    BY <1>1, <2>1 DEF RowsHeld, Reversing
  <2> QED
    BY <2>1, <2>2, EndStep
<1>5. CASE VoidCheck(r)
  <2> PICK l : loc' = [loc EXCEPT ![r] = l]
    BY <1>5 DEF VoidCheck
  <2>1. pc' = [pc EXCEPT ![r] = "voiding"] /\ sale' = sale
    BY <1>5 DEF VoidCheck
  <2> QED
    BY <2>1, GoOnStep
<1>6. CASE VoidCommit(r)
  <2>1. /\ pc' = [pc EXCEPT ![r] = "idle"] /\ loc' = [loc EXCEPT ![r] = NoWork]
        /\ Reversing(r)
        /\ \A s \in Sales \ {loc[r].sale} : sale'[s] = sale[s]
    BY <1>1, <1>6 DEF VoidCommit, TypeOK, Reversing
  <2>2. \A q \in Requests \ {r} :
           pc[q] = "returning" => loc[q].sale \in Sales \ {loc[r].sale}
    BY <1>1, <2>1, HeldAlone DEF RowsHeld, Reversing
  <2> QED
    BY <2>1, <2>2, EndStep
<1>7. CASE ReturnCheck(r)
  <2>a. PICK s \in Sales, t \in Tokens \cup {None}, sh \in Shifts \cup {None},
           method \in Methods, restock \in BOOLEAN, n \in ReturnLines :
       \E lines \in [1 .. n -> 1 .. MaxQty] :
          LET x == sale[s]
              amount == RefundAmount(x, lines)
          IN
          /\ SaleFree(s)
          /\ x.status \in {"COMPLETED", "PARTIALLY_RETURNED"}
          /\ TokenValid(t, "RETURN")
          /\ LinesAvailable(x, lines)
          /\ amount <= AvailableIn(x, method)
          /\ RefundShift(sh, IF method = "EFECTIVO" THEN amount ELSE 0)
          /\ loc' = [loc EXCEPT ![r] =
                [NoWork EXCEPT !.sale = s, !.token = t, !.shift = sh,
                    !.units = Units(lines), !.amount = amount,
                    !.method = method, !.restock = restock,
                    !.full = FullyReturned(x, lines)]]
    BY <1>7 DEF ReturnCheck
  <2>b. PICK lines \in [1 .. n -> 1 .. MaxQty] :
          loc' = [loc EXCEPT ![r] =
                [NoWork EXCEPT !.sale = s, !.token = t, !.shift = sh,
                    !.units = Units(lines), !.amount = RefundAmount(sale[s], lines),
                    !.method = method, !.restock = restock,
                    !.full = FullyReturned(sale[s], lines)]]
    BY <2>a
  <2> DEFINE u == Units(lines)
             a == RefundAmount(sale[s], lines)
             f == FullyReturned(sale[s], lines)
             l == [NoWork EXCEPT !.sale = s, !.token = t, !.shift = sh, !.units = u,
                       !.amount = a, !.method = method, !.restock = restock, !.full = f]
  <2>1. f => a = Remaining(sale[s])
    BY DEF RefundAmount
  <2>2. /\ pc' = [pc EXCEPT ![r] = "returning"] /\ sale' = sale
        /\ loc' = [loc EXCEPT ![r] = l]
    BY <1>7, <2>b DEF ReturnCheck
  <2> HIDE DEF u, a, f
  <2>3. l.sale = s /\ l.amount = a /\ l.full = f
    BY DEF NoWork
  <2> HIDE DEF l
  <2> QED
    BY <2>1, <2>2, <2>3, GoOnStep
<1>8. CASE ReturnCommit(r)
  <2>1. /\ pc' = [pc EXCEPT ![r] = "idle"] /\ loc' = [loc EXCEPT ![r] = NoWork]
        /\ Reversing(r)
        /\ \A s \in Sales \ {loc[r].sale} : sale'[s] = sale[s]
    BY <1>1, <1>8 DEF ReturnCommit, TypeOK, Reversing
  <2>2. \A q \in Requests \ {r} :
           pc[q] = "returning" => loc[q].sale \in Sales \ {loc[r].sale}
    BY <1>1, <2>1, HeldAlone DEF RowsHeld, Reversing
  <2> QED
    BY <2>1, <2>2, EndStep
<1>9. CASE Rollback(r)
  BY <1>9, EndStep DEF Rollback
<1> QED
  BY <1>2, <1>3, <1>4, <1>5, <1>6, <1>7, <1>8, <1>9

\* Nothing is in flight at the start.
LEMMA InitRInv ==
    ASSUME Init PROVE RInv
  BY InitInv DEF Init, RInv, TotalsHeld, FullHeld

LEMMA NextRInv ==
    ASSUME RInv, [Next]_vars PROVE RInv'
<1>1. IInv'
  BY NextInv DEF RInv
<1>2. ASSUME UNCHANGED <<sale, pc, loc>> PROVE TotalsHeld' /\ FullHeld'
  BY <1>2 DEF RInv, TotalsHeld, FullHeld
<1>3. ASSUME NEW sh \in Shifts, OpenShift(sh) \/ CloseShift(sh)
      PROVE  UNCHANGED <<sale, pc, loc>>
  BY <1>3 DEF OpenShift, CloseShift
<1>4. ASSUME NEW t \in Tokens, NEW a \in {"VOID", "RETURN"}, IssueToken(t, a)
      PROVE  UNCHANGED <<sale, pc, loc>>
  BY <1>4 DEF IssueToken
<1>5. ASSUME NEW t \in Tokens, ExpireToken(t) PROVE UNCHANGED <<sale, pc, loc>>
  BY <1>5 DEF ExpireToken
<1>6. ASSUME UNCHANGED vars PROVE UNCHANGED <<sale, pc, loc>>
  BY <1>6 DEF vars
<1>7. TotalsHeld' /\ FullHeld'
  <2>1. CASE \E r \in Requests :
                \/ SaleResolve(r) \/ SaleCheck(r) \/ SaleInsert(r)
                \/ VoidCheck(r) \/ VoidCommit(r)
                \/ ReturnCheck(r) \/ ReturnCommit(r)
                \/ Rollback(r)
    BY <2>1, RequestStep
  <2>2. CASE UNCHANGED <<sale, pc, loc>>
    BY <1>2, <2>2
  <2> QED
    BY <1>3, <1>4, <1>5, <1>6, <2>1, <2>2 DEF Next
<1> QED
  BY <1>1, <1>7 DEF RInv

\* The strengthened invariant holds in every state the point of sale reaches.
THEOREM RefinementInvariance == Spec => []RInv
<1>1. Init => RInv
  BY InitRInv
<1>2. RInv /\ [Next]_vars => RInv'
  BY NextRInv
<1> QED
  BY <1>1, <1>2, PTL DEF Spec

-----------------------------------------------------------------------------
(***************************************************************************)
(* Each commit is a step of the ledger.                                    *)
(***************************************************************************)

\* What the ledger sees of a row.
Seen(x) == <<x.status, x.total, SumRefunded(x)>>

\* A step that leaves every row as the ledger sees it is a stutter of the ledger.
LEMMA Stutter ==
    ASSUME \A s \in Sales : Seen(sale'[s]) = Seen(sale[s])
    PROVE  UNCHANGED Ledger!vars
<1>1. \A s \in Sales : /\ sale'[s].status = sale[s].status
                       /\ sale'[s].total = sale[s].total
                       /\ SumRefunded(sale'[s]) = SumRefunded(sale[s])
  BY DEF Seen
<1>2. [s \in Sales |-> sale[s].status]' = [s \in Sales |-> sale[s].status]
  BY <1>1
<1>3. [s \in Sales |-> sale[s].total]' = [s \in Sales |-> sale[s].total]
  BY <1>1
<1>4. [s \in Sales |-> SumRefunded(sale[s])]' = [s \in Sales |-> SumRefunded(sale[s])]
  BY <1>1 DEF SumRefunded
<1> QED
  BY <1>2, <1>3, <1>4 DEF Ledger!vars

Statuses == [s \in Sales |-> sale[s].status]
Totals   == [s \in Sales |-> sale[s].total]
Refunds  == [s \in Sales |-> SumRefunded(sale[s])]

\* One entry of a map is written.
Written(f, t, v) == [f EXCEPT ![t] = v]

\* Writing one row writes one entry of each map of the ledger.
LEMMA OneRow ==
    ASSUME TypeOK, NEW t \in Sales, NEW row, sale' = [sale EXCEPT ![t] = row]
    PROVE  /\ Statuses' = Written(Statuses, t, row.status)
           /\ Totals' = Written(Totals, t, row.total)
           /\ Refunds' = Written(Refunds, t, SumRefunded(row))
<1>1. \A s \in Sales : sale'[s] = IF s = t THEN row ELSE sale[s]
  BY DEF TypeOK
<1>2. Statuses' = [s \in Sales |-> IF s = t THEN row.status ELSE Statuses[s]]
  BY <1>1 DEF Statuses
<1>3. Totals' = [s \in Sales |-> IF s = t THEN row.total ELSE Totals[s]]
  BY <1>1 DEF Totals
<1>4. Refunds' = [s \in Sales |-> IF s = t THEN SumRefunded(row) ELSE Refunds[s]]
  BY <1>1 DEF Refunds, SumRefunded
<1>5. \A f, v : DOMAIN f = Sales /\ f = [s \in Sales |-> f[s]] =>
         Written(f, t, v) = [s \in Sales |-> IF s = t THEN v ELSE f[s]]
  BY DEF Written
<1>6. /\ DOMAIN Statuses = Sales /\ Statuses = [s \in Sales |-> Statuses[s]]
      /\ DOMAIN Totals = Sales /\ Totals = [s \in Sales |-> Totals[s]]
      /\ DOMAIN Refunds = Sales /\ Refunds = [s \in Sales |-> Refunds[s]]
  BY DEF Statuses, Totals, Refunds
<1> QED
  BY <1>2, <1>3, <1>4, <1>5, <1>6

\* The insert of a sale rings it up.
LEMMA InsertRings ==
    ASSUME RInv, NEW r \in Requests, SaleInsert(r)
    PROVE  Ledger!Next
<1>1. TypeOK /\ DraftHeld /\ TotalsHeld /\ RowsSound /\ pc[r] = "checked"
  BY DEF RInv, IInv, SaleInsert
<1> PICK t \in Sales : t = loc[r].sale
  BY <1>1 DEF DraftHeld
<1> PICK d \in SaleRows : d = loc[r].draft
  BY <1>1 DEF TypeOK, Work
<1> PICK row : row = [d EXCEPT !.shift = loc[r].shift, !.invoice = loc[r].invoice]
  OBVIOUS
<1>2. /\ sale' = [sale EXCEPT ![t] = row] /\ sale[t].status = "NONE"
      /\ d.status = "COMPLETED" /\ d.refunded = [m \in Methods |-> 0]
      /\ d.total \in 0 .. UnitPrice * MaxQty
  BY <1>1 DEF SaleInsert, DraftHeld, TotalsHeld
<1>3. row.status = "COMPLETED" /\ row.total = d.total /\ SumRefunded(row) = 0
  BY <1>2 DEF SaleRows, SumRefunded, Methods
<1>4. SumRefunded(sale[t]) = 0
  BY <1>1, <1>2 DEF RowsSound
<1>5. /\ Statuses' = Written(Statuses, t, "COMPLETED")
      /\ Totals' = Written(Totals, t, d.total)
      /\ Refunds' = Written(Refunds, t, 0)
  <2>1. /\ Statuses' = Written(Statuses, t, row.status)
        /\ Totals' = Written(Totals, t, row.total)
        /\ Refunds' = Written(Refunds, t, SumRefunded(row))
    BY <1>1, <1>2, OneRow
  <2> QED
    BY <1>3, <2>1
<1>6. Statuses[t] = "NONE" /\ Refunds' = Refunds
  BY <1>2, <1>4, <1>5 DEF Statuses, Refunds, Written
<1>7. Ledger!Ring(t)
  BY <1>2, <1>5, <1>6 DEF Ledger!Ring, Statuses, Totals, Refunds, Written
<1> QED
  BY <1>7 DEF Ledger!Next

\* The commit of a void voids the sale, of which nothing was refunded.
LEMMA VoidVoids ==
    ASSUME RInv, NEW r \in Requests, VoidCommit(r)
    PROVE  Ledger!Next
<1>1. TypeOK /\ RowsHeld /\ RowsSound /\ pc[r] = "voiding"
  BY DEF RInv, IInv, VoidCommit
<1> PICK t \in Sales : t = loc[r].sale
  BY <1>1 DEF RowsHeld, Reversing
<1> PICK x \in SaleRows : x = sale[t]
  BY <1>1 DEF TypeOK
<1> PICK row : row = [x EXCEPT !.status = "CANCELLED"]
  OBVIOUS
<1>2. /\ x.status = "COMPLETED" /\ SumRefunded(x) = 0
      /\ sale' = [sale EXCEPT ![t] = row]
  BY <1>1 DEF RowsHeld, RowsSound, Reversing, TypeOK, VoidCommit
<1>3. row.status = "CANCELLED" /\ row.total = x.total /\ SumRefunded(row) = SumRefunded(x)
  BY <1>2 DEF SaleRows, SumRefunded
<1>4. /\ Statuses' = Written(Statuses, t, "CANCELLED")
      /\ Totals' = Written(Totals, t, x.total)
      /\ Refunds' = Written(Refunds, t, SumRefunded(x))
  <2>1. /\ Statuses' = Written(Statuses, t, row.status)
        /\ Totals' = Written(Totals, t, row.total)
        /\ Refunds' = Written(Refunds, t, SumRefunded(row))
    BY <1>1, <1>2, OneRow
  <2> QED
    BY <1>3, <2>1
<1>5. /\ Statuses[t] = "COMPLETED" /\ Refunds[t] = 0
      /\ Totals' = Totals /\ Refunds' = Refunds
  BY <1>2, <1>4 DEF Statuses, Totals, Refunds, Written
<1>6. Ledger!Void(t)
  BY <1>4, <1>5 DEF Ledger!Void, Statuses, Totals, Refunds, Written
<1> QED
  BY <1>6 DEF Ledger!Next

\* The commit of a return refunds a part, or the rest, of what is left.
LEMMA ReturnRefunds ==
    ASSUME RInv, NEW r \in Requests, ReturnCommit(r)
    PROVE  Ledger!Next
<1>1. TypeOK /\ RowsHeld /\ FullHeld /\ pc[r] = "returning"
  BY DEF RInv, IInv, ReturnCommit
<1> PICK w \in Work : w = loc[r]
  BY <1>1 DEF TypeOK
<1> PICK t \in Sales : t = w.sale
  BY <1>1 DEF RowsHeld, Reversing
<1> PICK x \in SaleRows : x = sale[t]
  BY <1>1 DEF TypeOK
<1> PICK row : row = ReturnedRow(x, w.units, w.method, w.amount, w.full)
  OBVIOUS
<1>2. /\ x.status \in {"COMPLETED", "PARTIALLY_RETURNED"}
      /\ w.amount <= Remaining(x)
      /\ w.full => w.amount = Remaining(x)
      /\ sale' = [sale EXCEPT ![t] = row]
  BY <1>1 DEF RowsHeld, FullHeld, Reversing, TypeOK, ReturnCommit
<1>3. w.amount \in Nat /\ w.method \in Methods
  BY DEF Work
<1>4. x.refunded \in [Methods -> Nat] /\ x.total \in Nat /\ SumRefunded(x) \in Nat
  BY DEF SaleRows, SumRefunded, Methods
<1>5. /\ row.status = IF w.full THEN "RETURNED" ELSE "PARTIALLY_RETURNED"
      /\ row.total = x.total
      /\ row.refunded = [x.refunded EXCEPT ![w.method] = @ + w.amount]
  BY DEF ReturnedRow, SaleRows
<1>6. SumRefunded(row) = SumRefunded(x) + w.amount
  BY <1>3, <1>4, <1>5 DEF SumRefunded, Methods
<1>7. /\ Statuses' = Written(Statuses, t, row.status)
      /\ Totals' = Written(Totals, t, x.total)
      /\ Refunds' = Written(Refunds, t, SumRefunded(row))
  <2>1. /\ Statuses' = Written(Statuses, t, row.status)
        /\ Totals' = Written(Totals, t, row.total)
        /\ Refunds' = Written(Refunds, t, SumRefunded(row))
    BY <1>1, <1>2, OneRow
  <2> QED
    BY <1>5, <2>1
<1>8. /\ Statuses[t] \in {"COMPLETED", "PARTIALLY_RETURNED"}
      /\ Totals[t] = x.total /\ Refunds[t] = SumRefunded(x)
      /\ Totals' = Totals
  BY <1>2, <1>7 DEF Statuses, Totals, Refunds, Written
<1>9. CASE w.full
  <2>1. SumRefunded(row) = Totals[t] /\ row.status = "RETURNED"
    BY <1>2, <1>3, <1>4, <1>5, <1>6, <1>8, <1>9 DEF Remaining
  <2>2. Ledger!RefundRest(t)
    BY <1>7, <1>8, <2>1 DEF Ledger!RefundRest, Statuses, Totals, Refunds, Written
  <2> QED
    BY <2>2 DEF Ledger!Next
<1>10. CASE ~w.full
  <2>1. row.status = "PARTIALLY_RETURNED"
    BY <1>5, <1>10
  <2>2. SumRefunded(row) \in Refunds[t] .. Totals[t]
    BY <1>2, <1>3, <1>4, <1>6, <1>8 DEF Remaining
  <2>3. Ledger!RefundPart(t)
    BY <1>7, <1>8, <2>1, <2>2 DEF Ledger!RefundPart, Statuses, Totals, Refunds, Written
  <2> QED
    BY <2>3 DEF Ledger!Next
<1> QED
  BY <1>9, <1>10

\* Every step of the point of sale is a step of the ledger or a stutter.
LEMMA StepImplements ==
    ASSUME RInv, [Next]_vars PROVE [Ledger!Next]_(Ledger!vars)
<1>1. ASSUME sale' = sale PROVE UNCHANGED Ledger!vars
  BY <1>1, Stutter
<1>2. ASSUME NEW r \in Requests,
             \/ SaleResolve(r) \/ SaleCheck(r) \/ VoidCheck(r) \/ ReturnCheck(r)
             \/ Rollback(r)
      PROVE  sale' = sale
  BY <1>2 DEF SaleResolve, SaleCheck, VoidCheck, ReturnCheck, Rollback
<1>3. ASSUME NEW sh \in Shifts, OpenShift(sh) \/ CloseShift(sh) PROVE sale' = sale
  BY <1>3 DEF OpenShift, CloseShift
<1>4. ASSUME NEW t \in Tokens, NEW a \in {"VOID", "RETURN"}, IssueToken(t, a)
      PROVE  sale' = sale
  BY <1>4 DEF IssueToken
<1>5. ASSUME NEW t \in Tokens, ExpireToken(t) PROVE sale' = sale
  BY <1>5 DEF ExpireToken
<1>6. ASSUME UNCHANGED vars PROVE sale' = sale
  BY <1>6 DEF vars
<1>7. CASE \E r \in Requests : SaleInsert(r) \/ VoidCommit(r) \/ ReturnCommit(r)
  BY <1>7, InsertRings, VoidVoids, ReturnRefunds
<1>8. CASE sale' = sale
  BY <1>1, <1>8
<1> QED
  BY <1>2, <1>3, <1>4, <1>5, <1>6, <1>7, <1>8 DEF Next

\* No sale has been rung up at the start.
LEMMA InitImplements ==
    ASSUME Init PROVE Ledger!Init
  BY DEF Init, Ledger!Init, NoSale, SumRefunded, Methods

\* The point of sale implements the ledger: however requests, shifts and tokens
\* interleave, what becomes of each sale is one of the histories SaleLedger allows.
THEOREM Implementation == Spec => ImplementsLedger
<1>1. Init => Ledger!Init
  BY InitImplements
<1>2. RInv /\ [Next]_vars => [Ledger!Next]_(Ledger!vars)
  BY StepImplements
<1> QED
  BY <1>1, <1>2, RefinementInvariance, PTL DEF Spec, ImplementsLedger, Ledger!Spec

-----------------------------------------------------------------------------
(***************************************************************************)
(* The ledgers of units and of cash.                                       *)
(***************************************************************************)
Gone(sl, re)  == [s \in Sales |-> sl[s].qty - re[s]]
GivenBack(vp, sl) == [s \in Sales |-> vp[s] + sl[s].refunded["EFECTIVO"]]

\* The stock that a sale about to be inserted has checked is still there: no other
\* sale is between its check and its insert, and reversals only add.
StockPart ==
    /\ stock = InitialStock - SumFunctionOnSet(Gone(sale, restocked), Sales)
    /\ \A s \in Sales :
          /\ IF sale[s].status = "CANCELLED" THEN restocked[s] = sale[s].qty
                                             ELSE restocked[s] <= sale[s].returnedQty
          /\ sale[s].status = "NONE" => sale[s].qty = 0
    /\ AllowNegative \/ stock >= 0
    /\ \A r \in Requests : pc[r] = "checked" => StockAllows(loc[r].draft.qty)

\* A return has a shift to take cash from exactly when it gives cash back.
CashPart ==
    /\ SumFunctionOnSet(cashOut, Shifts) = SumFunctionOnSet(GivenBack(voidPaid, sale), Sales)
    /\ \A r \in Requests : pc[r] = "returning" =>
          (loc[r].shift = None <=> ~(loc[r].method = "EFECTIVO" /\ loc[r].amount > 0))

\* A return still fits the units its sale has left, and knows whether it is the last.
RowPart ==
    /\ \A s \in Sales : LET x == sale[s] IN
          /\ x.returnedQty <= x.qty
          /\ x.status = "RETURNED" <=> x.status # "NONE" /\ x.returnedQty = x.qty
          /\ x.status = "RETURNED" => SumRefunded(x) = x.total
    /\ \A r \in Requests : pc[r] = "returning" =>
          LET x == sale[loc[r].sale] IN
          /\ loc[r].units > 0 /\ loc[r].units <= x.qty - x.returnedQty
          /\ loc[r].full <=> loc[r].units = x.qty - x.returnedQty

SingleLines == ReturnLines \subseteq {1}

LedgerParts == StockPart /\ CashPart /\ (SingleLines => RowPart)

LInv == RInv /\ LedgerParts

\* The numbers of a row that the two ledgers add up.
LEMMA LedgerNumbers ==
    ASSUME TypeOK, NEW s \in Sales
    PROVE  /\ sale[s] \in SaleRows
           /\ sale[s].qty \in Nat /\ sale[s].returnedQty \in Nat /\ sale[s].total \in Nat
           /\ sale[s].refunded["EFECTIVO"] \in Nat /\ SumRefunded(sale[s]) \in Nat
           /\ restocked[s] \in Nat /\ voidPaid[s] \in Nat
<1>1. sale[s] \in SaleRows /\ restocked[s] \in Nat /\ voidPaid[s] \in Nat
  BY DEF TypeOK
<1> DEFINE x == sale[s]
<1> HIDE DEF x
<1>2. x \in SaleRows
  BY <1>1 DEF x
<1>3. x.qty \in Nat /\ x.returnedQty \in Nat /\ x.total \in Nat
  BY <1>2, QuantityAssumption DEF SaleRows
<1>4. x.refunded["EFECTIVO"] \in Nat /\ x.refunded["TARJETA"] \in Nat
  BY <1>2 DEF SaleRows, Methods
<1>5. SumRefunded(x) \in Nat
  BY <1>4 DEF SumRefunded
<1> QED
  BY <1>1, <1>3, <1>4, <1>5 DEF x

\* A commit that moves k units of one sale keeps the sum of units and stock.
LEMMA StockMoves ==
    ASSUME TypeOK, TypeOK', NEW s \in Sales, NEW k \in Int,
           stock = InitialStock - SumFunctionOnSet(Gone(sale, restocked), Sales),
           sale'[s].qty - restocked'[s] = (sale[s].qty - restocked[s]) + k,
           \A o \in Sales \ {s} : sale'[o].qty = sale[o].qty /\ restocked'[o] = restocked[o],
           stock' = stock - k
    PROVE  stock' = InitialStock - SumFunctionOnSet(Gone(sale', restocked'), Sales)
<1> DEFINE g == Gone(sale, restocked)
           h == Gone(sale', restocked')
<1>1. \A o \in Sales : g[o] = sale[o].qty - restocked[o] /\ h[o] = sale'[o].qty - restocked'[o]
  BY DEF Gone
<1>2. \A o \in Sales : sale[o].qty \in Nat /\ restocked[o] \in Nat
  BY LedgerNumbers
<1>3. \A o \in Sales : sale'[o].qty \in Nat /\ restocked'[o] \in Nat
  <2>1. \A o \in Sales : sale'[o] \in SaleRows /\ restocked'[o] \in Nat
    BY DEF TypeOK
  <2> QED
    BY <2>1, QuantityAssumption DEF SaleRows
<1>4. \A o \in Sales : g[o] \in Int /\ h[o] \in Int
  BY <1>1, <1>2, <1>3
<1>5. \A o \in Sales \ {s} : h[o] = g[o]
  BY <1>1
<1>6. h[s] = g[s] + k
  BY <1>1
<1> HIDE DEF g, h
<1>7. SumFunctionOnSet(h, Sales) = SumFunctionOnSet(g, Sales) - g[s] + h[s]
  BY <1>4, <1>5, SumChange, RowAssumption
<1>8. SumFunctionOnSet(g, Sales) \in Int
  BY <1>4, SumInt, RowAssumption
<1>9. stock = InitialStock - SumFunctionOnSet(g, Sales)
  BY DEF g
<1>10. InitialStock \in Int /\ g[s] \in Int
  BY <1>4, QuantityAssumption
<1>11. stock - k = InitialStock - (SumFunctionOnSet(g, Sales) - g[s] + (g[s] + k))
  <2> DEFINE u == SumFunctionOnSet(g, Sales)
             v == g[s]
  <2>1. u \in Int /\ v \in Int /\ stock = InitialStock - u
    BY <1>8, <1>9, <1>10
  <2> HIDE DEF u, v
  <2>2. stock - k = InitialStock - (u - v + (v + k))
    BY <1>10, <2>1
  <2> QED
    BY <2>2 DEF u, v
<1> QED
  BY <1>6, <1>7, <1>11 DEF h

\* A commit that takes k out of one drawer for one sale keeps both sums equal.
LEMMA CashMoves ==
    ASSUME TypeOK, TypeOK', NEW s \in Sales, NEW sh \in Shifts \cup {None}, NEW k \in Int,
           SumFunctionOnSet(cashOut, Shifts) = SumFunctionOnSet(GivenBack(voidPaid, sale), Sales),
           sh = None => k = 0,
           cashOut' = IF sh = None THEN cashOut ELSE [cashOut EXCEPT ![sh] = @ + k],
           voidPaid'[s] + sale'[s].refunded["EFECTIVO"]
             = (voidPaid[s] + sale[s].refunded["EFECTIVO"]) + k,
           \A o \in Sales \ {s} : /\ voidPaid'[o] = voidPaid[o]
                                  /\ sale'[o].refunded["EFECTIVO"] = sale[o].refunded["EFECTIVO"]
    PROVE  SumFunctionOnSet(cashOut', Shifts) = SumFunctionOnSet(GivenBack(voidPaid', sale'), Sales)
<1> DEFINE g == GivenBack(voidPaid, sale)
           h == GivenBack(voidPaid', sale')
<1>1. \A o \in Sales : /\ g[o] = voidPaid[o] + sale[o].refunded["EFECTIVO"]
                       /\ h[o] = voidPaid'[o] + sale'[o].refunded["EFECTIVO"]
  BY DEF GivenBack
<1>2. \A o \in Sales : voidPaid[o] \in Nat /\ sale[o].refunded["EFECTIVO"] \in Nat
  BY LedgerNumbers
<1>3. \A o \in Sales : voidPaid'[o] \in Nat /\ sale'[o].refunded["EFECTIVO"] \in Nat
  <2>1. \A o \in Sales : sale'[o] \in SaleRows /\ voidPaid'[o] \in Nat
    BY DEF TypeOK
  <2>2. \A x \in SaleRows : x.refunded["EFECTIVO"] \in Nat
    BY DEF SaleRows, Methods
  <2> QED
    BY <2>1, <2>2
<1>4. \A o \in Sales : g[o] \in Int /\ h[o] \in Int
  BY <1>1, <1>2, <1>3
<1>5. \A o \in Sales \ {s} : h[o] = g[o]
  BY <1>1
<1>6. h[s] = g[s] + k
  BY <1>1
<1> HIDE DEF g, h
<1>7. SumFunctionOnSet(h, Sales) = SumFunctionOnSet(g, Sales) - g[s] + h[s]
  BY <1>4, <1>5, SumChange, RowAssumption
<1>8. SumFunctionOnSet(h, Sales) = SumFunctionOnSet(g, Sales) + k
  <2> DEFINE u == SumFunctionOnSet(g, Sales)
             v == g[s]
  <2>1. u \in Int /\ v \in Int
    BY <1>4, SumInt, RowAssumption
  <2> HIDE DEF u, v
  <2>2. u - v + (v + k) = u + k
    BY <2>1
  <2> QED
    BY <1>6, <1>7, <2>2 DEF u, v
<1>9. SumFunctionOnSet(cashOut', Shifts) = SumFunctionOnSet(cashOut, Shifts) + k
  <2>0. /\ \A o \in Shifts : cashOut[o] \in Int /\ cashOut'[o] \in Int
        /\ SumFunctionOnSet(cashOut, Shifts) \in Int
    <3>1. \A o \in Shifts : cashOut[o] \in Int /\ cashOut'[o] \in Int
      BY DEF TypeOK
    <3> QED
      BY <3>1, SumInt, RowAssumption
  <2>1. CASE sh = None
    BY <2>0, <2>1
  <2>2. CASE sh # None
    <3>1. sh \in Shifts /\ cashOut'[sh] = cashOut[sh] + k
          /\ \A o \in Shifts \ {sh} : cashOut'[o] = cashOut[o]
      BY <2>2 DEF TypeOK
    <3>2. SumFunctionOnSet(cashOut', Shifts) = SumFunctionOnSet(cashOut, Shifts) - cashOut[sh] + cashOut'[sh]
      <4>1. \A o \in Shifts : cashOut[o] \in Int /\ cashOut'[o] \in Int
        BY <2>0
      <4>2. sh \in Shifts /\ IsFiniteSet(Shifts)
        BY <3>1, RowAssumption
      <4>3. \A o \in Shifts \ {sh} : cashOut'[o] = cashOut[o]
        BY <3>1
      <4> DEFINE b == cashOut
                 c == cashOut'
      <4>4. /\ \A o \in Shifts : b[o] \in Int /\ c[o] \in Int
            /\ \A o \in Shifts \ {sh} : c[o] = b[o]
        BY <4>1, <4>3
      <4> HIDE DEF b, c
      <4>5. SumFunctionOnSet(c, Shifts) = SumFunctionOnSet(b, Shifts) - b[sh] + c[sh]
        BY <4>2, <4>4, SumChange
      <4> QED
        BY <4>5 DEF b, c
    <3> DEFINE u == SumFunctionOnSet(cashOut, Shifts)
               v == cashOut[sh]
    <3>3. u \in Int /\ v \in Int
      BY <2>0, <3>1
    <3> HIDE DEF u, v
    <3>4. u - v + (v + k) = u + k
      BY <3>3
    <3> QED
      BY <3>1, <3>2, <3>4 DEF u, v
  <2> QED
    BY <2>1, <2>2
<1> QED
  BY <1>8, <1>9 DEF g, h

\* A step of a request that writes no row: what it now holds fits the ledgers.
LEMMA LedgerKeep ==
    ASSUME LInv, NEW r \in Requests, NEW p, NEW l,
           pc' = [pc EXCEPT ![r] = p], loc' = [loc EXCEPT ![r] = l],
           UNCHANGED <<sale, stock, restocked, cashOut, voidPaid>>,
           p = "checked" => StockAllows(l.draft.qty),
           p = "returning" =>
              /\ l.shift = None <=> ~(l.method = "EFECTIVO" /\ l.amount > 0)
              /\ SingleLines =>
                    LET x == sale[l.sale] IN
                    /\ l.units > 0 /\ l.units <= x.qty - x.returnedQty
                    /\ l.full <=> l.units = x.qty - x.returnedQty
    PROVE  LedgerParts'
<1>1. TypeOK /\ StockPart /\ CashPart /\ (SingleLines => RowPart)
  BY DEF LInv, LedgerParts, RInv, IInv
<1>2. /\ pc'[r] = p /\ loc'[r] = l
      /\ \A q \in Requests \ {r} : pc'[q] = pc[q] /\ loc'[q] = loc[q]
  BY <1>1, OthersStand
<1>3. StockPart'
  <2>1. \A q \in Requests : pc'[q] = "checked" => (AllowNegative \/ stock >= loc'[q].draft.qty)
    BY <1>1, <1>2 DEF StockPart, StockAllows
  <2> QED
    BY <1>1, <2>1 DEF StockPart, StockAllows
<1>4. CashPart'
  <2>1. \A q \in Requests : pc'[q] = "returning" =>
           (loc'[q].shift = None <=> ~(loc'[q].method = "EFECTIVO" /\ loc'[q].amount > 0))
    BY <1>1, <1>2 DEF CashPart
  <2> QED
    BY <1>1, <2>1 DEF CashPart
<1>5. ASSUME SingleLines PROVE RowPart'
  <2>1. \A q \in Requests : pc'[q] = "returning" =>
           LET x == sale[loc'[q].sale] IN
           /\ loc'[q].units > 0 /\ loc'[q].units <= x.qty - x.returnedQty
           /\ loc'[q].full <=> loc'[q].units = x.qty - x.returnedQty
    BY <1>1, <1>2, <1>5 DEF RowPart
  <2> QED
    BY <1>1, <1>5, <2>1 DEF RowPart, SumRefunded
<1> QED
  BY <1>3, <1>4, <1>5 DEF LedgerParts, SingleLines

\* Shifts and tokens come and go without touching a ledger.
LEMMA LedgerOutside ==
    ASSUME LInv, UNCHANGED <<sale, stock, restocked, cashOut, voidPaid, pc, loc>>
    PROVE  LedgerParts'
<1>1. StockPart /\ CashPart /\ (SingleLines => RowPart)
  BY DEF LInv, LedgerParts
<1>2. StockPart'
  BY <1>1 DEF StockPart, StockAllows
<1>3. CashPart'
  BY <1>1 DEF CashPart
<1>4. ASSUME SingleLines PROVE RowPart'
  BY <1>1, <1>4 DEF RowPart, SumRefunded
<1> QED
  BY <1>2, <1>3, <1>4 DEF LedgerParts, SingleLines

\* A sale that is inserted takes its units from the stock it had checked.
LEMMA LedgerInsert ==
    ASSUME LInv, TypeOK', NEW r \in Requests, SaleInsert(r)
    PROVE  LedgerParts'
<1> DEFINE w == loc[r]
           row == [w.draft EXCEPT !.shift = w.shift, !.invoice = w.invoice]
<1>1. /\ TypeOK /\ OneInserter /\ DraftHeld /\ RowsHeld /\ RowsSound
      /\ StockPart /\ CashPart /\ (SingleLines => RowPart) /\ pc[r] = "checked"
  BY DEF LInv, LedgerParts, RInv, IInv, SaleInsert
<1>2. /\ pc'[r] = "idle"
      /\ \A q \in Requests \ {r} : pc'[q] = pc[q] /\ loc'[q] = loc[q]
  <2>1. pc' = [pc EXCEPT ![r] = "idle"] /\ loc' = [loc EXCEPT ![r] = NoWork]
    BY DEF SaleInsert
  <2> QED
    BY <1>1, <2>1, OthersStand
<1>3. /\ w.sale \in Sales /\ sale[w.sale].status = "NONE"
      /\ w.draft.status = "COMPLETED" /\ w.draft.qty > 0
      /\ w.draft.returnedQty = 0 /\ w.draft.refunded = [m \in Methods |-> 0]
      /\ w.draft \in SaleRows
  BY <1>1 DEF DraftHeld, TypeOK, Work
<1>4. /\ sale'[w.sale] = row
      /\ \A s \in Sales \ {w.sale} : sale'[s] = sale[s]
      /\ UNCHANGED <<restocked, cashOut, voidPaid>> /\ stock' = stock - w.draft.qty
  BY <1>1, <1>3 DEF SaleInsert, TypeOK
<1>5. /\ row.status = "COMPLETED" /\ row.qty = w.draft.qty /\ row.qty \in Nat /\ row.qty > 0
      /\ row.returnedQty = 0 /\ row.refunded["EFECTIVO"] = 0 /\ row.refunded["TARJETA"] = 0
  BY <1>3, QuantityAssumption DEF SaleRows, Methods
<1> HIDE DEF row
<1>6. /\ sale[w.sale].qty = 0 /\ sale[w.sale].returnedQty = 0
      /\ SumRefunded(sale[w.sale]) = 0 /\ restocked[w.sale] <= 0
  BY <1>1, <1>3 DEF RowsSound, StockPart
<1>7. sale[w.sale].refunded["EFECTIVO"] = 0
  <2>1. \A x \in SaleRows : x.refunded["EFECTIVO"] \in Nat /\ x.refunded["TARJETA"] \in Nat
    BY DEF SaleRows, Methods
  <2>2. sale[w.sale] \in SaleRows
    BY <1>1, <1>3 DEF TypeOK
  <2> QED
    BY <1>6, <2>1, <2>2 DEF SumRefunded
<1>8. StockPart'
  <2>1. stock' = InitialStock - SumFunctionOnSet(Gone(sale', restocked'), Sales)
    <3>1. restocked[w.sale] \in Nat
      BY <1>1, <1>3 DEF TypeOK
    <3>2. sale'[w.sale].qty - restocked'[w.sale]
            = (sale[w.sale].qty - restocked[w.sale]) + w.draft.qty
      BY <1>4, <1>5, <1>6, <3>1
    <3>3. w.draft.qty \in Int /\ stock' = stock - w.draft.qty
      BY <1>4, <1>5
    <3>4. stock = InitialStock - SumFunctionOnSet(Gone(sale, restocked), Sales)
      BY <1>1 DEF StockPart
    <3>5. \A o \in Sales \ {w.sale} : sale'[o].qty = sale[o].qty /\ restocked'[o] = restocked[o]
      BY <1>4
    <3> QED
      BY <1>1, <1>3, <3>2, <3>3, <3>4, <3>5, StockMoves
  <2>2. \A s \in Sales :
           /\ IF sale'[s].status = "CANCELLED" THEN restocked'[s] = sale'[s].qty
                                               ELSE restocked'[s] <= sale'[s].returnedQty
           /\ sale'[s].status = "NONE" => sale'[s].qty = 0
    BY <1>1, <1>4, <1>5, <1>6 DEF StockPart
  <2>3. AllowNegative \/ stock' >= 0
    <3>1. AllowNegative \/ stock >= w.draft.qty
      BY <1>1 DEF StockPart, StockAllows
    <3>2. stock \in Int
      BY <1>1 DEF TypeOK
    <3> QED
      BY <1>4, <1>5, <3>1, <3>2
  <2>4. \A q \in Requests : pc'[q] # "checked"
    BY <1>1, <1>2 DEF OneInserter
  <2> QED
    BY <2>1, <2>2, <2>3, <2>4 DEF StockPart
<1>9. CashPart'
  <2>1. SumFunctionOnSet(cashOut', Shifts) = SumFunctionOnSet(GivenBack(voidPaid', sale'), Sales)
    <3>1. GivenBack(voidPaid', sale') = GivenBack(voidPaid, sale)
      BY <1>4, <1>5, <1>7 DEF GivenBack
    <3> QED
      BY <1>1, <1>4, <3>1 DEF CashPart
  <2>2. \A q \in Requests : pc'[q] = "returning" => q # r
    BY <1>2
  <2> QED
    BY <1>1, <1>2, <2>1, <2>2 DEF CashPart
<1>10. ASSUME SingleLines PROVE RowPart'
  <2>1. \A s \in Sales : LET x == sale'[s] IN
          /\ x.returnedQty <= x.qty
          /\ x.status = "RETURNED" <=> x.status # "NONE" /\ x.returnedQty = x.qty
          /\ x.status = "RETURNED" => SumRefunded(x) = x.total
    BY <1>1, <1>4, <1>5, <1>10 DEF RowPart
  <2>2. \A q \in Requests : pc'[q] = "returning" =>
           q # r /\ pc[q] = "returning" /\ loc[q].sale \in Sales \ {w.sale}
    BY <1>1, <1>2, <1>3 DEF RowsHeld, Reversing
  <2> QED
    BY <1>1, <1>2, <1>4, <1>10, <2>1, <2>2 DEF RowPart, SumRefunded
<1> QED
  BY <1>8, <1>9, <1>10 DEF LedgerParts, SingleLines

\* A void puts back the units of its sale, none of which any return put back,
\* and pays out of its drawer what it records against the sale.
LEMMA LedgerVoid ==
    ASSUME LInv, TypeOK', NEW r \in Requests, VoidCommit(r)
    PROVE  LedgerParts'
<1> DEFINE w == loc[r]
           x == sale[w.sale]
           row == [x EXCEPT !.status = "CANCELLED"]
<1>1. /\ IInv /\ TypeOK /\ DraftHeld /\ RowsHeld /\ RowsSound
      /\ StockPart /\ CashPart /\ (SingleLines => RowPart) /\ pc[r] = "voiding"
  BY DEF LInv, LedgerParts, RInv, IInv, VoidCommit
<1>2. /\ pc'[r] = "idle"
      /\ \A q \in Requests \ {r} : pc'[q] = pc[q] /\ loc'[q] = loc[q]
  <2>1. pc' = [pc EXCEPT ![r] = "idle"] /\ loc' = [loc EXCEPT ![r] = NoWork]
    BY DEF VoidCommit
  <2> QED
    BY <1>1, <2>1, OthersStand
<1>3. /\ w.sale \in Sales /\ x \in SaleRows /\ x.status = "COMPLETED"
      /\ w.shift = None <=> ~(VoidCash(x) > 0)
  BY <1>1 DEF RowsHeld, Reversing, TypeOK
<1>4. /\ x.qty \in Nat /\ x.returnedQty = 0 /\ SumRefunded(x) = 0 /\ x.qty > 0
      /\ restocked[w.sale] = 0 /\ stock \in Int /\ VoidCash(x) \in Int
  <2>1. x.returnedQty = 0 /\ SumRefunded(x) = 0 /\ x.qty > 0 /\ x.qty \in Nat
        /\ restocked[w.sale] \in Nat
    BY <1>1, <1>3, LedgerNumbers DEF RowsSound
  <2>2. restocked[w.sale] <= x.returnedQty
    BY <1>1, <1>3 DEF StockPart
  <2>3. stock \in Int
    BY <1>1 DEF TypeOK
  <2>4. VoidCash(x) \in Int
    BY <1>3 DEF SaleRows, VoidCash
  <2> QED
    BY <2>1, <2>2, <2>3, <2>4
<1>5. /\ sale'[w.sale] = row
      /\ \A s \in Sales \ {w.sale} : sale'[s] = sale[s] /\ voidPaid'[s] = voidPaid[s]
                                                        /\ restocked'[s] = restocked[s]
      /\ restocked'[w.sale] = 0 + x.qty /\ stock' = stock + x.qty
      /\ voidPaid'[w.sale] = IF w.shift = None THEN voidPaid[w.sale]
                                               ELSE voidPaid[w.sale] + VoidCash(x)
      /\ cashOut' = IF w.shift = None THEN cashOut ELSE [cashOut EXCEPT ![w.shift] = @ + VoidCash(x)]
  <2>1. sale'[w.sale] = row /\ \A s \in Sales \ {w.sale} : sale'[s] = sale[s]
    BY <1>1, <1>3 DEF VoidCommit, TypeOK
  <2>2. /\ \A s \in Sales \ {w.sale} : restocked'[s] = restocked[s]
        /\ restocked'[w.sale] = 0 + x.qty /\ stock' = stock + x.qty
    BY <1>1, <1>3, <1>4 DEF VoidCommit, TypeOK
  <2>3. /\ \A s \in Sales \ {w.sale} : voidPaid'[s] = voidPaid[s]
        /\ voidPaid'[w.sale] = IF w.shift = None THEN voidPaid[w.sale]
                                                 ELSE voidPaid[w.sale] + VoidCash(x)
    BY <1>1, <1>3 DEF VoidCommit, TypeOK
  <2>4. cashOut' = IF w.shift = None THEN cashOut ELSE [cashOut EXCEPT ![w.shift] = @ + VoidCash(x)]
    BY DEF VoidCommit, PayOut
  <2> QED
    BY <2>1, <2>2, <2>3, <2>4
<1>6. /\ row.status = "CANCELLED" /\ row.qty = x.qty /\ row.returnedQty = x.returnedQty
      /\ row.refunded = x.refunded
  <2> HIDE DEF x
  <2> QED
    BY <1>3 DEF SaleRows
<1> HIDE DEF row
<1>7. Reversing(r) /\ \A q \in Requests \ {r} : Reversing(q) => loc[q].sale # w.sale
  BY <1>1, HeldAlone DEF Reversing
<1>8. StockPart'
  <2>1. stock' = InitialStock - SumFunctionOnSet(Gone(sale', restocked'), Sales)
    <3> DEFINE k == 0 - x.qty
    <3>1. k \in Int /\ stock' = stock - k
          /\ sale'[w.sale].qty - restocked'[w.sale] = (sale[w.sale].qty - restocked[w.sale]) + k
      BY <1>4, <1>5, <1>6
    <3>2. stock = InitialStock - SumFunctionOnSet(Gone(sale, restocked), Sales)
      BY <1>1 DEF StockPart
    <3>3. \A o \in Sales \ {w.sale} : sale'[o].qty = sale[o].qty /\ restocked'[o] = restocked[o]
      BY <1>5
    <3> HIDE DEF k
    <3> QED
      BY <1>1, <1>3, <3>1, <3>2, <3>3, StockMoves
  <2>2. \A s \in Sales :
           /\ IF sale'[s].status = "CANCELLED" THEN restocked'[s] = sale'[s].qty
                                               ELSE restocked'[s] <= sale'[s].returnedQty
           /\ sale'[s].status = "NONE" => sale'[s].qty = 0
    BY <1>1, <1>4, <1>5, <1>6 DEF StockPart
  <2>3. stock' >= stock
    BY <1>4, <1>5
  <2>4. AllowNegative \/ stock' >= 0
    BY <1>1, <1>4, <1>5 DEF StockPart
  <2>5. \A q \in Requests : pc'[q] = "checked" => (AllowNegative \/ stock' >= loc'[q].draft.qty)
    <3>1. \A q \in Requests \ {r} : pc[q] = "checked" =>
             (AllowNegative \/ stock >= loc[q].draft.qty) /\ loc[q].draft.qty \in Nat
      BY <1>1, QuantityAssumption DEF StockPart, StockAllows, TypeOK, Work, SaleRows
    <3> QED
      BY <1>2, <1>4, <1>5, <3>1
  <2> QED
    BY <2>1, <2>2, <2>4, <2>5 DEF StockPart, StockAllows
<1>9. CashPart'
  <2>1. SumFunctionOnSet(cashOut', Shifts) = SumFunctionOnSet(GivenBack(voidPaid', sale'), Sales)
    <3> DEFINE k == IF w.shift = None THEN 0 ELSE VoidCash(x)
    <3>1. k \in Int /\ (w.shift = None => k = 0)
          /\ cashOut' = IF w.shift = None THEN cashOut ELSE [cashOut EXCEPT ![w.shift] = @ + k]
      BY <1>4, <1>5
    <3>2. voidPaid'[w.sale] + sale'[w.sale].refunded["EFECTIVO"]
            = (voidPaid[w.sale] + sale[w.sale].refunded["EFECTIVO"]) + k
      <4>1. voidPaid[w.sale] \in Nat /\ sale[w.sale].refunded["EFECTIVO"] \in Nat
        BY <1>1, <1>3, LedgerNumbers
      <4> QED
        BY <1>4, <1>5, <1>6, <4>1
    <3>3. \A o \in Sales \ {w.sale} :
             /\ voidPaid'[o] = voidPaid[o]
             /\ sale'[o].refunded["EFECTIVO"] = sale[o].refunded["EFECTIVO"]
      BY <1>5
    <3>4. w.shift \in Shifts \cup {None}
      BY <1>1 DEF TypeOK, Work
    <3>5. SumFunctionOnSet(cashOut, Shifts) = SumFunctionOnSet(GivenBack(voidPaid, sale), Sales)
      BY <1>1 DEF CashPart
    <3> HIDE DEF k
    <3> QED
      BY <1>1, <1>3, <3>1, <3>2, <3>3, <3>4, <3>5, CashMoves
  <2>2. \A q \in Requests : pc'[q] = "returning" => q # r
    BY <1>2
  <2> QED
    BY <1>1, <1>2, <2>1, <2>2 DEF CashPart
<1>10. ASSUME SingleLines PROVE RowPart'
  <2>1. \A s \in Sales : LET y == sale'[s] IN
          /\ y.returnedQty <= y.qty
          /\ y.status = "RETURNED" <=> y.status # "NONE" /\ y.returnedQty = y.qty
          /\ y.status = "RETURNED" => SumRefunded(y) = y.total
    BY <1>1, <1>4, <1>5, <1>6, <1>10 DEF RowPart
  <2>2. \A q \in Requests : pc'[q] = "returning" =>
           q # r /\ pc[q] = "returning" /\ loc[q].sale \in Sales \ {w.sale}
    BY <1>1, <1>2, <1>7 DEF RowsHeld, Reversing
  <2> QED
    BY <1>1, <1>2, <1>5, <1>10, <2>1, <2>2 DEF RowPart, SumRefunded
<1> QED
  BY <1>8, <1>9, <1>10 DEF LedgerParts, SingleLines

\* A return puts back at most the units it takes back, and pays out of its drawer
\* what it records as refunded in cash.
LEMMA LedgerReturn ==
    ASSUME LInv, TypeOK', NEW r \in Requests, ReturnCommit(r)
    PROVE  LedgerParts'
<1> DEFINE w == loc[r]
           x == sale[w.sale]
           back == IF w.restock THEN w.units ELSE 0
           row == ReturnedRow(x, w.units, w.method, w.amount, w.full)
<1>1. /\ IInv /\ TypeOK /\ DraftHeld /\ RowsHeld /\ RowsSound /\ FullHeld
      /\ StockPart /\ CashPart /\ (SingleLines => RowPart) /\ pc[r] = "returning"
  BY DEF LInv, LedgerParts, RInv, IInv, ReturnCommit
<1>2. /\ pc'[r] = "idle"
      /\ \A q \in Requests \ {r} : pc'[q] = pc[q] /\ loc'[q] = loc[q]
  <2>1. pc' = [pc EXCEPT ![r] = "idle"] /\ loc' = [loc EXCEPT ![r] = NoWork]
    BY DEF ReturnCommit
  <2> QED
    BY <1>1, <2>1, OthersStand
<1>3. /\ w.sale \in Sales /\ x \in SaleRows /\ w \in Work
      /\ x.status \in {"COMPLETED", "PARTIALLY_RETURNED"}
      /\ w.shift = None <=> ~(w.method = "EFECTIVO" /\ w.amount > 0)
  BY <1>1 DEF RowsHeld, Reversing, TypeOK, CashPart
<1>4. /\ w.amount \in Nat /\ w.method \in Methods /\ w.units \in Nat
      /\ w.shift \in Shifts \cup {None} /\ back \in Nat /\ back <= w.units
  <2> HIDE DEF w
  <2>1. /\ w.amount \in Nat /\ w.method \in Methods /\ w.units \in Nat
        /\ w.shift \in Shifts \cup {None}
    BY <1>3 DEF Work
  <2> QED
    BY <2>1
<1>5. /\ x.qty \in Nat /\ x.returnedQty \in Nat /\ x.total \in Nat /\ SumRefunded(x) \in Nat
      /\ restocked[w.sale] \in Nat /\ x.refunded["EFECTIVO"] \in Nat
      /\ restocked[w.sale] <= x.returnedQty /\ x.qty > 0 /\ stock \in Int
  <2>1. /\ x.qty \in Nat /\ x.returnedQty \in Nat /\ x.total \in Nat /\ SumRefunded(x) \in Nat
        /\ restocked[w.sale] \in Nat /\ x.refunded["EFECTIVO"] \in Nat
    BY <1>1, <1>3, LedgerNumbers
  <2>2. restocked[w.sale] <= x.returnedQty
    BY <1>1, <1>3 DEF StockPart
  <2>3. x.qty > 0 /\ stock \in Int
    BY <1>1, <1>3 DEF RowsSound, TypeOK
  <2> QED
    BY <2>1, <2>2, <2>3
<1>6. /\ sale'[w.sale] = row
      /\ \A s \in Sales \ {w.sale} : sale'[s] = sale[s] /\ restocked'[s] = restocked[s]
      /\ restocked'[w.sale] = restocked[w.sale] + back /\ stock' = stock + back
      /\ voidPaid' = voidPaid
      /\ cashOut' = IF w.shift = None THEN cashOut ELSE [cashOut EXCEPT ![w.shift] = @ + w.amount]
  <2>1. sale'[w.sale] = row /\ \A s \in Sales \ {w.sale} : sale'[s] = sale[s]
    BY <1>1, <1>3 DEF ReturnCommit, TypeOK
  <2>2. /\ \A s \in Sales \ {w.sale} : restocked'[s] = restocked[s]
        /\ restocked'[w.sale] = restocked[w.sale] + back
    BY <1>1, <1>3 DEF ReturnCommit, TypeOK
  <2>3. /\ stock' = stock + back /\ voidPaid' = voidPaid
        /\ cashOut' = IF w.shift = None THEN cashOut
                                        ELSE [cashOut EXCEPT ![w.shift] = @ + w.amount]
    BY DEF ReturnCommit, PayOut
  <2> QED
    BY <2>1, <2>2, <2>3
<1>7. /\ row.status = IF w.full THEN "RETURNED" ELSE "PARTIALLY_RETURNED"
      /\ row.qty = x.qty /\ row.returnedQty = x.returnedQty + w.units /\ row.total = x.total
      /\ row.refunded["EFECTIVO"] = x.refunded["EFECTIVO"]
                                      + IF w.method = "EFECTIVO" THEN w.amount ELSE 0
      /\ SumRefunded(row) = SumRefunded(x) + w.amount
  <2> HIDE DEF x, w, back
  <2>1. /\ row.status = IF w.full THEN "RETURNED" ELSE "PARTIALLY_RETURNED"
        /\ row.qty = x.qty /\ row.returnedQty = x.returnedQty + w.units /\ row.total = x.total
        /\ row.refunded = [x.refunded EXCEPT ![w.method] = @ + w.amount]
    BY <1>3 DEF ReturnedRow, SaleRows
  <2>2. x.refunded \in [Methods -> Nat]
    BY <1>3 DEF SaleRows
  <2> HIDE DEF row
  <2>3. \A m \in Methods : row.refunded[m]
           = IF m = w.method THEN x.refunded[m] + w.amount ELSE x.refunded[m]
    BY <1>4, <2>1, <2>2
  <2>4. x.refunded["EFECTIVO"] \in Nat /\ x.refunded["TARJETA"] \in Nat
    BY <2>2 DEF Methods
  <2>5. row.refunded["EFECTIVO"] = x.refunded["EFECTIVO"]
                                      + IF w.method = "EFECTIVO" THEN w.amount ELSE 0
    BY <2>3, <2>4 DEF Methods
  <2>6. SumRefunded(row) = SumRefunded(x) + w.amount
    BY <1>4, <2>3, <2>4 DEF SumRefunded, Methods
  <2> QED
    BY <2>1, <2>5, <2>6
<1> HIDE DEF row, back
<1>8. Reversing(r) /\ \A q \in Requests \ {r} : Reversing(q) => loc[q].sale # w.sale
  BY <1>1, HeldAlone DEF Reversing
<1>9. StockPart'
  <2>1. stock' = InitialStock - SumFunctionOnSet(Gone(sale', restocked'), Sales)
    <3> DEFINE k == 0 - back
    <3>a. k \in Int /\ stock' = stock - k
      BY <1>4, <1>5, <1>6
    <3>b. sale'[w.sale].qty = x.qty /\ restocked'[w.sale] = restocked[w.sale] + back
      BY <1>6, <1>7
    <3>c. x.qty - (restocked[w.sale] + back) = (x.qty - restocked[w.sale]) + k
      <4> HIDE DEF x, w
      <4> QED
        BY <1>4, <1>5
    <3>1. k \in Int /\ stock' = stock - k
          /\ sale'[w.sale].qty - restocked'[w.sale] = (sale[w.sale].qty - restocked[w.sale]) + k
      BY <3>a, <3>b, <3>c
    <3>2. stock = InitialStock - SumFunctionOnSet(Gone(sale, restocked), Sales)
      BY <1>1 DEF StockPart
    <3>3. \A o \in Sales \ {w.sale} : sale'[o].qty = sale[o].qty /\ restocked'[o] = restocked[o]
      BY <1>6
    <3> HIDE DEF k
    <3> QED
      BY <1>1, <1>3, <3>1, <3>2, <3>3, StockMoves
  <2>2. \A s \in Sales :
           /\ IF sale'[s].status = "CANCELLED" THEN restocked'[s] = sale'[s].qty
                                               ELSE restocked'[s] <= sale'[s].returnedQty
           /\ sale'[s].status = "NONE" => sale'[s].qty = 0
    BY <1>1, <1>4, <1>5, <1>6, <1>7 DEF StockPart
  <2>3. AllowNegative \/ stock' >= 0
    BY <1>1, <1>4, <1>5, <1>6 DEF StockPart
  <2>4. \A q \in Requests : pc'[q] = "checked" => (AllowNegative \/ stock' >= loc'[q].draft.qty)
    <3>1. \A q \in Requests \ {r} : pc[q] = "checked" =>
             (AllowNegative \/ stock >= loc[q].draft.qty) /\ loc[q].draft.qty \in Nat
      BY <1>1, QuantityAssumption DEF StockPart, StockAllows, TypeOK, Work, SaleRows
    <3> QED
      BY <1>2, <1>4, <1>5, <1>6, <3>1
  <2> QED
    BY <2>1, <2>2, <2>3, <2>4 DEF StockPart, StockAllows
<1>10. CashPart'
  <2>1. SumFunctionOnSet(cashOut', Shifts) = SumFunctionOnSet(GivenBack(voidPaid', sale'), Sales)
    <3> DEFINE k == IF w.method = "EFECTIVO" THEN w.amount ELSE 0
    <3>1. k \in Int /\ (w.shift = None => k = 0)
          /\ cashOut' = IF w.shift = None THEN cashOut ELSE [cashOut EXCEPT ![w.shift] = @ + k]
      <4>1. k \in Int /\ (w.shift = None => k = 0)
        BY <1>3, <1>4
      <4>2. w.shift # None => k = w.amount
        BY <1>3
      <4> HIDE DEF k
      <4>3. w.shift # None => cashOut' = [cashOut EXCEPT ![w.shift] = @ + k]
        BY <1>6, <4>2
      <4> QED
        BY <1>6, <4>1, <4>3
    <3>2. voidPaid'[w.sale] + sale'[w.sale].refunded["EFECTIVO"]
            = (voidPaid[w.sale] + sale[w.sale].refunded["EFECTIVO"]) + k
      <4>1. voidPaid[w.sale] \in Nat
        BY <1>1, <1>3, LedgerNumbers
      <4> QED
        BY <1>4, <1>5, <1>6, <1>7, <4>1
    <3>3. \A o \in Sales \ {w.sale} :
             /\ voidPaid'[o] = voidPaid[o]
             /\ sale'[o].refunded["EFECTIVO"] = sale[o].refunded["EFECTIVO"]
      BY <1>6
    <3>4. SumFunctionOnSet(cashOut, Shifts) = SumFunctionOnSet(GivenBack(voidPaid, sale), Sales)
      BY <1>1 DEF CashPart
    <3> HIDE DEF k
    <3> QED
      BY <1>1, <1>3, <1>4, <3>1, <3>2, <3>3, <3>4, CashMoves
  <2>2. \A q \in Requests : pc'[q] = "returning" => q # r
    BY <1>2
  <2> QED
    BY <1>1, <1>2, <2>1, <2>2 DEF CashPart
<1>11. ASSUME SingleLines PROVE RowPart'
  <2>1. /\ w.units > 0 /\ w.units <= x.qty - x.returnedQty
        /\ w.full <=> w.units = x.qty - x.returnedQty
    BY <1>1, <1>11 DEF RowPart
  <2>2. w.full => SumRefunded(row) = row.total
    <3>1. w.full => w.amount = x.total - SumRefunded(x)
      BY <1>1 DEF FullHeld, Remaining
    <3> QED
      BY <1>5, <1>7, <3>1
  <2>3. /\ row.returnedQty <= row.qty
        /\ row.status = "RETURNED" <=> row.status # "NONE" /\ row.returnedQty = row.qty
        /\ row.status = "RETURNED" => SumRefunded(row) = row.total
    BY <1>4, <1>5, <1>7, <2>1, <2>2
  <2>4. \A s \in Sales : LET y == sale'[s] IN
          /\ y.returnedQty <= y.qty
          /\ y.status = "RETURNED" <=> y.status # "NONE" /\ y.returnedQty = y.qty
          /\ y.status = "RETURNED" => SumRefunded(y) = y.total
    BY <1>1, <1>6, <1>11, <2>3 DEF RowPart
  <2>5. \A q \in Requests : pc'[q] = "returning" =>
           q # r /\ pc[q] = "returning" /\ loc[q].sale \in Sales \ {w.sale}
    BY <1>1, <1>2, <1>8 DEF RowsHeld, Reversing
  <2> QED
    BY <1>1, <1>2, <1>6, <1>11, <2>4, <2>5 DEF RowPart, SumRefunded
<1> QED
  BY <1>9, <1>10, <1>11 DEF LedgerParts, SingleLines

\* A return of one line per item fits the units left, and is full when it takes them.
LEMMA OneLine ==
    ASSUME NEW x \in SaleRows, NEW n \in ReturnLines, SingleLines,
           NEW lines \in [1 .. n -> 1 .. MaxQty], LinesAvailable(x, lines)
    PROVE  /\ Units(lines) > 0 /\ Units(lines) <= x.qty - x.returnedQty
           /\ FullyReturned(x, lines) <=> Units(lines) = x.qty - x.returnedQty
<1>1. n = 1
  BY DEF SingleLines
<1>2. lines[1] \in 1 .. MaxQty /\ LineAt(lines, 2) = 0 /\ DOMAIN lines = 1 .. 1
  BY <1>1 DEF LineAt
<1>3. Units(lines) = lines[1]
  BY <1>2, QuantityAssumption DEF Units
<1>4. lines[1] <= x.qty - x.returnedQty
  BY <1>2 DEF LinesAvailable
<1>5. x.qty \in Nat /\ x.returnedQty \in Nat
  BY QuantityAssumption DEF SaleRows
<1>6. lines[1] \in Nat /\ lines[1] > 0
  BY <1>2, QuantityAssumption
<1> QED
  BY <1>3, <1>4, <1>5, <1>6 DEF FullyReturned

\* What the checks of a request decide fits both ledgers.
LEMMA LedgerChecks ==
    ASSUME LInv, NEW r \in Requests,
           SaleResolve(r) \/ SaleCheck(r) \/ VoidCheck(r) \/ ReturnCheck(r) \/ Rollback(r)
    PROVE  LedgerParts'
<1>1. TypeOK
  BY DEF LInv, RInv, IInv
<1>2. CASE SaleResolve(r)
  <2> PICK l : loc' = [loc EXCEPT ![r] = l]
    BY <1>2 DEF SaleResolve
  <2>1. /\ pc' = [pc EXCEPT ![r] = "resolved"]
        /\ UNCHANGED <<sale, stock, restocked, cashOut, voidPaid>>
    BY <1>2 DEF SaleResolve
  <2> QED
    BY <2>1, LedgerKeep
<1>3. CASE SaleCheck(r)
  <2> PICK s \in Sales, qty \in 1 .. MaxQty, discount \in Discounts,
           currency \in Currencies, tendered \in CashAmounts, card \in CardAmounts :
        /\ sale[s].status = "NONE"
        /\ StockAllows(qty)
        /\ PaymentAccepted(UnitPrice * qty - discount, tendered, card)
        /\ loc' = [loc EXCEPT ![r] = [@ EXCEPT !.sale = s,
                      !.draft = Draft(qty, discount, currency, tendered, card)]]
    BY <1>3 DEF SaleCheck
  <2> DEFINE d == Draft(qty, discount, currency, tendered, card)
             l == [loc[r] EXCEPT !.sale = s, !.draft = d]
  <2>1. StockAllows(d.qty)
    BY DEF Draft
  <2>2. /\ loc' = [loc EXCEPT ![r] = l] /\ pc' = [pc EXCEPT ![r] = "checked"]
        /\ UNCHANGED <<sale, stock, restocked, cashOut, voidPaid>>
    BY <1>1, <1>3 DEF SaleCheck, TypeOK
  <2> HIDE DEF d
  <2>3. l.draft = d
    BY <1>1 DEF TypeOK, Work
  <2> HIDE DEF l
  <2> QED
    BY <2>1, <2>2, <2>3, LedgerKeep
<1>4. CASE VoidCheck(r)
  <2> PICK l : loc' = [loc EXCEPT ![r] = l]
    BY <1>4 DEF VoidCheck
  <2>1. /\ pc' = [pc EXCEPT ![r] = "voiding"]
        /\ UNCHANGED <<sale, stock, restocked, cashOut, voidPaid>>
    BY <1>4 DEF VoidCheck
  <2> QED
    BY <2>1, LedgerKeep
<1>5. CASE ReturnCheck(r)
  <2>a. PICK s \in Sales, t \in Tokens \cup {None}, sh \in Shifts \cup {None},
           method \in Methods, restock \in BOOLEAN, n \in ReturnLines :
       \E lines \in [1 .. n -> 1 .. MaxQty] :
          LET x == sale[s]
              amount == RefundAmount(x, lines)
          IN
          /\ SaleFree(s)
          /\ x.status \in {"COMPLETED", "PARTIALLY_RETURNED"}
          /\ TokenValid(t, "RETURN")
          /\ LinesAvailable(x, lines)
          /\ amount <= AvailableIn(x, method)
          /\ RefundShift(sh, IF method = "EFECTIVO" THEN amount ELSE 0)
          /\ loc' = [loc EXCEPT ![r] =
                [NoWork EXCEPT !.sale = s, !.token = t, !.shift = sh,
                    !.units = Units(lines), !.amount = amount,
                    !.method = method, !.restock = restock,
                    !.full = FullyReturned(x, lines)]]
    BY <1>5 DEF ReturnCheck
  <2>b. PICK lines \in [1 .. n -> 1 .. MaxQty] :
          /\ LinesAvailable(sale[s], lines)
          /\ RefundShift(sh, IF method = "EFECTIVO" THEN RefundAmount(sale[s], lines) ELSE 0)
          /\ loc' = [loc EXCEPT ![r] =
                [NoWork EXCEPT !.sale = s, !.token = t, !.shift = sh,
                    !.units = Units(lines), !.amount = RefundAmount(sale[s], lines),
                    !.method = method, !.restock = restock,
                    !.full = FullyReturned(sale[s], lines)]]
    BY <2>a
  <2> DEFINE u == Units(lines)
             a == RefundAmount(sale[s], lines)
             f == FullyReturned(sale[s], lines)
             l == [NoWork EXCEPT !.sale = s, !.token = t, !.shift = sh, !.units = u,
                       !.amount = a, !.method = method, !.restock = restock, !.full = f]
  <2>1. SingleLines => /\ u > 0 /\ u <= sale[s].qty - sale[s].returnedQty
                       /\ f <=> u = sale[s].qty - sale[s].returnedQty
    <3>1. sale[s] \in SaleRows
      BY <1>1 DEF TypeOK
    <3> QED
      BY <2>b, <3>1, OneLine
  <2>2. /\ pc' = [pc EXCEPT ![r] = "returning"] /\ loc' = [loc EXCEPT ![r] = l]
        /\ UNCHANGED <<sale, stock, restocked, cashOut, voidPaid>>
        /\ RefundShift(sh, IF method = "EFECTIVO" THEN a ELSE 0)
    BY <1>5, <2>b DEF ReturnCheck
  <2> HIDE DEF u, a, f
  <2>3. /\ l.sale = s /\ l.amount = a /\ l.full = f /\ l.units = u
        /\ l.method = method /\ l.shift = sh
    BY DEF NoWork
  <2> HIDE DEF l
  <2>4. sh = None <=> ~(method = "EFECTIVO" /\ a > 0)
    <3>1. method = "EFECTIVO" => (sh = None <=> ~(a > 0))
      BY <2>2, SwitchAssumption DEF RefundShift, Open
    <3>2. method # "EFECTIVO" => sh = None
      BY <2>2 DEF RefundShift
    <3> QED
      BY <3>1, <3>2
  <2> QED
    BY <2>1, <2>2, <2>3, <2>4, LedgerKeep
<1>6. CASE Rollback(r)
  <2>1. /\ pc' = [pc EXCEPT ![r] = "idle"] /\ loc' = [loc EXCEPT ![r] = NoWork]
        /\ UNCHANGED <<sale, stock, restocked, cashOut, voidPaid>>
    BY <1>6 DEF Rollback
  <2> QED
    BY <2>1, LedgerKeep
<1> QED
  BY <1>2, <1>3, <1>4, <1>5, <1>6

\* Nothing has been sold and no drawer has paid anything at the start.
LEMMA InitLInv ==
    ASSUME Init PROVE LInv
<1>1. RInv
  BY InitRInv
<1>2. /\ stock = InitialStock /\ sale = [s \in Sales |-> NoSale]
      /\ restocked = [s \in Sales |-> 0] /\ voidPaid = [s \in Sales |-> 0]
      /\ cashOut = [sh \in Shifts |-> 0] /\ pc = [r \in Requests |-> "idle"]
  BY DEF Init
<1>3. /\ NoSale.qty = 0 /\ NoSale.returnedQty = 0 /\ NoSale.status = "NONE"
      /\ NoSale.refunded["EFECTIVO"] = 0
  BY DEF NoSale, Methods
<1>4. StockPart
  <2>1. SumFunctionOnSet(Gone(sale, restocked), Sales) = 0
    <3>1. \A s \in Sales : Gone(sale, restocked)[s] = 0
      BY <1>2, <1>3 DEF Gone
    <3> QED
      BY <3>1, SumZero, RowAssumption
  <2> QED
    BY <1>2, <1>3, <2>1, QuantityAssumption DEF StockPart
<1>5. CashPart
  <2>1. SumFunctionOnSet(GivenBack(voidPaid, sale), Sales) = 0
    <3>1. \A s \in Sales : GivenBack(voidPaid, sale)[s] = 0
      BY <1>2, <1>3 DEF GivenBack
    <3> QED
      BY <3>1, SumZero, RowAssumption
  <2>2. SumFunctionOnSet(cashOut, Shifts) = 0
    <3>1. \A sh \in Shifts : cashOut[sh] = 0
      BY <1>2
    <3> QED
      BY <3>1, SumZero, RowAssumption
  <2> QED
    BY <1>2, <2>1, <2>2 DEF CashPart
<1>6. RowPart
  BY <1>2, <1>3 DEF RowPart
<1> QED
  BY <1>1, <1>4, <1>5, <1>6 DEF LInv, LedgerParts

LEMMA NextLInv ==
    ASSUME LInv, [Next]_vars PROVE LInv'
<1>1. RInv'
  BY NextRInv DEF LInv
<1>2. TypeOK'
  BY <1>1 DEF RInv, IInv
<1>3. ASSUME NEW sh \in Shifts, OpenShift(sh) \/ CloseShift(sh) PROVE LedgerParts'
  BY <1>3, LedgerOutside DEF OpenShift, CloseShift
<1>4. ASSUME NEW t \in Tokens, NEW a \in {"VOID", "RETURN"}, IssueToken(t, a)
      PROVE  LedgerParts'
  BY <1>4, LedgerOutside DEF IssueToken
<1>5. ASSUME NEW t \in Tokens, ExpireToken(t) PROVE LedgerParts'
  BY <1>5, LedgerOutside DEF ExpireToken
<1>6. ASSUME UNCHANGED vars PROVE LedgerParts'
  BY <1>6, LedgerOutside DEF vars
<1>7. ASSUME NEW r \in Requests,
             \/ SaleResolve(r) \/ SaleCheck(r) \/ SaleInsert(r)
             \/ VoidCheck(r) \/ VoidCommit(r)
             \/ ReturnCheck(r) \/ ReturnCommit(r)
             \/ Rollback(r)
      PROVE  LedgerParts'
  BY <1>2, <1>7, LedgerChecks, LedgerInsert, LedgerVoid, LedgerReturn
<1>8. LedgerParts'
  <2>1. CASE \E r \in Requests :
                \/ SaleResolve(r) \/ SaleCheck(r) \/ SaleInsert(r)
                \/ VoidCheck(r) \/ VoidCommit(r)
                \/ ReturnCheck(r) \/ ReturnCommit(r)
                \/ Rollback(r)
    BY <1>7, <2>1
  <2> QED
    BY <1>3, <1>4, <1>5, <1>6, <2>1 DEF Next
<1> QED
  BY <1>1, <1>8 DEF LInv

\* Both ledgers hold in every state the point of sale reaches.
THEOREM LedgerInvariance == Spec => []LInv
<1>1. Init => LInv
  BY InitLInv
<1>2. LInv /\ [Next]_vars => LInv'
  BY NextLInv
<1> QED
  BY <1>1, <1>2, PTL DEF Spec

\* However sales, voids and returns interleave, the stock is the opening stock
\* less what was sold plus what was put back, no unit is put back twice, and where
\* the policy forbids it the stock is never negative.
THEOREM StockSafety == Spec => []StockLedger
<1>1. LInv => StockLedger
  <2> SUFFICES ASSUME LInv PROVE StockLedger
    OBVIOUS
  <2>1. StockPart
    BY DEF LInv, LedgerParts
  <2>2. SumFunction([s \in Sales |-> sale[s].qty - restocked[s]])
          = SumFunctionOnSet(Gone(sale, restocked), Sales)
    BY DEF SumFunction, Gone
  <2> QED
    BY <2>1, <2>2 DEF StockPart, StockLedger
<1> QED
  BY <1>1, LedgerInvariance, PTL

\* The cash that has left all the drawers is the cash that voids and returns gave
\* back, whatever the lines of the returns.
DrawersMatch ==
    SumFunction(cashOut) =
    SumFunction([s \in Sales |-> voidPaid[s] + sale[s].refunded["EFECTIVO"]])

THEOREM DrawerSafety == Spec => []DrawersMatch
<1>1. LInv => DrawersMatch
  <2> SUFFICES ASSUME LInv PROVE DrawersMatch
    OBVIOUS
  <2>1. CashPart
    BY DEF LInv, LedgerParts
  <2>2. SumFunction([s \in Sales |-> voidPaid[s] + sale[s].refunded["EFECTIVO"]])
          = SumFunctionOnSet(GivenBack(voidPaid, sale), Sales)
    BY DEF SumFunction, GivenBack
  <2>3. SumFunction(cashOut) = SumFunctionOnSet(cashOut, Shifts)
    <3>1. DOMAIN cashOut = Shifts
      BY DEF LInv, RInv, IInv, TypeOK
    <3> QED
      BY <3>1 DEF SumFunction
  <2> QED
    BY <2>1, <2>2, <2>3 DEF CashPart, DrawersMatch
<1> QED
  BY <1>1, LedgerInvariance, PTL

\* Where a return names each sale item once, the drawers match, and a sale counts as
\* returned exactly when every unit came back, with no cent still owed.
THEOREM CashSafety ==
    ASSUME ReturnLines \subseteq {1}
    PROVE  Spec => []CashLedger
<1>1. LInv /\ DrawersMatch => CashLedger
  BY DEF LInv, LedgerParts, RowPart, SingleLines, DrawersMatch, CashLedger
<1> QED
  BY <1>1, LedgerInvariance, DrawerSafety, PTL
=============================================================================
