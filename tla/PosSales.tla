------------------------------ MODULE PosSales ------------------------------
(***************************************************************************)
(* The counter sale of the point of sale: SalesService.create, voidSale    *)
(* and createReturn of src/src/modules/pos/sales/sales.service.ts, the     *)
(* approval tokens they consume and the cash shifts they write to.         *)
(*                                                                         *)
(* Every handler is one PostgreSQL transaction at READ COMMITTED.  A       *)
(* transaction is split where it reads something that no lock of its own   *)
(* protects: the register and the invoice counter before the business row  *)
(* is locked, the stock before it is decremented, the approval token       *)
(* before it is marked used, the open shift before its cash movement.      *)
(* What it read waits in loc; what it writes appears when it commits.      *)
(*                                                                         *)
(* Restrictions on the inputs, all of them named: one line per sale        *)
(* of a product that is not a recipe and not tracked by batches, no credit *)
(* account, price UnitPrice, a manual discount from Discounts that its     *)
(* seller may grant unaided, no tax, one payment of each method.           *)
(***************************************************************************)
EXTENDS Integers, FiniteSets, Functions

CONSTANTS
    Requests,       \* HTTP requests that may be in flight together
    Sales,          \* sale rows
    Shifts,         \* cash register shifts
    Tokens,         \* approval tokens
    None,           \* no sale, no shift, or a request made without a token
    MaxQty,         \* units a sale line may have
    UnitPrice,      \* price of a unit
    Discounts,      \* manual discounts of a line
    CashAmounts,    \* cash a customer may tender, 0 for none
    CardAmounts,    \* card payments of a sale, 0 for none
    Currencies,     \* currencies cash is paid in
    ReturnLines,    \* lines of a return that name the same sale item: {1} or {1, 2}
    InitialStock,   \* stock of the product at the start
    AllowNegative   \* policies.allowNegativeStock

ASSUME QuantityAssumption ==
    /\ MaxQty \in Nat /\ UnitPrice \in Nat /\ InitialStock \in Nat
    /\ CashAmounts \subseteq Nat /\ CardAmounts \subseteq Nat
    /\ Discounts \subseteq 0 .. UnitPrice
ASSUME SwitchAssumption ==
    /\ AllowNegative \in BOOLEAN
    /\ Currencies \subseteq {"NIO", "USD"}
    /\ ReturnLines \subseteq {1, 2}
    /\ None \notin Sales \cup Shifts \cup Tokens
ASSUME RowAssumption == IsFiniteSet(Sales) /\ IsFiniteSet(Shifts)

VARIABLES
    shift,      \* status of each CashRegister row
    sale,       \* the Sale row with its line, payments and returns
    stock,      \* Product.stock
    restocked,  \* units put back by the DEVOLUCION movements of each sale
    cashOut,    \* SALIDA movements of each shift, added up
    voidPaid,   \* SALIDA movement of the void of each sale
    token,      \* PosApprovalToken rows
    uses,       \* transactions committed on the strength of each token
    counter,    \* Business.invoiceCounter
    pc,         \* where the transaction of each request stands
    loc         \* what it has read and decided so far

vars == <<shift, sale, stock, restocked, cashOut, voidPaid, token, uses,
          counter, pc, loc>>

Methods == {"EFECTIVO", "TARJETA"}
Open    == {sh \in Shifts : shift[sh] = "OPEN"}

NoSale == [status |-> "NONE", shift |-> None,
           invoice |-> 0, qty |-> 0, discount |-> 0, total |-> 0,
           currency |-> "NIO", tendered |-> 0, change |-> 0, amountBase |-> 0,
           card |-> 0, returnedQty |-> 0, refunded |-> [m \in Methods |-> 0]]

NoWork == [sale |-> None, shift |-> None,
           invoice |-> 0, draft |-> NoSale, units |-> 0, amount |-> 0,
           method |-> "EFECTIVO", restock |-> FALSE, full |-> FALSE,
           token |-> None]

Init == /\ shift = [sh \in Shifts |-> "NONE"]
        /\ sale = [s \in Sales |-> NoSale]
        /\ stock = InitialStock
        /\ restocked = [s \in Sales |-> 0]
        /\ cashOut = [sh \in Shifts |-> 0]
        /\ voidPaid = [s \in Sales |-> 0]
        /\ token = [t \in Tokens |-> [state |-> "NONE", action |-> "VOID"]]
        /\ uses = [t \in Tokens |-> 0]
        /\ counter = 1
        /\ pc = [r \in Requests |-> "idle"]
        /\ loc = [r \in Requests |-> NoWork]

(***************************************************************************)
(* Shifts.  close() reads the register and ends with a compare-and-set of  *)
(* status OPEN to CLOSED; the count itself is not modelled here.           *)
(***************************************************************************)
OpenShift(sh) ==
    /\ shift[sh] = "NONE"
    /\ shift' = [shift EXCEPT ![sh] = "OPEN"]
    /\ UNCHANGED <<sale, stock, restocked, cashOut, voidPaid, token, uses,
                   counter, pc, loc>>

CloseShift(sh) ==
    /\ shift[sh] = "OPEN"
    /\ shift' = [shift EXCEPT ![sh] = "CLOSED"]
    /\ UNCHANGED <<sale, stock, restocked, cashOut, voidPaid, token, uses,
                   counter, pc, loc>>

(***************************************************************************)
(* Approval tokens.                                                        *)
(***************************************************************************)
IssueToken(t, action) ==
    /\ token[t].state = "NONE"
    /\ token' = [token EXCEPT ![t] = [state |-> "FRESH", action |-> action]]
    /\ UNCHANGED <<shift, sale, stock, restocked, cashOut, voidPaid, uses,
                   counter, pc, loc>>

\* Five minutes go by.
ExpireToken(t) ==
    /\ token[t].state = "FRESH"
    /\ token' = [token EXCEPT ![t].state = "EXPIRED"]
    /\ UNCHANGED <<shift, sale, stock, restocked, cashOut, voidPaid, uses,
                   counter, pc, loc>>

\* The checks of consumeToken, on the row as it is read.
TokenValid(t, action) ==
    t # None => token[t] = [state |-> "FRESH", action |-> action]

\* Its update writes isUsed without looking at the row again.
ConsumeToken(t) ==
    IF t = None
      THEN UNCHANGED <<token, uses>>
      ELSE /\ token' = [token EXCEPT ![t].state = "USED"]
           /\ uses' = [uses EXCEPT ![t] = @ + 1]


(***************************************************************************)
(* Selling.                                                                *)
(***************************************************************************)

\* create() reads the open register and the invoice counter, unlocked.
SaleResolve(r) ==
    /\ pc[r] = "idle"
    /\ \E sh \in Open :
          loc' = [loc EXCEPT ![r] = [NoWork EXCEPT !.shift = sh, !.invoice = counter]]
    /\ pc' = [pc EXCEPT ![r] = "resolved"]
    /\ UNCHANGED <<shift, sale, stock, restocked, cashOut, voidPaid, token,
                   uses, counter>>

\* The update of the business row makes every other sale of the business wait.
BusinessFree == \A q \in Requests : pc[q] # "checked"

\* Change comes out of the cash payment, and never more than was tendered.
ChangeDue(total, tendered, card) ==
    LET over == tendered + card - total
    IN  IF over <= tendered THEN over ELSE tendered

\* The sum of the payments covers the total; change needs a cash payment.
PaymentAccepted(total, tendered, card) ==
    /\ tendered + card >= total
    /\ tendered + card > total => tendered > 0

Draft(qty, discount, currency, tendered, card) ==
    LET total  == UnitPrice * qty - discount
        change == ChangeDue(total, tendered, card)
    IN  [status |-> "COMPLETED", shift |-> None, invoice |-> 0, qty |-> qty,
         discount |-> discount, total |-> total, currency |-> currency,
         tendered |-> tendered, change |-> change,
         amountBase |-> tendered - change, card |-> card, returnedQty |-> 0,
         refunded |-> [m \in Methods |-> 0]]

StockAllows(qty) == AllowNegative \/ stock >= qty

\* With the business row locked: stock, total and payments are checked.
SaleCheck(r) ==
    /\ pc[r] = "resolved"
    /\ BusinessFree
    /\ \E s \in Sales, qty \in 1 .. MaxQty, discount \in Discounts,
          currency \in Currencies, tendered \in CashAmounts, card \in CardAmounts :
          /\ sale[s].status = "NONE"
          /\ StockAllows(qty)
          /\ PaymentAccepted(UnitPrice * qty - discount, tendered, card)
          /\ loc' = [loc EXCEPT ![r] =
                [@ EXCEPT !.sale = s,
                          !.draft = Draft(qty, discount, currency, tendered, card)]]
    /\ pc' = [pc EXCEPT ![r] = "checked"]
    /\ UNCHANGED <<shift, sale, stock, restocked, cashOut, voidPaid, token,
                   uses, counter>>

\* The sale, its payments and its VENTA movement are written, and committed.
SaleInsert(r) ==
    LET w == loc[r] IN
    /\ pc[r] = "checked"
    /\ sale' = [sale EXCEPT ![w.sale] =
                   [w.draft EXCEPT !.shift = w.shift, !.invoice = w.invoice]]
    /\ stock' = stock - w.draft.qty
    /\ counter' = counter + 1
    /\ pc' = [pc EXCEPT ![r] = "idle"]
    /\ loc' = [loc EXCEPT ![r] = NoWork]
    /\ UNCHANGED <<shift, restocked, cashOut, voidPaid, token, uses>>

(***************************************************************************)
(* Voiding and returning.  Both lock the row of the sale first.            *)
(***************************************************************************)
Reversing(r) == pc[r] \in {"voiding", "returning"}

\* Mutant: the row of the sale is read without FOR UPDATE.
UnlockedSale(s) == TRUE

SaleFree(s) == \A q \in Requests : ~(Reversing(q) /\ loc[q].sale = s)

SumRefunded(x) == x.refunded["EFECTIVO"] + x.refunded["TARJETA"]

HasReturns(x) == x.returnedQty > 0

\* netCashPaid of voidSale: a payment in dollars starts from amountBase.
VoidCash(x) == (IF x.currency = "USD" THEN x.amountBase ELSE x.tendered) - x.change

\* The open shift of the device, of the executor or of the approver, where
\* cash has to come out of one; without it the transaction rolls back.
RefundShift(sh, cash) == IF cash > 0 THEN sh \in Open ELSE sh = None

VoidCheck(r) ==
    /\ pc[r] = "idle"
    /\ \E s \in Sales, t \in Tokens \cup {None}, sh \in Shifts \cup {None} :
          /\ SaleFree(s)
          /\ TokenValid(t, "VOID")
          /\ ~HasReturns(sale[s])
          /\ sale[s].status = "COMPLETED"
          /\ RefundShift(sh, VoidCash(sale[s]))
          /\ loc' = [loc EXCEPT ![r] =
                [NoWork EXCEPT !.sale = s, !.token = t, !.shift = sh]]
    /\ pc' = [pc EXCEPT ![r] = "voiding"]
    /\ UNCHANGED <<shift, sale, stock, restocked, cashOut, voidPaid, token,
                   uses, counter>>

\* Mutant: the movement overwrites the one before it.
PayOutAnew(sh, amount) ==
    cashOut' = IF sh = None THEN cashOut ELSE [cashOut EXCEPT ![sh] = amount]

\* The SALIDA movement of a refund in cash.
PayOut(sh, amount) ==
    cashOut' = IF sh = None THEN cashOut ELSE [cashOut EXCEPT ![sh] = @ + amount]

VoidCommit(r) ==
    LET w == loc[r]
        x == sale[w.sale]
    IN
    /\ pc[r] = "voiding"
    /\ stock' = stock + x.qty
    /\ restocked' = [restocked EXCEPT ![w.sale] = @ + x.qty]
    /\ PayOut(w.shift, VoidCash(x))
    /\ voidPaid' = [voidPaid EXCEPT ![w.sale] = IF w.shift = None THEN @ ELSE @ + VoidCash(x)]
    /\ sale' = [sale EXCEPT ![w.sale].status = "CANCELLED"]
    /\ ConsumeToken(w.token)
    /\ pc' = [pc EXCEPT ![r] = "idle"]
    /\ loc' = [loc EXCEPT ![r] = NoWork]
    /\ UNCHANGED <<shift, counter>>

\* Decimal.toDecimalPlaces rounds half up; n and d are naturals, d > 0.
RoundDiv(n, d) == (2 * n + d) \div (2 * d)

\* Price of k units less their share of the line's manual discount.
LineRefund(x, k) == UnitPrice * k - RoundDiv(x.discount * k, x.qty)

Remaining(x) == x.total - SumRefunded(x)

\* Every line of the request is checked against the same returnedQty.
LinesAvailable(x, lines) ==
    \A i \in DOMAIN lines : lines[i] <= x.qty - x.returnedQty

\* dto.items.find stops at the first line that names the item.
FullyReturned(x, lines) == x.returnedQty + lines[1] >= x.qty

LineAt(lines, i) == IF i \in DOMAIN lines THEN lines[i] ELSE 0

Units(lines) == lines[1] + LineAt(lines, 2)

LinesRefund(x, lines) == LineRefund(x, lines[1]) + LineRefund(x, LineAt(lines, 2))

\* The last return takes what is left of the total, to the cent; any other
\* is capped by it.
RefundAmount(x, lines) ==
    IF FullyReturned(x, lines) \/ LinesRefund(x, lines) > Remaining(x)
      THEN Remaining(x)
      ELSE LinesRefund(x, lines)

PaidIn(x, method) == IF method = "EFECTIVO" THEN x.tendered - x.change ELSE x.card

\* Mutant: earlier refunds in the method are forgotten.
EverPaidIn(x, method) == PaidIn(x, method)

\* availableForMethod of createReturn.
AvailableIn(x, method) == PaidIn(x, method) - x.refunded[method]

ReturnCheck(r) ==
    /\ pc[r] = "idle"
    /\ \E s \in Sales, t \in Tokens \cup {None}, sh \in Shifts \cup {None},
          method \in Methods, restock \in BOOLEAN, n \in ReturnLines :
       \E lines \in [1 .. n -> 1 .. MaxQty] :
          LET x == sale[s]
              amount == RefundAmount(x, lines)
          IN
          /\ SaleFree(s)
          /\ x.status \in {"COMPLETED", "PARTIALLY_RETURNED"}
          /\ TokenValid(t, "RETURN")
          /\ LinesAvailable(x, lines)
          /\ amount <= AvailableIn(x, method)
          /\ RefundShift(sh, IF method = "EFECTIVO" THEN amount ELSE 0)
          /\ loc' = [loc EXCEPT ![r] =
                [NoWork EXCEPT !.sale = s, !.token = t, !.shift = sh,
                    !.units = Units(lines), !.amount = amount,
                    !.method = method, !.restock = restock,
                    !.full = FullyReturned(x, lines)]]
    /\ pc' = [pc EXCEPT ![r] = "returning"]
    /\ UNCHANGED <<shift, sale, stock, restocked, cashOut, voidPaid, token,
                   uses, counter>>

ReturnedRow(x, units, method, amount, full) ==
    [x EXCEPT !.returnedQty = @ + units,
              !.refunded[method] = @ + amount,
              !.status = IF full THEN "RETURNED" ELSE "PARTIALLY_RETURNED"]

\* Units that are not restocked leave an AJUSTE movement of quantity 0.
ReturnCommit(r) ==
    LET w == loc[r]
        back == IF w.restock THEN w.units ELSE 0
    IN
    /\ pc[r] = "returning"
    /\ stock' = stock + back
    /\ restocked' = [restocked EXCEPT ![w.sale] = @ + back]
    /\ PayOut(w.shift, w.amount)
    /\ sale' = [sale EXCEPT ![w.sale] =
                   ReturnedRow(@, w.units, w.method, w.amount, w.full)]
    /\ ConsumeToken(w.token)
    /\ pc' = [pc EXCEPT ![r] = "idle"]
    /\ loc' = [loc EXCEPT ![r] = NoWork]
    /\ UNCHANGED <<shift, voidPaid, counter>>

\* A transaction times out, or the process dies: PostgreSQL rolls it back.
Rollback(r) ==
    /\ pc[r] # "idle"
    /\ pc' = [pc EXCEPT ![r] = "idle"]
    /\ loc' = [loc EXCEPT ![r] = NoWork]
    /\ UNCHANGED <<shift, sale, stock, restocked, cashOut, voidPaid, token,
                   uses, counter>>

Next ==
    \/ \E sh \in Shifts : OpenShift(sh) \/ CloseShift(sh)
    \/ \E t \in Tokens : \E a \in {"VOID", "RETURN"} : IssueToken(t, a)
    \/ \E t \in Tokens : ExpireToken(t)
    \/ \E r \in Requests :
          \/ SaleResolve(r) \/ SaleCheck(r) \/ SaleInsert(r)
          \/ VoidCheck(r) \/ VoidCommit(r)
          \/ ReturnCheck(r) \/ ReturnCommit(r)
          \/ Rollback(r)

Spec == Init /\ [][Next]_vars

-----------------------------------------------------------------------------
(***************************************************************************)
(* Properties.                                                             *)
(***************************************************************************)
SaleRows ==
    [status : {"NONE", "COMPLETED", "CANCELLED", "PARTIALLY_RETURNED", "RETURNED"},
     shift : Shifts \cup {None}, invoice : Nat, qty : 0 .. MaxQty,
     discount : 0 .. UnitPrice, total : Nat, currency : {"NIO", "USD"},
     tendered : Nat, change : Nat, amountBase : Nat, card : Nat,
     returnedQty : Nat, refunded : [Methods -> Nat]]

Work == [sale : Sales \cup {None}, shift : Shifts \cup {None}, invoice : Nat,
         draft : SaleRows, units : Nat, amount : Nat, method : Methods,
         restock : BOOLEAN, full : BOOLEAN, token : Tokens \cup {None}]

\* The variables hold values of the types the Prisma schema gives them.
TypeOK ==
    /\ shift \in [Shifts -> {"NONE", "OPEN", "CLOSED"}]
    /\ sale \in [Sales -> SaleRows]
    /\ stock \in Int /\ restocked \in [Sales -> Nat] /\ counter \in Nat
    /\ cashOut \in [Shifts -> Nat] /\ voidPaid \in [Sales -> Nat]
    /\ token \in [Tokens -> [state : {"NONE", "FRESH", "USED", "EXPIRED"},
                             action : {"VOID", "RETURN"}]]
    /\ uses \in [Tokens -> Nat]
    /\ pc \in [Requests -> {"idle", "resolved", "checked", "voiding", "returning"}]
    /\ loc \in [Requests -> Work]

\* However returns of a sale interleave, with each other and with its void,
\* no method gives back more than it took and the sale as a whole gives back
\* no more than its total (the limits of createReturn under the row lock).
RefundsWithinPaid ==
    \A s \in Sales :
       /\ \A m \in Methods : sale[s].refunded[m] <= PaidIn(sale[s], m)
       /\ SumRefunded(sale[s]) <= sale[s].total

\* A sale is reversed along one road only: a voided sale has no return, a
\* sale with a return has no cash paid out by a void, and the cash of a void
\* is paid out once (SALE_ALREADY_VOIDED, SALE_HAS_RETURNS).
ReversedOnce ==
    \A s \in Sales : LET x == sale[s] IN
       /\ x.status = "CANCELLED" => x.returnedQty = 0 /\ SumRefunded(x) = 0
       /\ voidPaid[s] = IF x.status = "CANCELLED" /\ VoidCash(x) > 0
                          THEN VoidCash(x) ELSE 0

\* Product.stock is the opening stock less what was sold plus what was put
\* back, whatever the order in which transactions wrote it (increment and
\* decrement, never a value computed from an earlier read); and no unit is put
\* back twice: a void restores the units of the sale, returns at most theirs.
\* Where the policy forbids it, concurrent sales never drive the stock below
\* zero: each checks it holding the business row (INSUFFICIENT_STOCK).
StockLedger ==
    /\ stock = InitialStock - SumFunction([s \in Sales |-> sale[s].qty - restocked[s]])
    /\ \A s \in Sales :
          IF sale[s].status = "CANCELLED" THEN restocked[s] = sale[s].qty
                                          ELSE restocked[s] <= sale[s].returnedQty
    /\ AllowNegative \/ stock >= 0

\* Cash that left the drawers is the cash refunded by returns and voids: no
\* reversal is without its SALIDA movement, and none has two.  The status
\* RETURNED says exactly that every unit came back, and then the rounding of the
\* discount shares has left no cent owed to the customer.
CashLedger ==
    /\ SumFunction(cashOut) =
       SumFunction([s \in Sales |-> voidPaid[s] + sale[s].refunded["EFECTIVO"]])
    /\ \A s \in Sales : LET x == sale[s] IN
          /\ x.returnedQty <= x.qty
          /\ x.status = "RETURNED" <=> x.status # "NONE" /\ x.returnedQty = x.qty
          /\ x.status = "RETURNED" => SumRefunded(x) = x.total

\* The point of sale implements the abstract ledger of SaleLedger.
Ledger == INSTANCE SaleLedger WITH
             Amounts  <- 0 .. UnitPrice * MaxQty,
             status   <- [s \in Sales |-> sale[s].status],
             total    <- [s \in Sales |-> sale[s].total],
             refunded <- [s \in Sales |-> SumRefunded(sale[s])]

ImplementsLedger == Ledger!Spec
=============================================================================
