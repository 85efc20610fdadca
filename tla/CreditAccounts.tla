--------------------------- MODULE CreditAccounts ---------------------------
(***************************************************************************)
(* Credit accounts (cuentas por cobrar) of the point of sale: abonos and   *)
(* statements (cortes) of src/src/modules/pos/credit/credit.service.ts,    *)
(* and the returns and voids of credit sales in                            *)
(* src/src/modules/pos/sales/sales.service.ts that write the same rows.    *)
(*                                                                         *)
(* Each account belongs to one sale, so a is both.  A request is one       *)
(* READ COMMITTED transaction: what it reads without a lock is kept in job *)
(* and what it writes appears in its Commit action.  A conditional UPDATE  *)
(* is evaluated in Commit, on the row as it then is: the lock it takes is  *)
(* held until the transaction ends.                                        *)
(*                                                                         *)
(* Money is counted in the unit amounts are rounded to.  Not modelled:     *)
(* approval tokens, stock and shifts (PosSales), the credit limit, returns *)
(* of a credit sale that are refunded in cash out of its prima.            *)
(***************************************************************************)
EXTENDS Integers, FiniteSets, FiniteSetsExt, Functions

CONSTANTS
    Accounts,     \* credit sales, each with its account
    Cuts,         \* statements (cortes) that may be created
    Transactions, \* requests that may be in flight together
    NoRow,        \* no account, no statement
    Settings      \* what the instance does: requests of these kinds, at most
                  \* width at once, on these accounts and statements, of sales
                  \* made with these plans

AllKinds == {"abono", "return", "void", "cut", "settle", "cancelCut", "reconcile"}

ASSUME SettingAssumption ==
    \A sc \in Settings : /\ sc.kinds \subseteq AllKinds /\ sc.width \in Nat \ {0}
                          /\ sc.accounts \subseteq Accounts /\ sc.cuts \subseteq Cuts
ASSUME AccountAssumption == IsFiniteSet(Accounts) /\ NoRow \notin Cuts
ASSUME PlanAssumption ==
    \A sc \in Settings : \A p \in sc.plans :
       /\ p.total \in Nat /\ p.prima \in Nat /\ p.interest \in Nat
       /\ p.prima < p.total
       /\ p.cuotas \in Nat \ {0}

VARIABLES
    setting, \* one of Settings, fixed from the start
    plan,    \* the credit plan each sale was made with
    acct,    \* CreditAccount rows: status, balance, dueDate
    inst,    \* CreditInstallment rows of each account, by number
    paid,    \* CreditPayment rows of each account: sums of abonos, of
             \* statement payments and of interest portions
    sale,    \* status, CREDITO refunds, and cash given back
    cut,     \* CreditStatement rows
    item,    \* the CreditStatementItem of each sale (unique on saleId)
    clock,   \* installment i is due at time i
    phase, job \* where each transaction stands, and what it has read

creditVars == <<setting, plan, acct, inst, paid, sale, cut, item, clock, phase, job>>

Least(a, b) == IF a <= b THEN a ELSE b
AtLeast0(n) == IF n > 0 THEN n ELSE 0

\* Math.round of a quotient of naturals.
RoundDiv(n, d) == (2 * n + d) \div (2 * d)

Original(a) == plan[a].total - plan[a].prima + plan[a].interest

(***************************************************************************)
(* Installments.                                                           *)
(***************************************************************************)

\* Equal installments, rounded down; the last one takes the remainder.
Cuotas(original, n) ==
    LET base == original \div n
    IN  [i \in 1 .. n |->
           [amount |-> IF i = n THEN original - base * (n - 1) ELSE base,
            paid |-> 0, status |-> "PENDING"]]

LiveStatus == {"PENDING", "PARTIALLY_PAID", "OVERDUE"}

\* What an installment still asks for; nothing if it is paid or cancelled.
Pending(q) == IF q.status \in LiveStatus THEN AtLeast0(q.amount - q.paid) ELSE 0

PendingOf(qs, I) == SumFunctionOnSet([i \in DOMAIN qs |-> Pending(qs[i])], I)

\* The installments before installment i, and those after it.
Earlier(qs, i) == {k \in DOMAIN qs : k < i}
Later(qs, i)   == {k \in DOMAIN qs : k > i}

\* The share of an amount that reaches installment i when the installments
\* numbered in ahead come before it.
Share(qs, i, ahead, amount) ==
    Least(Pending(qs[i]), AtLeast0(amount - PendingOf(qs, ahead)))

\* registerPayment: pending installments in order, the oldest first.
PayFifo(qs, amount) ==
    [i \in DOMAIN qs |->
       LET part == Share(qs, i, Earlier(qs, i), amount) IN
       IF part = 0 THEN qs[i]
       ELSE [qs[i] EXCEPT !.paid = @ + part,
                          !.status = IF part = Pending(qs[i]) THEN "PAID"
                                                              ELSE "PARTIALLY_PAID"]]

\* Mutant: an installment the return covers whole keeps its amount.
ForgiveStatusOnly(qs, amount) ==
    [i \in DOMAIN qs |->
       LET part == Share(qs, i, Later(qs, i), amount) IN
       IF part = 0 \/ part = Pending(qs[i]) THEN qs[i]
       ELSE [qs[i] EXCEPT !.amount = @ - part]]

\* createReturn: pending installments from the last one backwards; one that
\* is covered whole is cut to what was paid of it.
ForgiveLifo(qs, amount) ==
    [i \in DOMAIN qs |->
       LET part == Share(qs, i, Later(qs, i), amount) IN
       IF part = 0 THEN qs[i]
       ELSE [qs[i] EXCEPT !.amount = @ - part,
                          !.status = IF part < Pending(qs[i]) THEN @
                                     ELSE IF qs[i].paid = 0 THEN "CANCELLED" ELSE "PAID"]]

CancelAll(qs) == [i \in DOMAIN qs |-> [qs[i] EXCEPT !.status = "CANCELLED"]]

\* The due date moves to the first installment that is still pending.
NextDue(qs, due) ==
    LET live == {i \in DOMAIN qs : qs[i].status \in LiveStatus}
    IN  IF live = {} THEN due ELSE Min(live)

(***************************************************************************)
(* Initial state: every sale has been made, nothing has been paid.         *)
(***************************************************************************)
NoCut   == [status |-> "NONE", total |-> 0, settled |-> 0]
NoItem  == [cut |-> NoRow, amount |-> 0, settled |-> 0]
NoJob   == [kind |-> "abono", account |-> NoRow, amount |-> 0, interest |-> 0,
            balance |-> 0, cut |-> NoRow, seen |-> [a \in Accounts |-> 0], todo |-> {}]

CreditInit ==
        /\ setting \in Settings
        /\ plan \in [Accounts -> setting.plans]
        /\ \A a \in Accounts \ setting.accounts : plan[a] = CHOOSE p \in setting.plans : TRUE
        /\ acct = [a \in Accounts |->
                     [status |-> "PENDING", balance |-> Original(a), due |-> 1]]
        /\ inst = [a \in Accounts |-> Cuotas(Original(a), plan[a].cuotas)]
        /\ paid = [a \in Accounts |-> [abonos |-> 0, cuts |-> 0, interest |-> 0]]
        /\ sale = [a \in Accounts |->
                     [status |-> "COMPLETED", refunded |-> 0, cashBack |-> 0]]
        /\ cut = [c \in Cuts |-> NoCut]
        /\ item = [a \in Accounts |-> NoItem]
        /\ clock = 0
        /\ phase = [r \in Transactions |-> "idle"]
        /\ job = [r \in Transactions |-> NoJob]

-----------------------------------------------------------------------------
InFlight == {r \in Transactions : phase[r] = "busy"}

\* A request of kind k begins; j is what it has read.
Begin(r, k, j) ==
    /\ phase[r] = "idle"
    /\ k \in setting.kinds
    /\ Cardinality(InFlight) < setting.width
    /\ phase' = [phase EXCEPT ![r] = "busy"]
    /\ job' = [job EXCEPT ![r] = [j EXCEPT !.kind = k]]
    /\ UNCHANGED <<setting, plan, acct, inst, paid, sale, cut, item, clock>>

Running(r, k) == phase[r] = "busy" /\ job[r].kind = k

End(r) == /\ phase' = [phase EXCEPT ![r] = "idle"]
          /\ job' = [job EXCEPT ![r] = NoJob]
          /\ UNCHANGED <<setting, plan, clock>>

\* Returns and voids hold the row of the sale, settlements that of the cut.
SaleFree(a) ==
    \A r \in InFlight : job[r].kind \in {"return", "void"} => job[r].account # a

\* Mutant: the statement is read without FOR UPDATE.
CutUnlocked(c) == TRUE

CutFree(c) ==
    \A r \in InFlight : job[r].kind = "settle" => job[r].cut # c

(***************************************************************************)
(* Abonos: registerPayment.                                                *)
(***************************************************************************)

\* Mutant: the last abono is prorated as any other.
ProratedInterest(a, amount, balance, prior) ==
    Least(RoundDiv(amount * plan[a].interest, Original(a)), plan[a].interest - prior)

\* The interest inside an abono, from the balance and the earlier portions
\* as they were read.  The abono that pays off takes what is left of it.
InterestPortion(a, amount, balance, prior) ==
    LET left == AtLeast0(plan[a].interest - prior)
    IN  IF plan[a].interest = 0 THEN 0
        ELSE IF balance <= amount THEN left
        ELSE Least(RoundDiv(amount * plan[a].interest, Original(a)), left)

AbonoRead(r) ==
    \E a \in setting.accounts : \E amount \in 1 .. acct[a].balance :
       /\ acct[a].status \notin {"PAID", "CANCELLED"}
       /\ Begin(r, "abono",
            [NoJob EXCEPT !.account = a, !.amount = amount,
               !.interest = InterestPortion(a, amount, acct[a].balance, paid[a].interest)])

\* Mutant: the update does not look at the balance again.
AnyBalance(balance, amount) == TRUE

\* UPDATE ... WHERE balance >= amount
Covers(balance, amount) == balance >= amount

AbonoStatus(balance, original, due) ==
    IF balance = 0 THEN "PAID"
    ELSE IF due < clock THEN "OVERDUE"
    ELSE IF balance < original THEN "PARTIALLY_PAID" ELSE "PENDING"

AbonoCommit(r) ==
    LET a       == job[r].account
        amount  == job[r].amount
        balance == acct[a].balance - amount
        qs      == PayFifo(inst[a], amount)
        due     == NextDue(qs, acct[a].due)
    IN
    /\ Running(r, "abono")
    /\ IF Covers(acct[a].balance, amount)
         THEN /\ inst' = [inst EXCEPT ![a] = qs]
              /\ paid' = [paid EXCEPT ![a].abonos = @ + amount,
                                      ![a].interest = @ + job[r].interest]
              /\ acct' = [acct EXCEPT ![a] =
                            [status |-> AbonoStatus(balance, Original(a), due),
                             balance |-> balance, due |-> due]]
         ELSE UNCHANGED <<inst, paid, acct>>
    /\ End(r)
    /\ UNCHANGED <<sale, cut, item>>

(***************************************************************************)
(* Returns on credit and voids: createReturn, voidSale.                    *)
(***************************************************************************)

\* A cancelled statement leaves no items, so an item is of a live one.
InCut(a) == item[a].cut # NoRow

\* STATEMENT_CLOSED: the sale is in a statement that is not cancelled.
StatementClosed(a) == InCut(a)

Refundable(a) == plan[a].total - sale[a].refunded

\* The account is read with the sale; its own row is not locked.
ReturnRead(r) ==
    \E a \in setting.accounts : \E amount \in 1 .. Refundable(a) :
       /\ SaleFree(a)
       /\ ~StatementClosed(a)
       /\ sale[a].status \in {"COMPLETED", "PARTIALLY_RETURNED"}
       /\ amount <= Original(a) - sale[a].refunded
       /\ Begin(r, "return",
            [NoJob EXCEPT !.account = a, !.amount = amount, !.balance = acct[a].balance])

\* What the refund exceeds the balance by goes back in cash.
Excess(amount, balance) == AtLeast0(amount - balance)

ReturnCommit(r) ==
    LET a      == job[r].account
        amount == job[r].amount
        left   == job[r].balance - amount
        qs     == ForgiveLifo(inst[a], amount)
    IN
    /\ Running(r, "return")
    /\ IF left < 0
         THEN /\ acct' = [acct EXCEPT ![a].balance = 0, ![a].status = "CANCELLED"]
              /\ inst' = [inst EXCEPT ![a] = CancelAll(@)]
         ELSE /\ acct' = [acct EXCEPT ![a] =
                            [status |-> IF left = 0 THEN "PAID" ELSE "PARTIALLY_PAID",
                             balance |-> left, due |-> NextDue(qs, @.due)]]
              /\ inst' = [inst EXCEPT ![a] = qs]
    /\ sale' = [sale EXCEPT ![a] =
                  [status |-> IF amount = Refundable(a) THEN "RETURNED"
                                                        ELSE "PARTIALLY_RETURNED",
                   refunded |-> @.refunded + amount,
                   cashBack |-> @.cashBack + Excess(amount, job[r].balance)]]
    /\ End(r)
    /\ UNCHANGED <<paid, cut, item>>

SaleVoidRead(r) ==
    \E a \in setting.accounts :
       /\ SaleFree(a)
       /\ ~StatementClosed(a)
       /\ sale[a].status = "COMPLETED"
       /\ Begin(r, "void",
            [NoJob EXCEPT !.account = a, !.amount = paid[a].abonos + paid[a].cuts])

SaleVoidCommit(r) ==
    LET a == job[r].account IN
    /\ Running(r, "void")
    /\ acct' = [acct EXCEPT ![a].balance = 0, ![a].status = "CANCELLED"]
    /\ inst' = [inst EXCEPT ![a] = CancelAll(@)]
    /\ sale' = [sale EXCEPT ![a].status = "CANCELLED", ![a].cashBack = @ + job[r].amount]
    /\ End(r)
    /\ UNCHANGED <<paid, cut, item>>

(***************************************************************************)
(* Statements: createStatement, settleStatement, cancelStatement.          *)
(***************************************************************************)
Eligible == {a \in setting.accounts : sale[a].status # "CANCELLED" /\ ~InCut(a)}

\* The sales of the period and their balances are read without a lock.
CutRead(r) ==
    \E c \in setting.cuts, S \in (SUBSET Eligible) \ {{}} :
       /\ cut[c].status = "NONE"
       /\ \A q \in InFlight : job[q].cut # c
       /\ Begin(r, "cut",
            [NoJob EXCEPT !.cut = c, !.todo = S,
                           !.seen = [a \in Accounts |-> acct[a].balance]])

\* An item refers to its sale, so it waits for the lock of a return or a
\* void; the unique index on saleId makes the whole statement fail when one
\* of its sales has been cut meanwhile.
CutCommit(r) ==
    LET c == job[r].cut
        S == job[r].todo
    IN
    /\ Running(r, "cut")
    /\ \A a \in S : SaleFree(a)
    /\ IF \A a \in S : ~InCut(a)
         THEN /\ cut' = [cut EXCEPT ![c] =
                           [status |-> "OPEN", settled |-> 0,
                            total |-> SumFunctionOnSet(job[r].seen, S)]]
              /\ item' = [a \in Accounts |->
                            IF a \in S
                              THEN [cut |-> c, amount |-> job[r].seen[a], settled |-> 0]
                              ELSE item[a]]
         ELSE UNCHANGED <<cut, item>>
    /\ End(r)
    /\ UNCHANGED <<acct, inst, paid, sale>>

ItemsOf(c) == {a \in Accounts : item[a].cut = c}

\* The statement is locked, then read with its items and their accounts.
SettleRead(r) ==
    \E c \in Cuts : \E amount \in 1 .. cut[c].total - cut[c].settled :
       /\ CutFree(c)
       /\ cut[c].status \in {"OPEN", "PARTIALLY_SETTLED"}
       /\ Begin(r, "settle",
            [NoJob EXCEPT !.cut = c, !.amount = amount,
                           !.balance = cut[c].settled, !.todo = ItemsOf(c),
                           !.seen = [a \in Accounts |-> acct[a].balance]])

\* The payments of one settlement: each item in turn takes what the balance
\* it was read with allows, and is skipped if that no longer fits the balance.
Allocations(r) ==
    LET S == job[r].todo IN
    {pay \in [S -> 0 .. job[r].amount] :
       \E rank \in [S -> 1 .. Cardinality(S)] :
          /\ \A a, b \in S : rank[a] = rank[b] => a = b
          /\ \A a \in S :
                LET before == SumFunctionOnSet(pay, {b \in S : rank[b] < rank[a]})
                    ask    == Least(job[r].amount - before, job[r].seen[a])
                IN  pay[a] = IF Covers(acct[a].balance, ask) THEN ask ELSE 0}

CutStatus(settled, total) == IF settled >= total THEN "SETTLED" ELSE "PARTIALLY_SETTLED"

\* No installment is touched, and no interest portion recorded.
SettleCommit(r) ==
    LET c == job[r].cut
        S == job[r].todo
    IN
    /\ Running(r, "settle")
    /\ \E pay \in Allocations(r) :
          LET settled == job[r].balance + SumFunctionOnSet(pay, S)
              Paying  == {a \in S : pay[a] > 0}
          IN
          /\ acct' = [a \in Accounts |->
                        IF a \in Paying
                          THEN LET balance == acct[a].balance - pay[a] IN
                               [acct[a] EXCEPT !.balance = balance,
                                  !.status = IF balance = 0 THEN "PAID"
                                                            ELSE "PARTIALLY_PAID"]
                          ELSE acct[a]]
          /\ paid' = [a \in Accounts |->
                        IF a \in Paying THEN [paid[a] EXCEPT !.cuts = @ + pay[a]]
                                        ELSE paid[a]]
          /\ item' = [a \in Accounts |->
                        IF a \in Paying THEN [item[a] EXCEPT !.settled = @ + pay[a]]
                                        ELSE item[a]]
          /\ cut' = [cut EXCEPT ![c].settled = settled,
                                ![c].status = CutStatus(settled, cut[c].total)]
    /\ End(r)
    /\ UNCHANGED <<inst, sale>>

\* Only an open statement without payments; its sales are released.
CancelCut(c) ==
    /\ "cancelCut" \in setting.kinds
    /\ CutFree(c)
    /\ cut[c].status = "OPEN" /\ cut[c].settled = 0
    /\ cut' = [cut EXCEPT ![c].status = "CANCELLED"]
    /\ item' = [a \in Accounts |-> IF item[a].cut = c THEN NoItem ELSE item[a]]
    /\ UNCHANGED <<setting, plan, acct, inst, paid, sale, clock, phase, job>>

(***************************************************************************)
(* The half-hourly reconciliation: installments past their date, then the  *)
(* accounts it listed, each written without looking at it again.           *)
(***************************************************************************)
Late(qs) == [i \in DOMAIN qs |->
               IF qs[i].status \in {"PENDING", "PARTIALLY_PAID"} /\ i < clock
                 THEN [qs[i] EXCEPT !.status = "OVERDUE"] ELSE qs[i]]

ToOverdue(a, qs) ==
    /\ acct[a].status \notin {"PAID", "CANCELLED", "OVERDUE"}
    /\ acct[a].due < clock \/ \E i \in DOMAIN qs : qs[i].status = "OVERDUE"

ReconcileRead(r) ==
    LET todo == {a \in setting.accounts : ToOverdue(a, Late(inst[a]))} IN
    /\ phase[r] = "idle" /\ "reconcile" \in setting.kinds
    /\ Cardinality(InFlight) < setting.width
    /\ inst' = [a \in Accounts |-> Late(inst[a])]
    /\ phase' = [phase EXCEPT ![r] = IF todo = {} THEN "idle" ELSE "busy"]
    /\ job' = [job EXCEPT ![r] = [NoJob EXCEPT !.todo = todo,
                             !.kind = IF todo = {} THEN @ ELSE "reconcile"]]
    /\ UNCHANGED <<setting, plan, acct, paid, sale, cut, item, clock>>

ReconcileWrite(r) ==
    /\ Running(r, "reconcile")
    /\ \E a \in job[r].todo :
          LET rest == job[r].todo \ {a} IN
          /\ acct' = [acct EXCEPT ![a].status = "OVERDUE"]
          /\ job' = [job EXCEPT ![r] = IF rest = {} THEN NoJob ELSE [@ EXCEPT !.todo = rest]]
          /\ phase' = [phase EXCEPT ![r] = IF rest = {} THEN "idle" ELSE @]
    /\ UNCHANGED <<setting, plan, inst, paid, sale, cut, item, clock>>

\* The bound on the clock: every installment can fall overdue.
Tick == /\ "reconcile" \in setting.kinds
        /\ \E a \in setting.accounts : clock <= plan[a].cuotas
        /\ clock' = clock + 1
        /\ UNCHANGED <<setting, plan, acct, inst, paid, sale, cut, item, phase, job>>

\* A transaction fails or times out and is rolled back.
Rollback(r) ==
    /\ phase[r] = "busy"
    /\ End(r)
    /\ UNCHANGED <<acct, inst, paid, sale, cut, item>>

CreditNext ==
    \/ \E r \in Transactions :
          \/ AbonoRead(r) \/ AbonoCommit(r)
          \/ ReturnRead(r) \/ ReturnCommit(r)
          \/ SaleVoidRead(r) \/ SaleVoidCommit(r)
          \/ CutRead(r) \/ CutCommit(r)
          \/ SettleRead(r) \/ SettleCommit(r)
          \/ ReconcileRead(r) \/ ReconcileWrite(r)
          \/ Rollback(r)
    \/ \E c \in Cuts : CancelCut(c)
    \/ Tick

CreditSpec == CreditInit /\ [][CreditNext]_creditVars

-----------------------------------------------------------------------------
(***************************************************************************)
(* Properties.                                                             *)
(***************************************************************************)

\* Money is conserved: what the client paid plus what he still owes is what
\* he was charged, less what was returned on credit, plus the cash he got
\* back; a voided sale gives back all he paid.  An account says it is PAID exactly
\* when nothing is owed.
CreditLedger ==
    \A a \in Accounts :
       LET received == paid[a].abonos + paid[a].cuts IN
       IF sale[a].status = "CANCELLED"
         THEN acct[a].balance = 0 /\ sale[a].cashBack = received
         ELSE /\ acct[a].balance >= 0
              /\ received + acct[a].balance
                   = Original(a) - sale[a].refunded + sale[a].cashBack
              /\ acct[a].status # "CANCELLED" =>
                   ((acct[a].status = "PAID") <=> (acct[a].balance = 0))

\* The installments still ask for exactly the balance, after any sequence of
\* abonos (oldest first) and returns (last first); payments of statements,
\* which reach no installment, are the one difference.  The interest recognised in
\* abonos never exceeds the interest of the plan, and is exactly it once abonos
\* alone have paid the account off (plans with interest are in scenarios of one
\* transaction at a time).
InstallmentsMatch ==
    \A a \in Accounts :
       /\ acct[a].status # "CANCELLED" =>
             PendingOf(inst[a], DOMAIN inst[a]) = acct[a].balance + paid[a].cuts
       /\ paid[a].interest <= plan[a].interest
       /\ acct[a].status = "PAID" /\ paid[a].cuts = 0 /\ sale[a].refunded = 0
             => paid[a].interest = plan[a].interest

\* A statement adds up: its total and its settled amount are the sums of its
\* items', its payments are those of its accounts, it never takes more than
\* its total, and a cancelled one holds no sale.  It keeps asking at least what
\* its sales still owe, and none of them is voided or returned under it.
CutLedger ==
    /\ \A c \in Cuts : LET I == ItemsOf(c) IN
          /\ cut[c].settled = SumFunctionOnSet([a \in I |-> item[a].settled], I)
          /\ cut[c].settled <= cut[c].total
          /\ cut[c].status \in {"NONE", "CANCELLED"} => I = {} /\ cut[c].settled = 0
          /\ cut[c].status \notin {"NONE", "CANCELLED"} =>
                cut[c].total = SumFunctionOnSet([a \in I |-> item[a].amount], I)
          /\ cut[c].status = "SETTLED" => cut[c].settled = cut[c].total
    /\ \A a \in Accounts : paid[a].cuts = item[a].settled
    /\ \A a \in Accounts : InCut(a) =>
          /\ sale[a].status # "CANCELLED"
          /\ acct[a].balance <= item[a].amount - item[a].settled
=============================================================================
