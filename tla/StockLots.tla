----------------------------- MODULE StockLots -----------------------------
(***************************************************************************)
(* The stock of one product kept in lots, the purchases that bring it and  *)
(* the debts to suppliers they leave: src/src/modules/pos/batches,         *)
(* purchases, inventory, payables and products.                            *)
(*                                                                         *)
(* A request is a transaction in three steps: it reads (buying, voiding a  *)
(* purchase and adjusting after locking the product's row, a sale, a       *)
(* return and adjustStock without), it changes and locks rows of lots, and *)
(* it adds the lots up; then it commits, writing that sum in the product,  *)
(* which another transaction's lock of the product delays.  A transaction  *)
(* may be rolled back at any step: timeouts and the deadlocks of the two   *)
(* kinds of lock end so.                                                   *)
(*                                                                         *)
(* Restrictions: one product, one line in each purchase and sale, whole    *)
(* units, one purchase price; costs and prices are left out.               *)
(***************************************************************************)
EXTENDS Integers, FiniteSets, FiniteSetsExt, Functions

CONSTANTS
    Slots,       \* rows of ProductBatch that may be created, in this order
    Numbers,     \* lot numbers in use; also those an automatic one can take
    Adjusted, Initial,     \* the lots AJUSTE and INICIAL
    Purchases, Sales, Payments, Shifts,
    Expiries,    \* days of expiry
    Days,        \* today, 1 at the start
    MaxUnits,    \* bound: units of stock
    UnitCost, AllowNegative,
    Procs, Scenarios

ASSUME StockAssumption ==
    /\ Slots \cup Numbers \cup {Adjusted, Initial} \cup Expiries \subseteq Nat \ {0}
    /\ Purchases \cup Sales \cup Payments \cup Shifts \subseteq Nat \ {0}
    /\ {MaxUnits, UnitCost} \subseteq Nat
    /\ AllowNegative \in BOOLEAN

\* The rows are finitely many; there is one for the lot INICIAL.
ASSUME RowAssumption ==
    /\ IsFiniteSet(Slots) /\ Slots # {}
    /\ IsFiniteSet(Numbers) /\ Numbers # {}
    /\ IsFiniteSet(Payments)
ASSUME ScenarioAssumption ==
    \A sc \in Scenarios :
       /\ sc.tracks \in BOOLEAN
       /\ sc.opening \subseteq Nat /\ sc.units \subseteq Nat \ {0}

VARIABLES
    scenario,  \* kinds: requests made; together: those that overlap; tracks and the
               \* opening stock; units: in a request; changes: bound of adjustments,
               \* edits, imported rows; buys, sells: of purchases, sales
    today,
    product,   \* stock, tracksBatches
    lot,       \* ProductBatch rows
    purchase, sale,
    payable, payment,
    drawer,    \* cash each shift gave out and has not got back
    shift,     \* the shift that is open, 0 when none is
    moved,     \* sum of the StockMovement rows
    aside,     \* units that movements tell and no lot took or gave, or the reverse
    changes,
    work       \* each transaction in flight

vars == <<scenario, today, product, lot, purchase, sale, payable, payment, drawer,
          shift, moved, aside, changes, work>>

NoLot == [number |-> 0, qty |-> 0, exp |-> 0, item |-> 0]   \* exp 0: no date
NoTake == [i \in Slots |-> 0]
NoBuy == [status |-> "NONE", qty |-> 0, number |-> 0]
NoSale == [status |-> "NONE", qty |-> 0, take |-> NoTake, returned |-> 0]
NoDebt == [status |-> "NONE", original |-> 0, balance |-> 0]
NoPayment == [status |-> "NONE", of |-> 0, amount |-> 0, shift |-> 0]
Idle == [stage |-> "idle"]

Init == /\ scenario \in Scenarios
        /\ today = 1
        /\ \E n \in scenario.opening :
              /\ product = [stock |-> n, tracks |-> scenario.tracks]
              /\ moved = n
              /\ aside = IF scenario.tracks THEN 0 ELSE -n
              /\ lot = [i \in Slots |->
                          IF n > 0 /\ scenario.tracks /\ i = Min(Slots)
                          THEN [NoLot EXCEPT !.number = Initial, !.qty = n] ELSE NoLot]
        /\ purchase = [b \in Purchases |-> NoBuy]
        /\ sale = [s \in Sales |-> NoSale]
        /\ payable = [b \in Purchases |-> NoDebt]
        /\ payment = [y \in Payments |-> NoPayment]
        /\ drawer = [h \in Shifts |-> 0] /\ shift = 0
        /\ changes = 0
        /\ work = [p \in Procs |-> Idle]

-----------------------------------------------------------------------------
(* Lots *)

Held(ls, S) == SumFunction([i \in S |-> ls[i].qty])
Total(ls) == Held(ls, Slots)
Exists(ls, i) == ls[i].number # 0
Numbered(ls, n) == {i \in Slots : ls[i].number = n /\ n # 0}
Stocked(ls) == {i \in Slots : ls[i].qty > 0}
Fresh(ls, i) == ls[i].exp = 0 \/ ls[i].exp >= today

\* FEFO: lots in date by expiry, those without a date last, then by creation;
\* the expired ones after them, where they are taken at all.
Rank(ls, i) == <<IF Fresh(ls, i) THEN 0 ELSE 1, IF ls[i].exp = 0 THEN 1 ELSE 0,
                 ls[i].exp, i>>
Before(a, b) == \E k \in 1 .. 4 : a[k] < b[k] /\ \A m \in 1 .. (k - 1) : a[m] = b[m]
Least(m, n) == IF m < n THEN m ELSE n
\* How many of q units each lot of S gives, in that order.
Shares(ls, S, q) ==
    [i \in Slots |->
        LET ahead == Held(ls, {j \in S : Before(Rank(ls, j), Rank(ls, i))})
        IN IF i \in S /\ ahead < q THEN Least(ls[i].qty, q - ahead) ELSE 0]
Taken(ls, take) == [i \in Slots |-> [ls[i] EXCEPT !.qty = @ - take[i]]]

\* What a handler does to the lots: the rows it waits for and changes, the rows
\* after it, the units of its movements and those no lot gave.
Outcome(ls, after, locks, units, take, short) ==
    [ok |-> TRUE, lots |-> after, locks |-> locks, units |-> units, take |-> take,
     short |-> short]
Rejected(locks) == [ok |-> FALSE, locks |-> locks]

AllocateFefo(ls, q) ==
    LET S == {i \in Stocked(ls) : Fresh(ls, i)}
        take == Shares(ls, S, q)
    IN IF Held(ls, S) < q THEN Rejected(S)
       ELSE Outcome(ls, Taken(ls, take), S, -q, take, 0)

AllocateOffline(ls, q) ==
    LET take == Shares(ls, Stocked(ls), q)
        got == SumFunction(take)
    IN Outcome(ls, Taken(ls, take), Stocked(ls), -q, take, q - got)

\* The lot is looked up in what was read first; its quantity is then written,
\* not incremented.
Receive(seen, ls, n, exp, q, item) ==
    LET known == Numbered(seen, n)
        free == {i \in Slots : ~Exists(ls, i)}
        i == IF known # {} THEN Min(known) ELSE Min(free)
        was == seen[i]
        now == [number |-> n, qty |-> was.qty + q,
                exp |-> IF was.exp = 0 THEN exp ELSE was.exp,
                item |-> IF item # 0 THEN item ELSE was.item]
    IN IF \/ known # {} /\ was.exp # 0 /\ exp # 0 /\ was.exp # exp
          \/ known = {} /\ (free = {} \/ Numbered(ls, n) # {})   \* unique index
       THEN Rejected({})
       ELSE Outcome(ls, [ls EXCEPT ![i] = now], {i}, q, NoTake, 0)

\* Each allocation of the sale is refilled up to what it gave, latest first;
\* the rows of one sale are created together, so any order is the latest.
Refill(ls, s, q) ==
    {Outcome(ls, [i \in Slots |-> [ls[i] EXCEPT !.qty = @ + back[i]]],
             {i \in Slots : sale[s].take[i] > 0}, q, NoTake,
             SumFunction(back) - q) :
       back \in {b \in [Slots -> 0 .. q] :
          /\ \A i \in Slots : b[i] <= sale[s].take[i]
          /\ \A i, j \in Slots : b[i] \in 1 .. (sale[s].take[i] - 1) =>
                                 b[j] \in {0, sale[s].take[j]} \/ i = j
          /\ SumFunction(b) = Least(q, SumFunction(sale[s].take))}}

OneLot(seen, ls, i, d) ==
    IF ~Exists(seen, i) \/ (d < 0 /\ seen[i].qty < -d) THEN Rejected({})
    ELSE Outcome(ls, [ls EXCEPT ![i].qty = @ + d], {i}, d, NoTake, 0)

Adjust(seen, ls, i, d) ==
    CASE d = 0 -> Outcome(ls, ls, {}, 0, NoTake, 0)
      [] d # 0 /\ i # 0 -> OneLot(seen, ls, i, d)
      [] d < 0 /\ i = 0 -> AllocateFefo(ls, -d)
      [] OTHER -> Receive(seen, ls, Adjusted, 0, d, 0)

\* The lot of the purchase's line, or of its number once another line took it.
UnbuyLots(seen, ls, b) ==
    LET mine == {i \in Slots : seen[i].item = b /\ Exists(seen, i)}
        named == Numbered(seen, purchase[b].number)
        q == purchase[b].qty
    IN IF product.stock < q /\ ~AllowNegative THEN Rejected({})
       ELSE IF mine \cup named = {} THEN Adjust(seen, ls, 0, -q)
       ELSE OneLot(seen, ls, IF mine # {} THEN Min(mine) ELSE Min(named), -q)

\* Without control of lots only the product's stock changes.
Untracked(d) == Outcome(lot, lot, {}, d, NoTake, -d)

-----------------------------------------------------------------------------
(* Transactions *)

Overlaps(kind) ==
    \A p \in Procs : work[p] # Idle =>
        work[p].op.kind \in scenario.together /\ kind \in scenario.together
\* Bug to detect: a purchase does not lock the product, its annulment does.
LocksLess(kind) == kind \in {"unbuy", "adjust", "count", "import"}
\* Those that lock the product's row before they read it.
LocksProduct(kind) == kind \in {"buy", "unbuy", "adjust", "count", "import"}
ProductFree(p) == \A o \in Procs \ {p} :
    work[o] # Idle => ~LocksProduct(work[o].op.kind)
LockedByOthers(p) == UNION {work[o].locks : o \in {x \in Procs \ {p} : work[x] # Idle}}

\* A row of a catalogue that names a lot or a date turns control of lots on.
Tracks(op) == product.tracks \/ (op.kind = "import" /\ (op.number # 0 \/ op.exp # 0))

Begin(p, op) ==
    /\ work[p] = Idle
    /\ op.kind \in scenario.kinds /\ Overlaps(op.kind)
    /\ LocksProduct(op.kind) => ProductFree(p)
    /\ work' = [work EXCEPT ![p] =
                  [stage |-> "read", op |-> op, seen |-> lot, before |-> product.stock,
                   tracks |-> Tracks(op), locks |-> {}, out |-> Rejected({}), sum |-> 0]]
    /\ UNCHANGED <<scenario, today, product, lot, purchase, sale, payable, payment,
                   drawer, shift, moved, aside, changes>>

Op(kind, ref, slot, number, exp, qty) ==
    [kind |-> kind, ref |-> ref, slot |-> slot, number |-> number, exp |-> exp, qty |-> qty]

\* PurchasesService.create: the lot is named, or gets the first free number of
\* the day; credit with the down payment is settled at the end.
AutoNumber == Min({n \in Numbers : Numbered(lot, n) = {}} \cup {Max(Numbers)})
Buy(p) == \E b \in Purchases, n \in Numbers \cup {0}, e \in Expiries, q \in scenario.units :
    /\ b <= scenario.buys /\ purchase[b].status = "NONE" /\ product.stock + q <= MaxUnits
    /\ \A c \in Purchases : c < b => purchase[c].status # "NONE"
    /\ Begin(p, Op("buy", b, 0, IF n = 0 THEN AutoNumber ELSE n, e, q))

ActivePayments(b) == {y \in Payments : payment[y].of = b /\ payment[y].status = "ACTIVE"}
Unbuy(p) == \E b \in Purchases :
    /\ purchase[b].status = "RECEIVED" /\ ActivePayments(b) = {}
    /\ Begin(p, Op("unbuy", b, 0, 0, 0, purchase[b].qty))

NextSale(s) == sale[s].status = "NONE" /\ \A r \in Sales : r < s => sale[r].status # "NONE"
Selling(s) == \E p \in Procs : work[p] # Idle
                 /\ work[p].op.kind \in {"sell", "offline", "refund"} /\ work[p].op.ref = s
SaleOf(p, kind) == \E s \in Sales, q \in scenario.units :
    /\ s <= scenario.sells /\ NextSale(s) /\ ~Selling(s)
    /\ Begin(p, Op(kind, s, 0, 0, 0, q))
Sell(p) == SaleOf(p, "sell")
\* A sale made without connection takes the lots there are, also expired ones.
SellOffline(p) == SaleOf(p, "offline")
\* A return with restock, or the annulment when it takes everything.
Refund(p) == \E s \in Sales, q \in scenario.units :
    /\ sale[s].status = "SOLD" /\ q <= sale[s].qty - sale[s].returned /\ ~Selling(s)
    /\ Begin(p, Op("refund", s, 0, 0, 0, q))

\* createAdjustment, with a lot or without; batchCount is a count without one.
\* adjustStock of the catalogue does not lock the product.
AdjustStock(p) == \E i \in Slots \cup {0}, d \in {-1, 1}, kind \in {"adjust", "adjustStock"} :
    /\ changes < scenario.changes /\ product.stock + d <= MaxUnits
    /\ i # 0 => kind = "adjust" /\ Exists(lot, i)
    /\ product.stock + d >= 0 \/ (kind = "adjust" /\ AllowNegative)
    /\ Begin(p, Op(kind, 0, i, 0, 0, d))
Count(p) == \E n \in 0 .. MaxUnits :
    /\ changes < scenario.changes
    /\ Begin(p, Op("count", 0, 0, 0, 0, n - product.stock))

\* One row of an imported catalogue, with the stock n it states and perhaps a lot.
\* What it changes the stock by is computed from the list of products, read before
\* the transaction: while others commit, from any stock.  The transaction begins by
\* writing the product.
Listed == IF scenario.together = {} THEN {product.stock} ELSE 0 .. MaxUnits
Import(p) == \E n \in 0 .. MaxUnits, m \in Listed, l \in Numbers \cup {0}, e \in Expiries \cup {0} :
    /\ changes < scenario.changes
    /\ Begin(p, Op("import", n, 0, l, e, n - m))
ImportLots(seen, op) ==
    LET q == op.qty n == op.ref IN
    CASE q > 0 /\ op.number # 0 -> Receive(seen, lot, op.number, op.exp, q, 0)
      [] q # 0 /\ (q < 0 \/ op.number = 0) -> Adjust(seen, lot, 0, q)
      [] q = 0 /\ op.number # 0 /\ Numbered(seen, op.number) = {} /\ n > 0 ->
            LET r == Receive(seen, lot, op.number, op.exp, n, 0)
            IN IF r.ok THEN [r EXCEPT !.units = 0, !.short = n] ELSE r
      [] OTHER -> Outcome(lot, lot, {}, 0, NoTake, 0)

Outcomes(w) ==
    LET op == w.op q == op.qty IN
    IF ~w.tracks
    THEN {IF op.kind \in {"unbuy", "sell"} /\ product.stock < q /\ ~AllowNegative
          THEN Rejected({})
          ELSE Untracked(IF op.kind \in {"sell", "offline", "unbuy"} THEN -q ELSE q)}
    ELSE CASE op.kind = "buy" -> {Receive(w.seen, lot, op.number, op.exp, q, op.ref)}
           [] op.kind = "unbuy" -> {UnbuyLots(w.seen, lot, op.ref)}
           [] op.kind = "sell" -> {AllocateFefo(lot, q)}
           [] op.kind = "offline" -> {AllocateOffline(lot, q)}
           [] op.kind = "refund" -> Refill(lot, op.ref, q)
           [] op.kind = "import" -> {ImportLots(w.seen, op)}
           [] OTHER -> {Adjust(w.seen, lot, op.slot, q)}

\* The rows of lots are changed and stay locked; a refusal ends the transaction.
Change(p) ==
    /\ work[p] # Idle /\ work[p].stage = "read"
    /\ \E out \in Outcomes(work[p]) :
        /\ out.locks \cap LockedByOthers(p) = {}
        /\ work' = [work EXCEPT ![p] =
                      IF out.ok THEN [@ EXCEPT !.stage = "changed", !.out = out, !.locks = out.locks]
                      ELSE Idle]
    /\ UNCHANGED <<scenario, today, product, lot, purchase, sale, payable, payment,
                   drawer, shift, moved, aside, changes>>

\* syncProductStock: the lots as this transaction sees them are added up ...
Seen(p) == [i \in Slots |-> IF i \in work[p].locks THEN work[p].out.lots[i] ELSE lot[i]]
\* Bug to detect: the product keeps the stock it had.
NotSynced(p) ==
    /\ work[p] # Idle /\ work[p].stage = "changed"
    /\ work' = [work EXCEPT ![p].stage = "summed", ![p].sum = work[p].before]
    /\ UNCHANGED <<scenario, today, product, lot, purchase, sale, payable, payment,
                   drawer, shift, moved, aside, changes>>
AddUp(p) ==
    /\ work[p] # Idle /\ work[p].stage = "changed"
    /\ work' = [work EXCEPT ![p].stage = "summed",
                            ![p].sum = Total(Seen(p))]
    /\ UNCHANGED <<scenario, today, product, lot, purchase, sale, payable, payment,
                   drawer, shift, moved, aside, changes>>

Bought(b, q, n) == [status |-> "RECEIVED", qty |-> q, number |-> n]
Debt(original, paid) ==
    [status |-> IF paid > 0 THEN "PARTIALLY_PAID" ELSE "PENDING", original |-> original,
     balance |-> original - paid]
NextPayment(y) == payment[y].status = "NONE"
                  /\ \A z \in Payments : z < y => payment[z].status # "NONE"
NoCredit == UNCHANGED <<payable, payment, drawer>>

\* A payment leaves the drawer of the open shift, or none.
Paid(y, b, amount, h) ==
    /\ payment' = [payment EXCEPT ![y] = [status |-> "ACTIVE", of |-> b, amount |-> amount,
                                          shift |-> h]]
    /\ drawer' = IF h = 0 THEN drawer ELSE [drawer EXCEPT ![h] = @ + amount]

\* A purchase on credit with a down payment below the total, or without.
Credit(b, total) ==
    \/ NoCredit
    \/ /\ "pay" \in scenario.kinds
       /\ payable' = [payable EXCEPT ![b] = Debt(total, 0)]
       /\ UNCHANGED <<payment, drawer>>
    \/ /\ "pay" \in scenario.kinds
       /\ \E y \in Payments, h \in {0, shift} :
            /\ NextPayment(y) /\ total > 1
            /\ payable' = [payable EXCEPT ![b] = Debt(total, 1)]
            /\ Paid(y, b, 1, h)

\* syncProductStock is part of what a handler does to lots: a return of units no lot
\* gave, or an adjustment by nothing, does not reach it.
Syncs(w) == w.tracks /\ (w.out.locks # {} \/ (w.op.kind # "refund" /\ w.op.qty # 0))
\* Without control of lots the stock is incremented, or lowered; adjustStock
\* writes what it computed when it read, a row of a catalogue what it states.
StockAfter(w) ==
    CASE Syncs(w) -> w.sum
      [] ~Syncs(w) /\ w.op.kind = "import" -> w.op.ref
      [] ~w.tracks /\ w.op.kind = "adjustStock" -> w.before + w.out.units
      [] ~w.tracks /\ w.op.kind \notin {"import", "adjustStock"} -> product.stock + w.out.units
      [] OTHER -> product.stock

\* ... and the sum is written in the product with the rest, at the commit.
Commit(p) ==
    LET w == work[p] op == w.op IN
    /\ w # Idle /\ w.stage = "summed" /\ ProductFree(p)
    /\ lot' = Seen(p)
    /\ product' = [stock |-> StockAfter(w), tracks |-> Tracks(op)]
    /\ moved' = moved + w.out.units /\ aside' = aside + w.out.short
    /\ work' = [work EXCEPT ![p] = Idle]
    /\ \/ /\ op.kind = "buy"
          /\ purchase' = [purchase EXCEPT ![op.ref] = Bought(op.ref, op.qty, op.number)]
          /\ Credit(op.ref, UnitCost * op.qty)
          /\ UNCHANGED <<sale, changes>>
       \/ /\ op.kind = "unbuy"
          /\ purchase' = [purchase EXCEPT ![op.ref].status = "VOIDED"]
          /\ payable' = [payable EXCEPT ![op.ref].status =
                            IF @ = "NONE" THEN @ ELSE "CANCELLED"]
          /\ UNCHANGED <<sale, changes, payment, drawer>>
       \/ /\ op.kind \in {"sell", "offline"}
          /\ sale' = [sale EXCEPT ![op.ref] =
                        [status |-> "SOLD", qty |-> op.qty, take |-> w.out.take, returned |-> 0]]
          /\ NoCredit /\ UNCHANGED <<purchase, changes>>
       \/ /\ op.kind = "refund"
          /\ sale' = [sale EXCEPT ![op.ref].returned = @ + op.qty]
          /\ NoCredit /\ UNCHANGED <<purchase, changes>>
       \/ /\ op.kind \in {"adjust", "adjustStock", "count", "import"}
          /\ changes' = changes + 1
          /\ NoCredit /\ UNCHANGED <<purchase, sale>>
    /\ UNCHANGED <<scenario, today, shift>>

\* A timeout, a lost connection, the victim of a deadlock: nothing was written.
RollBack(p) ==
    /\ work[p] # Idle /\ scenario.together # {}
    /\ work' = [work EXCEPT ![p] = Idle]
    /\ UNCHANGED <<scenario, today, product, lot, purchase, sale, payable, payment,
                   drawer, shift, moved, aside, changes>>

-----------------------------------------------------------------------------
(* Edits of the product and of its lots, debts and shifts: one step each *)

Quiet == \A p \in Procs : work[p] = Idle
Rest == UNCHANGED <<scenario, purchase, sale, work>>

\* The stock typed in the product's form: a movement, and no lot changes.
EditStock == \E n \in 0 .. MaxUnits :
    /\ "edit" \in scenario.kinds /\ changes < scenario.changes /\ Quiet /\ n # product.stock
    /\ product' = [product EXCEPT !.stock = n]
    /\ moved' = moved + n - product.stock
    /\ aside' = aside - (n - product.stock)
    /\ changes' = changes + 1
    /\ UNCHANGED <<today, lot, payable, payment, drawer, shift>> /\ Rest

\* Control of lots begins with the stock there is in the lot INICIAL, but for a
\* product that has rows of lots from before, or no stock.
TrackLots ==
    LET begins == product.stock > 0 /\ \A i \in Slots : ~Exists(lot, i) IN
    /\ "track" \in scenario.kinds /\ Quiet /\ ~product.tracks
    /\ product' = [product EXCEPT !.tracks = TRUE]
    /\ lot' = IF begins THEN [lot EXCEPT ![Min(Slots)].number = Initial,
                                         ![Min(Slots)].qty = @ + product.stock]
              ELSE lot
    /\ aside' = IF begins THEN aside + product.stock ELSE aside
    /\ UNCHANGED <<today, payable, payment, drawer, shift, moved, changes>> /\ Rest

\* It ends, on confirmation where lots hold units; their rows stay.
UntrackLots ==
    /\ "untrack" \in scenario.kinds /\ Quiet /\ product.tracks
    /\ product' = [product EXCEPT !.tracks = FALSE]
    /\ UNCHANGED <<today, lot, payable, payment, drawer, shift, moved, aside, changes>> /\ Rest

\* updateBatch: number and date, while the number is not another lot's.
EditLot == \E i \in Slots, n \in Numbers, e \in Expiries \cup {0} :
    /\ "relabel" \in scenario.kinds /\ changes < scenario.changes /\ Quiet
    /\ Exists(lot, i) /\ Numbered(lot, n) \ {i} = {}
    /\ lot' = [lot EXCEPT ![i].number = n, ![i].exp = e]
    /\ changes' = changes + 1
    /\ UNCHANGED <<today, product, payable, payment, drawer, shift, moved, aside>> /\ Rest

NextDay == /\ today + 1 \in Days /\ today' = today + 1 /\ Quiet
           /\ UNCHANGED <<product, lot, payable, payment, drawer, shift, moved, aside, changes>>
           /\ Rest

Payable == /\ "pay" \in scenario.kinds
           /\ Quiet \/ \E p \in Procs : work[p] # Idle /\ Overlaps("pay")

RegisterPayment == \E y \in Payments, b \in Purchases, a \in scenario.units, h \in {0, shift} :
    /\ Payable /\ NextPayment(y)
    /\ payable[b].status \in {"PENDING", "PARTIALLY_PAID"} /\ a <= payable[b].balance
    /\ payable' = [payable EXCEPT ![b].balance = @ - a,
                     ![b].status = IF payable[b].balance = a THEN "PAID" ELSE "PARTIALLY_PAID"]
    /\ Paid(y, b, a, h)
    /\ UNCHANGED <<today, product, lot, shift, moved, aside, changes>> /\ Rest

\* Bug to detect: the cash goes into whatever drawer is open.
RefundsHere == \E y \in Payments :
    LET b == payment[y].of back == payable[b].balance + payment[y].amount IN
    /\ Payable /\ payment[y].status = "ACTIVE"
    /\ payment' = [payment EXCEPT ![y].status = "VOIDED"]
    /\ payable' = [payable EXCEPT ![b].balance = back,
                     ![b].status = IF back = payable[b].original THEN "PENDING"
                                   ELSE "PARTIALLY_PAID"]
    /\ drawer' = IF payment[y].shift # 0 /\ shift # 0
                 THEN [drawer EXCEPT ![shift] = @ - payment[y].amount] ELSE drawer
    /\ UNCHANGED <<today, product, lot, shift, moved, aside, changes>> /\ Rest
\* The cash goes back only into the drawer of a shift that is still open.
VoidPayment == \E y \in Payments :
    LET b == payment[y].of h == payment[y].shift back == payable[b].balance + payment[y].amount IN
    /\ Payable /\ payment[y].status = "ACTIVE"
    /\ payment' = [payment EXCEPT ![y].status = "VOIDED"]
    /\ payable' = [payable EXCEPT ![b].balance = back,
                     ![b].status = IF back = payable[b].original THEN "PENDING"
                                   ELSE "PARTIALLY_PAID"]
    /\ drawer' = IF h # 0 /\ h = shift THEN [drawer EXCEPT ![h] = @ - payment[y].amount]
                 ELSE drawer
    /\ UNCHANGED <<today, product, lot, shift, moved, aside, changes>> /\ Rest

OpenShift == \E h \in Shifts :
    /\ "pay" \in scenario.kinds /\ shift = 0 /\ Quiet
    /\ \A y \in Payments : payment[y].shift < h
    /\ shift' = h
    /\ UNCHANGED <<today, product, lot, payable, payment, drawer, moved, aside, changes>> /\ Rest
CloseShift ==
    /\ shift # 0 /\ Quiet /\ shift' = 0
    /\ UNCHANGED <<today, product, lot, payable, payment, drawer, moved, aside, changes>> /\ Rest

Next == \/ \E p \in Procs :
             \/ Buy(p) \/ Unbuy(p) \/ Sell(p) \/ SellOffline(p) \/ Refund(p)
             \/ AdjustStock(p) \/ Count(p)
             \/ Import(p) \/ Change(p) \/ AddUp(p) \/ Commit(p) \/ RollBack(p)
        \/ EditStock \/ TrackLots \/ UntrackLots \/ EditLot \/ NextDay
        \/ RegisterPayment \/ VoidPayment \/ OpenShift \/ CloseShift

Spec == Init /\ [][Next]_vars

-----------------------------------------------------------------------------
(* Properties *)

Alone == scenario.together = {}

\* What breaks the sum with one transaction at a time, and is not claimed: a stock
\* typed over the lots, control of lots ended and begun again beside the old ones,
\* and a row of a catalogue that turns it on (its lot gets the difference, or there is none).
Unbroken == /\ scenario.kinds \cap {"edit", "untrack"} = {}
            /\ scenario.tracks \/ "import" \notin scenario.kinds

\* batches.service.ts:563, "Invariante estricto: Product.stock = SUM(quantity)":
\* between transactions the stock of the product is the sum of its lots, but for a
\* stock below zero with which control of lots began, without a lot.  Stated for
\* every scenario; it fails where a purchase and a sale, or a sale and a return, overlap.
StockIsLots == Quiet /\ product.tracks /\ Unbroken =>
                 \/ product.stock = Total(lot)
                 \/ product.stock < 0 /\ Total(lot) = 0

\* The same while one transaction runs at a time.
StockIsLotsAlone == Alone => StockIsLots

\* The lots hold what the movements tell, but for what each handler knowingly
\* leaves out (`aside`: what is bought and sold without control of lots, a sale made
\* offline beyond the lots, a typed stock, the lot a stock gets that no movement
\* tells): no purchase, sale, return or annulment is lost under another that read the
\* lot before it, also when control of lots ends and begins meanwhile.
\* Nor does a lot fall below zero: it is checked before it is lowered without a lock
\* of its own, and only the lock of the product keeps a sale and the annulment of
\* the purchase from taking the same units.
LotsExplained == /\ Total(lot) = moved + aside
                 /\ \A i \in Slots : lot[i].qty >= 0

Active(h) == {y \in Payments : payment[y].shift = h /\ payment[y].status = "ACTIVE"}
Sum(Y) == SumFunction([y \in Y |-> payment[y].amount])
\* A debt is what the purchase cost less the payments that stand, paid exactly
\* when nothing is left of something owed, whatever order payments, their
\* annulments and the changes of shift come in; the open drawer misses exactly
\* what they took.  A voided purchase leaves no debt and no payment while handlers
\* do not overlap.
DebtsMatch ==
    /\ \A b \in Purchases : payable[b].status # "NONE" =>
         LET d == payable[b] IN
         /\ d.balance = d.original - Sum(ActivePayments(b)) /\ d.balance >= 0
         /\ d.status # "CANCELLED" /\ d.original > 0 =>
              /\ (d.status = "PAID") <=> (d.balance = 0)
              /\ (d.status = "PENDING") <=> (d.balance = d.original)
         /\ Alone /\ purchase[b].status = "VOIDED" =>
              d.status = "CANCELLED" /\ d.balance = d.original
    /\ shift # 0 => drawer[shift] = Sum(Active(shift))
=============================================================================
