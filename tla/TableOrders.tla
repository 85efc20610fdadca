---------------------------- MODULE TableOrders ----------------------------
(***************************************************************************)
(* The order of one restaurant table: its items, the kitchen's rounds, the *)
(* division of the bill into accounts and the checkout, translated from    *)
(* src/src/modules/pos/tables/tables.service.ts, split-equal.util.ts and   *)
(* kitchen.service.ts.                                                     *)
(*                                                                         *)
(* Only the checkout locks rows.  Every other handler reads the order,     *)
(* decides, and writes rows by id later: a request begins with a snapshot  *)
(* (seen) against which it is accepted, and commits an effect computed     *)
(* from that snapshot on the rows as they are by then.                     *)
(*                                                                         *)
(* Restrictions: one order, one dish without notes, no taxes; quantities   *)
(* are whole dishes, of Unit thousandths each where the bill is prorated.  *)
(* The split version a client may send is left out: it is compared at the  *)
(* start of the handler with the same row.                                 *)
(***************************************************************************)
EXTENDS Integers, FiniteSets, Functions

CONSTANTS
    ItemIds, AcctIds, RoundIds,   \* rows that may be created, in this order
    Stations,     \* kitchen printers
    Nothing,
    Price, Unit,  \* of a dish: cents, and parts a prorated quantity counts
    MaxDishes,    \* bound: dishes on the order
    Discounts,    \* discountAmount, in cents: stored, or sent with a checkout
    Handlers,     \* handlers in flight
    Settings      \* kinds of request; together: those that may overlap; calm:
                  \* a paid or equally divided bill is not changed; tokens:
                  \* the clientRequestIds sent; crash

ASSUME TableAssumption ==
    /\ ItemIds \cup AcctIds \cup RoundIds \subseteq Nat \ {0}
    /\ IsFiniteSet(ItemIds) /\ IsFiniteSet(AcctIds) /\ IsFiniteSet(RoundIds)
    /\ AcctIds = 1 .. Cardinality(AcctIds) /\ 2 \in AcctIds
    /\ {Price, Unit, MaxDishes} \subseteq Nat \ {0} /\ Discounts \subseteq Nat

VARIABLES
    setting,
    order,      \* the TableOrder with its items and accounts
    charged,    \* what its sales add up to; off: the discount that a checkout
                \* of the whole order came with
    round,      \* KitchenRound rows
    printing,   \* <<station, round>> while a station prints
    late,       \* those whose claim lapsed or was overtaken by a reprint
    work        \* each handler: its request, the order as it read it

tableVars == <<setting, order, charged, round, printing, late, work>>

NoItem  == [qty |-> 0, round |-> 0, acct |-> 0]
NoAcct  == [status |-> "NONE", fixed |-> 0]
NoRound == [type |-> "NONE", qty |-> 0, print |-> "NONE", stale |-> FALSE, token |-> Nothing]
Idle    == [kind |-> "idle"]

NewOrder == [status |-> "OPEN", mode |-> "NONE", disc |-> 0,
             items |-> [i \in ItemIds |-> NoItem], accts |-> [a \in AcctIds |-> NoAcct]]

TableInit ==
    /\ setting \in Settings
    /\ order = NewOrder
    /\ charged = [units |-> 0, cents |-> 0, sales |-> 0, off |-> 0]
    /\ round = [k \in RoundIds |-> NoRound]
    /\ printing = {} /\ late = {}
    /\ work = [r \in Handlers |-> Idle]

-----------------------------------------------------------------------------
(* Reading an order *)

Rows(o)     == {i \in ItemIds : o.items[i].qty > 0}
Unsent(o)   == {i \in Rows(o) : o.items[i].round = 0}
Accounts(o) == {a \in AcctIds : o.accts[a].status # "NONE"}
OpenAccts(o) == {a \in AcctIds : o.accts[a].status = "OPEN"}
Paid(o)     == {a \in AcctIds : o.accts[a].status = "PAID"}

Dishes(o, rows) == SumFunctionOnSet([i \in ItemIds |-> o.items[i].qty], rows)
Subtotal(o, rows) == Price * Dishes(o, rows)

Least(S)    == CHOOSE x \in S : \A y \in S : x <= y
Greatest(S) == CHOOSE x \in S : \A y \in S : x >= y
Lower(m, n) == IF m <= n THEN m ELSE n

Fixed(o, accts) == SumFunctionOnSet([a \in AcctIds |-> o.accts[a].fixed], accts)

\* Math.round(whole * part / all).
Share(whole, part, all) == (2 * whole * part + all) \div (2 * all)

Discount(o) == Lower(o.disc, Subtotal(o, Rows(o)))
Due(o)      == Subtotal(o, Rows(o)) - Discount(o)

\* The shares of all accounts but the last are rounded; the last takes the rest.
Residual(o, a, whole, weight, all) ==
    LET first == Accounts(o) \ {Greatest(Accounts(o))}
    IN  IF a \in first THEN Share(whole, weight[a], all)
        ELSE whole - SumFunctionOnSet([b \in first |-> Share(whole, weight[b], all)], first)

OfAcct(o, a) == {i \in Rows(o) : o.items[i].acct = a}

\* calculateSaleTotals: no discount is negative, nor is a total.
Positive(n)    == IF n > 0 THEN n ELSE 0
Net(sub, part) == Positive(sub - Positive(part))

RoundedCharge(o, a) ==
    [units |-> Unit * Dishes(o, OfAcct(o, a)),
     cents |-> Net(Subtotal(o, OfAcct(o, a)),
                   Share(Discount(o), Subtotal(o, OfAcct(o, a)), Subtotal(o, Rows(o))))]

\* The part of the discount that falls to an account.
ItemsPart(o, a) ==
    IF Discount(o) = 0 THEN 0
    ELSE Residual(o, a, Discount(o), [b \in AcctIds |-> Subtotal(o, OfAcct(o, b))],
                  Subtotal(o, Rows(o)))
EqualPart(o, a) ==
    IF Discount(o) = 0 \/ Fixed(o, Accounts(o)) = 0 THEN 0
    ELSE Residual(o, a, Discount(o), [b \in AcctIds |-> o.accts[b].fixed], Fixed(o, Accounts(o)))

\* What the sale of an account charges: in ITEMS its own rows less its part of
\* the discount; in EQUAL its fixed amount, as a subtotal that the discount is
\* taken from again, and of every row a part.
ItemsCharge(o, a) ==
    [units |-> Unit * Dishes(o, OfAcct(o, a)),
     cents |-> Net(Subtotal(o, OfAcct(o, a)), ItemsPart(o, a))]

EqualCharge(o, a) ==
    LET part(i) == Residual(o, a, Unit * o.items[i].qty, [b \in AcctIds |-> o.accts[b].fixed],
                            Fixed(o, Accounts(o)))
    IN  [units |-> SumFunctionOnSet([i \in Rows(o) |-> part(i)], Rows(o)),
         cents |-> Net(o.accts[a].fixed + EqualPart(o, a), EqualPart(o, a))]

Charge(o, a) == IF o.mode = "ITEMS" THEN ItemsCharge(o, a) ELSE EqualCharge(o, a)

\* An undivided order takes the discount that the checkout comes with, whatever
\* setOrderDiscount stored.
WholeCharge(o, off) ==
    [units |-> Unit * Dishes(o, Rows(o)), cents |-> Net(Subtotal(o, Rows(o)), off)]

CheckoutCharge(o, q) == IF q.acct = 0 THEN WholeCharge(o, q.n) ELSE Charge(o, q.acct)

AnyToken(t) == TRUE

\* The unique index refuses a second round with the client's request id.
TokenFree(t) == t # Nothing => \A k \in RoundIds : round[k].token # t

-----------------------------------------------------------------------------
(* What a handler accepts (Can) given the order it read.                    *)

CanAdd(o, q)    == o.status = "OPEN"
CanUpdate(o, q) == /\ o.status = "OPEN" /\ q.item \in Rows(o)
                   /\ o.items[q.item].round # 0 => q.n > o.items[q.item].qty
CanVoid(o, q)   == o.status = "OPEN" /\ q.item \in Rows(o) /\ q.n <= o.items[q.item].qty
CanSplit(o, q)  == o.status = "OPEN" /\ Rows(o) # {} /\ Paid(o) = {}
CanUndo(o, q)   == o.status = "OPEN" /\ Paid(o) = {}
CanMove(o, q)   == /\ o.status = "OPEN" /\ o.mode = "ITEMS"
                   /\ q.acct \in OpenAccts(o) /\ q.item \in Rows(o)
                   /\ o.items[q.item].acct \notin Paid(o) \cup {q.acct}
                   /\ q.n <= o.items[q.item].qty
CanGrow(o, q)   == /\ o.status = "OPEN" /\ o.mode # "NONE"
                   /\ Accounts(o) # {} => Greatest(Accounts(o)) < Greatest(AcctIds)
CanMerge(o, q)  == o.status = "OPEN" /\ q.acct # q.item /\ {q.acct, q.item} \subseteq OpenAccts(o)
CanDiscount(o, q) == o.status = "OPEN"
CanCancel(o, q) == o.status = "OPEN" /\ Paid(o) = {}
CanSend(o, q)   == /\ o.status = "OPEN" /\ Unsent(o) # {} /\ TokenFree(q.token)

\* checkoutTableOrder, under FOR UPDATE of the order and of the account.
Unpaid(o, a) == a \in OpenAccts(o)
CanCharge(o, q) == /\ o.status = "OPEN" /\ Rows(o) # {}
                   /\ IF o.mode = "NONE" /\ Accounts(o) = {} THEN q.acct = 0
                      ELSE /\ Unpaid(o, q.acct)
                           /\ o.mode = "ITEMS" => OfAcct(o, q.acct) # {}
                           \* nothing can be prorated over several parts of nothing
                           /\ o.mode = "EQUAL" => \/ Fixed(o, Accounts(o)) > 0
                                                  \/ Accounts(o) = {q.acct}

Can(o, q) ==
    CASE q.kind = "add"      -> CanAdd(o, q)
      [] q.kind = "update"   -> CanUpdate(o, q)
      [] q.kind = "void"     -> CanVoid(o, q)
      [] q.kind = "split"    -> CanSplit(o, q)
      [] q.kind = "move"     -> CanMove(o, q)
      [] q.kind = "grow"     -> CanGrow(o, q)
      [] q.kind = "merge"    -> CanMerge(o, q)
      [] q.kind = "undo"     -> CanUndo(o, q)
      [] q.kind = "discount" -> CanDiscount(o, q)
      [] q.kind = "cancel"   -> CanCancel(o, q)
      [] q.kind = "send"     -> CanSend(o, q)
      [] q.kind = "checkout" -> CanCharge(o, q)

-----------------------------------------------------------------------------
(* What it writes: from the order it read (s), on the order as it is (o).   *)

Free(o) == {i \in ItemIds : o.items[i].qty = 0}

SetRow(o, i, row) == [o EXCEPT !.items[i] = row]
NewRow(o, row)    == SetRow(o, Least(Free(o)), row)

\* A row not sent yet takes the addition, whichever account it is in.
Adding(s, o, n) ==
    IF Unsent(s) # {}
    THEN LET i == Least(Unsent(s))
         IN  SetRow(o, i, [o.items[i] EXCEPT !.qty = s.items[i].qty + n])
    ELSE NewRow(o, [qty |-> n, round |-> 0,
                    acct |-> IF s.mode = "ITEMS" /\ OpenAccts(s) # {}
                             THEN Least(OpenAccts(s)) ELSE 0])

\* A row that was sent keeps its quantity; the difference is a row of its own.
Updating(s, o, q) ==
    LET row == s.items[q.item]
        kin == {i \in Unsent(s) : s.items[i].acct = row.acct}
    IN  IF row.round = 0 THEN SetRow(o, q.item, [o.items[q.item] EXCEPT !.qty = q.n])
        ELSE IF kin # {}
             THEN LET i == Least(kin)
                  IN  SetRow(o, i, [o.items[i] EXCEPT !.qty = s.items[i].qty + q.n - row.qty])
             ELSE NewRow(o, [qty |-> q.n - row.qty, round |-> 0, acct |-> row.acct])

Voiding(s, o, q) == SetRow(o, q.item, [o.items[q.item] EXCEPT !.qty = s.items[q.item].qty - q.n])

Detached(o, a) == [i \in ItemIds |-> IF o.items[i].qty = 0 THEN NoItem
                                     ELSE [o.items[i] EXCEPT !.acct = a]]

\* The last part takes the cents that do not divide.
PartOf(total, k, parts) == total \div parts + IF k = parts THEN total % parts ELSE 0

\* q.n = 0: by items, into two accounts; otherwise into q.n equal parts.
Splitting(s, o, q) ==
    IF q.n = 0
    THEN [o EXCEPT !.mode = "ITEMS", !.items = Detached(o, 1),
                   !.accts = [a \in AcctIds |-> IF a <= 2 THEN [NoAcct EXCEPT !.status = "OPEN"]
                                                ELSE NoAcct]]
    ELSE [o EXCEPT !.mode = "EQUAL", !.items = Detached(o, 0),
                   !.accts = [a \in AcctIds |->
                       IF a <= q.n THEN [status |-> "OPEN", fixed |-> PartOf(Due(s), a, q.n)]
                       ELSE NoAcct]]

Undoing(o) == [o EXCEPT !.mode = "NONE", !.items = Detached(o, 0),
                        !.accts = [a \in AcctIds |-> NoAcct]]

MoveDishes(s, o, q) ==
    LET row == s.items[q.item]
    IN  IF q.n = row.qty THEN SetRow(o, q.item, [o.items[q.item] EXCEPT !.acct = q.acct])
        ELSE NewRow(SetRow(o, q.item, [o.items[q.item] EXCEPT !.qty = row.qty - q.n]),
                    [row EXCEPT !.qty = q.n, !.acct = q.acct])

\* An account more: what the open ones had left is divided again.
Growing(s, o) ==
    LET new  == IF Accounts(s) = {} THEN 1 ELSE Greatest(Accounts(s)) + 1
        left == Fixed(s, OpenAccts(s))
        n    == Cardinality(OpenAccts(s)) + 1
    IN  [o EXCEPT !.accts = [a \in AcctIds |->
            CASE a = new -> [status |-> "OPEN", fixed |-> PartOf(left, n, n)]
              [] s.mode = "EQUAL" /\ a \in OpenAccts(s) ->
                     [o.accts[a] EXCEPT !.fixed = PartOf(left, 1, n)]
              [] OTHER -> o.accts[a]]]

\* q.item is the account that disappears, q.acct the one that stays.
Merging(s, o, q) ==
    [o EXCEPT !.accts = [@ EXCEPT ![q.item] = NoAcct,
                                  ![q.acct].fixed = s.accts[q.acct].fixed + s.accts[q.item].fixed],
              !.items = [i \in ItemIds |-> IF o.items[i].qty > 0 /\ o.items[i].acct = q.item
                                           THEN [o.items[i] EXCEPT !.acct = q.acct]
                                           ELSE o.items[i]]]

Charging(o, q) ==
    LET paid == IF q.acct = 0 THEN o ELSE [o EXCEPT !.accts[q.acct].status = "PAID"]
    IN  IF OpenAccts(paid) = {} THEN [paid EXCEPT !.status = "CLOSED"] ELSE paid

Effect(s, o, q) ==
    CASE q.kind = "add"      -> Adding(s, o, 1)
      [] q.kind = "update"   -> Updating(s, o, q)
      [] q.kind = "void"     -> Voiding(s, o, q)
      [] q.kind = "split"    -> Splitting(s, o, q)
      [] q.kind = "move"     -> MoveDishes(s, o, q)
      [] q.kind = "grow"     -> Growing(s, o)
      [] q.kind = "merge"    -> Merging(s, o, q)
      [] q.kind = "undo"     -> Undoing(o)
      [] q.kind = "discount" -> [o EXCEPT !.disc = q.n]
      [] q.kind = "cancel"   -> [Undoing(o) EXCEPT !.mode = o.mode, !.status = "CANCELLED"]
      [] q.kind = "checkout" -> Charging(o, q)

-----------------------------------------------------------------------------
(* The handlers *)

Working == {r \in Handlers : work[r] # Idle}

\* What the clients of this setting ask for, and when.
Edits == {"add", "update", "void", "discount", "move", "grow", "merge"}

Asked(q) ==
    /\ q.kind \in setting.kinds
    /\ Working = {} \/ \A k \in {q.kind} \cup {work[r].q.kind : r \in Working} : k \in setting.together
    /\ setting.calm /\ q.kind \in Edits \ {"grow", "merge"} => order.mode # "EQUAL"
    /\ setting.calm /\ q.kind \in Edits => Paid(order) = {}

NoLock(q) == TRUE

\* The row locks of a checkout keep a second one waiting.
LockFree(q) == q.kind = "checkout" =>
                   ~\E r \in Working : work[r].q.kind = "checkout"

RoomFor(q) == /\ q.kind \in {"add", "update"} =>
                    Dishes(order, Rows(order)) + q.n <= MaxDishes /\ Free(order) # {}
              /\ q.kind = "move" => Free(order) # {}

Begin(r, kind, item, acct, n, token) ==
    LET q == [kind |-> kind, item |-> item, acct |-> acct, n |-> n, token |-> token]
    IN  /\ work[r] = Idle /\ Asked(q) /\ LockFree(q) /\ RoomFor(q)
        /\ Can(order, q)
        /\ work' = [work EXCEPT ![r] = [kind |-> "commit", q |-> q, seen |-> order]]
        /\ UNCHANGED <<setting, order, charged, round, printing, late>>

\* A row deleted meanwhile fails the update by its id.
StillThere(q) == q.kind \in {"update", "void", "move"} => q.item \in Rows(order)

\* voidOrderItem tells the kitchen after it has changed the row.
Told(w) == w.q.kind = "void" /\ w.seen.items[w.q.item].round # 0

Commit(r) ==
    LET w == work[r]
    IN  /\ w.kind = "commit" /\ w.q.kind # "send" /\ StillThere(w.q)
        /\ order' = Effect(w.seen, order, w.q)
        /\ charged' = IF w.q.kind # "checkout" THEN charged
                      ELSE LET c == CheckoutCharge(w.seen, w.q)
                           IN  [units |-> charged.units + c.units,
                                cents |-> charged.cents + c.cents,
                                sales |-> charged.sales + 1,
                                off |-> IF w.q.acct = 0 THEN w.q.n ELSE charged.off]
        /\ work' = [work EXCEPT ![r] = IF Told(w) THEN [w EXCEPT !.kind = "tell"] ELSE Idle]
        /\ UNCHANGED <<setting, round, printing, late>>

NewRound(type, n, token) ==
    /\ \E k \in RoundIds : round[k] = NoRound
    /\ round' = [round EXCEPT ![Least({k \in RoundIds : round[k] = NoRound})] =
                     [NoRound EXCEPT !.type = type, !.qty = n, !.print = "PENDING",
                                     !.token = token]]

\* sendToKitchen: the round and the mark on its rows in one transaction.
SendCommit(r) ==
    LET w == work[r]
        rows == Unsent(w.seen)
    IN  /\ w.kind = "commit" /\ w.q.kind = "send" /\ TokenFree(w.q.token)
        /\ NewRound("SEND", Dishes(w.seen, rows), w.q.token)
        /\ order' = [order EXCEPT !.items = [i \in ItemIds |->
                        IF i \in rows /\ order.items[i].qty > 0
                        THEN [order.items[i] EXCEPT !.round = 1] ELSE order.items[i]]]
        /\ work' = [work EXCEPT ![r] = Idle]
        /\ UNCHANGED <<setting, charged, printing, late>>

VoidTell(r) ==
    /\ work[r].kind = "tell"
    /\ NewRound("VOID", work[r].q.n, Nothing)
    /\ work' = [work EXCEPT ![r] = Idle]
    /\ UNCHANGED <<setting, order, charged, printing, late>>

\* A refusal at the end of a handler, or a crash.
Abandon(r) ==
    /\ \/ work[r] # Idle /\ setting.crash
       \/ work[r] # Idle /\ work[r].kind = "commit"
          /\ ~(StillThere(work[r].q) /\ (work[r].q.kind = "send" => TokenFree(work[r].q.token)))
    /\ work' = [work EXCEPT ![r] = Idle]
    /\ UNCHANGED <<setting, order, charged, round, printing, late>>

-----------------------------------------------------------------------------
(* kitchen.service: stations print the rounds                               *)

Claimable(k) == \/ round[k].print = "PENDING"
                \/ round[k].print = "PRINTING" /\ round[k].stale

Printers(k) == {p \in printing : p[2] = k}

ClaimPrint(st, k) ==
    /\ "print" \in setting.kinds /\ Claimable(k)
    /\ <<st, k>> \notin printing
    /\ round' = [round EXCEPT ![k].print = "PRINTING", ![k].stale = FALSE]
    /\ printing' = printing \cup {<<st, k>>}
    /\ UNCHANGED <<setting, order, charged, late, work>>

\* markPrinted and markPrintFailed ask for no claim.
MarkPrint(st, k) ==
    /\ <<st, k>> \in printing
    /\ \E result \in {"PRINTED", "FAILED"} : round' = [round EXCEPT ![k].print = result]
    /\ printing' = printing \ {<<st, k>>}
    /\ late' = late \ {<<st, k>>}
    /\ UNCHANGED <<setting, order, charged, work>>

\* Sixty seconds pass since the claim.
ClaimLapses(k) ==
    /\ round[k].print = "PRINTING" /\ ~round[k].stale
    /\ round' = [round EXCEPT ![k].stale = TRUE]
    /\ late' = late \cup Printers(k)
    /\ UNCHANGED <<setting, order, charged, printing, work>>

Reprint(k) ==
    /\ "print" \in setting.kinds /\ round[k].print # "NONE"
    /\ round' = [round EXCEPT ![k].print = "PENDING", ![k].stale = FALSE]
    /\ late' = late \cup Printers(k)
    /\ UNCHANGED <<setting, order, charged, printing, work>>

-----------------------------------------------------------------------------
Amounts == 0 .. MaxDishes

Begins(r) ==
    \/ Begin(r, "add", 0, 0, 1, Nothing)
    \/ \E i \in ItemIds, n \in Amounts :
        \/ Begin(r, "update", i, 0, n, Nothing)
        \/ n > 0 /\ Begin(r, "void", i, 0, n, Nothing)
        \/ \E a \in AcctIds : n > 0 /\ Begin(r, "move", i, a, n, Nothing)
    \/ \E n \in {0} \cup (AcctIds \ {1}) : Begin(r, "split", 0, 0, n, Nothing)
    \/ \E a, b \in AcctIds : Begin(r, "merge", a, b, 0, Nothing)
    \/ \E d \in Discounts : Begin(r, "discount", 0, 0, d, Nothing)
    \/ \E off \in {0} \cup Discounts : Begin(r, "checkout", 0, 0, off, Nothing)
    \/ \E a \in AcctIds : Begin(r, "checkout", 0, a, 0, Nothing)
    \/ \E t \in setting.tokens : Begin(r, "send", 0, 0, 0, t)
    \/ \E kind \in {"grow", "undo", "cancel"} : Begin(r, kind, 0, 0, 0, Nothing)

TableNext ==
    \/ \E r \in Handlers : Begins(r) \/ Commit(r) \/ SendCommit(r) \/ VoidTell(r) \/ Abandon(r)
    \/ \E st \in Stations, k \in RoundIds : ClaimPrint(st, k) \/ MarkPrint(st, k)
    \/ \E k \in RoundIds : ClaimLapses(k) \/ Reprint(k)

TableSpec == TableInit /\ [][TableNext]_tableVars

-----------------------------------------------------------------------------
(* Properties *)

\* checkoutTableOrder: a closed order has charged every unit on it and exactly
\* what was due (divided, less the stored discount; undivided, less the one the
\* checkout came with), in as many sales as it was divided into; a cancelled one
\* nothing; and two checkouts at a time never charge an account, or an order, twice.
Owed == IF order.mode = "NONE" THEN Net(Subtotal(order, Rows(order)), charged.off)
        ELSE Due(order)

ChargedInFull ==
    /\ charged.sales <= IF order.mode = "NONE" THEN 1 ELSE Cardinality(Paid(order))
    /\ order.status = "CLOSED" => /\ charged.units = Unit * Dishes(order, Rows(order))
                                  /\ charged.cents = Owed
    /\ order.status = "CANCELLED" => charged.sales = 0

\* sendToKitchen, updateOrderItem, voidOrderItem, moveSplitItem: what the rounds
\* told the kitchen, less what they told it was voided, is what is on the order.
\* claimPrint: a round has one current claim, whatever lapsed or was reprinted.
RoundSum(type) == SumFunctionOnSet([k \in RoundIds |-> round[k].qty],
                                   {k \in RoundIds : round[k].type = type})

KitchenMatches ==
    /\ (\A r \in Working : work[r].kind # "tell") =>
          RoundSum("SEND") - RoundSum("VOID") = Dishes(order, Rows(order) \ Unsent(order))
    /\ \A k \in RoundIds : Cardinality(Printers(k) \ late) <= 1

=============================================================================
