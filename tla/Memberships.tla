---------------------------- MODULE Memberships ----------------------------
(***************************************************************************)
(* The membership, the products and the commercial agreement of one        *)
(* business, translated from superadmin.service.ts (createBusiness,        *)
(* createMembership, updateMembership, reconcileExpiredMemberships),       *)
(* superadmin/utils/membership-billing.util.ts, business-products.service  *)
(* and superadmin/commercial/commercial.service.ts under src/src/modules.  *)
(*                                                                         *)
(* A day is a number and MonthDays gives the length of each month, so that *)
(* an anchor day may be missing in a month as the 31st is in February.     *)
(* Registering a membership or a commercial payment is two actions: what   *)
(* the handler reads outside its transaction, and the transaction.  The    *)
(* hourly cron is one action per statement.                                *)
(***************************************************************************)
EXTENDS Integers, Sequences, FiniteSets, Functions

CONSTANTS
    Products,        \* products of the business that a membership pays
    Admins,          \* superadmins at work at the same time
    MonthDays,       \* length of each month of the calendar
    Grace,           \* days of grace after a due date (3 in the code)
    FreeMonths,      \* months without maintenance by default (12 in the code)
    Terms,           \* bodies of PUT commercial-agreement
    Amounts,         \* amounts of a commercial payment
    Settings,        \* what is run: see SettingAssumption
    MaxMonths        \* bound: months an agreement may reach ahead

ASSUME CalendarAssumption ==
    /\ MonthDays \in Seq(Nat) /\ Len(MonthDays) >= 2
    /\ {Grace, FreeMonths, MaxMonths} \subseteq Nat /\ FreeMonths <= MaxMonths
    /\ \A m \in 1 .. Len(MonthDays) : MonthDays[m] > Grace + 1

Absent == -1   \* an amount or a count the body leaves out

\* A body fits the calendar; an amount paid is positive.
ASSUME TermAssumption ==
    /\ \A t \in Terms :
          /\ t.type \in {"CREDITO", "CONTADO", "none"}
          /\ {t.total, t.down, t.count} \subseteq Nat \cup {Absent}
          /\ t.free \in 0 .. MaxMonths \cup {Absent}
    /\ Amounts \subseteq Nat \ {0}

(***************************************************************************)
(* The calendar of America/Managua.                                        *)
(***************************************************************************)
Months == 1 .. Len(MonthDays)
FirstOf == [m \in 1 .. (Len(MonthDays) + 1) |-> 1 + SumFunctionOnSet(MonthDays, 1 .. (m - 1))]
Days == 1 .. (FirstOf[Len(MonthDays) + 1] - 1)

Least(a, b) == IF a <= b THEN a ELSE b
MonthOf(d) == CHOOSE m \in Months : FirstOf[m] <= d /\ d < FirstOf[m + 1]
DayOf(d) == d - FirstOf[MonthOf(d)] + 1

\* The day of a month on which a given day of the month falls: its last one at most.
OnDay(m, day) == FirstOf[m] + Least(day, MonthDays[m]) - 1

AddMonths(d, n) == OnDay(MonthOf(d) + n, DayOf(d))

DueDrifting(start, anchorDay) == AddMonths(start, 1)

\* A period ends on the anchor day of the month after the one it starts in.
DueDate(start, anchorDay) == OnDay(MonthOf(start) + 1, anchorDay)

GraceEnd(due, days) == due + days + 1

\* first: products chosen when the business is created; products: those a payment may
\* itemise; edits: end dates are edited; agreement: there is a commercial agreement;
\* apart: no request runs during the cron; days, members, pays: bounds.  An edited date
\* leaves a month for the next period.
ASSUME SettingAssumption ==
    \A sc \in Settings :
        /\ sc.first \subseteq Products /\ sc.products \subseteq Products
        /\ sc.admins \subseteq Admins /\ IsFiniteSet(sc.admins)
        /\ {sc.edits, sc.agreement, sc.apart, sc.crash} \subseteq BOOLEAN
        /\ {sc.members, sc.pays} \subseteq Nat
        /\ sc.days \in Days /\ (sc.edits => MonthOf(sc.days) < Len(MonthDays))

(***************************************************************************)
(* State.                                                                  *)
(***************************************************************************)
Nothing == "none"

VARIABLES
    setting,
    day,
    anchor,      \* billingAnchorDay, 0 while there is none
    mems,        \* memberships: start, end, status and the products they itemise
    sub,         \* status of the subscription of each product
    flag,        \* hasPOS, hasTrackDeli, hasCitas... of the business
    agr, inst, pays,   \* the commercial agreement, its installments and payments
    request,     \* what the open request of each admin has read
    cron,        \* where the run of the cron stands
    swept        \* the cron has run to its end today

subs == <<sub, flag>>
deal == <<agr, inst, pays>>
membershipVars == <<setting, day, anchor, mems, subs, deal, request, cron, swept>>

NoRequest == [kind |-> Nothing]
NoDeal == [type |-> Nothing]
Idle == [pc |-> "idle", ids |-> {}, todo |-> {}, cur |-> Nothing]

\* createBusiness: the chosen products are active, and one membership itemises them.
FirstMembership(products) ==
    [start |-> 1, end |-> DueDate(1, 1), status |-> "ACTIVE", items |-> products]

MembershipInit ==
    /\ setting \in Settings
    /\ day = 1 /\ swept = FALSE /\ cron = Idle
    /\ anchor = IF setting.first = {} THEN 0 ELSE 1
    /\ mems = IF setting.first = {} THEN <<>> ELSE << FirstMembership(setting.first) >>
    /\ sub = [p \in Products |-> IF p \in setting.first THEN "ACTIVE" ELSE "INACTIVE"]
    /\ flag = [p \in Products |-> p \in setting.first]
    /\ agr = NoDeal /\ inst = <<>> /\ pays = <<>>
    /\ request = [a \in Admins |-> NoRequest]

(***************************************************************************)
(* computeBusinessCoverage.                                                *)
(***************************************************************************)
AnchorOf(start) == IF anchor # 0 THEN anchor ELSE DayOf(start)
GraceOf(k) == GraceEnd(DueDate(mems[k].start, AnchorOf(mems[k].start)), Grace)

Valid == {k \in 1 .. Len(mems) : mems[k].status \in {"ACTIVE", "EXPIRED"}}

\* The membership with the latest end, of those the latest start.
Latest(S) == CHOOSE k \in S : \A j \in S :
    \/ mems[j].end < mems[k].end
    \/ mems[j].end = mems[k].end /\ mems[j].start <= mems[k].start

\* An installment not paid in full blocks the business when its grace is over.
Blocked ==
    /\ agr # NoDeal /\ agr.type = "CREDITO"
    /\ \E n \in 1 .. Len(inst) :
          inst[n].paid < inst[n].amount /\ day >= GraceEnd(inst[n].due, agr.grace)

\* The end of what covers the business and where it comes from; what reaches
\* furthest counts.
Covering ==
    LET free == IF agr # NoDeal /\ agr.freeUntil # 0 THEN GraceEnd(agr.freeUntil, Grace) ELSE 0
        memb == IF Valid = {} THEN 0 ELSE GraceOf(Latest(Valid))
    IN  IF free # 0 /\ free >= memb
        THEN [source |-> "MAINTENANCE_FREE", until |-> free]
        ELSE [source |-> "MEMBERSHIP", until |-> memb]
CoveredToday == day < Covering.until /\ ~Blocked

\* Requests of one admin: at most one at a time, and none during the cron where
\* they are kept apart.
Free(a) == a \in setting.admins /\ request[a] = NoRequest
Serving == setting.apart => cron.pc = "idle"

(***************************************************************************)
(* Memberships.                                                            *)
(***************************************************************************)
FromFirst(S) == CHOOSE k \in S : \A j \in S : mems[k].end <= mems[j].end

\* The membership the next period follows: cancelled ones count.
Previous(S) == Latest(S)

NewAnchor == IF anchor # 0 THEN anchor
             ELSE IF mems = <<>> THEN DayOf(day) ELSE DayOf(mems[1].start)

NewStart ==
    IF mems # <<>>
    THEN DueDate(mems[Previous(1 .. Len(mems))].start, NewAnchor)
    ELSE IF agr # NoDeal /\ agr.freeUntil # 0 THEN agr.freeUntil ELSE day

\* createMembership, before its transaction.
BeginMembership(a, items) ==
    /\ Free(a) /\ Serving /\ Len(mems) < setting.members
    /\ MonthOf(NewStart) < Len(MonthDays)
    /\ request' = [request EXCEPT ![a] =
           [kind |-> "membership", start |-> NewStart, items |-> items,
            anchor |-> NewAnchor, hadAnchor |-> anchor # 0]]
    /\ UNCHANGED <<setting, day, anchor, mems, subs, deal, cron, swept>>

\* Its transaction: the membership, the anchor, and its products while its grace lasts.
CommitMembership(a) ==
    LET r == request[a]
        m == [start |-> r.start, end |-> DueDate(r.start, r.anchor), status |-> "ACTIVE",
              items |-> r.items]
        on == IF day < GraceEnd(m.end, Grace) THEN r.items ELSE {}
    IN  /\ r.kind = "membership" /\ Serving
        /\ mems' = Append(mems, m)
        /\ anchor' = IF r.hadAnchor THEN anchor ELSE r.anchor
        /\ sub' = [p \in Products |-> IF p \in on THEN "ACTIVE" ELSE sub[p]]
        /\ flag' = [p \in Products |-> p \in on \/ flag[p]]
        /\ request' = [request EXCEPT ![a] = NoRequest]
        /\ UNCHANGED <<setting, day, deal, cron, swept>>

\* updateMembership writes what it is given: a status, another start or end.
EditMembership(a, k) ==
    /\ Free(a) /\ Serving
    /\ \/ mems' = [mems EXCEPT ![k].status = "CANCELLED"]
       \/ setting.edits /\ \/ mems' = [mems EXCEPT ![k].status = "ACTIVE"]
                            \/ mems' = [mems EXCEPT ![k].start = @ + 1]
                            \/ mems' = [mems EXCEPT ![k].end = @ + 1]
    /\ mems' # mems
    /\ mems'[k].end <= setting.days /\ mems'[k].start < mems'[k].end
    /\ UNCHANGED <<setting, day, anchor, subs, deal, request, cron, swept>>

(***************************************************************************)
(* Products.                                                               *)
(***************************************************************************)
\* An active membership that itemises the product and whose period holds today: it
\* ends as the day of its end begins.
PaidToday(p) == \E k \in 1 .. Len(mems) :
    /\ p \in mems[k].items /\ mems[k].status = "ACTIVE"
    /\ mems[k].start <= day /\ day < mems[k].end

\* syncLegacyBusinessFields: the flag of the business follows in the same transaction.
Sync(p, on) == flag' = [flag EXCEPT ![p] = on]

Activated(p) == sub' = [sub EXCEPT ![p] = "ACTIVE"] /\ Sync(p, TRUE)

Deactivated(p) == sub' = [sub EXCEPT ![p] = "INACTIVE"] /\ Sync(p, FALSE)

\* An active product is activated again: its flag is written once more.
ActivateProduct(a, p) ==
    /\ Free(a) /\ Serving /\ PaidToday(p)
    /\ Activated(p)
    /\ UNCHANGED <<setting, day, anchor, mems, deal, request, cron, swept>>

\* deactivateProduct, forced or with nothing pending.
DeactivateProduct(a, p) ==
    /\ Free(a) /\ Serving /\ sub[p] = "ACTIVE"
    /\ Deactivated(p)
    /\ UNCHANGED <<setting, day, anchor, mems, deal, request, cron, swept>>

\* With a reason, whatever is pending.
DeactivateNow(a, p) ==
    /\ Free(a) /\ Serving /\ sub[p] = "ACTIVE"
    /\ Deactivated(p)
    /\ UNCHANGED <<setting, day, anchor, mems, deal, request, cron, swept>>

\* hasActiveMembershipCoverage, after the business: a membership that itemises the
\* product and whose grace lasts.
OwnCover(p) == \E k \in Valid :
    p \in mems[k].items /\ mems[k].start <= day /\ day < GraceOf(k)

\* isActive, which every guard asks: whatever covers the business serves the product.
\* (The trial of a product is in Access.)
Runs(p) == sub[p] = "ACTIVE" /\ (CoveredToday \/ OwnCover(p))

\* getProducts: of what covers the business only the months without maintenance count.
Shown(p) ==
    /\ sub[p] = "ACTIVE"
    /\ OwnCover(p) \/ (CoveredToday /\ Covering.source = "MAINTENANCE_FREE")

(***************************************************************************)
(* reconcileExpiredMemberships, every hour.                                *)
(***************************************************************************)
CronRead ==
    LET ids == {k \in 1 .. Len(mems) : mems[k].status = "ACTIVE" /\ day >= GraceOf(k)} IN
    /\ cron.pc = "idle" /\ ~swept
    /\ setting.apart => \A a \in Admins : request[a] = NoRequest
    /\ IF ids = {} THEN swept' = TRUE /\ UNCHANGED cron
       ELSE cron' = [Idle EXCEPT !.pc = "expire", !.ids = ids] /\ UNCHANGED swept
    /\ UNCHANGED <<setting, day, anchor, mems, subs, deal, request>>

\* The memberships read are expired by their ids, whatever became of them since.
CronExpire ==
    /\ cron.pc = "expire"
    /\ mems' = [k \in 1 .. Len(mems) |->
                  IF k \in cron.ids THEN [mems[k] EXCEPT !.status = "EXPIRED"] ELSE mems[k]]
    /\ cron' = [cron EXCEPT !.pc = "products", !.todo = UNION {mems[k].items : k \in cron.ids}]
    /\ UNCHANGED <<setting, day, anchor, subs, deal, request, swept>>

\* hasOtherCoverage: another membership pays the product today.
PaidOtherwise(p) == PaidToday(p)

SparedByCover(p) == sub[p] # "ACTIVE" \/ PaidOtherwise(p) \/ CoveredToday

\* What the cron leaves on: other products of a covered business do not save one.
Spared(p) ==
    \/ sub[p] # "ACTIVE"
    \/ PaidOtherwise(p)
    \/ CoveredToday /\ Covering.source = "MAINTENANCE_FREE"

CronLook(p) ==
    /\ cron.pc = "products" /\ p \in cron.todo
    /\ cron' = IF Spared(p) THEN [cron EXCEPT !.todo = @ \ {p}]
               ELSE [cron EXCEPT !.pc = "cut", !.cur = p]
    /\ UNCHANGED <<setting, day, anchor, mems, subs, deal, request, swept>>

CronCut ==
    /\ cron.pc = "cut"
    /\ sub' = [sub EXCEPT ![cron.cur] = "INACTIVE"]
    /\ cron' = [cron EXCEPT !.pc = "flag"]
    /\ UNCHANGED <<setting, day, anchor, mems, flag, deal, request, swept>>

\* The flag of the business follows in a statement of its own.
FlagCleared == flag' = [flag EXCEPT ![cron.cur] = FALSE]

CronFlag ==
    /\ cron.pc = "flag"
    /\ FlagCleared
    /\ cron' = [cron EXCEPT !.pc = "products", !.todo = @ \ {cron.cur}, !.cur = Nothing]
    /\ UNCHANGED <<setting, day, anchor, mems, sub, deal, request, swept>>

CronEnd ==
    /\ cron.pc = "products" /\ cron.todo = {}
    /\ cron' = Idle /\ swept' = TRUE
    /\ UNCHANGED <<setting, day, anchor, mems, subs, deal, request>>

\* The process stops during a run.
CronDies ==
    /\ setting.crash /\ cron.pc # "idle" /\ cron' = Idle
    /\ UNCHANGED <<setting, day, anchor, mems, subs, deal, request, swept>>

(***************************************************************************)
(* The commercial agreement.                                               *)
(***************************************************************************)
Or(value, otherwise) == IF value = Absent THEN otherwise ELSE value
TypeOr(type, otherwise) == IF type = Nothing THEN otherwise ELSE type

Standing(kinds) == {k \in 1 .. Len(pays) : ~pays[k].void /\ pays[k].kind \in kinds}
Sum(kinds) == SumFunctionOnSet([k \in 1 .. Len(pays) |-> pays[k].amount], Standing(kinds))
Kinds == {"ADELANTO", "CUOTA", "PAGO"}
Paid == Sum(Kinds)

\* generateInstallments: equal parts, the last one with what is left.
Installments(financed, n, first) ==
    [k \in 1 .. n |-> [due |-> AddMonths(first, k - 1), paid |-> 0,
                       amount |-> IF k = n THEN financed - (n - 1) * (financed \div n)
                                  ELSE financed \div n]]

Since == IF agr = NoDeal THEN day ELSE agr.since

\* What an upsert resolves from its body, the agreement there is and the defaults.
Resolved(t) ==
    LET old == agr # NoDeal
        type == TypeOr(t.type, IF old THEN agr.type ELSE "CONTADO")
        total == Or(t.total, IF old THEN agr.total ELSE 0)
        credit == type = "CREDITO"
        down == IF ~credit THEN 0 ELSE Or(t.down, total \div 2)
        months == Or(t.free, FreeMonths)
    IN  [type |-> IF old THEN TypeOr(t.type, "CONTADO") ELSE type, credit |-> credit,
         total |-> total, down |-> down, since |-> Since, grace |-> Grace,
         count |-> IF credit THEN Or(t.count, 1) ELSE 0,
         freeUntil |-> IF months = 0 THEN 0 ELSE AddMonths(Since, months)]

\* The lock of the terms compares what the body asks for with what there is.
TermsChanged(t) ==
    \/ TypeOr(t.type, agr.type) # agr.type \/ Or(t.total, agr.total) # agr.total
    \/ Or(t.down, agr.down) # agr.down \/ Or(t.count, agr.count) # agr.count

Upsert(a, t) ==
    LET r == Resolved(t)
        financed == IF r.credit THEN r.total - r.down ELSE 0
    IN  /\ setting.agreement /\ Free(a) /\ Serving
        /\ MonthOf(Since) + MaxMonths <= Len(MonthDays)
        /\ agr = NoDeal => t.total # Absent
        /\ agr # NoDeal /\ Standing(Kinds) # {} => ~TermsChanged(t)
        /\ agr' = [type |-> r.type, total |-> r.total, down |-> r.down, count |-> r.count,
                   grace |-> r.grace, since |-> r.since, freeUntil |-> r.freeUntil,
                   status |-> IF agr = NoDeal THEN "VIGENTE" ELSE agr.status]
        /\ inst' = IF Standing(Kinds) # {} THEN inst
                   ELSE IF financed > 0
                        THEN Installments(financed, r.count, AddMonths(r.since, 1)) ELSE <<>>
        /\ anchor' = IF anchor = 0 THEN DayOf(r.since) ELSE anchor
        /\ UNCHANGED <<setting, day, mems, subs, pays, request, cron, swept>>

\* recordPayment, before its transaction: the balance is compared with what was read.
BeginPayment(a, kind, amount) ==
    /\ agr # NoDeal /\ Free(a) /\ Serving /\ Len(pays) < setting.pays
    /\ amount <= agr.total - Paid
    /\ kind = "ADELANTO" => amount <= agr.down - Sum({"ADELANTO"})
    /\ request' = [request EXCEPT ![a] =
           [kind |-> kind, amount |-> amount, balance |-> agr.total - Paid]]
    /\ UNCHANGED <<setting, day, anchor, mems, subs, deal, cron, swept>>

AllKinds == Kinds

\* The kinds of payment that settle installments; advances do not.
Settling == {"CUOTA", "PAGO"}

\* recalculateInstallmentsInternal: payments fill the installments in order.
Refilled(seq) ==
    LET money == SumFunctionOnSet([k \in 1 .. Len(seq) |-> seq[k].amount],
                   {k \in 1 .. Len(seq) : ~seq[k].void /\ seq[k].kind \in Settling})
        owedBefore(n) == SumFunctionOnSet([k \in 1 .. Len(inst) |-> inst[k].amount], 1 .. (n - 1))
        left(n) == money - owedBefore(n)
    IN  [n \in 1 .. Len(inst) |->
           [inst[n] EXCEPT !.paid = IF left(n) <= 0 THEN 0 ELSE Least(left(n), inst[n].amount)]]

CommitPayment(a) ==
    LET r == request[a] IN
    /\ r.kind \in Kinds /\ Serving
    /\ pays' = Append(pays, [kind |-> r.kind, amount |-> r.amount, void |-> FALSE])
    /\ inst' = Refilled(pays')
    /\ agr' = IF r.balance <= r.amount THEN [agr EXCEPT !.status = "LIQUIDADO"] ELSE agr
    /\ request' = [request EXCEPT ![a] = NoRequest]
    /\ UNCHANGED <<setting, day, anchor, mems, subs, cron, swept>>

\* voidPayment: an agreement that was settled is due again.
VoidPayment(a, k) ==
    /\ Free(a) /\ Serving /\ ~pays[k].void
    /\ pays' = [pays EXCEPT ![k].void = TRUE]
    /\ inst' = Refilled(pays')
    /\ agr' = IF Paid - pays[k].amount < agr.total /\ agr.status = "LIQUIDADO"
              THEN [agr EXCEPT !.status = "VIGENTE"] ELSE agr
    /\ UNCHANGED <<setting, day, anchor, mems, subs, request, cron, swept>>

\* A day passes; a request or a run of the cron ends within its day.
DayPasses ==
    /\ day < setting.days /\ cron.pc = "idle" /\ \A a \in Admins : request[a] = NoRequest
    /\ day' = day + 1 /\ swept' = FALSE
    /\ UNCHANGED <<setting, anchor, mems, subs, deal, request, cron>>

MembershipNext ==
    \/ DayPasses \/ CronRead \/ CronExpire \/ CronCut \/ CronFlag \/ CronEnd \/ CronDies
    \/ \E p \in Products : CronLook(p)
    \/ \E a \in Admins :
          \/ \E items \in SUBSET setting.products : BeginMembership(a, items)
          \/ CommitMembership(a)
          \/ \E k \in 1 .. Len(mems) : EditMembership(a, k)
          \/ \E p \in Products :
                ActivateProduct(a, p) \/ DeactivateProduct(a, p) \/ DeactivateNow(a, p)
          \/ \E t \in Terms : Upsert(a, t)
          \/ \E kind \in Kinds, n \in Amounts : BeginPayment(a, kind, n)
          \/ CommitPayment(a)
          \/ \E k \in 1 .. Len(pays) : VoidPayment(a, k)

MembershipSpec == MembershipInit /\ [][MembershipNext]_membershipVars

-----------------------------------------------------------------------------
(***************************************************************************)
(* Correctness.                                                            *)
(***************************************************************************)
Requesting == \E a \in Admins : request[a] # NoRequest
Swept == swept /\ agr = NoDeal /\ ~setting.crash /\ ~setting.edits

\* A day the cron has run, a product that memberships paid and none pays any more is
\* off: it does not go on under the membership of another product, so that, unless a
\* membership was cancelled or is paid ahead, the panel shows active just the products
\* that the guards serve.  Between two runs the flags say what the subscriptions say.
LapsedIsCut ==
    /\ cron.pc = "idle" /\ ~setting.crash =>
          \A p \in Products : flag[p] = (sub[p] = "ACTIVE")
    /\ Swept =>
          \A p \in Products :
             LET paying == {k \in 1 .. Len(mems) : p \in mems[k].items}
             IN  (/\ paying # {} /\ \A k \in paying : mems[k].status # "CANCELLED"
                  /\ \A k \in paying : day >= GraceOf(k))
                 => sub[p] = "INACTIVE"
    /\ Swept /\ (\A k \in 1 .. Len(mems) : mems[k].status # "CANCELLED" /\ mems[k].start <= day) =>
          \A p \in Products : Shown(p) = Runs(p)

\* No month is paid twice, and a period after the first starts on the anchor day, on
\* the last of the month where it is shorter, and goes back to it afterwards.
PeriodsInOrder ==
    ~setting.edits /\ Cardinality(setting.admins) = 1 =>
        \A j, k \in 1 .. Len(mems) : j < k =>
            /\ mems[j].end <= mems[k].start
            /\ mems[k].start = OnDay(MonthOf(mems[k].start), anchor)

InstallmentsPaid == \A n \in 1 .. Len(inst) : inst[n].paid = inst[n].amount

\* The agreement is settled exactly when it is paid; then no installment is owed that
\* could block the business, and the down payment and every installment make it settled.
SettledMeansClear ==
    agr # NoDeal /\ ~Requesting =>
        /\ (agr.status = "LIQUIDADO") <=> (Paid >= agr.total)
        /\ agr.status = "LIQUIDADO" => InstallmentsPaid
        /\ (inst # <<>> /\ InstallmentsPaid /\ Sum({"ADELANTO"}) = agr.down)
              => agr.status = "LIQUIDADO"
=============================================================================
