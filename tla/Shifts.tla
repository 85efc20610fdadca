------------------------------- MODULE Shifts -------------------------------
(***************************************************************************)
(* Cash register shifts (turnos): opening, adoption by a computer, sales   *)
(* and movements bound to a shift, recounts and the close, translated from *)
(* src/src/modules/pos/cash-register/cash-register.service.ts and the      *)
(* lookup of the shift in sales.service.ts; and the expenses paid from the *)
(* drawer, from src/src/modules/pos/expenses/expenses.service.ts.          *)
(*                                                                         *)
(* The handlers of the register run without a transaction: each statement  *)
(* that decides or writes is an action, and what was read before it waits  *)
(* in loc.  A sale finds its shift at the start of its transaction and     *)
(* appears when that commits.                                              *)
(*                                                                         *)
(* An expense is entered, and voided, in one transaction each; the shift   *)
(* is read in it without a lock.                                           *)
(*                                                                         *)
(* Restrictions: one business and one currency; the cash of a sale or of a *)
(* movement is an amount; the discrepancy policy is AUTORIZACION; the lock *)
(* on wrong PINs is left out, and so are the tickets swept after a close   *)
(* (PresaleTickets) and the expenses that no shift pays.                   *)
(***************************************************************************)
EXTENDS Integers, FiniteSets, Functions

CONSTANTS
    MaxShifts,    \* bound: shifts opened
    Expenses,     \* expenses that may be entered
    Cashiers,     \* users
    Devices,      \* computers
    None,         \* no computer, no user
    Requests,     \* handlers that may be in flight together
    Scenarios,    \* what clients do: requests of these kinds, at most width at once,
                  \* on these shifts
    Openings,     \* opening cash
    Counts,       \* amounts a user may count
    Amounts,      \* cash of a sale, entry or withdrawal of a movement
    Tolerance,    \* cashCloseTolerance
    MaxRecounts,  \* cashCloseMaxRecounts
    MaxCash       \* bound: no sale or movement takes a drawer out of 0 .. MaxCash

\* Shifts are numbered in order of opening.
Ids == 1 .. MaxShifts

Kinds == {"open", "current", "sale", "movement", "close", "expense", "void"}

ASSUME ScenarioAssumption ==
    \A sc \in Scenarios : /\ sc.kinds \subseteq Kinds /\ sc.ids \subseteq Ids
                          /\ sc.width \in Nat \ {0}
ASSUME AmountAssumption ==
    /\ Openings \cup Counts \subseteq Nat /\ Amounts \subseteq Int
    /\ {MaxShifts, Tolerance, MaxRecounts, MaxCash} \subseteq Nat
ASSUME NoneAssumption == None \notin Devices \cup Cashiers
ASSUME RowAssumption == IsFiniteSet(Expenses)

VARIABLES
    scenario,  \* one of Scenarios, fixed from the start
    shift,     \* CashRegister rows
    drawer,    \* opening cash, sales and movements of each shift
    expense,   \* Expense rows paid from a drawer
    spent,     \* what the movements of expenses took from each drawer
    pc, loc    \* where each handler stands, and what it has read

vars == <<scenario, shift, drawer, expense, spent, pc, loc>>

NoShift == [status |-> "NONE", cashier |-> None, device |-> None, recounts |-> 0,
            expected |-> 0, counted |-> 0, ground |-> "NONE"]

NoWork == [kind |-> "open", cashier |-> None, device |-> None, id |-> 0, adopt |-> FALSE,
           amount |-> 0, expected |-> 0, recounts |-> 0, ground |-> "NONE"]

NoExpense == [status |-> "NONE", shift |-> 0, amount |-> 0, back |-> FALSE]

Init == /\ scenario \in Scenarios
        /\ shift = [s \in Ids |-> NoShift]
        /\ drawer = [s \in Ids |-> 0]
        /\ expense = [e \in Expenses |-> NoExpense]
        /\ spent = [s \in Ids |-> 0]
        /\ pc = [h \in Requests |-> "idle"]
        /\ loc = [h \in Requests |-> NoWork]

-----------------------------------------------------------------------------
Busy == {h \in Requests : pc[h] # "idle"}

MayStart(h, k) == /\ pc[h] = "idle"
                  /\ k \in scenario.kinds
                  /\ Cardinality(Busy) < scenario.width

Step(h, step, work) == /\ pc' = [pc EXCEPT ![h] = step]
                       /\ loc' = [loc EXCEPT ![h] = work]
                       /\ UNCHANGED scenario

\* The register writes no expense.
Go(h, step, work) == Step(h, step, work) /\ UNCHANGED <<expense, spent>>

Finish(h) == Go(h, "idle", NoWork)

Open == {s \in Ids : shift[s].status = "OPEN"}

OnDevice(d)  == {s \in Open : shift[s].device = d}
OfCashier(u) == {s \in Open : shift[s].cashier = u}

\* Shifts from before computers were registered.
Legacy(u) == {s \in OfCashier(u) : shift[s].device = None}

\* The one opened last.
Latest(S) == CHOOSE s \in S : \A t \in S : t <= s

\* Mutant: no unique index guards the open shift of a computer.
AnyDevice(d) == TRUE

\* The unique index on the open shift of a computer lets it take this one.
DeviceFree(d) == d = None \/ OnDevice(d) = {}

\* A sale that adopts a shift holds its row until it commits.
RowFree(s) == \A h \in Requests : ~(pc[h] = "sale" /\ loc[h].adopt /\ loc[h].id = s)

(***************************************************************************)
(* open and getCurrent.                                                    *)
(***************************************************************************)
OpenRead(h) ==
    \E u \in Cashiers, d \in Devices \cup {None} :
       /\ MayStart(h, "open")
       /\ IF d = None THEN OfCashier(u) = {} ELSE OnDevice(d) = {}
       /\ Go(h, IF d = None THEN "create" ELSE "legacy",
             [NoWork EXCEPT !.kind = "open", !.cashier = u, !.device = d])
       /\ UNCHANGED <<shift, drawer>>

CurrentRead(h) ==
    \E u \in Cashiers, d \in Devices :
       /\ MayStart(h, "current")
       /\ OnDevice(d) = {}
       /\ Go(h, "legacy", [NoWork EXCEPT !.kind = "current", !.cashier = u, !.device = d])
       /\ UNCHANGED <<shift, drawer>>

\* A computer without a shift looks for one its user has without computer.
LegacyRead(h) ==
    LET w == loc[h]
        old == Legacy(w.cashier)
    IN
    /\ pc[h] = "legacy"
    /\ IF old # {}            THEN Go(h, "adopt", [w EXCEPT !.id = Latest(old)])
       ELSE IF w.kind = "open" THEN Go(h, "create", w)
       ELSE Finish(h)
    /\ UNCHANGED <<shift, drawer>>

\* The computer is written by id, whatever has become of the shift; the
\* index refuses a second open shift of the computer.
AdoptWrite(h) ==
    LET w == loc[h] IN
    /\ pc[h] = "adopt" /\ RowFree(w.id)
    /\ shift' = IF w.id \in Open /\ ~DeviceFree(w.device) THEN shift
                ELSE [shift EXCEPT ![w.id].device = w.device]
    /\ Finish(h)
    /\ UNCHANGED drawer

Unused == {s \in scenario.ids : shift[s].status = "NONE"}

CreateWrite(h) ==
    LET w == loc[h] IN
    /\ pc[h] = "create"
    /\ IF DeviceFree(w.device) /\ Unused # {}
         THEN LET s == CHOOSE n \in Unused : \A m \in Unused : n <= m IN
              /\ shift' = [shift EXCEPT ![s] =
                    [NoShift EXCEPT !.status = "OPEN", !.cashier = w.cashier,
                                    !.device = w.device]]
              /\ \E cash \in Openings : drawer' = [drawer EXCEPT ![s] = cash]
         ELSE UNCHANGED <<shift, drawer>>
    /\ Finish(h)

(***************************************************************************)
(* Sales and movements.                                                    *)
(***************************************************************************)

\* A sale names an open shift, or finds that of its computer or user; a
\* computer without one adopts the last one of its user without computer.
SaleRead(h) ==
    \E a \in Amounts, adopt \in BOOLEAN, u \in Cashiers, d \in Devices, s \in Open :
       /\ MayStart(h, "sale")
       /\ a > 0
       /\ adopt => OnDevice(d) = {} /\ Legacy(u) # {} /\ s = Latest(Legacy(u))
       /\ Go(h, "sale",
             [NoWork EXCEPT !.kind = "sale", !.id = s, !.amount = a, !.adopt = adopt,
                            !.device = IF adopt THEN d ELSE None])
       /\ UNCHANGED <<shift, drawer>>

\* The sale goes to the shift it found, which it adopts for its computer.
SaleCommit(h) ==
    LET w == loc[h]
        refused == w.adopt /\ w.id \in Open /\ ~DeviceFree(w.device)
    IN
    /\ pc[h] = "sale"
    /\ IF refused \/ drawer[w.id] + w.amount > MaxCash
         THEN UNCHANGED <<shift, drawer>>
         ELSE /\ drawer' = [drawer EXCEPT ![w.id] = @ + w.amount]
              /\ shift' = IF w.adopt THEN [shift EXCEPT ![w.id].device = w.device]
                          ELSE shift
    /\ Finish(h)

\* A movement does not adopt: a manager names any open shift, and a cashier
\* has that of his computer or his last one.
MovementRead(h) ==
    \E s \in Open, a \in Amounts :
       /\ MayStart(h, "movement")
       /\ a # 0
       /\ Go(h, "movement", [NoWork EXCEPT !.kind = "movement", !.id = s, !.amount = a])
       /\ UNCHANGED <<shift, drawer>>

MovementWrite(h) ==
    LET w == loc[h] IN
    /\ pc[h] = "movement"
    /\ drawer' = IF drawer[w.id] + w.amount \in 0 .. MaxCash
                   THEN [drawer EXCEPT ![w.id] = @ + w.amount] ELSE drawer
    /\ Finish(h)
    /\ UNCHANGED shift

(***************************************************************************)
(* close.                                                                  *)
(***************************************************************************)

AboveTolerance(counted, expected) ==
    counted - expected > Tolerance \/ expected - counted > Tolerance

RecountLeft(recounts) == recounts < MaxRecounts

\* Why a shift may close: its count is right; a cashier has used up his
\* recounts and a manager gave his PIN; a manager closes it; or it is forced
\* with a reason, which asks for no authorisation.
Ground(counted, expected, recounts, role, forced, pin) ==
    IF ~AboveTolerance(counted, expected)    THEN "BALANCED"
    ELSE IF forced                           THEN "FORCED"
    ELSE IF role = "manager"                 THEN "MANAGER"
    ELSE IF RecountLeft(recounts)            THEN "RECOUNT"
    ELSE IF pin                              THEN "PIN"
    ELSE "REFUSED"

CloseRead(h) ==
    \E s \in Open, counted \in Counts, role \in {"cashier", "manager"},
       forced, pin \in BOOLEAN :
       LET g == Ground(counted, drawer[s], shift[s].recounts, role, forced, pin) IN
       /\ MayStart(h, "close")
       /\ g # "REFUSED"
       /\ Go(h, IF g = "RECOUNT" THEN "recount" ELSE "close",
             [NoWork EXCEPT !.kind = "close", !.id = s, !.amount = counted, !.ground = g,
                            !.expected = drawer[s], !.recounts = shift[s].recounts])
       /\ UNCHANGED <<shift, drawer>>

\* The cashier is told to count again; the shift is not looked at again.
RecountWrite(h) ==
    LET s == loc[h].id IN
    /\ pc[h] = "recount" /\ RowFree(s)
    /\ shift' = [shift EXCEPT ![s].recounts = @ + 1]
    /\ Finish(h)
    /\ UNCHANGED drawer

\* Mutant: the update that closes does not ask for an open shift.
Whatever(s) == TRUE

\* updateMany where the status is still OPEN.
StillOpen(s) == shift[s].status = "OPEN"

\* The totals and the recounts written are those that were read.
CloseWrite(h) ==
    LET w == loc[h] IN
    /\ pc[h] = "close" /\ RowFree(w.id)
    /\ shift' = IF StillOpen(w.id)
                  THEN [shift EXCEPT ![w.id] =
                          [@ EXCEPT !.status = "CLOSED", !.expected = w.expected,
                                    !.counted = w.amount, !.recounts = w.recounts,
                                    !.ground = w.ground]]
                  ELSE shift
    /\ Finish(h)
    /\ UNCHANGED drawer

(***************************************************************************)
(* Expenses: create with deductFromCurrentShift, and voidExpense.          *)
(***************************************************************************)

\* The open shift of the computer or, without one, the last of the user.
PayingShift(u, d) == IF d # None THEN OnDevice(d) ELSE OfCashier(u)

ExpenseRead(h) ==
    \E a \in Amounts, u \in Cashiers, d \in Devices \cup {None} :
       LET S == PayingShift(u, d) IN
       /\ MayStart(h, "expense")
       /\ a > 0 /\ S # {}
       /\ Go(h, "expense", [NoWork EXCEPT !.kind = "expense", !.id = Latest(S), !.amount = a])
       /\ UNCHANGED <<shift, drawer>>

\* A withdrawal from the shift found, open or not by now, and the expense.
ExpenseCommit(h) ==
    LET w == loc[h]
        free == {e \in Expenses : expense[e] = NoExpense}
    IN
    /\ pc[h] = "expense"
    /\ IF free # {} /\ drawer[w.id] >= w.amount
         THEN \E e \in free :
              /\ expense' = [expense EXCEPT ![e] = [status |-> "ACTIVE", shift |-> w.id,
                                                    amount |-> w.amount, back |-> FALSE]]
              /\ spent' = [spent EXCEPT ![w.id] = @ + w.amount]
              /\ drawer' = [drawer EXCEPT ![w.id] = @ - w.amount]
         ELSE UNCHANGED <<expense, spent, drawer>>
    /\ Step(h, "idle", NoWork)
    /\ UNCHANGED shift

\* Mutant: the row of the expense is not locked while it is voided.
NoLock(e) == TRUE

\* SELECT ... FOR UPDATE: a second void waits, and finds the expense voided.
Unlocked(e) == \A h \in Requests : ~(pc[h] = "void" /\ loc[h].id = e)

VoidRead(h) ==
    \E e \in Expenses :
       /\ MayStart(h, "void")
       /\ Unlocked(e) /\ expense[e].status = "ACTIVE"
       /\ Go(h, "void", [NoWork EXCEPT !.kind = "void", !.id = e,
                                       !.adopt = shift[expense[e].shift].status = "OPEN"])
       /\ UNCHANGED <<shift, drawer>>

\* The cash goes back into a drawer that was open when it was read.
VoidWrite(h) ==
    LET e == loc[h].id
        back == IF loc[h].adopt THEN expense[e].amount ELSE 0
        s == expense[e].shift
    IN
    /\ pc[h] = "void" /\ drawer[s] + back <= MaxCash
    /\ expense' = [expense EXCEPT ![e].status = "VOIDED", ![e].back = loc[h].adopt]
    /\ spent' = [spent EXCEPT ![s] = @ - back]
    /\ drawer' = [drawer EXCEPT ![s] = @ + back]
    /\ Step(h, "idle", NoWork)
    /\ UNCHANGED shift

-----------------------------------------------------------------------------
Next == \E h \in Requests :
           \/ OpenRead(h) \/ CurrentRead(h) \/ LegacyRead(h)
           \/ AdoptWrite(h) \/ CreateWrite(h)
           \/ SaleRead(h) \/ SaleCommit(h) \/ MovementRead(h) \/ MovementWrite(h)
           \/ CloseRead(h) \/ RecountWrite(h) \/ CloseWrite(h)
           \/ ExpenseRead(h) \/ ExpenseCommit(h) \/ VoidRead(h) \/ VoidWrite(h)

Spec == Init /\ [][Next]_vars

-----------------------------------------------------------------------------
(***************************************************************************)
(* Properties.                                                             *)
(***************************************************************************)
Closed == {s \in Ids : shift[s].status = "CLOSED"}

\* A computer has at most one open shift, however opening and the adoption
\* of older shifts by open, getCurrent and sales interleave.
OneShiftPerDevice == \A d \in Devices : Cardinality(OnDevice(d)) <= 1

\* A count that is off is forced, closed by a manager, or authorised by PIN after
\* all the recounts the policy gives.
CountExplained(s) ==
    /\ AboveTolerance(shift[s].counted, shift[s].expected) =>
          shift[s].ground \in {"FORCED", "MANAGER", "PIN"}
    /\ shift[s].ground = "PIN" => shift[s].recounts >= MaxRecounts

\* A shift is closed once, with its count explained: its totals, count and grounds
\* never change again, whoever else was closing it at the same time.
ClosedStands ==
    [][\A s \in Ids :
          /\ s \in Closed =>
                /\ shift'[s].status = "CLOSED"
                /\ shift'[s].expected = shift[s].expected
                /\ shift'[s].counted = shift[s].counted
                /\ shift'[s].ground = shift[s].ground
          /\ s \in Closed' => CountExplained(s)']_vars

\* expenses.service: what the expenses of a shift took from its drawer is the
\* sum of those that stand and of those voided after its close: a void puts the
\* cash back once, however many are in flight and whenever the shift closes.
ExpensesInDrawer ==
    \A s \in Ids :
       LET paid == {e \in Expenses : expense[e].shift = s /\ ~expense[e].back}
       IN  spent[s] = SumFunction([e \in paid |-> expense[e].amount])
=============================================================================
