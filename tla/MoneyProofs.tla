---------------------------- MODULE MoneyProofs ----------------------------
(***************************************************************************)
(* Proofs about the two ledgers of the point of sale that are not of one   *)
(* sale: Shifts, for every set of cashiers, computers, expenses and        *)
(* requests, any number of shifts and every policy the assumptions allow;  *)
(* and CreditAccounts, for every finite set of accounts, every set of      *)
(* statements and requests, and every setting that keeps the hypothesis    *)
(* each theorem states.                                                    *)
(***************************************************************************)
EXTENDS Shifts, CreditAccounts, SumTheorems, FiniteSetTheorems, NaturalsInduction,
        WellFoundedInduction, TLAPS

Steps == {"idle", "legacy", "create", "adopt", "sale", "movement", "recount", "close",
          "expense", "void"}

Grounds == {"NONE", "BALANCED", "FORCED", "MANAGER", "PIN", "RECOUNT", "REFUSED"}

Rows == [status : {"NONE", "OPEN", "CLOSED"}, cashier : Cashiers \cup {None},
         device : Devices \cup {None}, recounts : Nat, expected : Int, counted : Int,
         ground : Grounds]

Work == [kind : Kinds, cashier : Cashiers \cup {None}, device : Devices \cup {None},
         id : Ids \cup Expenses \cup {0}, adopt : BOOLEAN, amount : Int, expected : Int,
         recounts : Nat, ground : Grounds]

ExpenseRows == [status : {"NONE", "ACTIVE", "VOIDED"}, shift : Ids \cup {0},
                amount : Int, back : BOOLEAN]

\* Every row, and what each request has read, keep their types.
TypeOK ==
    /\ scenario \in Scenarios
    /\ shift \in [Ids -> Rows]
    /\ drawer \in [Ids -> Int]
    /\ expense \in [Expenses -> ExpenseRows]
    /\ spent \in [Ids -> Int]
    /\ pc \in [Requests -> Steps]
    /\ loc \in [Requests -> Work]

\* A request about to write a shift, or an expense of one, names a shift, and one
\* about to void an expense names that.
NamedBy(step, w) ==
    /\ step \in {"adopt", "sale", "movement", "recount", "close", "expense"} => w.id \in Ids
    /\ step = "void" => w.id \in Expenses

Named == \A h \in Requests : NamedBy(pc[h], loc[h])

\* Two open shifts of one computer are one shift.
DeviceUnique ==
    \A s, t \in Ids :
       /\ shift[s].status = "OPEN" /\ shift[t].status = "OPEN"
       /\ shift[s].device = shift[t].device /\ shift[s].device # None
       => s = t

\* The snapshot of a close explains the count it is about to write.
Justified(w) ==
    /\ AboveTolerance(w.amount, w.expected) => w.ground \in {"FORCED", "MANAGER", "PIN"}
    /\ w.ground = "PIN" => w.recounts >= MaxRecounts

ClosesJustified == \A h \in Requests : pc[h] = "close" => Justified(loc[h])

Explained == \A s \in Ids : shift[s].status = "CLOSED" => CountExplained(s)

IInv == TypeOK /\ Named /\ DeviceUnique /\ ClosesJustified /\ Explained

-----------------------------------------------------------------------------
(***************************************************************************)
(* The first and the last of a set of shifts.                              *)
(***************************************************************************)

\* A set of naturals that is not empty has a least element.
LEMMA LeastExists ==
    ASSUME NEW S \in SUBSET Nat, S # {}
    PROVE  \E x \in S : \A y \in S : x <= y
<1>1. PICK x \in S : \A y \in S : ~(<<y, x>> \in OpToRel(<, Nat))
  BY NatLessThanWellFounded, WFMin
<1>2. \A y \in S : ~(y < x)
  BY <1>1 DEF OpToRel
<1> QED
  BY <1>2

\* A shift that is created has the first number that is free.
LEMMA FirstUnused ==
    ASSUME TypeOK, Unused # {}
    PROVE  (CHOOSE n \in Unused : \A m \in Unused : n <= m) \in Unused
<1>1. Unused \in SUBSET Ids
  BY ScenarioAssumption DEF TypeOK, Unused
<1>2. Unused \in SUBSET Nat
  BY <1>1, AmountAssumption DEF Ids
<1>3. \E n \in Unused : \A m \in Unused : n <= m
  BY <1>2, LeastExists
<1> QED
  BY <1>3

\* A set of shifts that is not empty has a last one.
LEMMA LatestExists ==
    ASSUME NEW S \in SUBSET Ids, S # {}
    PROVE  Latest(S) \in S
<1> DEFINE T == {MaxShifts - s : s \in S}
<1>1. MaxShifts \in Nat
  BY AmountAssumption
<1>2. T \in SUBSET Nat /\ T # {}
  <2>1. \A s \in S : MaxShifts - s \in Nat
    BY <1>1 DEF Ids
  <2> QED
    BY <2>1
<1>3. PICK x \in T : \A y \in T : x <= y
  BY <1>2, LeastExists
<1>4. PICK s \in S : x = MaxShifts - s
  OBVIOUS
<1>5. \A t \in S : t <= s
  <2> TAKE t \in S
  <2>1. x <= MaxShifts - t
    BY <1>3
  <2> QED
    BY <2>1, <1>1, <1>4 DEF Ids
<1> QED
  BY <1>5 DEF Latest

\* A computer, or a user, with an open shift finds one that is open.
LEMMA FoundShift ==
    ASSUME TypeOK, NEW u, NEW d
    PROVE  /\ Open \in SUBSET Ids
           /\ Legacy(u) # {} => Latest(Legacy(u)) \in Open
           /\ PayingShift(u, d) # {} => Latest(PayingShift(u, d)) \in Open
<1>1. Open \in SUBSET Ids
  BY DEF Open
<1>2. Legacy(u) \in SUBSET Open /\ PayingShift(u, d) \in SUBSET Open
  BY DEF Legacy, OfCashier, OnDevice, PayingShift
<1> QED
  BY <1>1, <1>2, LatestExists

-----------------------------------------------------------------------------
(***************************************************************************)
(* Type correctness.                                                       *)
(***************************************************************************)

LEMMA EmptyRows == NoShift \in Rows /\ NoWork \in Work /\ NoExpense \in ExpenseRows
<1>1. NoShift \in Rows
  BY DEF NoShift, Rows, Grounds
<1>2. NoWork \in Work
  BY DEF NoWork, Work, Grounds, Kinds
<1> QED
  BY <1>1, <1>2 DEF NoExpense, ExpenseRows

\* Cash put into a drawer or taken from it.
LEMMA Added ==
    ASSUME NEW f \in [Ids -> Int], NEW i, NEW n \in Int
    PROVE  /\ [f EXCEPT ![i] = @ + n] \in [Ids -> Int]
           /\ [f EXCEPT ![i] = @ - n] \in [Ids -> Int]
<1>1. CASE i \in Ids
  BY <1>1
<1>2. CASE i \notin Ids
  BY <1>2
<1> QED
  BY <1>1, <1>2

\* A row recounted or closed is a row, so is an expense annulled, and so is a row
\* adopted.
LEMMA RowsWritten ==
    ASSUME NEW x \in Rows, NEW e \in Int, NEW c \in Int, NEW n \in Nat, NEW g \in Grounds
    PROVE  /\ [x EXCEPT !.recounts = x.recounts + 1] \in Rows
           /\ [x EXCEPT !.status = "CLOSED", !.expected = e, !.counted = c, !.recounts = n,
                        !.ground = g] \in Rows
<1>1. [x EXCEPT !.recounts = x.recounts + 1] \in Rows
  BY DEF Rows
<1>2. [x EXCEPT !.status = "CLOSED", !.expected = e, !.counted = c, !.recounts = n,
                !.ground = g] \in Rows
  BY DEF Rows
<1> QED
  BY <1>1, <1>2

LEMMA ExpenseWritten ==
    ASSUME NEW x \in ExpenseRows, NEW b \in BOOLEAN
    PROVE  [x EXCEPT !.status = "VOIDED", !.back = b] \in ExpenseRows
  BY DEF ExpenseRows

LEMMA DeviceWritten ==
    ASSUME NEW f \in [Ids -> Rows], NEW i, NEW d \in Devices \cup {None}
    PROVE  [f EXCEPT ![i].device = d] \in [Ids -> Rows]
<1>1. CASE i \in Ids
  <2>1. [f[i] EXCEPT !.device = d] \in Rows
    BY <1>1 DEF Rows
  <2> QED
    BY <1>1, <2>1
<1>2. CASE i \notin Ids
  BY <1>2
<1> QED
  BY <1>1, <1>2

LEMMA TypeInit == Init => TypeOK /\ Named
  BY EmptyRows DEF Init, TypeOK, Named, NamedBy, Steps

\* A request that goes on to a step with what it read.
LEMMA StepTypes ==
    ASSUME TypeOK, Named, NEW h \in Requests, NEW step \in Steps, NEW w \in Work,
           NamedBy(step, w),
           Step(h, step, w)
    PROVE  /\ scenario' \in Scenarios
           /\ pc' \in [Requests -> Steps] /\ loc' \in [Requests -> Work]
           /\ Named'
<1>1. pc' = [pc EXCEPT ![h] = step] /\ loc' = [loc EXCEPT ![h] = w] /\ scenario' = scenario
  BY DEF Step
<1>2. pc' \in [Requests -> Steps] /\ loc' \in [Requests -> Work]
  BY <1>1 DEF TypeOK
<1>3. Named'
  BY <1>1 DEF Named, TypeOK
<1> QED
  BY <1>1, <1>2, <1>3 DEF TypeOK

\* The same of a request that writes no expense.
LEMMA GoTypes ==
    ASSUME TypeOK, Named, NEW h \in Requests, NEW step \in Steps, NEW w \in Work,
           NamedBy(step, w),
           Go(h, step, w), shift' \in [Ids -> Rows], drawer' \in [Ids -> Int]
    PROVE  TypeOK' /\ Named'
<1>1. Step(h, step, w) /\ expense' = expense /\ spent' = spent
  BY DEF Go
<1>2. /\ scenario' \in Scenarios
      /\ pc' \in [Requests -> Steps] /\ loc' \in [Requests -> Work]
      /\ Named'
  BY <1>1, StepTypes
<1> QED
  BY <1>1, <1>2 DEF TypeOK

\* A handler that ends.
LEMMA FinishTypes ==
    ASSUME TypeOK, Named, NEW h \in Requests, Finish(h),
           shift' \in [Ids -> Rows], drawer' \in [Ids -> Int]
    PROVE  TypeOK' /\ Named'
<1>1. Go(h, "idle", NoWork) /\ "idle" \in Steps
  BY DEF Finish, Steps
<1> QED
  BY <1>1, EmptyRows, GoTypes DEF NamedBy

LEMMA TypeStep == TypeOK /\ Named /\ [Next]_vars => TypeOK' /\ Named'
<1> SUFFICES ASSUME TypeOK, Named, [Next]_vars  PROVE TypeOK' /\ Named'
  OBVIOUS
<1>same. ASSUME shift' = shift, drawer' = drawer
         PROVE  shift' \in [Ids -> Rows] /\ drawer' \in [Ids -> Int]
  BY <1>same DEF TypeOK
<1>1. ASSUME NEW h \in Requests, OpenRead(h)  PROVE TypeOK' /\ Named'
  <2> PICK u \in Cashiers, d \in Devices \cup {None} :
         /\ Go(h, IF d = None THEN "create" ELSE "legacy",
               [NoWork EXCEPT !.kind = "open", !.cashier = u, !.device = d])
         /\ UNCHANGED <<shift, drawer>>
    BY <1>1 DEF OpenRead
  <2>1. [NoWork EXCEPT !.kind = "open", !.cashier = u, !.device = d] \in Work
    BY EmptyRows DEF Work, Kinds
  <2>2. (IF d = None THEN "create" ELSE "legacy") \in Steps
    BY DEF Steps
  <2> QED
    BY <2>1, <2>2, <1>same, GoTypes DEF NamedBy
<1>2. ASSUME NEW h \in Requests, CurrentRead(h)  PROVE TypeOK' /\ Named'
  <2> PICK u \in Cashiers, d \in Devices :
         /\ Go(h, "legacy", [NoWork EXCEPT !.kind = "current", !.cashier = u, !.device = d])
         /\ UNCHANGED <<shift, drawer>>
    BY <1>2 DEF CurrentRead
  <2>1. [NoWork EXCEPT !.kind = "current", !.cashier = u, !.device = d] \in Work
    BY EmptyRows DEF Work, Kinds
  <2>2. "legacy" \in Steps
    BY DEF Steps
  <2> QED
    BY <2>1, <2>2, <1>same, GoTypes DEF NamedBy
<1>3. ASSUME NEW h \in Requests, LegacyRead(h)  PROVE TypeOK' /\ Named'
  <2> DEFINE w == loc[h]
             old == Legacy(w.cashier)
             found == [w EXCEPT !.id = Latest(old)]
  <2>1. w \in Work /\ {"adopt", "create"} \subseteq Steps
    BY DEF TypeOK, Steps
  <2>2. UNCHANGED <<shift, drawer>>
    BY <1>3 DEF LegacyRead
  <2>3. CASE old # {}
    <3>1. Latest(old) \in Ids
      BY <2>3, FoundShift
    <3>2. found \in Work /\ found.id \in Ids
      BY <2>1, <3>1 DEF Work
    <3>3. Go(h, "adopt", found)
      BY <1>3, <2>3 DEF LegacyRead
    <3> QED
      BY <2>1, <2>2, <3>2, <3>3, <1>same, GoTypes DEF NamedBy
  <2>4. CASE old = {} /\ w.kind = "open"
    <3>1. Go(h, "create", w)
      BY <1>3, <2>4 DEF LegacyRead
    <3> QED
      BY <2>1, <2>2, <3>1, <1>same, GoTypes DEF NamedBy
  <2>5. CASE old = {} /\ w.kind # "open"
    <3>1. Finish(h)
      BY <1>3, <2>5 DEF LegacyRead
    <3> QED
      BY <2>2, <3>1, <1>same, FinishTypes
  <2> QED
    BY <2>3, <2>4, <2>5
<1>4. ASSUME NEW h \in Requests, AdoptWrite(h)  PROVE TypeOK' /\ Named'
  <2>1. loc[h].device \in Devices \cup {None}
    BY DEF TypeOK, Work
  <2>2. [shift EXCEPT ![loc[h].id].device = loc[h].device] \in [Ids -> Rows]
    BY <2>1, DeviceWritten DEF TypeOK
  <2>3. shift' \in [Ids -> Rows] /\ drawer' \in [Ids -> Int] /\ Finish(h)
    BY <1>4, <2>2 DEF AdoptWrite, TypeOK
  <2> QED
    BY <2>3, FinishTypes
<1>5. ASSUME NEW h \in Requests, CreateWrite(h)  PROVE TypeOK' /\ Named'
  <2> DEFINE w == loc[h]
             s == CHOOSE n \in Unused : \A m \in Unused : n <= m
             new == [NoShift EXCEPT !.status = "OPEN", !.cashier = w.cashier,
                                    !.device = w.device]
  <2>1. Finish(h)
    BY <1>5 DEF CreateWrite
  <2>2. w.cashier \in Cashiers \cup {None} /\ w.device \in Devices \cup {None}
    BY DEF TypeOK, Work
  <2>3. new \in Rows
    BY <2>2, EmptyRows DEF Rows
  <2>4. CASE DeviceFree(w.device) /\ Unused # {}
    <3>1. /\ shift' = [shift EXCEPT ![s] = new]
          /\ \E cash \in Openings : drawer' = [drawer EXCEPT ![s] = cash]
      BY <1>5, <2>4 DEF CreateWrite
    <3>2. Openings \subseteq Int
      BY AmountAssumption
    <3> HIDE DEF s, new
    <3>3. shift' \in [Ids -> Rows] /\ drawer' \in [Ids -> Int]
      BY <2>3, <3>1, <3>2 DEF TypeOK
    <3> QED
      BY <2>1, <3>3, FinishTypes
  <2>5. CASE ~(DeviceFree(w.device) /\ Unused # {})
    <3>1. UNCHANGED <<shift, drawer>>
      BY <1>5, <2>5 DEF CreateWrite
    <3> QED
      BY <2>1, <3>1, <1>same, FinishTypes
  <2> QED
    BY <2>4, <2>5
<1>6. ASSUME NEW h \in Requests, SaleRead(h)  PROVE TypeOK' /\ Named'
  <2> PICK a \in Amounts, adopt \in BOOLEAN, u \in Cashiers, d \in Devices, s \in Open :
         /\ Go(h, "sale",
               [NoWork EXCEPT !.kind = "sale", !.id = s, !.amount = a, !.adopt = adopt,
                              !.device = IF adopt THEN d ELSE None])
         /\ UNCHANGED <<shift, drawer>>
    BY <1>6 DEF SaleRead
  <2> DEFINE w == [NoWork EXCEPT !.kind = "sale", !.id = s, !.amount = a, !.adopt = adopt,
                                 !.device = IF adopt THEN d ELSE None]
  <2>1. a \in Int /\ s \in Ids
    BY AmountAssumption DEF Open
  <2>2. w \in Work /\ w.id \in Ids /\ "sale" \in Steps
    BY <2>1, EmptyRows DEF Work, Kinds, Steps
  <2> QED
    BY <2>2, <1>same, GoTypes DEF NamedBy
<1>7. ASSUME NEW h \in Requests, SaleCommit(h)  PROVE TypeOK' /\ Named'
  <2> DEFINE w == loc[h]
  <2>1. w.amount \in Int /\ w.device \in Devices \cup {None}
    BY DEF TypeOK, Work
  <2>2. [drawer EXCEPT ![w.id] = @ + w.amount] \in [Ids -> Int]
    BY <2>1, Added DEF TypeOK
  <2>3. [shift EXCEPT ![w.id].device = w.device] \in [Ids -> Rows]
    BY <2>1, DeviceWritten DEF TypeOK
  <2>4. shift' \in [Ids -> Rows] /\ drawer' \in [Ids -> Int] /\ Finish(h)
    BY <1>7, <2>2, <2>3 DEF SaleCommit, TypeOK
  <2> QED
    BY <2>4, FinishTypes
<1>8. ASSUME NEW h \in Requests, MovementRead(h)  PROVE TypeOK' /\ Named'
  <2> PICK s \in Open, a \in Amounts :
         /\ Go(h, "movement", [NoWork EXCEPT !.kind = "movement", !.id = s, !.amount = a])
         /\ UNCHANGED <<shift, drawer>>
    BY <1>8 DEF MovementRead
  <2> DEFINE w == [NoWork EXCEPT !.kind = "movement", !.id = s, !.amount = a]
  <2>1. a \in Int /\ s \in Ids
    BY AmountAssumption DEF Open
  <2>2. w \in Work /\ w.id \in Ids /\ "movement" \in Steps
    BY <2>1, EmptyRows DEF Work, Kinds, Steps
  <2> QED
    BY <2>2, <1>same, GoTypes DEF NamedBy
<1>9. ASSUME NEW h \in Requests, MovementWrite(h)  PROVE TypeOK' /\ Named'
  <2>1. loc[h].amount \in Int
    BY DEF TypeOK, Work
  <2>2. [drawer EXCEPT ![loc[h].id] = @ + loc[h].amount] \in [Ids -> Int]
    BY <2>1, Added DEF TypeOK
  <2>3. shift' \in [Ids -> Rows] /\ drawer' \in [Ids -> Int] /\ Finish(h)
    BY <1>9, <2>2 DEF MovementWrite, TypeOK
  <2> QED
    BY <2>3, FinishTypes
<1>10. ASSUME NEW h \in Requests, CloseRead(h)  PROVE TypeOK' /\ Named'
  <2> PICK s \in Open, counted \in Counts, role \in {"cashier", "manager"},
           forced \in BOOLEAN, pin \in BOOLEAN :
         LET g == Ground(counted, drawer[s], shift[s].recounts, role, forced, pin) IN
         /\ MayStart(h, "close")
         /\ g # "REFUSED"
         /\ Go(h, IF g = "RECOUNT" THEN "recount" ELSE "close",
               [NoWork EXCEPT !.kind = "close", !.id = s, !.amount = counted, !.ground = g,
                              !.expected = drawer[s], !.recounts = shift[s].recounts])
         /\ UNCHANGED <<shift, drawer>>
    BY <1>10 DEF CloseRead
  <2> DEFINE g == Ground(counted, drawer[s], shift[s].recounts, role, forced, pin)
             step == IF g = "RECOUNT" THEN "recount" ELSE "close"
             w == [NoWork EXCEPT !.kind = "close", !.id = s, !.amount = counted, !.ground = g,
                              !.expected = drawer[s], !.recounts = shift[s].recounts]
  <2>1. counted \in Int /\ s \in Ids
    BY AmountAssumption DEF Open
  <2>2. drawer[s] \in Int /\ shift[s].recounts \in Nat
    BY <2>1 DEF TypeOK, Rows
  <2>3. g \in Grounds
    BY DEF Ground, Grounds
  <2> HIDE DEF g
  <2>4. w \in Work /\ w.id \in Ids /\ step \in Steps
    BY <2>1, <2>2, <2>3, EmptyRows DEF Work, Kinds, Steps
  <2> QED
    BY <2>4, <1>same, GoTypes DEF g, NamedBy
<1>11. ASSUME NEW h \in Requests, RecountWrite(h)  PROVE TypeOK' /\ Named'
  <2> DEFINE s == loc[h].id
  <2>1. shift' = [shift EXCEPT ![s].recounts = @ + 1] /\ drawer' = drawer /\ Finish(h)
    BY <1>11 DEF RecountWrite
  <2>2. s \in Ids
    BY <1>11 DEF RecountWrite, Named, NamedBy
  <2>3. [shift[s] EXCEPT !.recounts = shift[s].recounts + 1] \in Rows
    <3>1. shift[s] \in Rows
      BY <2>2 DEF TypeOK
    <3> HIDE DEF s
    <3> QED
      BY <3>1, 0 \in Int, 0 \in Nat, "NONE" \in Grounds, RowsWritten DEF Grounds
  <2>4. shift' \in [Ids -> Rows] /\ drawer' \in [Ids -> Int]
    BY <2>1, <2>2, <2>3 DEF TypeOK
  <2> QED
    BY <2>1, <2>4, FinishTypes
<1>12. ASSUME NEW h \in Requests, CloseWrite(h)  PROVE TypeOK' /\ Named'
  <2> DEFINE w == loc[h]
             closed == [shift[w.id] EXCEPT !.status = "CLOSED", !.expected = w.expected,
                                           !.counted = w.amount, !.recounts = w.recounts,
                                           !.ground = w.ground]
  <2>1. /\ w.expected \in Int /\ w.amount \in Int /\ w.recounts \in Nat
        /\ w.ground \in Grounds
    BY DEF TypeOK, Work
  <2>2. w.id \in Ids => closed \in Rows
    <3>1. w.id \in Ids => shift[w.id] \in Rows
      BY DEF TypeOK
    <3> HIDE DEF w
    <3> QED
      BY <2>1, <3>1, RowsWritten
  <2>3. /\ shift' = IF StillOpen(w.id) THEN [shift EXCEPT ![w.id] = closed] ELSE shift
        /\ drawer' = drawer /\ Finish(h)
    BY <1>12 DEF CloseWrite
  <2> HIDE DEF closed
  <2>4. shift' \in [Ids -> Rows] /\ drawer' \in [Ids -> Int]
    BY <2>2, <2>3 DEF TypeOK
  <2> QED
    BY <2>3, <2>4, FinishTypes
<1>13. ASSUME NEW h \in Requests, ExpenseRead(h)  PROVE TypeOK' /\ Named'
  <2> PICK a \in Amounts, u \in Cashiers, d \in Devices \cup {None} :
         /\ PayingShift(u, d) # {}
         /\ Go(h, "expense", [NoWork EXCEPT !.kind = "expense",
                                            !.id = Latest(PayingShift(u, d)), !.amount = a])
         /\ UNCHANGED <<shift, drawer>>
    BY <1>13 DEF ExpenseRead
  <2> DEFINE s == Latest(PayingShift(u, d))
             w == [NoWork EXCEPT !.kind = "expense", !.id = s, !.amount = a]
  <2>1. a \in Int /\ s \in Ids
    BY AmountAssumption, FoundShift
  <2> HIDE DEF s
  <2>2. w \in Work /\ w.id \in Ids /\ "expense" \in Steps
    BY <2>1, EmptyRows DEF Work, Kinds, Steps
  <2> QED
    BY <2>2, <1>same, GoTypes DEF s, NamedBy
<1>14. ASSUME NEW h \in Requests, ExpenseCommit(h)  PROVE TypeOK' /\ Named'
  <2> DEFINE w == loc[h]
             new == [status |-> "ACTIVE", shift |-> w.id, amount |-> w.amount, back |-> FALSE]
  <2>1. w.amount \in Int /\ w.id \in Ids
    BY <1>14 DEF ExpenseCommit, TypeOK, Work, Named, NamedBy
  <2>2. new \in ExpenseRows
    BY <2>1 DEF ExpenseRows
  <2>3. Step(h, "idle", NoWork) /\ shift' = shift
    BY <1>14 DEF ExpenseCommit
  <2>4. \/ UNCHANGED <<expense, spent, drawer>>
        \/ /\ \E e \in Expenses : expense' = [expense EXCEPT ![e] = new]
           /\ spent' = [spent EXCEPT ![w.id] = @ + w.amount]
           /\ drawer' = [drawer EXCEPT ![w.id] = @ - w.amount]
    BY <1>14 DEF ExpenseCommit
  <2> HIDE DEF new
  <2>5. /\ expense' \in [Expenses -> ExpenseRows]
        /\ spent' \in [Ids -> Int] /\ drawer' \in [Ids -> Int]
    BY <2>1, <2>2, <2>4 DEF TypeOK
  <2>6. "idle" \in Steps
    BY DEF Steps
  <2>7. /\ scenario' \in Scenarios
        /\ pc' \in [Requests -> Steps] /\ loc' \in [Requests -> Work] /\ Named'
    BY <2>3, <2>6, EmptyRows, StepTypes DEF NamedBy
  <2> QED
    BY <2>3, <2>5, <2>7 DEF TypeOK
<1>15. ASSUME NEW h \in Requests, VoidRead(h)  PROVE TypeOK' /\ Named'
  <2> PICK e \in Expenses :
         /\ Go(h, "void", [NoWork EXCEPT !.kind = "void", !.id = e,
                                         !.adopt = shift[expense[e].shift].status = "OPEN"])
         /\ UNCHANGED <<shift, drawer>>
    BY <1>15 DEF VoidRead
  <2> DEFINE w == [NoWork EXCEPT !.kind = "void", !.id = e,
                                 !.adopt = shift[expense[e].shift].status = "OPEN"]
  <2>1. w \in Work /\ w.id \in Expenses /\ "void" \in Steps
    BY EmptyRows DEF Work, Kinds, Steps
  <2> QED
    BY <2>1, <1>same, GoTypes DEF NamedBy
<1>16. ASSUME NEW h \in Requests, VoidWrite(h)  PROVE TypeOK' /\ Named'
  <2> DEFINE e == loc[h].id
             back == IF loc[h].adopt THEN expense[e].amount ELSE 0
             s == expense[e].shift
  <2>1. /\ expense' = [expense EXCEPT ![e].status = "VOIDED", ![e].back = loc[h].adopt]
        /\ spent' = [spent EXCEPT ![s] = @ - back]
        /\ drawer' = [drawer EXCEPT ![s] = @ + back]
        /\ Step(h, "idle", NoWork) /\ shift' = shift
    BY <1>16 DEF VoidWrite
  <2>2. loc[h].adopt \in BOOLEAN
    BY DEF TypeOK, Work
  <2>3. e \in Expenses
    BY <1>16 DEF VoidWrite, Named, NamedBy
  <2>4. expense' \in [Expenses -> ExpenseRows]
    <3>1. [expense[e] EXCEPT !.status = "VOIDED", !.back = loc[h].adopt] \in ExpenseRows
      BY <2>2, <2>3, ExpenseWritten DEF TypeOK
    <3>2. expense' = [expense EXCEPT ![e] =
                         [expense[e] EXCEPT !.status = "VOIDED", !.back = loc[h].adopt]]
      BY <2>1
    <3> QED
      BY <3>1, <3>2 DEF TypeOK
  <2>5. back \in Int
    BY <2>3 DEF TypeOK, ExpenseRows
  <2> HIDE DEF back, s
  <2>6. spent' \in [Ids -> Int] /\ drawer' \in [Ids -> Int]
    BY <2>1, <2>5, Added DEF TypeOK
  <2>7. "idle" \in Steps
    BY DEF Steps
  <2>8. /\ scenario' \in Scenarios
        /\ pc' \in [Requests -> Steps] /\ loc' \in [Requests -> Work] /\ Named'
    BY <2>1, <2>7, EmptyRows, StepTypes DEF NamedBy
  <2> QED
    BY <2>1, <2>4, <2>6, <2>8 DEF TypeOK
<1>17. CASE UNCHANGED vars
  BY <1>17 DEF vars, TypeOK, Named
<1> QED
  BY <1>1, <1>2, <1>3, <1>4, <1>5, <1>6, <1>7, <1>8, <1>9, <1>10, <1>11, <1>12, <1>13,
     <1>14, <1>15, <1>16, <1>17 DEF Next

-----------------------------------------------------------------------------
(***************************************************************************)
(* What a step may do to the rows of the shifts.                           *)
(***************************************************************************)

\* A row is opened for a computer that has no open shift.
Opens(s, u, d) ==
    /\ shift[s].status = "NONE" /\ DeviceFree(d)
    /\ shift' = [shift EXCEPT ![s] = [NoShift EXCEPT !.status = "OPEN", !.cashier = u,
                                                     !.device = d]]

\* A computer takes a shift; an open one only if it has none.
Adopts(s, d) ==
    /\ s \in Open => DeviceFree(d)
    /\ shift' = [shift EXCEPT ![s].device = d]

Recounts(s) == shift' = [shift EXCEPT ![s].recounts = @ + 1]

\* An open shift is closed with a snapshot that explains its count.
Closes(s, w) ==
    /\ shift[s].status = "OPEN" /\ Justified(w)
    /\ shift' = [shift EXCEPT ![s] =
                    [@ EXCEPT !.status = "CLOSED", !.expected = w.expected,
                              !.counted = w.amount, !.recounts = w.recounts,
                              !.ground = w.ground]]

RowChange ==
    \/ shift' = shift
    \/ \E s \in Ids :
          \/ \E u \in Cashiers \cup {None}, d \in Devices \cup {None} : Opens(s, u, d)
          \/ \E d \in Devices \cup {None} : Adopts(s, d)
          \/ Recounts(s)
          \/ \E w \in Work : Closes(s, w)

LEMMA StepChangesRows == TypeOK /\ Named /\ ClosesJustified /\ [Next]_vars => RowChange
<1> SUFFICES ASSUME TypeOK, Named, ClosesJustified, [Next]_vars  PROVE RowChange
  OBVIOUS
<1>1. ASSUME NEW h \in Requests, AdoptWrite(h)  PROVE RowChange
  <2> DEFINE w == loc[h]
  <2>1. w.id \in Ids /\ w.device \in Devices \cup {None}
    BY <1>1 DEF AdoptWrite, Named, NamedBy, TypeOK, Work
  <2>2. shift' = shift \/ Adopts(w.id, w.device)
    BY <1>1 DEF AdoptWrite, Adopts
  <2> QED
    BY <2>1, <2>2 DEF RowChange
<1>2. ASSUME NEW h \in Requests, CreateWrite(h)  PROVE RowChange
  <2> DEFINE w == loc[h]
             s == CHOOSE n \in Unused : \A m \in Unused : n <= m
  <2>1. w.cashier \in Cashiers \cup {None} /\ w.device \in Devices \cup {None}
    BY DEF TypeOK, Work
  <2>2. CASE DeviceFree(w.device) /\ Unused # {}
    <3>1. s \in Unused
      BY <2>2, FirstUnused
    <3>2. s \in Ids /\ shift[s].status = "NONE"
      BY <3>1, ScenarioAssumption DEF Unused, TypeOK
    <3>3. shift' = [shift EXCEPT ![s] = [NoShift EXCEPT !.status = "OPEN",
                                            !.cashier = w.cashier, !.device = w.device]]
      BY <1>2, <2>2 DEF CreateWrite
    <3>4. Opens(s, w.cashier, w.device)
      BY <2>2, <3>2, <3>3 DEF Opens
    <3> QED
      BY <2>1, <3>2, <3>4 DEF RowChange
  <2>3. CASE ~(DeviceFree(w.device) /\ Unused # {})
    BY <1>2, <2>3 DEF CreateWrite, RowChange
  <2> QED
    BY <2>2, <2>3
<1>3. ASSUME NEW h \in Requests, SaleCommit(h)  PROVE RowChange
  <2> DEFINE w == loc[h]
  <2>1. w.id \in Ids /\ w.device \in Devices \cup {None}
    BY <1>3 DEF SaleCommit, Named, NamedBy, TypeOK, Work
  <2>2. shift' = shift \/ Adopts(w.id, w.device)
    BY <1>3 DEF SaleCommit, Adopts
  <2> QED
    BY <2>1, <2>2 DEF RowChange
<1>4. ASSUME NEW h \in Requests, RecountWrite(h)  PROVE RowChange
  <2>1. loc[h].id \in Ids
    BY <1>4 DEF RecountWrite, Named, NamedBy
  <2> QED
    BY <1>4, <2>1 DEF RecountWrite, Recounts, RowChange
<1>5. ASSUME NEW h \in Requests, CloseWrite(h)  PROVE RowChange
  <2> DEFINE w == loc[h]
  <2>1. w \in Work /\ w.id \in Ids /\ Justified(w)
    BY <1>5 DEF CloseWrite, Named, NamedBy, TypeOK, ClosesJustified
  <2>2. shift' = shift \/ Closes(w.id, w)
    BY <1>5, <2>1 DEF CloseWrite, StillOpen, Closes
  <2> QED
    BY <2>1, <2>2 DEF RowChange
<1>6. ASSUME NEW h \in Requests,
             \/ OpenRead(h) \/ CurrentRead(h) \/ LegacyRead(h) \/ SaleRead(h)
             \/ MovementRead(h) \/ MovementWrite(h) \/ CloseRead(h)
             \/ ExpenseRead(h) \/ ExpenseCommit(h) \/ VoidRead(h) \/ VoidWrite(h)
      PROVE  RowChange
  <2>1. ASSUME OpenRead(h) \/ CurrentRead(h) \/ LegacyRead(h)  PROVE shift' = shift
    BY <2>1 DEF OpenRead, CurrentRead, LegacyRead
  <2>2. ASSUME SaleRead(h) \/ CloseRead(h)  PROVE shift' = shift
    <3>1. CASE SaleRead(h)
      BY <3>1 DEF SaleRead
    <3>2. CASE CloseRead(h)
      BY <3>2 DEF CloseRead
    <3> QED
      BY <2>2, <3>1, <3>2
  <2>3. ASSUME MovementRead(h) \/ MovementWrite(h)  PROVE shift' = shift
    BY <2>3 DEF MovementRead, MovementWrite
  <2>4. ASSUME ExpenseRead(h) \/ ExpenseCommit(h)  PROVE shift' = shift
    BY <2>4 DEF ExpenseRead, ExpenseCommit
  <2>5. ASSUME VoidRead(h) \/ VoidWrite(h)  PROVE shift' = shift
    BY <2>5 DEF VoidRead, VoidWrite
  <2> QED
    BY <1>6, <2>1, <2>2, <2>3, <2>4, <2>5 DEF RowChange
<1>7. CASE UNCHANGED vars
  BY <1>7 DEF vars, RowChange
<1> QED
  BY <1>1, <1>2, <1>3, <1>4, <1>5, <1>6, <1>7 DEF Next

-----------------------------------------------------------------------------
(***************************************************************************)
(* The invariant.                                                          *)
(***************************************************************************)

LEMMA DeviceStep ==
    ASSUME TypeOK, DeviceUnique, RowChange
    PROVE  DeviceUnique'
<1> SUFFICES ASSUME NEW a \in Ids, NEW b \in Ids,
                    shift'[a].status = "OPEN", shift'[b].status = "OPEN",
                    shift'[a].device = shift'[b].device, shift'[a].device # None
             PROVE  a = b
  BY DEF DeviceUnique
<1>1. CASE shift' = shift
  BY <1>1 DEF DeviceUnique
<1>2. ASSUME NEW s \in Ids, NEW u \in Cashiers \cup {None}, NEW d \in Devices \cup {None},
             Opens(s, u, d)
      PROVE  a = b
  <2>1. shift'[s].status = "OPEN" /\ shift'[s].device = d
    BY <1>2, EmptyRows DEF Opens, TypeOK, Rows
  <2>2. \A t \in Ids \ {s} : shift'[t] = shift[t]
    BY <1>2 DEF Opens, TypeOK
  <2>3. d # None => \A t \in Ids : ~(shift[t].status = "OPEN" /\ shift[t].device = d)
    BY <1>2 DEF Opens, DeviceFree, OnDevice, Open
  <2> QED
    BY <2>1, <2>2, <2>3 DEF DeviceUnique
<1>3. ASSUME NEW s \in Ids, NEW d \in Devices \cup {None}, Adopts(s, d)
      PROVE  a = b
  <2>1. shift'[s].status = shift[s].status /\ shift'[s].device = d
    BY <1>3 DEF Adopts, TypeOK, Rows
  <2>2. \A t \in Ids \ {s} : shift'[t] = shift[t]
    BY <1>3 DEF Adopts, TypeOK
  <2>3. shift[s].status = "OPEN" /\ d # None =>
           \A t \in Ids : ~(shift[t].status = "OPEN" /\ shift[t].device = d)
    BY <1>3 DEF Adopts, DeviceFree, OnDevice, Open
  <2> QED
    BY <2>1, <2>2, <2>3 DEF DeviceUnique
<1>4. ASSUME NEW s \in Ids, Recounts(s)
      PROVE  a = b
  <2>1. \A t \in Ids : shift'[t].status = shift[t].status /\ shift'[t].device = shift[t].device
    BY <1>4 DEF Recounts, TypeOK, Rows
  <2> QED
    BY <2>1 DEF DeviceUnique
<1>5. ASSUME NEW s \in Ids, NEW w \in Work, Closes(s, w)
      PROVE  a = b
  <2>1. shift'[s].status = "CLOSED"
    BY <1>5 DEF Closes, TypeOK, Rows
  <2>2. \A t \in Ids \ {s} : shift'[t] = shift[t]
    BY <1>5 DEF Closes, TypeOK
  <2> QED
    BY <2>1, <2>2 DEF DeviceUnique
<1> QED
  BY <1>1, <1>2, <1>3, <1>4, <1>5 DEF RowChange

\* What a close may never change, and what it has to explain.
LEMMA ClosedStep ==
    ASSUME TypeOK, Explained, RowChange
    PROVE  /\ Explained'
           /\ \A s \in Ids : shift[s].status = "CLOSED" =>
                 /\ shift'[s].status = "CLOSED"
                 /\ shift'[s].expected = shift[s].expected
                 /\ shift'[s].counted = shift[s].counted
                 /\ shift'[s].ground = shift[s].ground
<1> DEFINE Same(t) == /\ shift'[t].status = shift[t].status
                      /\ shift'[t].expected = shift[t].expected
                      /\ shift'[t].counted = shift[t].counted
                      /\ shift'[t].ground = shift[t].ground
                      /\ shift'[t].recounts \in Nat
                      /\ shift'[t].recounts >= shift[t].recounts
           Fine(t) == \/ Same(t)
                      \/ shift[t].status # "CLOSED" /\ shift'[t].status # "CLOSED"
                      \/ shift[t].status # "CLOSED" /\ CountExplained(t)'
<1>0. \A t \in Ids : shift[t] = shift'[t] => Same(t)
  BY DEF TypeOK, Rows
<1>1. ASSUME NEW s \in Ids, NEW u \in Cashiers \cup {None}, NEW d \in Devices \cup {None},
             Opens(s, u, d)
      PROVE  \A t \in Ids : Fine(t)
  <2>1. shift'[s].status = "OPEN" /\ shift[s].status = "NONE"
    BY <1>1, EmptyRows DEF Opens, TypeOK, Rows
  <2>2. \A t \in Ids \ {s} : shift'[t] = shift[t]
    BY <1>1 DEF Opens, TypeOK
  <2> QED
    BY <1>0, <2>1, <2>2
<1>2. ASSUME NEW s \in Ids, NEW d \in Devices \cup {None}, Adopts(s, d)
      PROVE  \A t \in Ids : Fine(t)
  <2>1. Same(s)
    BY <1>2 DEF Adopts, TypeOK, Rows
  <2>2. \A t \in Ids \ {s} : shift'[t] = shift[t]
    BY <1>2 DEF Adopts, TypeOK
  <2> QED
    BY <1>0, <2>1, <2>2
<1>3. ASSUME NEW s \in Ids, Recounts(s)
      PROVE  \A t \in Ids : Fine(t)
  <2>1. Same(s)
    BY <1>3 DEF Recounts, TypeOK, Rows
  <2>2. \A t \in Ids \ {s} : shift'[t] = shift[t]
    BY <1>3 DEF Recounts, TypeOK
  <2> QED
    BY <1>0, <2>1, <2>2
<1>4. ASSUME NEW s \in Ids, NEW w \in Work, Closes(s, w)
      PROVE  \A t \in Ids : Fine(t)
  <2>1. /\ shift'[s].counted = w.amount /\ shift'[s].expected = w.expected
        /\ shift'[s].ground = w.ground /\ shift'[s].recounts = w.recounts
        /\ shift[s].status # "CLOSED"
    BY <1>4 DEF Closes, TypeOK, Rows
  <2>2. CountExplained(s)'
    BY <1>4, <2>1 DEF Closes, Justified, CountExplained, AboveTolerance
  <2>3. \A t \in Ids \ {s} : shift'[t] = shift[t]
    BY <1>4 DEF Closes, TypeOK
  <2> QED
    BY <1>0, <2>1, <2>2, <2>3
<1>5. \A t \in Ids : Fine(t)
  BY <1>0, <1>1, <1>2, <1>3, <1>4 DEF RowChange
<1>6. ASSUME NEW t \in Ids, Same(t), CountExplained(t)
      PROVE  CountExplained(t)'
  BY <1>6, AmountAssumption DEF CountExplained, AboveTolerance, TypeOK, Rows
<1> QED
  BY <1>5, <1>6 DEF Explained

\* The snapshot that closes a shift explains the count, by the grounds of close.
LEMMA GroundJustifies ==
    ASSUME NEW counted \in Int, NEW expected \in Int, NEW recounts \in Nat,
           NEW role \in {"cashier", "manager"}, NEW forced \in BOOLEAN, NEW pin \in BOOLEAN,
           Ground(counted, expected, recounts, role, forced, pin) \notin {"REFUSED", "RECOUNT"}
    PROVE  LET g == Ground(counted, expected, recounts, role, forced, pin)
           IN  /\ AboveTolerance(counted, expected) => g \in {"FORCED", "MANAGER", "PIN"}
               /\ g = "PIN" => recounts >= MaxRecounts
<1>1. MaxRecounts \in Nat
  BY AmountAssumption
<1> QED
  BY <1>1 DEF Ground, RecountLeft

LEMMA JustifiedStep == TypeOK /\ ClosesJustified /\ [Next]_vars => ClosesJustified'
<1> SUFFICES ASSUME TypeOK, ClosesJustified, [Next]_vars,
                    NEW r \in Requests, pc'[r] = "close"
             PROVE  Justified(loc'[r])
  BY DEF ClosesJustified, Justified, AboveTolerance
<1>1. ASSUME NEW h \in Requests, CloseRead(h)  PROVE Justified(loc'[r])
  <2> PICK s \in Open, counted \in Counts, role \in {"cashier", "manager"},
           forced \in BOOLEAN, pin \in BOOLEAN :
         LET g == Ground(counted, drawer[s], shift[s].recounts, role, forced, pin) IN
         /\ MayStart(h, "close")
         /\ g # "REFUSED"
         /\ Go(h, IF g = "RECOUNT" THEN "recount" ELSE "close",
               [NoWork EXCEPT !.kind = "close", !.id = s, !.amount = counted, !.ground = g,
                              !.expected = drawer[s], !.recounts = shift[s].recounts])
         /\ UNCHANGED <<shift, drawer>>
    BY <1>1 DEF CloseRead
  <2> DEFINE g == Ground(counted, drawer[s], shift[s].recounts, role, forced, pin)
             w == [NoWork EXCEPT !.kind = "close", !.id = s, !.amount = counted, !.ground = g,
                              !.expected = drawer[s], !.recounts = shift[s].recounts]
  <2>1. /\ counted \in Int /\ drawer[s] \in Int /\ shift[s].recounts \in Nat
    BY AmountAssumption DEF Open, TypeOK, Rows
  <2>2. g # "RECOUNT" =>
           /\ AboveTolerance(counted, drawer[s]) => g \in {"FORCED", "MANAGER", "PIN"}
           /\ g = "PIN" => shift[s].recounts >= MaxRecounts
    BY <2>1, GroundJustifies
  <2>3. /\ pc' = [pc EXCEPT ![h] = IF g = "RECOUNT" THEN "recount" ELSE "close"]
        /\ loc' = [loc EXCEPT ![h] = w]
    BY DEF Go, Step
  <2> HIDE DEF g
  <2>4. g # "RECOUNT" => Justified(w)
    BY <2>2 DEF Justified, NoWork
  <2>5. CASE r = h
    BY <2>3, <2>4, <2>5 DEF TypeOK
  <2>6. CASE r # h
    BY <2>3, <2>6 DEF TypeOK, ClosesJustified
  <2> QED
    BY <2>5, <2>6
<1>2. ASSUME NEW h \in Requests,
             \/ OpenRead(h) \/ CurrentRead(h) \/ LegacyRead(h) \/ AdoptWrite(h)
             \/ CreateWrite(h) \/ SaleRead(h) \/ SaleCommit(h) \/ MovementRead(h)
             \/ MovementWrite(h) \/ RecountWrite(h) \/ CloseWrite(h)
             \/ ExpenseRead(h) \/ ExpenseCommit(h) \/ VoidRead(h) \/ VoidWrite(h)
      PROVE  Justified(loc'[r])
  <2>1. \E step \in Steps \ {"close"} : \E w : Step(h, step, w)
    BY <1>2 DEF OpenRead, CurrentRead, LegacyRead, AdoptWrite, CreateWrite, SaleRead,
                SaleCommit, MovementRead, MovementWrite, RecountWrite, CloseWrite,
                ExpenseRead, ExpenseCommit, VoidRead, VoidWrite, Go, Finish, Steps
  <2>2. PICK step \in Steps \ {"close"} : \E w : Step(h, step, w)
    BY <2>1
  <2>3. PICK w : pc' = [pc EXCEPT ![h] = step] /\ loc' = [loc EXCEPT ![h] = w]
    BY <2>2 DEF Step
  <2>4. r # h
    BY <2>2, <2>3 DEF TypeOK
  <2> QED
    BY <2>3, <2>4 DEF TypeOK, ClosesJustified
<1>3. CASE UNCHANGED vars
  BY <1>3 DEF vars, ClosesJustified
<1> QED
  BY <1>1, <1>2, <1>3 DEF Next

-----------------------------------------------------------------------------
(***************************************************************************)
(* Theorems.                                                               *)
(***************************************************************************)

\* The inductive invariant holds in every reachable state: types, one open shift
\* of each computer, and explained counts written and about to be written.
THEOREM Invariance == Spec => []IInv
<1>1. Init => IInv
  <2> SUFFICES ASSUME Init  PROVE IInv
    OBVIOUS
  <2>1. TypeOK /\ Named
    BY TypeInit
  <2>2. /\ \A s \in Ids : shift[s].status = "NONE"
        /\ \A h \in Requests : pc[h] = "idle"
    BY DEF Init, NoShift
  <2> QED
    BY <2>1, <2>2 DEF IInv, DeviceUnique, ClosesJustified, Explained
<1>2. IInv /\ [Next]_vars => IInv'
  <2> SUFFICES ASSUME IInv, [Next]_vars  PROVE IInv'
    OBVIOUS
  <2>1. TypeOK' /\ Named'
    BY TypeStep DEF IInv
  <2>2. RowChange
    BY StepChangesRows DEF IInv
  <2>3. DeviceUnique' /\ Explained'
    BY <2>2, DeviceStep, ClosedStep DEF IInv
  <2>4. ClosesJustified'
    BY JustifiedStep DEF IInv
  <2> QED
    BY <2>1, <2>3, <2>4 DEF IInv
<1> QED
  BY <1>1, <1>2, PTL DEF Spec

\* A computer has at most one open shift, whichever of open, getCurrent and the
\* sales of any number of users adopts or creates one.
THEOREM DeviceSafety == Spec => []OneShiftPerDevice
<1>1. IInv => OneShiftPerDevice
  <2> SUFFICES ASSUME IInv, NEW d \in Devices  PROVE Cardinality(OnDevice(d)) <= 1
    BY DEF OneShiftPerDevice
  <2>1. \A s, t \in OnDevice(d) : s = t
    BY NoneAssumption DEF IInv, DeviceUnique, OnDevice, Open
  <2>2. CASE OnDevice(d) = {}
    <3>1. Cardinality({}) = 0
      BY FS_EmptySet
    <3> QED
      BY <2>2, <3>1
  <2>3. CASE OnDevice(d) # {}
    <3>1. PICK s \in OnDevice(d) : TRUE
      BY <2>3
    <3>2. OnDevice(d) = {s}
      BY <2>1, <3>1
    <3>3. Cardinality({s}) = 1
      BY FS_Singleton
    <3> QED
      BY <3>2, <3>3
  <2> QED
    BY <2>2, <2>3
<1> QED
  BY <1>1, Invariance, PTL

\* A shift is closed once, with its count explained, and its totals, count and
\* ground stay, however many closes are in flight.
THEOREM CloseSafety == Spec => ClosedStands
<1> DEFINE A == \A s \in Ids :
          /\ s \in Closed =>
                /\ shift'[s].status = "CLOSED"
                /\ shift'[s].expected = shift[s].expected
                /\ shift'[s].counted = shift[s].counted
                /\ shift'[s].ground = shift[s].ground
          /\ s \in Closed' => CountExplained(s)'
<1>1. IInv /\ [Next]_vars => A
  <2> SUFFICES ASSUME IInv, [Next]_vars  PROVE A
    OBVIOUS
  <2>1. RowChange
    BY StepChangesRows DEF IInv
  <2>2. /\ Explained'
        /\ \A s \in Ids : shift[s].status = "CLOSED" =>
              /\ shift'[s].status = "CLOSED"
              /\ shift'[s].expected = shift[s].expected
              /\ shift'[s].counted = shift[s].counted
              /\ shift'[s].ground = shift[s].ground
    BY <2>1, ClosedStep DEF IInv
  <2> QED
    BY <2>2 DEF Closed, Explained
<1>2. IInv /\ [Next]_vars => [A]_vars
  BY <1>1
<1> QED
  BY <1>2, Invariance, PTL DEF Spec, ClosedStands

-----------------------------------------------------------------------------
(***************************************************************************)
(* What the expenses took from each drawer.  A void decides on an expense  *)
(* that still stands when it writes, because no other void holds its row.  *)
(***************************************************************************)
TakenBy(ex, s) == [e \in Expenses |-> IF ex[e].shift = s /\ ~ex[e].back THEN ex[e].amount ELSE 0]

DrawersPay == \A s \in Ids : spent[s] = SumFunctionOnSet(TakenBy(expense, s), Expenses)

Standing == \A e \in Expenses : expense[e].status = "ACTIVE" => expense[e].shift \in Ids
                                                               /\ ~expense[e].back

VoidsHeld == \A h \in Requests : pc[h] = "void" => expense[loc[h].id].status = "ACTIVE"

OneVoid == \A g, h \in Requests :
              pc[g] = "void" /\ pc[h] = "void" /\ loc[g].id = loc[h].id => g = h

ExpenseParts == DrawersPay /\ Standing /\ VoidsHeld /\ OneVoid

ExpenseInv == TypeOK /\ Named /\ ExpenseParts

\* A request that writes no expense, and goes on to void one only if no other does.
LEMMA NoExpenseStep ==
    ASSUME ExpenseInv, NEW h \in Requests, NEW step \in Steps, NEW w, Go(h, step, w),
           step = "void" => /\ w.id \in Expenses /\ expense[w.id].status = "ACTIVE"
                            /\ Unlocked(w.id)
    PROVE  ExpenseParts'
<1>1. TypeOK /\ DrawersPay /\ Standing /\ VoidsHeld /\ OneVoid
  BY DEF ExpenseInv, ExpenseParts
<1>2. /\ UNCHANGED <<expense, spent>>
      /\ pc'[h] = step /\ loc'[h] = w
      /\ \A g \in Requests \ {h} : pc'[g] = pc[g] /\ loc'[g] = loc[g]
  BY <1>1 DEF Go, Step, TypeOK
<1>3. DrawersPay' /\ Standing'
  BY <1>1, <1>2 DEF DrawersPay, Standing
<1>4. VoidsHeld'
  BY <1>1, <1>2 DEF VoidsHeld
<1>5. OneVoid'
  BY <1>1, <1>2 DEF OneVoid, Unlocked
<1> QED
  BY <1>3, <1>4, <1>5 DEF ExpenseParts

\* One expense changes: the drawers follow by what it takes more or less.
LEMMA DrawerMoves ==
    ASSUME TypeOK, TypeOK', DrawersPay, NEW e \in Expenses, NEW s \in Ids, NEW k \in Int,
           \A o \in Expenses \ {e} : expense'[o] = expense[o],
           TakenBy(expense', s)[e] = TakenBy(expense, s)[e] + k,
           \A t \in Ids \ {s} : TakenBy(expense', t)[e] = TakenBy(expense, t)[e],
           spent' = [spent EXCEPT ![s] = @ + k]
    PROVE  DrawersPay'
<1> SUFFICES ASSUME NEW t \in Ids
             PROVE  spent'[t] = SumFunctionOnSet(TakenBy(expense', t), Expenses)
  BY DEF DrawersPay
<1> DEFINE g == TakenBy(expense, t)
           h == TakenBy(expense', t)
           d == IF t = s THEN k ELSE 0
<1>1. \A o \in Expenses : g[o] \in Int
  BY DEF TakenBy, TypeOK, ExpenseRows
<1>2. \A o \in Expenses : h[o] \in Int
  <2>1. \A o \in Expenses : expense'[o].amount \in Int
    BY DEF TypeOK, ExpenseRows
  <2> QED
    BY <2>1 DEF TakenBy
<1>3. \A o \in Expenses \ {e} : h[o] = g[o]
  BY DEF TakenBy
<1>4. h[e] = g[e] + d
  BY <1>1
<1>5. spent'[t] = spent[t] + d
  BY DEF TypeOK
<1>6. spent[t] = SumFunctionOnSet(g, Expenses)
  BY DEF DrawersPay
<1> HIDE DEF g, h
<1>7. SumFunctionOnSet(h, Expenses) = SumFunctionOnSet(g, Expenses) - g[e] + h[e]
  BY <1>1, <1>2, <1>3, SumChange, RowAssumption
<1> DEFINE u == SumFunctionOnSet(g, Expenses)
           v == g[e]
<1>8. u \in Int /\ v \in Int
  BY <1>1, SumInt, RowAssumption
<1> HIDE DEF u, v
<1>9. u - v + (v + d) = u + d
  BY <1>8
<1> QED
  BY <1>4, <1>5, <1>6, <1>7, <1>9 DEF u, v, h

\* A new expense takes its amount from the drawer of its shift.
LEMMA ExpenseCommitStep ==
    ASSUME ExpenseInv, TypeOK', NEW h \in Requests, ExpenseCommit(h)
    PROVE  ExpenseParts'
<1> DEFINE w == loc[h]
<1>1. /\ TypeOK /\ DrawersPay /\ Standing /\ VoidsHeld /\ OneVoid
      /\ w.id \in Ids /\ w.amount \in Int /\ pc[h] = "expense"
  BY DEF ExpenseInv, ExpenseParts, ExpenseCommit, Named, NamedBy, TypeOK, Work
<1>2. /\ pc'[h] = "idle"
      /\ \A g \in Requests \ {h} : pc'[g] = pc[g] /\ loc'[g] = loc[g]
  BY <1>1 DEF ExpenseCommit, Step, TypeOK
<1>3. OneVoid'
  BY <1>1, <1>2 DEF OneVoid
<1>4. CASE UNCHANGED <<expense, spent, drawer>>
  BY <1>1, <1>2, <1>3, <1>4 DEF ExpenseParts, DrawersPay, Standing, VoidsHeld
<1>5. ASSUME NEW e \in Expenses, expense[e] = NoExpense,
             expense' = [expense EXCEPT ![e] = [status |-> "ACTIVE", shift |-> w.id,
                                                amount |-> w.amount, back |-> FALSE]],
             spent' = [spent EXCEPT ![w.id] = @ + w.amount]
      PROVE  ExpenseParts'
  <2>1. /\ expense'[e] = [status |-> "ACTIVE", shift |-> w.id, amount |-> w.amount, back |-> FALSE]
        /\ \A o \in Expenses \ {e} : expense'[o] = expense[o]
    BY <1>1, <1>5 DEF TypeOK
  <2>2. expense[e].shift = 0 /\ expense[e].status = "NONE" /\ 0 \notin Ids
    BY <1>5, AmountAssumption DEF NoExpense, Ids
  <2>3. Standing'
    BY <1>1, <2>1 DEF Standing
  <2>4. VoidsHeld'
    <3>1. \A g \in Requests : pc'[g] = "void" => g # h /\ loc'[g] = loc[g]
                                               /\ expense[loc[g].id].status = "ACTIVE"
                                               /\ loc[g].id \in Expenses
      BY <1>1, <1>2 DEF VoidsHeld, ExpenseInv, Named, NamedBy
    <3>2. \A g \in Requests : pc'[g] = "void" => loc'[g].id \in Expenses \ {e}
      BY <2>2, <3>1
    <3> QED
      BY <2>1, <3>1, <3>2 DEF VoidsHeld
  <2>5. DrawersPay'
    <3>1. \A t \in Ids : TakenBy(expense, t)[e] = 0
      BY <2>2 DEF TakenBy
    <3>2. TakenBy(expense', w.id)[e] = w.amount
      BY <2>1 DEF TakenBy
    <3>3. \A t \in Ids \ {w.id} : TakenBy(expense', t)[e] = 0
      BY <2>1 DEF TakenBy
    <3>4. TakenBy(expense', w.id)[e] = TakenBy(expense, w.id)[e] + w.amount
      BY <1>1, <3>1, <3>2
    <3>5. \A t \in Ids \ {w.id} : TakenBy(expense', t)[e] = TakenBy(expense, t)[e]
      BY <3>1, <3>3
    <3> HIDE DEF w
    <3> QED
      BY <1>1, <1>5, <2>1, <3>4, <3>5, DrawerMoves
  <2> QED
    BY <1>3, <2>3, <2>4, <2>5 DEF ExpenseParts
<1> QED
  BY <1>4, <1>5 DEF ExpenseCommit

\* A void puts back what its expense took, once, or leaves it to a drawer that
\* was closed when it was read.
LEMMA VoidWriteStep ==
    ASSUME ExpenseInv, TypeOK', NEW h \in Requests, VoidWrite(h)
    PROVE  ExpenseParts'
<1> DEFINE e == loc[h].id
           s == expense[e].shift
           k == IF loc[h].adopt THEN 0 - expense[e].amount ELSE 0
           row == [expense[e] EXCEPT !.status = "VOIDED", !.back = loc[h].adopt]
<1>1. /\ TypeOK /\ DrawersPay /\ Standing /\ VoidsHeld /\ OneVoid
      /\ pc[h] = "void" /\ e \in Expenses /\ expense[e].status = "ACTIVE"
      /\ s \in Ids /\ ~expense[e].back
  BY DEF ExpenseInv, ExpenseParts, VoidWrite, Named, NamedBy, VoidsHeld, Standing
<1>2. /\ pc'[h] = "idle"
      /\ \A g \in Requests \ {h} : pc'[g] = pc[g] /\ loc'[g] = loc[g]
  BY <1>1 DEF VoidWrite, Step, TypeOK
<1>3. /\ expense[e] \in ExpenseRows /\ loc[h].adopt \in BOOLEAN
      /\ expense[e].amount \in Int /\ spent[s] \in Int
  BY <1>1 DEF TypeOK, Work, ExpenseRows
<1>4. /\ row.status = "VOIDED" /\ row.back = loc[h].adopt /\ row.shift = s
      /\ row.amount = expense[e].amount
  <2> DEFINE x == expense[e]
  <2>1. x \in ExpenseRows
    BY <1>3
  <2> HIDE DEF x
  <2>2. LET y == [x EXCEPT !.status = "VOIDED", !.back = loc[h].adopt]
        IN  /\ y.status = "VOIDED" /\ y.back = loc[h].adopt /\ y.shift = x.shift
            /\ y.amount = x.amount
    BY <2>1 DEF ExpenseRows
  <2> QED
    BY <2>2 DEF x
<1>5. /\ expense' = [expense EXCEPT ![e] = row]
      /\ expense'[e] = row /\ \A o \in Expenses \ {e} : expense'[o] = expense[o]
  BY <1>1 DEF VoidWrite, TypeOK
<1>6. k \in Int /\ spent' = [spent EXCEPT ![s] = @ + k]
  <2>1. k \in Int
    BY <1>3
  <2>2. spent' = [spent EXCEPT ![s] = spent[s] - (IF loc[h].adopt THEN expense[e].amount ELSE 0)]
    BY DEF VoidWrite
  <2>3. spent[s] - (IF loc[h].adopt THEN expense[e].amount ELSE 0) = spent[s] + k
    BY <1>3
  <2> QED
    BY <2>1, <2>2, <2>3
<1> HIDE DEF row
<1>7. DrawersPay'
  <2>1. TakenBy(expense, s)[e] = expense[e].amount
    BY <1>1 DEF TakenBy
  <2>2. TakenBy(expense', s)[e] = IF loc[h].adopt THEN 0 ELSE expense[e].amount
    BY <1>1, <1>3, <1>4, <1>5 DEF TakenBy
  <2>3. \A t \in Ids \ {s} : TakenBy(expense', t)[e] = 0 /\ TakenBy(expense, t)[e] = 0
    BY <1>1, <1>4, <1>5 DEF TakenBy
  <2>4. TakenBy(expense', s)[e] = TakenBy(expense, s)[e] + k
    BY <1>3, <2>1, <2>2
  <2>5. \A t \in Ids \ {s} : TakenBy(expense', t)[e] = TakenBy(expense, t)[e]
    BY <2>3
  <2> HIDE DEF e, s, k
  <2> QED
    BY <1>1, <1>5, <1>6, <2>4, <2>5, DrawerMoves
<1>8. Standing'
  BY <1>1, <1>4, <1>5 DEF Standing
<1>9. VoidsHeld'
  <2>1. \A g \in Requests : pc'[g] = "void" =>
           /\ g # h /\ loc'[g] = loc[g] /\ loc[g].id \in Expenses \ {e}
           /\ expense[loc[g].id].status = "ACTIVE"
    BY <1>1, <1>2 DEF VoidsHeld, OneVoid, ExpenseInv, Named, NamedBy
  <2> QED
    BY <1>5, <2>1 DEF VoidsHeld
<1>10. OneVoid'
  BY <1>1, <1>2 DEF OneVoid
<1> QED
  BY <1>7, <1>8, <1>9, <1>10 DEF ExpenseParts

LEMMA ExpenseNext == ASSUME ExpenseInv, [Next]_vars PROVE ExpenseInv'
<1>1. TypeOK' /\ Named'
  BY TypeStep DEF ExpenseInv
<1>2. ASSUME NEW h \in Requests,
             \/ OpenRead(h) \/ CurrentRead(h) \/ LegacyRead(h) \/ AdoptWrite(h)
             \/ CreateWrite(h) \/ SaleRead(h) \/ SaleCommit(h)
      PROVE  ExpenseParts'
  <2>1. \E step \in Steps \ {"void"} : \E w : Go(h, step, w)
    <3>1. ASSUME OpenRead(h) \/ CurrentRead(h) \/ LegacyRead(h)
          PROVE  \E step \in Steps \ {"void"} : \E w : Go(h, step, w)
      <4>1. ASSUME OpenRead(h) PROVE \E step \in {"create", "legacy"} : \E w : Go(h, step, w)
        BY <4>1 DEF OpenRead
      <4>2. ASSUME CurrentRead(h) PROVE \E w : Go(h, "legacy", w)
        BY <4>2 DEF CurrentRead
      <4>3. ASSUME LegacyRead(h)
            PROVE  \E step \in {"adopt", "create", "idle"} : \E w : Go(h, step, w)
        BY <4>3 DEF LegacyRead, Finish
      <4> QED
        BY <3>1, <4>1, <4>2, <4>3 DEF Steps
    <3>2. ASSUME AdoptWrite(h) \/ CreateWrite(h) \/ SaleCommit(h)
          PROVE  Go(h, "idle", NoWork) /\ "idle" \in Steps \ {"void"}
      BY <3>2 DEF AdoptWrite, CreateWrite, SaleCommit, Finish, Steps
    <3>3. ASSUME SaleRead(h)
          PROVE  \E step \in Steps \ {"void"} : \E w : Go(h, step, w)
      BY <3>3 DEF SaleRead, Steps
    <3> QED
      BY <1>2, <3>1, <3>2, <3>3
  <2> QED
    BY <2>1, NoExpenseStep
<1>3. ASSUME NEW h \in Requests,
             \/ MovementRead(h) \/ MovementWrite(h) \/ CloseRead(h)
             \/ RecountWrite(h) \/ CloseWrite(h) \/ ExpenseRead(h)
      PROVE  ExpenseParts'
  <2>1. \E step \in Steps \ {"void"} : \E w : Go(h, step, w)
    <3>1. ASSUME MovementRead(h) \/ CloseRead(h) \/ ExpenseRead(h)
          PROVE  \E step \in Steps \ {"void"} : \E w : Go(h, step, w)
      <4>1. ASSUME MovementRead(h) PROVE \E w : Go(h, "movement", w)
        BY <4>1 DEF MovementRead
      <4>2. ASSUME CloseRead(h) PROVE \E step \in {"recount", "close"} : \E w : Go(h, step, w)
        BY <4>2 DEF CloseRead
      <4>3. ASSUME ExpenseRead(h) PROVE \E w : Go(h, "expense", w)
        BY <4>3 DEF ExpenseRead
      <4> QED
        BY <3>1, <4>1, <4>2, <4>3 DEF Steps
    <3>2. ASSUME MovementWrite(h) \/ RecountWrite(h) \/ CloseWrite(h)
          PROVE  Go(h, "idle", NoWork) /\ "idle" \in Steps \ {"void"}
      BY <3>2 DEF MovementWrite, RecountWrite, CloseWrite, Finish, Steps
    <3> QED
      BY <1>3, <3>1, <3>2
  <2> QED
    BY <2>1, NoExpenseStep
<1>4. ASSUME NEW h \in Requests, VoidRead(h) PROVE ExpenseParts'
  <2> PICK e \in Expenses :
         /\ MayStart(h, "void")
         /\ Unlocked(e) /\ expense[e].status = "ACTIVE"
         /\ Go(h, "void", [NoWork EXCEPT !.kind = "void", !.id = e,
                                         !.adopt = shift[expense[e].shift].status = "OPEN"])
         /\ UNCHANGED <<shift, drawer>>
    BY <1>4 DEF VoidRead
  <2> DEFINE w == [NoWork EXCEPT !.kind = "void", !.id = e,
                                 !.adopt = shift[expense[e].shift].status = "OPEN"]
  <2>1. w.id = e /\ "void" \in Steps /\ Go(h, "void", w)
    BY DEF NoWork, Steps
  <2> HIDE DEF w
  <2> QED
    BY <2>1, NoExpenseStep
<1>5. ASSUME NEW h \in Requests, ExpenseCommit(h) PROVE ExpenseParts'
  BY <1>1, <1>5, ExpenseCommitStep
<1>6. ASSUME NEW h \in Requests, VoidWrite(h) PROVE ExpenseParts'
  BY <1>1, <1>6, VoidWriteStep
<1>7. ASSUME UNCHANGED vars PROVE ExpenseParts'
  BY <1>7 DEF vars, ExpenseInv, ExpenseParts, DrawersPay, Standing, VoidsHeld, OneVoid
<1>8. ASSUME Next PROVE ExpenseParts'
  <2> PICK h \in Requests :
         \/ OpenRead(h) \/ CurrentRead(h) \/ LegacyRead(h)
         \/ AdoptWrite(h) \/ CreateWrite(h)
         \/ SaleRead(h) \/ SaleCommit(h) \/ MovementRead(h) \/ MovementWrite(h)
         \/ CloseRead(h) \/ RecountWrite(h) \/ CloseWrite(h)
         \/ ExpenseRead(h) \/ ExpenseCommit(h) \/ VoidRead(h) \/ VoidWrite(h)
    BY <1>8 DEF Next
  <2> QED
    BY <1>2, <1>3, <1>4, <1>5, <1>6
<1> QED
  BY <1>1, <1>7, <1>8 DEF ExpenseInv

\* No expense has been entered at the start.
LEMMA ExpenseInit == ASSUME Init PROVE ExpenseInv
<1>1. TypeOK /\ Named
  BY TypeInit
<1>2. /\ \A e \in Expenses : expense[e].status = "NONE" /\ expense[e].shift = 0
      /\ \A h \in Requests : pc[h] = "idle"
      /\ \A s \in Ids : spent[s] = 0
  BY DEF Init, NoExpense
<1>3. DrawersPay
  <2> SUFFICES ASSUME NEW s \in Ids
               PROVE  SumFunctionOnSet(TakenBy(expense, s), Expenses) = 0
    BY <1>2 DEF DrawersPay
  <2>1. s # 0
    BY AmountAssumption DEF Ids
  <2>2. \A e \in Expenses : TakenBy(expense, s)[e] = 0
    BY <1>2, <2>1 DEF TakenBy
  <2> QED
    BY <2>2, SumZero, RowAssumption
<1>4. Standing /\ VoidsHeld /\ OneVoid
  BY <1>2 DEF Standing, VoidsHeld, OneVoid
<1> QED
  BY <1>1, <1>3, <1>4 DEF ExpenseInv, ExpenseParts

\* For any number of expenses and of voids in flight, and however shifts close
\* meanwhile, a drawer is short of exactly the expenses it paid and did not get back.
THEOREM ExpenseSafety == Spec => []ExpensesInDrawer
<1>1. Init => ExpenseInv
  BY ExpenseInit
<1>2. ExpenseInv /\ [Next]_vars => ExpenseInv'
  BY ExpenseNext
<1>3. ExpenseInv => ExpensesInDrawer
  <2> SUFFICES ASSUME ExpenseInv, NEW s \in Ids
               PROVE  LET taken == {e \in Expenses : expense[e].shift = s /\ ~expense[e].back}
                      IN  spent[s] = SumFunction([e \in taken |-> expense[e].amount])
    BY DEF ExpensesInDrawer
  <2> DEFINE taken == {e \in Expenses : expense[e].shift = s /\ ~expense[e].back}
             g == [e \in taken |-> expense[e].amount]
             h == TakenBy(expense, s)
  <2>1. spent[s] = SumFunctionOnSet(h, Expenses)
    BY DEF ExpenseInv, ExpenseParts, DrawersPay
  <2>2. \A e \in taken : g[e] \in Int /\ h[e] = g[e]
    BY DEF ExpenseInv, TypeOK, ExpenseRows, TakenBy
  <2>3. \A e \in Expenses \ taken : h[e] = 0
    BY DEF TakenBy
  <2>4. taken \in SUBSET Expenses /\ DOMAIN g = taken
    OBVIOUS
  <2> HIDE DEF g, h, taken
  <2>5. SumFunctionOnSet(h, Expenses) = SumFunctionOnSet(g, taken)
    BY <2>2, <2>3, <2>4, SumWhere, RowAssumption
  <2>6. SumFunction(g) = SumFunctionOnSet(g, taken)
    BY <2>4 DEF SumFunction
  <2> QED
    BY <2>1, <2>5, <2>6 DEF g, taken
<1> QED
  BY <1>1, <1>2, <1>3, PTL DEF Spec

-----------------------------------------------------------------------------
(***************************************************************************)
(* Credit accounts and statements.                                         *)
(***************************************************************************)

\* The rows of accounts, installments, payments, sales, statements and items, and
\* what a request has in hand.
AcctStatus == {"PENDING", "PARTIALLY_PAID", "OVERDUE", "PAID", "CANCELLED"}
SaleStatus == {"COMPLETED", "PARTIALLY_RETURNED", "RETURNED", "CANCELLED"}
CutStatuses == {"NONE", "OPEN", "PARTIALLY_SETTLED", "SETTLED", "CANCELLED"}

AcctRows == [status : AcctStatus, balance : Nat, due : Nat]
InstRows == [amount : Nat, paid : Nat, status : AcctStatus]
PaidRows == [abonos : Nat, cuts : Nat, interest : Nat]
SaleRows == [status : SaleStatus, refunded : Nat, cashBack : Nat]
CutRows  == [status : CutStatuses, total : Nat, settled : Nat]
ItemRows == [cut : Cuts \cup {NoRow}, amount : Nat, settled : Nat]
Jobs == [kind : AllKinds, account : Accounts \cup {NoRow}, amount : Nat, interest : Nat,
         balance : Nat, cut : Cuts \cup {NoRow}, seen : [Accounts -> Nat],
         todo : SUBSET Accounts]

\* The installments of one account.
Schedules == UNION {[1 .. n -> InstRows] : n \in Nat}

-----------------------------------------------------------------------------
(***************************************************************************)
(* Installments: an amount taken from them in order is taken whole.        *)
(***************************************************************************)

\* A schedule is a finite sequence of installments.
LEMMA ScheduleIs ==
    ASSUME NEW qs \in Schedules
    PROVE  /\ DOMAIN qs \in SUBSET Nat /\ IsFiniteSet(DOMAIN qs)
           /\ qs \in [DOMAIN qs -> InstRows]
           /\ \A ps \in [DOMAIN qs -> InstRows] : ps \in Schedules
<1>1. PICK n \in Nat : qs \in [1 .. n -> InstRows]
  BY DEF Schedules
<1>2. DOMAIN qs = 1 .. n /\ IsFiniteSet(1 .. n)
  BY <1>1, FS_Interval
<1> QED
  BY <1>1, <1>2 DEF Schedules

\* An installment asks for a natural, and never more than its amount.
LEMMA PendingNat ==
    ASSUME NEW q \in InstRows
    PROVE  /\ Pending(q) \in Nat /\ Pending(q) <= q.amount
           /\ Pending(q) > 0 => q.status \in LiveStatus /\ Pending(q) = q.amount - q.paid
  BY DEF InstRows, Pending, AtLeast0

\* What each installment asks for.
Pendings(qs) == [i \in DOMAIN qs |-> Pending(qs[i])]

\* So do any of a schedule's installments together.
LEMMA PendingsNat ==
    ASSUME NEW qs \in Schedules
    PROVE  /\ \A i \in DOMAIN qs : Pendings(qs)[i] \in Nat /\ Pendings(qs)[i] = Pending(qs[i])
           /\ \A I \in SUBSET DOMAIN qs : /\ PendingOf(qs, I) = SumFunctionOnSet(Pendings(qs), I)
                                          /\ PendingOf(qs, I) \in Nat
<1>1. \A i \in DOMAIN qs : Pendings(qs)[i] \in Nat /\ Pendings(qs)[i] = Pending(qs[i])
  BY ScheduleIs, PendingNat DEF Pendings
<1>2. ASSUME NEW I \in SUBSET DOMAIN qs
      PROVE  /\ PendingOf(qs, I) = SumFunctionOnSet(Pendings(qs), I)
             /\ PendingOf(qs, I) \in Nat
  <2>1. PendingOf(qs, I) = SumFunctionOnSet(Pendings(qs), I)
    BY DEF PendingOf, Pendings
  <2>2. IsFiniteSet(I)
    BY ScheduleIs, FS_Subset
  <2>3. SumFunctionOnSet(Pendings(qs), I) \in Nat
    BY <1>1, <2>2, SumNat
  <2> QED BY <2>1, <2>3
<1> QED
  BY <1>1, <1>2

\* The share of an installment is a natural, and at most what it asks for.
LEMMA ShareNat ==
    ASSUME NEW qs \in Schedules, NEW i \in DOMAIN qs, NEW I \in SUBSET DOMAIN qs,
           NEW amount \in Nat
    PROVE  Share(qs, i, I, amount) \in Nat /\ Share(qs, i, I, amount) <= Pending(qs[i])
<1>1. PendingOf(qs, I) \in Nat /\ Pending(qs[i]) \in Nat
  BY PendingsNat
<1> QED
  BY <1>1 DEF Share, Least, AtLeast0

\* What asks for less by its share, installment by installment, asks for less by
\* the whole amount.
LEMMA Spread ==
    ASSUME NEW qs \in Schedules, NEW ps \in Schedules, DOMAIN ps = DOMAIN qs,
           NEW R, StrictOrder(R, DOMAIN qs), NEW amount \in Nat,
           amount <= PendingOf(qs, DOMAIN qs),
           \A i \in DOMAIN qs :
              Pending(ps[i]) = Pending(qs[i]) - Share(qs, i, Ahead(R, DOMAIN qs, i), amount)
    PROVE  PendingOf(ps, DOMAIN ps) = PendingOf(qs, DOMAIN qs) - amount
<1> DEFINE D == DOMAIN qs  w == Pendings(qs)  v == Pendings(ps)  s == Portions(w, R, D, amount)
<1>0. IsFiniteSet(D)
  BY ScheduleIs
<1>1. \A i \in D : w[i] \in Nat /\ w[i] = Pending(qs[i])
  BY PendingsNat
<1>2. \A i \in D : v[i] \in Nat /\ v[i] = Pending(ps[i])
  BY PendingsNat
<1>3. \A i \in D : s[i] = Share(qs, i, Ahead(R, D, i), amount) /\ s[i] \in Nat
  <2> TAKE i \in D
  <2>1. Ahead(R, D, i) \in SUBSET D
    BY DEF Ahead
  <2>2. /\ PendingOf(qs, Ahead(R, D, i)) = SumFunctionOnSet(w, Ahead(R, D, i))
        /\ PendingOf(qs, Ahead(R, D, i)) \in Nat
    BY <2>1, PendingsNat
  <2>3. s[i] = Portion(w, R, D, amount, i)
    BY DEF Portions
  <2>4. Share(qs, i, Ahead(R, D, i), amount) \in Nat
    BY <2>1, ShareNat
  <2> HIDE DEF D, w, s
  <2>5. s[i] = Share(qs, i, Ahead(R, D, i), amount)
    BY <1>1, <2>2, <2>3 DEF Portion, SmallerOf, Share, Least, AtLeast0
  <2> QED BY <2>4, <2>5
<1>4. SumFunctionOnSet(s, D) = SmallerOf(amount, SumFunctionOnSet(w, D))
  <2> HIDE DEF w, s, D
  <2>1. StrictOrder(R, D)
    BY DEF D
  <2> QED BY <1>0, <1>1, <2>1, FillInOrder DEF s
<1>5. SumFunctionOnSet(w, D) = PendingOf(qs, D) /\ SumFunctionOnSet(w, D) \in Nat
  BY PendingsNat
<1>6. SumFunctionOnSet(v, D) = PendingOf(ps, D) /\ SumFunctionOnSet(v, D) \in Nat
  BY PendingsNat
<1>7. \A i \in D : w[i] = v[i] + s[i]
  <2> TAKE i \in D
  <2>1. v[i] = w[i] - s[i]
    BY <1>1, <1>2, <1>3
  <2> HIDE DEF v, w, s, D
  <2> QED BY <2>1, <1>1, <1>2, <1>3
<1>8. SumFunctionOnSet(w, D) = SumFunctionOnSet(v, D) + SumFunctionOnSet(s, D)
  <2> HIDE DEF v, w, s, D
  <2>1. \A i \in D : v[i] \in Int /\ s[i] \in Int /\ w[i] = v[i] + s[i]
    BY <1>2, <1>3, <1>7
  <2> QED BY <1>0, <2>1, SumPlus
<1>9. SumFunctionOnSet(s, D) = amount
  <2>1. amount <= SumFunctionOnSet(w, D)
    BY <1>5
  <2> HIDE DEF v, w, s, D
  <2> QED BY <1>4, <1>5, <2>1 DEF SmallerOf
<1>10. DOMAIN ps = D
  OBVIOUS
<1> HIDE DEF v, w, s
<1> QED
  BY <1>5, <1>6, <1>8, <1>9, <1>10

\* The two orders in which installments are taken.
LEMMA InstallmentOrders ==
    ASSUME NEW qs \in Schedules
    PROVE  \E R, Q : /\ StrictOrder(R, DOMAIN qs) /\ StrictOrder(Q, DOMAIN qs)
                     /\ \A i \in DOMAIN qs : /\ Ahead(R, DOMAIN qs, i) = Earlier(qs, i)
                                             /\ Ahead(Q, DOMAIN qs, i) = Later(qs, i)
<1> DEFINE D == DOMAIN qs
           R == {p \in D \X D : p[1] < p[2]}
           Q == {p \in D \X D : p[1] > p[2]}
<1>1. D \in SUBSET Nat
  BY ScheduleIs
<1>2. \A x, y \in D : (<<x, y>> \in R <=> x < y) /\ (<<x, y>> \in Q <=> x > y)
  OBVIOUS
<1> HIDE DEF R, Q
<1>3. StrictOrder(R, D) /\ StrictOrder(Q, D)
  BY <1>1, <1>2 DEF StrictOrder
<1>4. \A i \in D : Ahead(R, D, i) = Earlier(qs, i) /\ Ahead(Q, D, i) = Later(qs, i)
  BY <1>2 DEF Ahead, Earlier, Later
<1> QED
  BY <1>3, <1>4

\* Each installment asks for less by its share.
LEMMA FifoRows ==
    ASSUME NEW qs \in Schedules, NEW amount \in Nat
    PROVE  /\ PayFifo(qs, amount) \in Schedules /\ DOMAIN PayFifo(qs, amount) = DOMAIN qs
           /\ \A i \in DOMAIN qs : Pending(PayFifo(qs, amount)[i])
                = Pending(qs[i]) - Share(qs, i, Earlier(qs, i), amount)
<1> DEFINE D == DOMAIN qs  ps == PayFifo(qs, amount)
           part(i) == Share(qs, i, Earlier(qs, i), amount)
<1>1. \A i \in D : qs[i] \in InstRows
  BY ScheduleIs
<1>2. \A i \in D : part(i) \in Nat /\ part(i) <= Pending(qs[i])
  BY ShareNat DEF Earlier
<1>3. DOMAIN ps = D
  BY DEF PayFifo
<1>4. \A i \in D : ps[i] \in InstRows /\ Pending(ps[i]) = Pending(qs[i]) - part(i)
  <2> TAKE i \in D
  <2> DEFINE p == part(i)  q == qs[i]
             s == IF p = Pending(q) THEN "PAID" ELSE "PARTIALLY_PAID"
             row == [q EXCEPT !.paid = q.paid + p, !.status = s]
  <2>1. ps[i] = IF p = 0 THEN q ELSE row
    BY DEF PayFifo
  <2>2. q \in InstRows /\ p \in Nat /\ p <= Pending(q)
    BY <1>1, <1>2
  <2> SUFFICES ps[i] \in InstRows /\ Pending(ps[i]) = Pending(q) - p
    OBVIOUS
  <2> HIDE DEF p, q, ps
  <2>3. CASE p = 0
    <3>1. Pending(q) \in Nat
      BY <2>2, PendingNat
    <3> QED BY <2>1, <2>2, <2>3, <3>1
  <2>4. CASE p # 0
    <3>1. q.status \in LiveStatus /\ Pending(q) = q.amount - q.paid /\ Pending(q) \in Nat
      BY <2>2, <2>4, PendingNat
    <3>2. s \in AcctStatus /\ q.paid + p \in Nat
      BY <2>2 DEF AcctStatus, InstRows
    <3>3. row \in InstRows /\ row.amount = q.amount /\ row.paid = q.paid + p /\ row.status = s
      <4> HIDE DEF s
      <4> QED BY <2>2, <3>2 DEF InstRows
    <3>4. q.amount \in Nat /\ q.paid \in Nat
      BY <2>2 DEF InstRows
    <3> HIDE DEF row
    <3>5. Pending(row) = Pending(q) - p
      BY <2>2, <3>1, <3>3, <3>4 DEF Pending, AtLeast0, LiveStatus
    <3> QED BY <2>1, <2>4, <3>3, <3>5
  <2> QED BY <2>3, <2>4
<1>5. ps = [i \in D |-> ps[i]]
  BY DEF PayFifo
<1>6. ps \in Schedules
  <2>1. ps \in [D -> InstRows]
    <3> HIDE DEF ps, D
    <3> QED BY <1>4, <1>5
  <2> QED BY <2>1, ScheduleIs
<1> QED
  BY <1>3, <1>4, <1>6

\* An abono of at most what is pending pays installments of that sum.
LEMMA FifoPays ==
    ASSUME NEW qs \in Schedules, NEW amount \in Nat, amount <= PendingOf(qs, DOMAIN qs)
    PROVE  PendingOf(PayFifo(qs, amount), DOMAIN PayFifo(qs, amount))
             = PendingOf(qs, DOMAIN qs) - amount
<1> DEFINE D == DOMAIN qs  ps == PayFifo(qs, amount)
<1>1. /\ ps \in Schedules /\ DOMAIN ps = D
      /\ \A i \in D : Pending(ps[i]) = Pending(qs[i]) - Share(qs, i, Earlier(qs, i), amount)
  BY FifoRows
<1>2. PICK R : /\ StrictOrder(R, D)
               /\ \A i \in D : Ahead(R, D, i) = Earlier(qs, i)
  BY InstallmentOrders
<1>3. \A i \in D : Pending(ps[i]) = Pending(qs[i]) - Share(qs, i, Ahead(R, D, i), amount)
  BY <1>1, <1>2
<1> HIDE DEF ps
<1>4. PendingOf(ps, DOMAIN ps) = PendingOf(qs, DOMAIN qs) - amount
  BY <1>1, <1>2, <1>3, Spread
<1> QED
  BY <1>4 DEF ps

\* Each installment asks for less by its share.
LEMMA LifoRows ==
    ASSUME NEW qs \in Schedules, NEW amount \in Nat
    PROVE  /\ ForgiveLifo(qs, amount) \in Schedules /\ DOMAIN ForgiveLifo(qs, amount) = DOMAIN qs
           /\ \A i \in DOMAIN qs : Pending(ForgiveLifo(qs, amount)[i])
                = Pending(qs[i]) - Share(qs, i, Later(qs, i), amount)
<1> DEFINE D == DOMAIN qs  ps == ForgiveLifo(qs, amount)
           part(i) == Share(qs, i, Later(qs, i), amount)
<1>1. \A i \in D : qs[i] \in InstRows
  BY ScheduleIs
<1>2. \A i \in D : part(i) \in Nat /\ part(i) <= Pending(qs[i])
  BY ShareNat DEF Later
<1>3. DOMAIN ps = D
  BY DEF ForgiveLifo
<1>4. \A i \in D : ps[i] \in InstRows /\ Pending(ps[i]) = Pending(qs[i]) - part(i)
  <2> TAKE i \in D
  <2> DEFINE p == part(i)  q == qs[i]
             s == IF p < Pending(q) THEN q.status
                  ELSE IF q.paid = 0 THEN "CANCELLED" ELSE "PAID"
             row == [q EXCEPT !.amount = q.amount - p, !.status = s]
  <2>1. ps[i] = IF p = 0 THEN q ELSE row
    BY DEF ForgiveLifo
  <2>2. q \in InstRows /\ p \in Nat /\ p <= Pending(q)
    BY <1>1, <1>2
  <2> SUFFICES ps[i] \in InstRows /\ Pending(ps[i]) = Pending(q) - p
    OBVIOUS
  <2> HIDE DEF p, q, ps
  <2>3. CASE p = 0
    <3>1. Pending(q) \in Nat
      BY <2>2, PendingNat
    <3> QED BY <2>1, <2>2, <2>3, <3>1
  <2>4. CASE p # 0
    <3>1. /\ q.status \in LiveStatus /\ Pending(q) = q.amount - q.paid /\ Pending(q) \in Nat
          /\ Pending(q) <= q.amount
      BY <2>2, <2>4, PendingNat
    <3>4. q.amount \in Nat /\ q.paid \in Nat /\ q.status \in AcctStatus
      BY <2>2 DEF InstRows
    <3>5. q.amount - p \in Nat /\ s \in AcctStatus
      BY <2>2, <3>1, <3>4 DEF AcctStatus
    <3>3. row \in InstRows /\ row.amount = q.amount - p /\ row.paid = q.paid /\ row.status = s
      <4> HIDE DEF s
      <4> QED BY <2>2, <3>4, <3>5 DEF InstRows
    <3> HIDE DEF row
    <3>6. Pending(row) = Pending(q) - p
      BY <2>2, <3>1, <3>3, <3>4 DEF Pending, AtLeast0, LiveStatus
    <3> QED BY <2>1, <2>4, <3>3, <3>6
  <2> QED BY <2>3, <2>4
<1>5. ps = [i \in D |-> ps[i]]
  BY DEF ForgiveLifo
<1>6. ps \in Schedules
  <2>1. ps \in [D -> InstRows]
    <3> HIDE DEF ps, D
    <3> QED BY <1>4, <1>5
  <2> QED BY <2>1, ScheduleIs
<1> QED
  BY <1>3, <1>4, <1>6

\* A return of at most what is pending takes it from the installments.
LEMMA LifoForgives ==
    ASSUME NEW qs \in Schedules, NEW amount \in Nat, amount <= PendingOf(qs, DOMAIN qs)
    PROVE  PendingOf(ForgiveLifo(qs, amount), DOMAIN ForgiveLifo(qs, amount))
             = PendingOf(qs, DOMAIN qs) - amount
<1> DEFINE D == DOMAIN qs  ps == ForgiveLifo(qs, amount)
<1>1. /\ ps \in Schedules /\ DOMAIN ps = D
      /\ \A i \in D : Pending(ps[i]) = Pending(qs[i]) - Share(qs, i, Later(qs, i), amount)
  BY LifoRows
<1>2. PICK R : /\ StrictOrder(R, D)
               /\ \A i \in D : Ahead(R, D, i) = Later(qs, i)
  BY InstallmentOrders
<1>3. \A i \in D : Pending(ps[i]) = Pending(qs[i]) - Share(qs, i, Ahead(R, D, i), amount)
  BY <1>1, <1>2
<1> HIDE DEF ps
<1>4. PendingOf(ps, DOMAIN ps) = PendingOf(qs, DOMAIN qs) - amount
  BY <1>1, <1>2, <1>3, Spread
<1> QED
  BY <1>4 DEF ps

\* Cancelled installments ask for nothing; late ones still ask for the same.
LEMMA CancelAllIs ==
    ASSUME NEW qs \in Schedules
    PROVE  CancelAll(qs) \in Schedules
<1> DEFINE D == DOMAIN qs  ps == CancelAll(qs)
<1>1. \A i \in D : ps[i] \in InstRows
  <2> TAKE i \in D
  <2>1. qs[i] \in InstRows
    BY ScheduleIs
  <2>2. ps[i] = [qs[i] EXCEPT !.status = "CANCELLED"]
    BY DEF CancelAll
  <2>3. "CANCELLED" \in AcctStatus
    BY DEF AcctStatus
  <2> HIDE DEF ps
  <2> QED BY <2>1, <2>2, <2>3 DEF InstRows
<1>2. ps = [i \in D |-> ps[i]]
  BY DEF CancelAll
<1>3. ps \in [D -> InstRows]
  <2> HIDE DEF ps, D
  <2> QED BY <1>1, <1>2
<1> QED
  BY <1>3, ScheduleIs

\* An installment that falls overdue asks for the same.
LEMMA LateIs ==
    ASSUME NEW qs \in Schedules
    PROVE  /\ Late(qs) \in Schedules
           /\ PendingOf(Late(qs), DOMAIN Late(qs)) = PendingOf(qs, DOMAIN qs)
<1> DEFINE D == DOMAIN qs  ps == Late(qs)
<1>1. \A i \in D : ps[i] \in InstRows /\ Pending(ps[i]) = Pending(qs[i])
  <2> TAKE i \in D
  <2> DEFINE q == qs[i]  row == [q EXCEPT !.status = "OVERDUE"]
  <2>1. q \in InstRows
    BY ScheduleIs
  <2>2. ps[i] = IF q.status \in {"PENDING", "PARTIALLY_PAID"} /\ i < clock THEN row ELSE q
    BY DEF Late
  <2> SUFFICES ps[i] \in InstRows /\ Pending(ps[i]) = Pending(q)
    OBVIOUS
  <2> HIDE DEF ps, q
  <2>3. "OVERDUE" \in AcctStatus
    BY DEF AcctStatus
  <2>4. row \in InstRows /\ row.amount = q.amount /\ row.paid = q.paid /\ row.status = "OVERDUE"
    BY <2>1, <2>3 DEF InstRows
  <2> HIDE DEF row
  <2>5. q.status \in {"PENDING", "PARTIALLY_PAID"} => Pending(row) = Pending(q)
    BY <2>4 DEF Pending, LiveStatus
  <2> QED BY <2>1, <2>2, <2>4, <2>5
<1>2. ps = [i \in D |-> ps[i]]
  BY DEF Late
<1>3. ps \in [D -> InstRows]
  <2> HIDE DEF ps, D
  <2> QED BY <1>1, <1>2
<1>4. ps \in Schedules /\ DOMAIN ps = D
  BY <1>3, ScheduleIs
<1> HIDE DEF ps
<1>5. \A i \in D : Pendings(ps)[i] = Pendings(qs)[i]
  BY <1>1, <1>4, PendingsNat
<1>6. SumFunctionOnSet(Pendings(ps), D) = SumFunctionOnSet(Pendings(qs), D)
  <2>1. IsFiniteSet(D)
    BY ScheduleIs
  <2> HIDE DEF D
  <2> QED BY <1>5, <2>1, SumSame
<1>7. PendingOf(ps, DOMAIN ps) = PendingOf(qs, D)
  BY <1>4, <1>6, PendingsNat
<1> QED
  BY <1>4, <1>7 DEF ps

\* The next due date is a date.
LEMMA NextDueNat ==
    ASSUME NEW qs \in Schedules, NEW due \in Nat
    PROVE  NextDue(qs, due) \in Nat
<1> DEFINE live == {i \in DOMAIN qs : qs[i].status \in LiveStatus}
<1>1. live \in SUBSET Nat
  BY ScheduleIs
<1>2. CASE live = {}
  BY <1>2 DEF NextDue
<1>3. CASE live # {}
  <2>1. \E x \in live : \A y \in live : x <= y
    <3> HIDE DEF live
    <3> QED BY <1>1, <1>3, LeastExists
  <2>2. Min(live) \in live
    BY <2>1 DEF Min
  <2> QED BY <1>1, <1>3, <2>2 DEF NextDue
<1> QED
  BY <1>2, <1>3

\* n equal parts, rounded down, are at most the whole.
LEMMA RoundedDown ==
    ASSUME NEW m \in Nat, NEW n \in Nat \ {0}
    PROVE  m \div n \in Nat /\ (m \div n) * n <= m
  OBVIOUS

\* The installments of a sale add up to what is financed.
LEMMA CuotasAddUp ==
    ASSUME NEW m \in Nat, NEW n \in Nat \ {0}
    PROVE  /\ Cuotas(m, n) \in Schedules
           /\ PendingOf(Cuotas(m, n), DOMAIN Cuotas(m, n)) = m
<1> DEFINE D == 1 .. n  base == m \div n  last == m - base * (n - 1)
           qs == Cuotas(m, n)  rest == D \ {n}
<1>1. base \in Nat /\ base * n <= m
  BY RoundedDown
<1>2. last \in Nat
  <2> HIDE DEF base
  <2>1. base * (n - 1) = base * n - base /\ base * n \in Nat
    BY <1>1
  <2> QED BY <1>1, <2>1
<1>3. \A i \in D : qs[i] = [amount |-> IF i = n THEN last ELSE base, paid |-> 0, status |-> "PENDING"]
  BY DEF Cuotas
<1>4. qs = [i \in D |-> qs[i]]
  BY DEF Cuotas
<1> HIDE DEF base, last, qs
<1>5. \A i \in D : qs[i] \in InstRows /\ Pending(qs[i]) = IF i = n THEN last ELSE base
  <2> TAKE i \in D
  <2> DEFINE x == IF i = n THEN last ELSE base
  <2>1. x \in Nat /\ qs[i] = [amount |-> x, paid |-> 0, status |-> "PENDING"]
    BY <1>1, <1>2, <1>3
  <2> HIDE DEF x
  <2>2. qs[i] \in InstRows /\ Pending(qs[i]) = x
    BY <2>1 DEF InstRows, AcctStatus, Pending, LiveStatus, AtLeast0
  <2> QED BY <2>2 DEF x
<1>6. qs \in Schedules /\ DOMAIN qs = D
  BY <1>4, <1>5 DEF Schedules
<1> DEFINE w == Pendings(qs)
<1>7. \A i \in D : w[i] = (IF i = n THEN last ELSE base) /\ w[i] \in Int
  BY <1>1, <1>2, <1>5, <1>6, PendingsNat
<1> DEFINE one == [i \in D |-> 1]
<1>8. \A i \in D : one[i] = 1
  OBVIOUS
<1>9. n \in D /\ IsFiniteSet(D) /\ Cardinality(D) = n /\ IsFiniteSet(rest) /\ Cardinality(rest) = n - 1
  <2>1. n \in D /\ IsFiniteSet(D) /\ Cardinality(D) = n
    BY FS_Interval
  <2> QED BY <2>1, FS_RemoveElement
<1> HIDE DEF w, one
<1>10. SumFunctionOnSet(w, D) = w[n] + SumFunctionOnSet(w, rest)
  BY <1>7, <1>9, SumRemove
<1>11. SumFunctionOnSet(one, rest) = n - 1
  BY <1>8, <1>9, SumOnes
<1>12. SumFunctionOnSet(w, rest) = base * SumFunctionOnSet(one, rest)
  <2>1. \A i \in rest : one[i] \in Int /\ w[i] = base * one[i]
    BY <1>1, <1>7, <1>8
  <2>2. IsFiniteSet(rest) /\ base \in Int
    BY <1>1, <1>9
  <2> HIDE DEF rest, D
  <2> QED BY <2>1, <2>2, SumScale
<1>13. SumFunctionOnSet(w, D) = m
  <2>1. w[n] = last
    BY <1>7, <1>9
  <2>2. base * (n - 1) \in Int
    BY <1>1
  <2> QED BY <1>10, <1>11, <1>12, <2>1, <2>2 DEF last
<1>14. PendingOf(qs, DOMAIN qs) = m
  BY <1>6, <1>13, PendingsNat DEF w
<1> QED
  BY <1>6, <1>14 DEF qs

-----------------------------------------------------------------------------
(***************************************************************************)
(* What is true of the rows, and of what each transaction has read.        *)
(***************************************************************************)

\* Rows, and what each transaction has read, keep their types.
CreditTypeOK ==
    /\ setting \in Settings
    /\ plan \in [Accounts -> setting.plans]
    /\ acct \in [Accounts -> AcctRows]
    /\ inst \in [Accounts -> Schedules]
    /\ paid \in [Accounts -> PaidRows]
    /\ sale \in [Accounts -> SaleRows]
    /\ cut \in [Cuts -> CutRows]
    /\ item \in [Accounts -> ItemRows]
    /\ clock \in Nat
    /\ phase \in [Transactions -> {"idle", "busy"}]
    /\ job \in [Transactions -> Jobs]

\* What may be in flight together: one transaction of any kind, or any number of
\* abonos, statements, settlements and cancellations.
OrderlyKinds == {"abono", "cut", "settle", "cancelCut"}
OrderlySetting(sc) == sc.width = 1 \/ sc.kinds \subseteq OrderlyKinds
Orderly == OrderlySetting(setting)

\* What is in flight is what the setting allows.
Queue ==
    /\ IsFiniteSet(InFlight)
    /\ setting.width = 1 => \A q, r \in InFlight : q = r
    /\ \A r \in InFlight : job[r].kind \in setting.kinds

\* With several at once no sale is returned or voided.
NoneClosed == setting.width # 1 =>
    \A a \in Accounts : sale[a].status = "COMPLETED" /\ acct[a].status # "CANCELLED"

\* The money of one account.
BookOf(pl, ac, pd, sl) ==
    /\ ac.status = "CANCELLED" => ac.balance = 0
    /\ ac.status # "CANCELLED" => ((ac.status = "PAID") <=> (ac.balance = 0))
    /\ sl.status = "COMPLETED" => sl.refunded = 0 /\ sl.cashBack = 0
    /\ sl.status = "CANCELLED" => ac.status = "CANCELLED" /\ sl.cashBack = pd.abonos + pd.cuts
    /\ sl.status # "CANCELLED" => pd.abonos + pd.cuts + ac.balance
                                    = pl.total - pl.prima + pl.interest - sl.refunded + sl.cashBack

Books == \A a \in Accounts : BookOf(plan[a], acct[a], paid[a], sale[a])

\* The item of one account.
EntryOf(ac, pd, sl, it) ==
    /\ pd.cuts = it.settled
    /\ it.cut = NoRow => it.settled = 0
    /\ it.cut # NoRow => sl.status # "CANCELLED" /\ ac.balance <= it.amount - it.settled

Entries == \A a \in Accounts : EntryOf(acct[a], paid[a], sale[a], item[a])

\* One statement, of the items I.
StatementOf(ct, I, owed, done) ==
    /\ ct.settled = SumFunctionOnSet(done, I)
    /\ ct.settled <= ct.total
    /\ ct.status \in {"NONE", "CANCELLED"} => I = {} /\ ct.settled = 0
    /\ ct.status \notin {"NONE", "CANCELLED"} => ct.total = SumFunctionOnSet(owed, I)
    /\ ct.status = "SETTLED" => ct.settled = ct.total

Owed == [a \in Accounts |-> item[a].amount]
Done == [a \in Accounts |-> item[a].settled]

Statements == \A c \in Cuts : StatementOf(cut[c], ItemsOf(c), Owed, Done)

\* What a transaction has read is still so, or errs on the safe side.
ReadAbono(j) == /\ j.account \in Accounts
                /\ setting.width = 1 => acct[j.account].status \notin {"PAID", "CANCELLED"}
ReadReturn(j) == /\ j.account \in Accounts /\ ~InCut(j.account) /\ j.amount > 0
                 /\ j.balance = acct[j.account].balance
                 /\ sale[j.account].status \in {"COMPLETED", "PARTIALLY_RETURNED"}
ReadVoid(j) == /\ j.account \in Accounts /\ ~InCut(j.account)
               /\ sale[j.account].status = "COMPLETED"
               /\ j.amount = paid[j.account].abonos + paid[j.account].cuts
ReadCut(j) == /\ j.cut \in Cuts /\ cut[j.cut].status = "NONE"
              /\ \A a \in j.todo : acct[a].balance <= j.seen[a] /\ sale[a].status # "CANCELLED"
ReadSettle(j) == /\ j.cut \in Cuts /\ cut[j.cut].status \in {"OPEN", "PARTIALLY_SETTLED"}
                 /\ j.balance = cut[j.cut].settled /\ j.todo = ItemsOf(j.cut)
                 /\ j.amount <= cut[j.cut].total - cut[j.cut].settled
ReadReconcile(j) == \A a \in j.todo : acct[a].status \notin {"PAID", "CANCELLED"}

InHand(j) ==
    /\ j.kind = "abono" => ReadAbono(j)
    /\ j.kind = "return" => ReadReturn(j)
    /\ j.kind = "void" => ReadVoid(j)
    /\ j.kind = "cut" => ReadCut(j)
    /\ j.kind = "settle" => ReadSettle(j)
    /\ j.kind = "reconcile" => ReadReconcile(j)

Held == \A r \in InFlight : InHand(job[r])

\* No two transactions work on one statement.
OnStatement(j) == j.kind \in {"cut", "settle"}
Apart == \A q, r \in InFlight :
            q # r /\ OnStatement(job[q]) /\ OnStatement(job[r]) => job[q].cut # job[r].cut

\* The inductive invariant.
CreditInv == /\ CreditTypeOK /\ Orderly /\ Queue /\ NoneClosed
             /\ Books /\ Entries /\ Statements /\ Held /\ Apart

-----------------------------------------------------------------------------
(***************************************************************************)
(* The books of one account.                                               *)
(***************************************************************************)

\* Every plan of every setting.
Plans == UNION {sc.plans : sc \in Settings}

\* What the assumption says of one plan.
LEMMA PlanIs ==
    ASSUME NEW pl \in Plans
    PROVE  /\ pl.total \in Nat /\ pl.prima \in Nat /\ pl.interest \in Nat
           /\ pl.prima < pl.total /\ pl.cuotas \in Nat \ {0}
  BY PlanAssumption DEF Plans

\* The rows of one account have their types.
LEMMA RowsOf ==
    ASSUME CreditTypeOK, NEW a \in Accounts
    PROVE  /\ plan[a] \in Plans /\ acct[a] \in AcctRows /\ inst[a] \in Schedules
           /\ paid[a] \in PaidRows /\ sale[a] \in SaleRows /\ item[a] \in ItemRows
  BY DEF CreditTypeOK, Plans

\* What is paid leaves the balance and is received.
LEMMA PaidBook ==
    ASSUME NEW pl \in Plans, NEW ac \in AcctRows, NEW pd \in PaidRows, NEW sl \in SaleRows,
           BookOf(pl, ac, pd, sl), ac.status # "CANCELLED",
           NEW amount \in Nat, amount <= ac.balance,
           NEW bc \in AcctRows, bc.balance = ac.balance - amount, bc.status # "CANCELLED",
           (bc.status = "PAID") <=> (bc.balance = 0),
           NEW pe \in PaidRows, pe.abonos + pe.cuts = pd.abonos + pd.cuts + amount
    PROVE  BookOf(pl, bc, pe, sl)
<1>1. /\ ac.balance \in Nat /\ bc.balance \in Nat /\ pd.abonos \in Nat /\ pd.cuts \in Nat
      /\ pe.abonos \in Nat /\ pe.cuts \in Nat /\ sl.refunded \in Nat /\ sl.cashBack \in Nat
  BY DEF AcctRows, PaidRows, SaleRows
<1>2. pl.total \in Nat /\ pl.prima \in Nat /\ pl.interest \in Nat
  BY PlanIs
<1> QED
  BY <1>1, <1>2 DEF BookOf

\* A return takes from the balance, and gives back in cash what it exceeds it by.
LEMMA ReturnBook ==
    ASSUME NEW pl \in Plans, NEW ac \in AcctRows, NEW pd \in PaidRows, NEW sl \in SaleRows,
           BookOf(pl, ac, pd, sl), sl.status \notin {"CANCELLED"}, NEW amount \in Nat, amount > 0,
           NEW bc \in AcctRows, NEW tl \in SaleRows,
           IF ac.balance - amount < 0
             THEN bc.balance = 0 /\ bc.status = "CANCELLED"
             ELSE bc.balance = ac.balance - amount /\
                  bc.status = IF bc.balance = 0 THEN "PAID" ELSE "PARTIALLY_PAID",
           tl.status \in {"RETURNED", "PARTIALLY_RETURNED"},
           tl.refunded = sl.refunded + amount,
           tl.cashBack = sl.cashBack + Excess(amount, ac.balance)
    PROVE  BookOf(pl, bc, pd, tl)
<1>1. /\ ac.balance \in Nat /\ bc.balance \in Nat /\ pd.abonos \in Nat /\ pd.cuts \in Nat
      /\ sl.refunded \in Nat /\ sl.cashBack \in Nat
  BY DEF AcctRows, PaidRows, SaleRows
<1>2. pl.total \in Nat /\ pl.prima \in Nat /\ pl.interest \in Nat
  BY PlanIs
<1>3. pd.abonos + pd.cuts + ac.balance
        = pl.total - pl.prima + pl.interest - sl.refunded + sl.cashBack
  BY DEF BookOf
<1>4. pd.abonos + pd.cuts + bc.balance
        = pl.total - pl.prima + pl.interest - tl.refunded + tl.cashBack
  BY <1>1, <1>2, <1>3 DEF Excess, AtLeast0
<1> QED
  BY <1>1, <1>4 DEF BookOf

\* A void gives back what was received.
LEMMA VoidBook ==
    ASSUME NEW pl \in Plans, NEW ac \in AcctRows, NEW pd \in PaidRows, NEW sl \in SaleRows,
           BookOf(pl, ac, pd, sl), sl.status = "COMPLETED",
           NEW bc \in AcctRows, NEW tl \in SaleRows,
           bc.balance = 0, bc.status = "CANCELLED", tl.status = "CANCELLED",
           tl.cashBack = sl.cashBack + (pd.abonos + pd.cuts)
    PROVE  BookOf(pl, bc, pd, tl)
<1>1. pd.abonos \in Nat /\ pd.cuts \in Nat
  BY DEF PaidRows
<1> QED
  BY <1>1 DEF BookOf

-----------------------------------------------------------------------------
(***************************************************************************)
(* How transactions begin and end.                                         *)
(***************************************************************************)

\* What the assumption says of the setting that was chosen.
LEMMA Types == ASSUME CreditTypeOK PROVE setting.width \in Nat \ {0} /\ setting.accounts \subseteq Accounts
                                         /\ setting.cuts \subseteq Cuts /\ setting.kinds \subseteq AllKinds
  BY SettingAssumption DEF CreditTypeOK

\* No other transaction is in flight when one begins alone.
LEMMA NoneBefore ==
    ASSUME CreditTypeOK, Queue, setting.width = 1, Cardinality(InFlight) < setting.width
    PROVE  InFlight = {}
<1>1. IsFiniteSet(InFlight) /\ Cardinality(InFlight) \in Nat
  BY FS_CardinalityType DEF Queue
<1>2. Cardinality(InFlight) = 0
  BY <1>1
<1> QED
  BY <1>1, <1>2, FS_EmptySet

\* A transaction that starts has the others stand where they were.
LEMMA StartStep ==
    ASSUME CreditTypeOK, Queue, NEW r \in Transactions, NEW w \in Jobs, w.kind \in setting.kinds,
           phase[r] = "idle", Cardinality(InFlight) < setting.width,
           phase' = [phase EXCEPT ![r] = "busy"], job' = [job EXCEPT ![r] = w],
           UNCHANGED setting
    PROVE  /\ phase' \in [Transactions -> {"idle", "busy"}] /\ job' \in [Transactions -> Jobs]
           /\ InFlight' = InFlight \cup {r} /\ r \notin InFlight
           /\ job'[r] = w /\ \A q \in InFlight : job'[q] = job[q]
           /\ Queue'
<1>1. phase' \in [Transactions -> {"idle", "busy"}] /\ job' \in [Transactions -> Jobs]
  BY DEF CreditTypeOK
<1>2. InFlight' = InFlight \cup {r} /\ r \notin InFlight
  BY DEF InFlight, CreditTypeOK
<1>3. job'[r] = w /\ \A q \in InFlight : job'[q] = job[q]
  BY <1>2 DEF CreditTypeOK, InFlight
<1>4. IsFiniteSet(InFlight')
  BY <1>2, FS_AddElement DEF Queue
<1>5. setting.width = 1 => InFlight = {}
  BY NoneBefore
<1> QED
  BY <1>1, <1>2, <1>3, <1>4, <1>5 DEF Queue

\* A transaction that ends leaves the others as they were, and alone when one runs
\* at a time.
LEMMA EndStep ==
    ASSUME CreditTypeOK, Queue, Apart, NEW r \in Transactions, phase[r] = "busy", End(r)
    PROVE  /\ phase' \in [Transactions -> {"idle", "busy"}] /\ job' \in [Transactions -> Jobs]
           /\ InFlight' = InFlight \ {r} /\ r \in InFlight
           /\ \A q \in InFlight' : job'[q] = job[q] /\ q # r
           /\ Queue' /\ Apart'
           /\ setting' = setting /\ plan' = plan /\ clock' = clock
           /\ setting.width = 1 => InFlight' = {}
<1>0. NoJob \in Jobs
  BY DEF NoJob, Jobs, AllKinds
<1>1. phase' \in [Transactions -> {"idle", "busy"}] /\ job' \in [Transactions -> Jobs]
  BY <1>0 DEF CreditTypeOK, End
<1>2. InFlight' = InFlight \ {r} /\ r \in InFlight
  BY DEF InFlight, CreditTypeOK, End
<1>3. \A q \in InFlight' : job'[q] = job[q] /\ q # r
  BY <1>2 DEF CreditTypeOK, InFlight, End
<1>4. IsFiniteSet(InFlight')
  BY <1>2, FS_Subset DEF Queue
<1>5. setting' = setting /\ plan' = plan /\ clock' = clock
  BY DEF End
<1>6. Queue'
  BY <1>2, <1>3, <1>4, <1>5 DEF Queue
<1>7. Apart'
  BY <1>2, <1>3 DEF Apart
<1>8. setting.width = 1 => InFlight' = {}
  BY <1>2 DEF Queue
<1> QED
  BY <1>1, <1>2, <1>3, <1>5, <1>6, <1>7, <1>8

-----------------------------------------------------------------------------
(***************************************************************************)
(* What the transactions read.                                             *)
(***************************************************************************)

\* The balances are naturals that a transaction may keep.
LEMMA Balances == ASSUME CreditTypeOK PROVE [a \in Accounts |-> acct[a].balance] \in [Accounts -> Nat]
<1>1. \A a \in Accounts : acct[a].balance \in Nat
  BY RowsOf DEF AcctRows
<1> QED
  BY <1>1

\* A transaction that begins with something true in hand keeps the invariant: it
\* writes no row but the state of installments.
LEMMA ReadStep ==
    ASSUME CreditInv, NEW r \in Transactions, NEW w \in Jobs, w.kind \in setting.kinds,
           InHand(w), OnStatement(w) => \A q \in InFlight : job[q].cut # w.cut \/ ~OnStatement(job[q]),
           phase[r] = "idle", Cardinality(InFlight) < setting.width,
           phase' = [phase EXCEPT ![r] = "busy"], job' = [job EXCEPT ![r] = w],
           UNCHANGED <<setting, plan, acct, paid, sale, cut, item, clock>>,
           inst' \in [Accounts -> Schedules]
    PROVE  CreditInv'
<1>1. CreditTypeOK /\ Queue
  BY DEF CreditInv
<1>2. /\ phase' \in [Transactions -> {"idle", "busy"}] /\ job' \in [Transactions -> Jobs]
      /\ InFlight' = InFlight \cup {r} /\ r \notin InFlight
      /\ job'[r] = w /\ \A q \in InFlight : job'[q] = job[q]
      /\ Queue'
  BY <1>1, StartStep
<1>3. CreditTypeOK'
  BY <1>1, <1>2 DEF CreditTypeOK
<1>4. Orderly' /\ NoneClosed' /\ Books' /\ Entries'
  BY DEF CreditInv, Orderly, NoneClosed, Books, Entries
<1>5. Statements'
  <2>1. \A c \in Cuts : StatementOf(cut[c], ItemsOf(c), Owed, Done)
    BY DEF CreditInv, Statements
  <2>2. cut' = cut /\ Owed' = Owed /\ Done' = Done /\ \A c \in Cuts : ItemsOf(c)' = ItemsOf(c)
    BY DEF Owed, Done, ItemsOf
  <2> QED BY <2>1, <2>2 DEF Statements
<1>6. \A j : InHand(j) => InHand(j)'
  BY DEF InHand, ReadAbono, ReadReturn, ReadVoid, ReadCut, ReadSettle, ReadReconcile, InCut, ItemsOf
<1>7. Held'
  <2>1. \A q \in InFlight : InHand(job[q])
    BY DEF CreditInv, Held
  <2> SUFFICES ASSUME NEW q \in InFlight' PROVE InHand(job[q])'
    BY DEF Held
  <2>2. InHand(job'[q])
    BY <1>2, <2>1
  <2>3. \E x : x = job'[q]
    OBVIOUS
  <2>4. PICK x : x = job'[q]
    BY <2>3
  <2>5. InHand(x)'
    BY <1>6, <2>2, <2>4
  <2> QED BY <2>4, <2>5
<1>8. Apart'
  BY <1>2 DEF CreditInv, Apart, OnStatement
<1> QED
  BY <1>2, <1>3, <1>4, <1>5, <1>7, <1>8 DEF CreditInv

\* An empty job is a job.
LEMMA NoJobIs ==
    /\ NoJob \in Jobs /\ NoJob.todo = {} /\ NoJob.account = NoRow /\ NoJob.cut = NoRow
  BY DEF NoJob, Jobs, AllKinds

\* Rounding a quotient of naturals gives a natural.
LEMMA RoundDivNat == ASSUME NEW n \in Nat, NEW d \in Nat \ {0} PROVE RoundDiv(n, d) \in Nat
<1> DEFINE x == 2 * n + d  y == 2 * d
<1>1. x \in Nat /\ y \in Nat \ {0}
  OBVIOUS
<1> HIDE DEF x, y
<1>2. x \div y \in Nat
  BY <1>1
<1> QED
  BY <1>2 DEF RoundDiv, x, y

\* The interest inside an abono is a natural, and never more than is left of it.
LEMMA PortionNat ==
    ASSUME CreditTypeOK, NEW a \in Accounts, NEW amount \in Nat, NEW balance \in Nat,
           NEW prior \in Nat
    PROVE  /\ InterestPortion(a, amount, balance, prior) \in Nat
           /\ prior <= plan[a].interest =>
                prior + InterestPortion(a, amount, balance, prior) <= plan[a].interest
<1>1. plan[a] \in Plans
  BY RowsOf
<1>2. plan[a].interest \in Nat /\ Original(a) \in Nat \ {0}
  BY <1>1, PlanIs DEF Original
<1>3. amount * plan[a].interest \in Nat
  <2> DEFINE i == plan[a].interest
  <2>1. i \in Nat
    BY <1>2
  <2> HIDE DEF i
  <2>2. amount * i \in Nat
    BY <2>1
  <2> QED BY <2>2 DEF i
<1>4. RoundDiv(amount * plan[a].interest, Original(a)) \in Nat
  BY <1>2, <1>3, RoundDivNat
<1> DEFINE x == RoundDiv(amount * plan[a].interest, Original(a))
<1> HIDE DEF x
<1> QED
  BY <1>2, <1>4 DEF InterestPortion, Least, AtLeast0, x

\* registerPayment reads the account and the interest portions.
LEMMA AbonoReadStep ==
    ASSUME CreditInv, NEW r \in Transactions, AbonoRead(r)
    PROVE  CreditInv'
<1>1. CreditTypeOK
  BY DEF CreditInv
<1>2. PICK a \in setting.accounts : \E amount \in 1 .. acct[a].balance :
        /\ acct[a].status \notin {"PAID", "CANCELLED"}
        /\ Begin(r, "abono",
             [NoJob EXCEPT !.account = a, !.amount = amount,
                !.interest = InterestPortion(a, amount, acct[a].balance, paid[a].interest)])
  BY DEF AbonoRead
<1>3. PICK amount \in 1 .. acct[a].balance :
        /\ acct[a].status \notin {"PAID", "CANCELLED"}
        /\ Begin(r, "abono",
             [NoJob EXCEPT !.account = a, !.amount = amount,
                !.interest = InterestPortion(a, amount, acct[a].balance, paid[a].interest)])
  BY <1>2
<1>4. a \in Accounts /\ acct[a].balance \in Nat /\ paid[a].interest \in Nat
  BY <1>1, <1>2, Types, RowsOf DEF AcctRows, PaidRows
<1> DEFINE i == InterestPortion(a, amount, acct[a].balance, paid[a].interest)
           w == [[NoJob EXCEPT !.account = a, !.amount = amount, !.interest = i]
                   EXCEPT !.kind = "abono"]
<1>5. amount \in Nat
  BY <1>4
<1>6. i \in Nat
  BY <1>1, <1>4, <1>5, PortionNat
<1>7. /\ phase[r] = "idle" /\ "abono" \in setting.kinds /\ Cardinality(InFlight) < setting.width
      /\ phase' = [phase EXCEPT ![r] = "busy"] /\ job' = [job EXCEPT ![r] = w]
      /\ UNCHANGED <<setting, plan, acct, inst, paid, sale, cut, item, clock>>
  BY <1>3 DEF Begin
<1> HIDE DEF i
<1>8. w \in Jobs /\ w.kind = "abono" /\ w.account = a
  BY <1>4, <1>5, <1>6, NoJobIs DEF Jobs, AllKinds
<1> HIDE DEF w
<1>9. InHand(w) /\ ~OnStatement(w)
  BY <1>3, <1>4, <1>8 DEF InHand, ReadAbono, OnStatement
<1>10. inst' \in [Accounts -> Schedules]
  BY <1>1, <1>7 DEF CreditTypeOK
<1> QED
  BY <1>7, <1>8, <1>9, <1>10, ReadStep

\* createReturn locks the sale and reads the account.
LEMMA ReturnReadStep ==
    ASSUME CreditInv, NEW r \in Transactions, ReturnRead(r)
    PROVE  CreditInv'
<1>1. CreditTypeOK
  BY DEF CreditInv
<1>2. PICK a \in setting.accounts : \E amount \in 1 .. Refundable(a) :
       /\ SaleFree(a)
       /\ ~StatementClosed(a)
       /\ sale[a].status \in {"COMPLETED", "PARTIALLY_RETURNED"}
       /\ amount <= Original(a) - sale[a].refunded
       /\ Begin(r, "return",
            [NoJob EXCEPT !.account = a, !.amount = amount, !.balance = acct[a].balance])
  BY DEF ReturnRead
<1>3. PICK amount \in 1 .. Refundable(a) :
       /\ ~StatementClosed(a)
       /\ sale[a].status \in {"COMPLETED", "PARTIALLY_RETURNED"}
       /\ Begin(r, "return",
            [NoJob EXCEPT !.account = a, !.amount = amount, !.balance = acct[a].balance])
  BY <1>2
<1>4. a \in Accounts /\ acct[a].balance \in Nat /\ Refundable(a) \in Int
  <2>1. a \in Accounts
    BY <1>1, <1>2, Types
  <2>2. acct[a].balance \in Nat /\ sale[a].refunded \in Nat
    BY <1>1, <2>1, RowsOf DEF AcctRows, SaleRows
  <2>3. plan[a].total \in Nat
    BY <1>1, <2>1, RowsOf, PlanIs
  <2> QED BY <2>1, <2>2, <2>3 DEF Refundable
<1> DEFINE b == acct[a].balance
           w == [[NoJob EXCEPT !.account = a, !.amount = amount, !.balance = b]
                   EXCEPT !.kind = "return"]
<1>5. amount \in Nat /\ amount > 0
  BY <1>4
<1>7. /\ phase[r] = "idle" /\ "return" \in setting.kinds /\ Cardinality(InFlight) < setting.width
      /\ phase' = [phase EXCEPT ![r] = "busy"] /\ job' = [job EXCEPT ![r] = w]
      /\ UNCHANGED <<setting, plan, acct, inst, paid, sale, cut, item, clock>>
  BY <1>3 DEF Begin
<1>6. b \in Nat
  BY <1>4
<1> HIDE DEF b
<1>8. w \in Jobs /\ w.kind = "return" /\ w.account = a /\ w.amount = amount /\ w.balance = b
  BY <1>4, <1>5, <1>6, NoJobIs DEF Jobs, AllKinds
<1> HIDE DEF w
<1>9. InHand(w) /\ ~OnStatement(w)
  BY <1>3, <1>4, <1>5, <1>8 DEF InHand, ReadReturn, OnStatement, StatementClosed, b
<1>10. inst' \in [Accounts -> Schedules]
  BY <1>1, <1>7 DEF CreditTypeOK
<1> QED
  BY <1>7, <1>8, <1>9, <1>10, ReadStep

\* voidSale locks the sale and adds up what was received.
LEMMA SaleVoidReadStep ==
    ASSUME CreditInv, NEW r \in Transactions, SaleVoidRead(r)
    PROVE  CreditInv'
<1>1. CreditTypeOK
  BY DEF CreditInv
<1>2. PICK a \in setting.accounts :
       /\ SaleFree(a)
       /\ ~StatementClosed(a)
       /\ sale[a].status = "COMPLETED"
       /\ Begin(r, "void",
            [NoJob EXCEPT !.account = a, !.amount = paid[a].abonos + paid[a].cuts])
  BY DEF SaleVoidRead
<1>4. a \in Accounts /\ paid[a].abonos + paid[a].cuts \in Nat
  <2>1. a \in Accounts
    BY <1>1, <1>2, Types
  <2>2. paid[a].abonos \in Nat /\ paid[a].cuts \in Nat
    BY <1>1, <2>1, RowsOf DEF PaidRows
  <2> QED BY <2>1, <2>2
<1> DEFINE m == paid[a].abonos + paid[a].cuts
           w == [[NoJob EXCEPT !.account = a, !.amount = m] EXCEPT !.kind = "void"]
<1>7. /\ phase[r] = "idle" /\ "void" \in setting.kinds /\ Cardinality(InFlight) < setting.width
      /\ phase' = [phase EXCEPT ![r] = "busy"] /\ job' = [job EXCEPT ![r] = w]
      /\ UNCHANGED <<setting, plan, acct, inst, paid, sale, cut, item, clock>>
  BY <1>2 DEF Begin
<1>6. m \in Nat
  BY <1>4
<1> HIDE DEF m
<1>8. w \in Jobs /\ w.kind = "void" /\ w.account = a /\ w.amount = m
  BY <1>4, <1>6, NoJobIs DEF Jobs, AllKinds
<1> HIDE DEF w
<1>9. InHand(w) /\ ~OnStatement(w)
  BY <1>2, <1>4, <1>8 DEF InHand, ReadVoid, OnStatement, StatementClosed, m
<1>10. inst' \in [Accounts -> Schedules]
  BY <1>1, <1>7 DEF CreditTypeOK
<1> QED
  BY <1>7, <1>8, <1>9, <1>10, ReadStep

\* createStatement reads the sales of the period and their balances.
LEMMA CutReadStep ==
    ASSUME CreditInv, NEW r \in Transactions, CutRead(r)
    PROVE  CreditInv'
<1>1. CreditTypeOK
  BY DEF CreditInv
<1>2. PICK c \in setting.cuts, S \in (SUBSET Eligible) \ {{}} :
       /\ cut[c].status = "NONE"
       /\ \A q \in InFlight : job[q].cut # c
       /\ Begin(r, "cut",
            [NoJob EXCEPT !.cut = c, !.todo = S,
                          !.seen = [a \in Accounts |-> acct[a].balance]])
  BY DEF CutRead
<1> DEFINE s == [a \in Accounts |-> acct[a].balance]
           w == [[NoJob EXCEPT !.cut = c, !.todo = S, !.seen = s] EXCEPT !.kind = "cut"]
<1>3. c \in Cuts /\ S \in SUBSET Accounts /\ S \in SUBSET Eligible
  BY <1>1, <1>2, Types DEF Eligible
<1>4. s \in [Accounts -> Nat] /\ \A a \in S : s[a] = acct[a].balance
  BY <1>1, <1>3, Balances
<1>7. /\ phase[r] = "idle" /\ "cut" \in setting.kinds /\ Cardinality(InFlight) < setting.width
      /\ phase' = [phase EXCEPT ![r] = "busy"] /\ job' = [job EXCEPT ![r] = w]
      /\ UNCHANGED <<setting, plan, acct, inst, paid, sale, cut, item, clock>>
  BY <1>2 DEF Begin
<1> HIDE DEF s
<1>8. w \in Jobs /\ w.kind = "cut" /\ w.cut = c /\ w.todo = S /\ w.seen = s
  BY <1>3, <1>4, NoJobIs DEF Jobs, AllKinds
<1> HIDE DEF w
<1>5. \A a \in S : acct[a].balance \in Nat /\ sale[a].status # "CANCELLED"
  BY <1>1, <1>3, RowsOf DEF Eligible, AcctRows
<1>9. InHand(w)
  <2>1. ReadCut(w)
    BY <1>2, <1>3, <1>4, <1>5, <1>8 DEF ReadCut
  <2> QED BY <1>8, <2>1 DEF InHand
<1>10. inst' \in [Accounts -> Schedules]
  BY <1>1, <1>7 DEF CreditTypeOK
<1>11. \A q \in InFlight : job[q].cut # w.cut
  BY <1>2, <1>8
<1> QED
  BY <1>7, <1>8, <1>9, <1>10, <1>11, ReadStep

\* settleStatement locks the statement, so none else works on it.
LEMMA SettleReadStep ==
    ASSUME CreditInv, NEW r \in Transactions, SettleRead(r)
    PROVE  CreditInv'
<1>1. CreditTypeOK /\ Held
  BY DEF CreditInv
<1>2. PICK c \in Cuts : \E amount \in 1 .. cut[c].total - cut[c].settled :
       /\ CutFree(c)
       /\ cut[c].status \in {"OPEN", "PARTIALLY_SETTLED"}
       /\ Begin(r, "settle",
            [NoJob EXCEPT !.cut = c, !.amount = amount,
                          !.balance = cut[c].settled, !.todo = ItemsOf(c),
                          !.seen = [a \in Accounts |-> acct[a].balance]])
  BY DEF SettleRead
<1>3. PICK amount \in 1 .. cut[c].total - cut[c].settled :
       /\ CutFree(c)
       /\ cut[c].status \in {"OPEN", "PARTIALLY_SETTLED"}
       /\ Begin(r, "settle",
            [NoJob EXCEPT !.cut = c, !.amount = amount,
                          !.balance = cut[c].settled, !.todo = ItemsOf(c),
                          !.seen = [a \in Accounts |-> acct[a].balance]])
  BY <1>2
<1> DEFINE s == [a \in Accounts |-> acct[a].balance]
           b == cut[c].settled
           S == ItemsOf(c)
           w == [[NoJob EXCEPT !.cut = c, !.amount = amount, !.balance = b, !.todo = S,
                               !.seen = s] EXCEPT !.kind = "settle"]
<1>4. cut[c].total \in Nat /\ b \in Nat
  BY <1>1 DEF CreditTypeOK, CutRows
<1>5. amount \in Nat /\ amount <= cut[c].total - b /\ S \in SUBSET Accounts
  BY <1>4 DEF ItemsOf
<1>6. s \in [Accounts -> Nat]
  BY <1>1, Balances
<1>7. /\ phase[r] = "idle" /\ "settle" \in setting.kinds /\ Cardinality(InFlight) < setting.width
      /\ phase' = [phase EXCEPT ![r] = "busy"] /\ job' = [job EXCEPT ![r] = w]
      /\ UNCHANGED <<setting, plan, acct, inst, paid, sale, cut, item, clock>>
  BY <1>3 DEF Begin
<1> HIDE DEF s, b, S
<1>8. /\ w \in Jobs /\ w.kind = "settle" /\ w.cut = c /\ w.todo = S /\ w.balance = b
      /\ w.amount = amount
  BY <1>4, <1>5, <1>6, NoJobIs DEF Jobs, AllKinds
<1> HIDE DEF w
<1>9. InHand(w)
  <2>1. ReadSettle(w)
    BY <1>3, <1>5, <1>8 DEF ReadSettle, b, S
  <2> QED BY <1>8, <2>1 DEF InHand
<1>10. inst' \in [Accounts -> Schedules]
  BY <1>1, <1>7 DEF CreditTypeOK
<1>11. \A q \in InFlight : OnStatement(job[q]) => job[q].cut # w.cut
  <2> TAKE q \in InFlight
  <2>1. CASE job[q].kind = "settle"
    BY <1>3, <1>8, <2>1 DEF CutFree
  <2>2. CASE job[q].kind = "cut"
    <3>1. cut[job[q].cut].status = "NONE"
      BY <1>1, <2>2 DEF Held, InHand, ReadCut
    <3> QED BY <1>3, <1>8, <3>1
  <2> QED BY <2>1, <2>2 DEF OnStatement
<1> QED
  BY <1>7, <1>8, <1>9, <1>10, <1>11, ReadStep

-----------------------------------------------------------------------------
(***************************************************************************)
(* What the transactions write.                                            *)
(***************************************************************************)

\* The part of the types that a write may disturb.
RowTypes == /\ acct \in [Accounts -> AcctRows] /\ inst \in [Accounts -> Schedules]
            /\ paid \in [Accounts -> PaidRows] /\ sale \in [Accounts -> SaleRows]
            /\ cut \in [Cuts -> CutRows] /\ item \in [Accounts -> ItemRows]

\* A transaction that ends leaves what the others have read: the statements they
\* work on, sales that are not voided, and balances that only decrease.
LeavesOthers(r) ==
    /\ \A c \in Cuts : ~OnStatement(job[r]) \/ c # job[r].cut =>
          cut'[c] = cut[c] /\ ItemsOf(c)' = ItemsOf(c)
    /\ setting.width # 1 =>
          sale' = sale /\ \A a \in Accounts : acct'[a].balance <= acct[a].balance

\* So what the other transactions have in hand stands.
LEMMA OthersHeld ==
    ASSUME CreditInv, RowTypes', NEW r \in Transactions, phase[r] = "busy", End(r), LeavesOthers(r)
    PROVE  Held'
<1>1. CreditTypeOK /\ Queue /\ Apart /\ Held /\ Orderly
  BY DEF CreditInv
<1>2. /\ InFlight' = InFlight \ {r} /\ r \in InFlight
      /\ \A q \in InFlight' : job'[q] = job[q] /\ q # r
      /\ setting' = setting /\ (setting.width = 1 => InFlight' = {})
  BY <1>1, EndStep
<1> SUFFICES ASSUME NEW q \in InFlight' PROVE InHand(job[q])'
  BY DEF Held
<1>3. q \in InFlight /\ q # r /\ q \in Transactions /\ setting.width # 1
  BY <1>2 DEF InFlight
<1>4. PICK j : j = job[q]
  OBVIOUS
<1>5. j \in Jobs /\ job'[q] = j /\ InHand(j) /\ j.kind \in OrderlyKinds
  <2>1. j \in Jobs
    BY <1>1, <1>3, <1>4 DEF CreditTypeOK
  <2>2. InHand(j) /\ j.kind \in setting.kinds
    BY <1>1, <1>3, <1>4 DEF Held, Queue
  <2>3. setting.kinds \subseteq OrderlyKinds
    BY <1>1, <1>3 DEF Orderly, OrderlySetting
  <2> QED BY <1>2, <1>4, <2>1, <2>2, <2>3
<1>6. j.kind \in {"cut", "settle"} =>
        j.cut \in Cuts /\ cut'[j.cut] = cut[j.cut] /\ ItemsOf(j.cut)' = ItemsOf(j.cut)
  <2> HAVE j.kind \in {"cut", "settle"}
  <2>1. j.cut \in Cuts
    BY <1>5 DEF InHand, ReadCut, ReadSettle
  <2>2. ~OnStatement(job[r]) \/ j.cut # job[r].cut
    BY <1>1, <1>2, <1>3, <1>4 DEF Apart, OnStatement
  <2> QED BY <2>1, <2>2 DEF LeavesOthers
<1>7. InHand(j)'
  <2>1. j.kind = "abono" => ReadAbono(j)'
    BY <1>2, <1>3, <1>5 DEF InHand, ReadAbono
  <2>2. j.kind = "cut" => ReadCut(j)'
    <3> HAVE j.kind = "cut"
    <3>1. ReadCut(j) /\ cut'[j.cut] = cut[j.cut]
      BY <1>5, <1>6 DEF InHand
    <3>2. \A a \in j.todo : acct'[a].balance <= j.seen[a] /\ sale'[a].status # "CANCELLED"
      <4> TAKE a \in j.todo
      <4>1. a \in Accounts /\ j.seen[a] \in Nat
        BY <1>5 DEF Jobs
      <4>2. acct[a].balance \in Nat /\ acct'[a].balance \in Nat
        BY <1>1, <4>1 DEF CreditTypeOK, RowTypes, AcctRows
      <4>3. acct'[a].balance <= acct[a].balance /\ sale'[a] = sale[a]
        BY <1>3, <4>1 DEF LeavesOthers
      <4> QED BY <3>1, <4>1, <4>2, <4>3 DEF ReadCut
    <3> QED BY <3>1, <3>2 DEF ReadCut
  <2>3. j.kind = "settle" => ReadSettle(j)'
    <3> HAVE j.kind = "settle"
    <3>1. ReadSettle(j) /\ cut'[j.cut] = cut[j.cut] /\ ItemsOf(j.cut)' = ItemsOf(j.cut)
      BY <1>5, <1>6 DEF InHand
    <3> QED BY <3>1 DEF ReadSettle
  <2> QED BY <1>5, <2>1, <2>2, <2>3 DEF InHand, OrderlyKinds
<1> QED
  BY <1>5, <1>7

\* A transaction that ends with rows that are in order.
LEMMA WriteStep ==
    ASSUME CreditInv, NEW r \in Transactions, phase[r] = "busy", End(r),
           RowTypes', NoneClosed', Books', Entries', Statements', LeavesOthers(r)
    PROVE  CreditInv'
<1>1. CreditTypeOK /\ Queue /\ Apart /\ Orderly
  BY DEF CreditInv
<1>2. /\ phase' \in [Transactions -> {"idle", "busy"}] /\ job' \in [Transactions -> Jobs]
      /\ Queue' /\ Apart' /\ setting' = setting /\ plan' = plan /\ clock' = clock
  BY <1>1, EndStep
<1>3. CreditTypeOK'
  BY <1>1, <1>2 DEF CreditTypeOK, RowTypes
<1>4. Held'
  BY OthersHeld
<1>5. Orderly'
  BY <1>1, <1>2 DEF Orderly
<1> QED
  BY <1>2, <1>3, <1>4, <1>5 DEF CreditInv

\* The rows have their types.
LEMMA RowsTyped == ASSUME CreditInv PROVE RowTypes
  BY DEF CreditInv, CreditTypeOK, RowTypes

\* Without a change of statements and items, the statements stand.
LEMMA StatementsStand ==
    ASSUME CreditInv, UNCHANGED <<cut, item>>
    PROVE  /\ Statements' /\ \A c \in Cuts : cut'[c] = cut[c] /\ ItemsOf(c)' = ItemsOf(c)
<1>1. \A c \in Cuts : StatementOf(cut[c], ItemsOf(c), Owed, Done)
  BY DEF CreditInv, Statements
<1>2. Owed' = Owed /\ Done' = Done /\ \A c \in Cuts : ItemsOf(c)' = ItemsOf(c)
  BY DEF Owed, Done, ItemsOf
<1> QED
  BY <1>1, <1>2 DEF Statements

\* A transaction that ends without writing.
LEMMA EndsUnwritten ==
    ASSUME CreditInv, NEW r \in Transactions, phase[r] = "busy", End(r),
           UNCHANGED <<acct, inst, paid, sale, cut, item>>
    PROVE  CreditInv'
<1>1. RowTypes' /\ NoneClosed' /\ Books' /\ Entries'
  <2>1. RowTypes'
    BY RowsTyped DEF RowTypes
  <2> QED BY <2>1 DEF CreditInv, NoneClosed, Books, Entries, End
<1>2. Statements' /\ LeavesOthers(r)
  <2>1. \A a \in Accounts : acct[a].balance \in Nat
    BY RowsOf DEF CreditInv, AcctRows
  <2> QED BY <2>1, StatementsStand DEF LeavesOthers
<1> QED
  BY <1>1, <1>2, WriteStep

\* The rows of one account change, and no statement does.
LEMMA AccountStep ==
    ASSUME CreditInv, NEW r \in Transactions, phase[r] = "busy", End(r),
           NEW a \in Accounts, NEW bc \in AcctRows, NEW qs \in Schedules, NEW pe \in PaidRows,
           NEW tl \in SaleRows,
           acct' = [acct EXCEPT ![a] = bc], inst' = [inst EXCEPT ![a] = qs],
           paid' = [paid EXCEPT ![a] = pe], sale' = [sale EXCEPT ![a] = tl],
           UNCHANGED <<cut, item>>,
           BookOf(plan[a], bc, pe, tl), EntryOf(bc, pe, tl, item[a]),
           setting.width # 1 => /\ tl = sale[a] /\ bc.balance <= acct[a].balance
                                /\ bc.status # "CANCELLED"
    PROVE  CreditInv'
<1>1. RowTypes
  BY RowsTyped
<1>2. RowTypes'
  BY <1>1 DEF RowTypes
<1>3. setting' = setting /\ plan' = plan
  BY DEF End
<1>4. /\ acct'[a] = bc /\ paid'[a] = pe /\ sale'[a] = tl
      /\ \A b \in Accounts : b # a => acct'[b] = acct[b] /\ paid'[b] = paid[b] /\ sale'[b] = sale[b]
  BY <1>1 DEF RowTypes
<1>5. Books'
  <2> SUFFICES ASSUME NEW b \in Accounts PROVE BookOf(plan'[b], acct'[b], paid'[b], sale'[b])
    BY DEF Books
  <2>1. CASE b = a
    BY <1>3, <1>4, <2>1
  <2>2. CASE b # a
    BY <1>3, <1>4, <2>2 DEF CreditInv, Books
  <2> QED BY <2>1, <2>2
<1>6. Entries'
  <2> SUFFICES ASSUME NEW b \in Accounts PROVE EntryOf(acct'[b], paid'[b], sale'[b], item'[b])
    BY DEF Entries
  <2>1. CASE b = a
    BY <1>4, <2>1
  <2>2. CASE b # a
    BY <1>4, <2>2 DEF CreditInv, Entries
  <2> QED BY <2>1, <2>2
<1>7. NoneClosed'
  <2> SUFFICES ASSUME setting.width # 1, NEW b \in Accounts
               PROVE  sale'[b].status = "COMPLETED" /\ acct'[b].status # "CANCELLED"
    BY <1>3 DEF NoneClosed
  <2>1. sale[b].status = "COMPLETED" /\ acct[b].status # "CANCELLED"
    BY DEF CreditInv, NoneClosed
  <2> QED BY <1>4, <2>1
<1>8. LeavesOthers(r)
  <2>1. setting.width # 1 => sale' = sale
    BY <1>1 DEF RowTypes
  <2>2. ASSUME setting.width # 1, NEW b \in Accounts PROVE acct'[b].balance <= acct[b].balance
    <3>1. acct[b].balance \in Nat
      BY <1>1 DEF RowTypes, AcctRows
    <3> QED BY <1>4, <2>2, <3>1
  <2> QED BY <2>1, <2>2, StatementsStand DEF LeavesOthers
<1> QED
  BY <1>2, <1>5, <1>6, <1>7, <1>8, StatementsStand, WriteStep

\* What a transaction in flight has read.
LEMMA InFlightReads ==
    ASSUME CreditInv, NEW r \in Transactions, phase[r] = "busy"
    PROVE  /\ r \in InFlight /\ job[r] \in Jobs /\ InHand(job[r]) /\ job[r].kind \in setting.kinds
           /\ setting.width # 1 => job[r].kind \in OrderlyKinds
  BY DEF CreditInv, CreditTypeOK, InFlight, Held, Queue, Orderly, OrderlySetting

\* An abono that the balance covers moves it to what is received; any other
\* changes nothing.
LEMMA AbonoCommitStep ==
    ASSUME CreditInv, NEW r \in Transactions, AbonoCommit(r)
    PROVE  CreditInv'
<1>1. phase[r] = "busy" /\ job[r].kind = "abono" /\ End(r) /\ UNCHANGED <<sale, cut, item>>
  BY DEF AbonoCommit, Running
<1>2. PICK a, amount, i : a = job[r].account /\ amount = job[r].amount /\ i = job[r].interest
  OBVIOUS
<1>3. /\ a \in Accounts /\ amount \in Nat /\ i \in Nat
      /\ setting.width = 1 => acct[a].status \notin {"PAID", "CANCELLED"}
  BY <1>1, <1>2, InFlightReads DEF InHand, ReadAbono, Jobs
<1>4. CreditTypeOK
  BY DEF CreditInv
<1>5. /\ plan[a] \in Plans /\ acct[a] \in AcctRows /\ inst[a] \in Schedules
      /\ paid[a] \in PaidRows /\ sale[a] \in SaleRows /\ item[a] \in ItemRows
      /\ BookOf(plan[a], acct[a], paid[a], sale[a])
      /\ EntryOf(acct[a], paid[a], sale[a], item[a])
  BY <1>3, <1>4, RowsOf DEF CreditInv, Books, Entries
<1>6. acct[a].balance \in Nat /\ acct[a].due \in Nat /\ acct[a].status # "CANCELLED"
  BY <1>3, <1>5 DEF CreditInv, NoneClosed, AcctRows
<1>7. CASE ~Covers(acct[a].balance, amount)
  <2>1. UNCHANGED <<inst, paid, acct>>
    BY <1>2, <1>7 DEF AbonoCommit
  <2> QED BY <1>1, <2>1, EndsUnwritten
<1>8. CASE Covers(acct[a].balance, amount)
  <2> DEFINE bal == acct[a].balance - amount
             qs == PayFifo(inst[a], amount)
             due == NextDue(qs, acct[a].due)
             st == AbonoStatus(bal, Original(a), due)
             bc == [status |-> st, balance |-> bal, due |-> due]
             pe == [paid[a] EXCEPT !.abonos = @ + amount, !.interest = @ + i]
  <2>1. /\ inst' = [inst EXCEPT ![a] = qs]
        /\ paid' = [paid EXCEPT ![a].abonos = @ + amount, ![a].interest = @ + i]
        /\ acct' = [acct EXCEPT ![a] = bc]
    BY <1>2, <1>8 DEF AbonoCommit
  <2>2. paid' = [paid EXCEPT ![a] = pe]
    BY <1>3, <1>4, <2>1 DEF CreditTypeOK
  <2>3. bal \in Nat /\ amount <= acct[a].balance
    BY <1>3, <1>6, <1>8 DEF Covers
  <2>4. qs \in Schedules
    BY <1>3, <1>5, FifoRows
  <2> HIDE DEF qs
  <2>5. due \in Nat
    BY <1>6, <2>4, NextDueNat
  <2> HIDE DEF due
  <2>6. st \in AcctStatus /\ st # "CANCELLED" /\ ((st = "PAID") <=> (bal = 0))
    BY <2>3 DEF AbonoStatus, AcctStatus
  <2> HIDE DEF st
  <2>7. bc \in AcctRows /\ bc.balance = bal /\ bc.status = st
    BY <2>3, <2>5, <2>6 DEF AcctRows
  <2>8. /\ pe \in PaidRows /\ pe.abonos = paid[a].abonos + amount /\ pe.cuts = paid[a].cuts
        /\ paid[a].abonos \in Nat /\ paid[a].cuts \in Nat
    <3>1. /\ paid[a].abonos \in Nat /\ paid[a].cuts \in Nat
          /\ paid[a].abonos + amount \in Nat /\ paid[a].interest + i \in Nat
      BY <1>3, <1>5 DEF PaidRows
    <3> QED BY <1>5, <3>1 DEF PaidRows
  <2> HIDE DEF bc, pe
  <2>9. bc.balance = acct[a].balance - amount
    BY <2>7
  <2>10. pe.abonos + pe.cuts = paid[a].abonos + paid[a].cuts + amount
    BY <1>3, <2>8
  <2>11. BookOf(plan[a], bc, pe, sale[a])
    BY <1>3, <1>5, <1>6, <2>3, <2>6, <2>7, <2>8, <2>9, <2>10, PaidBook
  <2>12. EntryOf(bc, pe, sale[a], item[a])
    <3>1. item[a].amount \in Nat /\ item[a].settled \in Nat
      BY <1>5 DEF ItemRows
    <3> QED BY <1>3, <1>5, <1>6, <2>3, <2>8, <2>9, <3>1 DEF EntryOf
  <2>13. sale' = [sale EXCEPT ![a] = sale[a]]
    BY <1>1, <1>4 DEF CreditTypeOK
  <2>14. bc.balance <= acct[a].balance /\ bc.status # "CANCELLED"
    BY <1>3, <1>6, <2>6, <2>7, <2>9
  <2> QED
    BY <1>1, <1>3, <1>5, <2>1, <2>2, <2>4, <2>7, <2>8, <2>11, <2>12, <2>13, <2>14, AccountStep
<1> QED
  BY <1>7, <1>8

\* A return, alone in flight, finds the balance it has read.
LEMMA ReturnCommitStep ==
    ASSUME CreditInv, NEW r \in Transactions, ReturnCommit(r)
    PROVE  CreditInv'
<1>1. phase[r] = "busy" /\ job[r].kind = "return" /\ End(r) /\ UNCHANGED <<paid, cut, item>>
  BY DEF ReturnCommit, Running
<1>2. PICK a, amount, left : a = job[r].account /\ amount = job[r].amount /\ left = job[r].balance - amount
  OBVIOUS
<1>3. /\ a \in Accounts /\ amount \in Nat /\ amount > 0 /\ ~InCut(a)
      /\ job[r].balance = acct[a].balance /\ left = acct[a].balance - amount
      /\ sale[a].status \in {"COMPLETED", "PARTIALLY_RETURNED"}
      /\ setting.width = 1
  BY <1>1, <1>2, InFlightReads DEF InHand, ReadReturn, Jobs, OrderlyKinds
<1>4. CreditTypeOK
  BY DEF CreditInv
<1>5. /\ plan[a] \in Plans /\ acct[a] \in AcctRows /\ inst[a] \in Schedules
      /\ paid[a] \in PaidRows /\ sale[a] \in SaleRows /\ item[a] \in ItemRows
      /\ BookOf(plan[a], acct[a], paid[a], sale[a])
      /\ EntryOf(acct[a], paid[a], sale[a], item[a])
  BY <1>3, <1>4, RowsOf DEF CreditInv, Books, Entries
<1>6. acct[a].balance \in Nat /\ acct[a].due \in Nat /\ sale[a].refunded \in Nat /\ sale[a].cashBack \in Nat
  BY <1>5 DEF AcctRows, SaleRows
<1> DEFINE x == Excess(amount, acct[a].balance)
           st == IF amount = Refundable(a) THEN "RETURNED" ELSE "PARTIALLY_RETURNED"
           tl == [status |-> st, refunded |-> sale[a].refunded + amount,
                  cashBack |-> sale[a].cashBack + x]
<1>7. x \in Nat /\ st \in {"RETURNED", "PARTIALLY_RETURNED"}
  BY <1>3, <1>6 DEF Excess, AtLeast0
<1>8. sale' = [sale EXCEPT ![a] = tl]
  BY <1>2, <1>3 DEF ReturnCommit
<1> HIDE DEF x, st
<1>9. tl \in SaleRows /\ tl.status = st /\ tl.refunded = sale[a].refunded + amount
      /\ tl.cashBack = sale[a].cashBack + x
  BY <1>3, <1>6, <1>7 DEF SaleRows, SaleStatus
<1> HIDE DEF tl
<1>10. PICK bc, qs : /\ acct' = [acct EXCEPT ![a] = bc] /\ inst' = [inst EXCEPT ![a] = qs]
                     /\ bc \in AcctRows /\ qs \in Schedules
                     /\ IF acct[a].balance - amount < 0
                          THEN bc.balance = 0 /\ bc.status = "CANCELLED"
                          ELSE bc.balance = acct[a].balance - amount /\
                               bc.status = IF bc.balance = 0 THEN "PAID" ELSE "PARTIALLY_PAID"
  <2>1. CASE left < 0
    <3> DEFINE b == [acct[a] EXCEPT !.balance = 0, !.status = "CANCELLED"]
               q == CancelAll(inst[a])
    <3>1. /\ acct' = [acct EXCEPT ![a].balance = 0, ![a].status = "CANCELLED"]
          /\ inst' = [inst EXCEPT ![a] = CancelAll(@)]
      BY <1>2, <2>1 DEF ReturnCommit
    <3>2. acct' = [acct EXCEPT ![a] = b] /\ inst' = [inst EXCEPT ![a] = q]
      BY <1>3, <1>4, <3>1 DEF CreditTypeOK
    <3>3. q \in Schedules
      BY <1>5, CancelAllIs
    <3>4. b \in AcctRows /\ b.balance = 0 /\ b.status = "CANCELLED"
      BY <1>5 DEF AcctRows, AcctStatus
    <3> HIDE DEF b, q
    <3> QED BY <1>3, <2>1, <3>2, <3>3, <3>4
  <2>2. CASE ~(left < 0)
    <3> DEFINE q == ForgiveLifo(inst[a], amount)
               d == NextDue(q, acct[a].due)
               t == IF left = 0 THEN "PAID" ELSE "PARTIALLY_PAID"
               b == [status |-> t, balance |-> left, due |-> d]
    <3>1. acct' = [acct EXCEPT ![a] = b] /\ inst' = [inst EXCEPT ![a] = q]
      BY <1>2, <2>2 DEF ReturnCommit
    <3>2. q \in Schedules
      BY <1>3, <1>5, LifoRows
    <3> HIDE DEF q
    <3>3. d \in Nat
      BY <1>6, <3>2, NextDueNat
    <3> HIDE DEF d
    <3>4. left \in Nat
      BY <1>3, <1>6, <2>2
    <3>5. t \in AcctStatus
      BY DEF AcctStatus
    <3>6. b \in AcctRows /\ b.balance = left /\ b.status = t
      <4> HIDE DEF t
      <4> QED BY <3>3, <3>4, <3>5 DEF AcctRows
    <3> HIDE DEF b
    <3> QED BY <1>3, <2>2, <3>1, <3>2, <3>6
  <2> QED BY <2>1, <2>2
<1>11. BookOf(plan[a], bc, paid[a], tl)
  <2>1. tl.status \in {"RETURNED", "PARTIALLY_RETURNED"} /\ sale[a].status \notin {"CANCELLED"}
    BY <1>3, <1>7, <1>9
  <2>2. tl.cashBack = sale[a].cashBack + Excess(amount, acct[a].balance)
    BY <1>9 DEF x
  <2> QED BY <1>3, <1>5, <1>9, <1>10, <2>1, <2>2, ReturnBook
<1>12. EntryOf(bc, paid[a], tl, item[a])
  BY <1>3, <1>5 DEF EntryOf, InCut
<1>13. paid' = [paid EXCEPT ![a] = paid[a]]
  BY <1>1, <1>4 DEF CreditTypeOK
<1> QED
  BY <1>1, <1>3, <1>5, <1>8, <1>9, <1>10, <1>11, <1>12, <1>13, AccountStep

\* A void, alone in flight, gives back all that was received.
LEMMA SaleVoidCommitStep ==
    ASSUME CreditInv, NEW r \in Transactions, SaleVoidCommit(r)
    PROVE  CreditInv'
<1>1. phase[r] = "busy" /\ job[r].kind = "void" /\ End(r) /\ UNCHANGED <<paid, cut, item>>
  BY DEF SaleVoidCommit, Running
<1>2. PICK a, amount : a = job[r].account /\ amount = job[r].amount
  OBVIOUS
<1>3. /\ a \in Accounts /\ ~InCut(a) /\ amount = paid[a].abonos + paid[a].cuts
      /\ sale[a].status = "COMPLETED" /\ setting.width = 1
  BY <1>1, <1>2, InFlightReads DEF InHand, ReadVoid, OrderlyKinds
<1>4. CreditTypeOK
  BY DEF CreditInv
<1>5. /\ plan[a] \in Plans /\ acct[a] \in AcctRows /\ inst[a] \in Schedules
      /\ paid[a] \in PaidRows /\ sale[a] \in SaleRows /\ item[a] \in ItemRows
      /\ BookOf(plan[a], acct[a], paid[a], sale[a])
      /\ EntryOf(acct[a], paid[a], sale[a], item[a])
  BY <1>3, <1>4, RowsOf DEF CreditInv, Books, Entries
<1>6. amount \in Nat /\ sale[a].cashBack \in Nat
  <2>1. paid[a].abonos \in Nat /\ paid[a].cuts \in Nat
    BY <1>5 DEF PaidRows
  <2> QED BY <1>3, <1>5, <2>1 DEF SaleRows
<1> DEFINE bc == [acct[a] EXCEPT !.balance = 0, !.status = "CANCELLED"]
           qs == CancelAll(inst[a])
           tl == [sale[a] EXCEPT !.status = "CANCELLED", !.cashBack = @ + amount]
<1>7. /\ acct' = [acct EXCEPT ![a].balance = 0, ![a].status = "CANCELLED"]
      /\ inst' = [inst EXCEPT ![a] = CancelAll(@)]
      /\ sale' = [sale EXCEPT ![a].status = "CANCELLED", ![a].cashBack = @ + amount]
  BY <1>2 DEF SaleVoidCommit
<1>8. acct' = [acct EXCEPT ![a] = bc] /\ inst' = [inst EXCEPT ![a] = qs]
  BY <1>3, <1>4, <1>7 DEF CreditTypeOK
<1>9. sale' = [sale EXCEPT ![a] = tl]
  BY <1>3, <1>4, <1>7 DEF CreditTypeOK
<1>10. qs \in Schedules
  BY <1>5, CancelAllIs
<1>11. bc \in AcctRows /\ bc.balance = 0 /\ bc.status = "CANCELLED"
  BY <1>5 DEF AcctRows, AcctStatus
<1>12. tl \in SaleRows /\ tl.status = "CANCELLED" /\ tl.cashBack = sale[a].cashBack + amount
  <2>1. sale[a].cashBack + amount \in Nat /\ "CANCELLED" \in SaleStatus
    BY <1>6 DEF SaleStatus
  <2> QED BY <1>5, <2>1 DEF SaleRows
<1> HIDE DEF bc, qs, tl
<1>13. BookOf(plan[a], bc, paid[a], tl)
  BY <1>3, <1>5, <1>11, <1>12, VoidBook
<1>14. EntryOf(bc, paid[a], tl, item[a])
  BY <1>3, <1>5 DEF EntryOf, InCut
<1>15. paid' = [paid EXCEPT ![a] = paid[a]]
  BY <1>1, <1>4 DEF CreditTypeOK
<1> QED
  BY <1>1, <1>3, <1>5, <1>8, <1>9, <1>10, <1>11, <1>12, <1>13, <1>14, <1>15, AccountStep

\* A statement adds up when its items do.
LEMMA CutCommitStep ==
    ASSUME CreditInv, NEW r \in Transactions, CutCommit(r)
    PROVE  CreditInv'
<1>1. /\ phase[r] = "busy" /\ job[r].kind = "cut" /\ End(r)
      /\ UNCHANGED <<acct, inst, paid, sale>> /\ setting' = setting /\ plan' = plan
  BY DEF CutCommit, Running, End
<1>2. PICK c, S, seen : c = job[r].cut /\ S = job[r].todo /\ seen = job[r].seen
  OBVIOUS
<1>3. /\ c \in Cuts /\ S \in SUBSET Accounts /\ seen \in [Accounts -> Nat] /\ cut[c].status = "NONE"
      /\ \A a \in S : acct[a].balance <= seen[a] /\ sale[a].status # "CANCELLED"
  BY <1>1, <1>2, InFlightReads DEF InHand, ReadCut, Jobs
<1>4. CASE ~ \A a \in S : ~InCut(a)
  <2>1. UNCHANGED <<cut, item>>
    BY <1>2, <1>4 DEF CutCommit
  <2> QED BY <1>1, <2>1, EndsUnwritten
<1>5. CASE \A a \in S : ~InCut(a)
  <2>0. RowTypes /\ Books /\ Entries /\ Statements /\ NoneClosed
    BY RowsTyped DEF CreditInv
  <2> DEFINE t == SumFunctionOnSet(seen, S)
             ct == [status |-> "OPEN", settled |-> 0, total |-> t]
             it(a) == [cut |-> c, amount |-> seen[a], settled |-> 0]
  <2>1. /\ cut' = [cut EXCEPT ![c] = ct]
        /\ item' = [a \in Accounts |-> IF a \in S THEN it(a) ELSE item[a]]
    BY <1>2, <1>5 DEF CutCommit
  <2>2. IsFiniteSet(S) /\ IsFiniteSet(Accounts)
    BY <1>3, AccountAssumption, FS_Subset
  <2>3. t \in Nat
    <3>1. \A a \in S : seen[a] \in Nat
      BY <1>3
    <3> QED BY <2>2, <3>1, SumNat
  <2> HIDE DEF t
  <2>4. ct \in CutRows /\ \A a \in S : it(a) \in ItemRows
    BY <1>3, <2>3 DEF CutRows, CutStatuses, ItemRows
  <2>5. RowTypes'
    <3>1. \A a \in Accounts : item'[a] \in ItemRows
      BY <2>0, <2>1, <2>4 DEF RowTypes
    <3>2. item' \in [Accounts -> ItemRows]
      BY <2>1, <3>1
    <3>3. cut' \in [Cuts -> CutRows]
      BY <2>0, <2>1, <2>4 DEF RowTypes
    <3> QED BY <1>1, <2>0, <3>2, <3>3 DEF RowTypes
  <2>6. /\ \A a \in S : item'[a].cut = c /\ item'[a].amount = seen[a] /\ item'[a].settled = 0
                        /\ item[a].cut = NoRow
        /\ \A a \in Accounts \ S : item'[a] = item[a]
        /\ cut'[c].status = "OPEN" /\ cut'[c].settled = 0 /\ cut'[c].total = t
        /\ \A d \in Cuts : d # c => cut'[d] = cut[d]
    BY <1>3, <1>5, <2>0, <2>1 DEF RowTypes, InCut
  <2>7. c # NoRow /\ \A d \in Cuts : d # NoRow
    BY <1>3, AccountAssumption
  <2>8. ItemsOf(c) = {}
    BY <1>3, <2>0 DEF Statements, StatementOf
  <2>9. ItemsOf(c)' = S /\ \A d \in Cuts : d # c => ItemsOf(d)' = ItemsOf(d)
    BY <1>3, <2>6, <2>7, <2>8 DEF ItemsOf
  <2>10. Books' /\ NoneClosed'
    BY <1>1, <2>0 DEF Books, NoneClosed
  <2>11. Entries'
    <3> SUFFICES ASSUME NEW a \in Accounts PROVE EntryOf(acct'[a], paid'[a], sale'[a], item'[a])
      BY DEF Entries
    <3>1. EntryOf(acct[a], paid[a], sale[a], item[a])
      BY <2>0 DEF Entries
    <3>2. CASE a \in S
      <4>1. seen[a] \in Nat
        BY <1>3
      <4> QED BY <1>1, <1>3, <2>6, <2>7, <3>1, <3>2, <4>1 DEF EntryOf
    <3>3. CASE a \notin S
      BY <1>1, <2>6, <3>1, <3>3
    <3> QED BY <3>2, <3>3
  <2>12. Statements'
    <3> SUFFICES ASSUME NEW d \in Cuts PROVE StatementOf(cut'[d], ItemsOf(d)', Owed', Done')
      BY DEF Statements
    <3>1. CASE d = c
      <4> DEFINE ow == Owed'  dn == Done'
      <4>1. \A a \in S : ow[a] = seen[a] /\ dn[a] = 0
        BY <1>3, <2>6 DEF Owed, Done
      <4> HIDE DEF ow, dn
      <4>2. SumFunctionOnSet(ow, S) = t
        BY <2>2, <4>1, SumSame DEF t
      <4>3. SumFunctionOnSet(dn, S) = 0
        BY <2>2, <4>1, SumZero
      <4>4. StatementOf(cut'[c], S, ow, dn)
        BY <2>3, <2>6, <4>2, <4>3 DEF StatementOf
      <4> QED BY <2>9, <3>1, <4>4 DEF ow, dn
    <3>2. CASE d # c
      <4> DEFINE I == ItemsOf(d)  ow == Owed  dn == Done  ow2 == Owed'  dn2 == Done'
      <4>1. StatementOf(cut[d], I, ow, dn)
        BY <2>0 DEF Statements
      <4>2. \A a \in I : a \in Accounts /\ a \notin S
        BY <2>6, <2>7 DEF ItemsOf
      <4>3. \A a \in I : ow2[a] = ow[a] /\ dn2[a] = dn[a]
        BY <2>6, <4>2 DEF Owed, Done
      <4>4. IsFiniteSet(I)
        <5>1. I \in SUBSET Accounts
          BY DEF ItemsOf
        <5> QED BY <2>2, <5>1, FS_Subset
      <4> HIDE DEF I, ow, dn, ow2, dn2
      <4>5. SumFunctionOnSet(ow2, I) = SumFunctionOnSet(ow, I) /\ SumFunctionOnSet(dn2, I) = SumFunctionOnSet(dn, I)
        BY <4>3, <4>4, SumSame
      <4>6. StatementOf(cut[d], I, ow2, dn2)
        BY <4>1, <4>5 DEF StatementOf
      <4> QED BY <2>6, <2>9, <3>2, <4>6 DEF I, ow2, dn2
    <3> QED BY <3>1, <3>2
  <2>13. LeavesOthers(r)
    <3>1. \A a \in Accounts : acct[a].balance \in Nat
      BY <2>0 DEF RowTypes, AcctRows
    <3> QED BY <1>1, <1>2, <2>6, <2>9, <3>1 DEF LeavesOthers, OnStatement
  <2> QED BY <1>1, <2>5, <2>10, <2>11, <2>12, <2>13, WriteStep
<1> QED
  BY <1>4, <1>5

\* A settlement pays no account more than its balance, and in all no more than
\* its amount: the payer that comes last found the others already paid.
LEMMA PayFacts ==
    ASSUME CreditInv, NEW r \in Transactions, phase[r] = "busy", NEW pay \in Allocations(r)
    PROVE  /\ pay \in [job[r].todo -> Nat] /\ IsFiniteSet(job[r].todo)
           /\ \A a \in job[r].todo : pay[a] <= acct[a].balance
           /\ SumFunctionOnSet(pay, job[r].todo) \in Nat
           /\ SumFunctionOnSet(pay, job[r].todo) <= job[r].amount
<1> DEFINE S == job[r].todo  m == job[r].amount
<1>1. S \in SUBSET Accounts /\ m \in Nat /\ job[r].seen \in [Accounts -> Nat]
  BY InFlightReads DEF Jobs
<1>2. pay \in [S -> 0 .. m]
  BY DEF Allocations
<1>3. PICK rank \in [S -> 1 .. Cardinality(S)] :
        /\ \A a, b \in S : rank[a] = rank[b] => a = b
        /\ \A a \in S :
              LET before == SumFunctionOnSet(pay, {b \in S : rank[b] < rank[a]})
                  ask    == Least(m - before, job[r].seen[a])
              IN  pay[a] = IF Covers(acct[a].balance, ask) THEN ask ELSE 0
  BY DEF Allocations
<1> DEFINE ahead(a) == {b \in S : rank[b] < rank[a]}
           before(a) == SumFunctionOnSet(pay, ahead(a))
<1>4. IsFiniteSet(S) /\ \A T \in SUBSET S : IsFiniteSet(T)
  BY <1>1, AccountAssumption, FS_Subset
<1>5. \A a \in S : pay[a] \in Nat /\ rank[a] \in Nat
  <2>1. Cardinality(S) \in Nat
    BY <1>4, FS_CardinalityType
  <2> QED BY <1>1, <1>2, <2>1
<1>6. \A a \in S : before(a) \in Nat
  <2> TAKE a \in S
  <2>1. ahead(a) \in SUBSET S
    OBVIOUS
  <2> HIDE DEF ahead, S
  <2> QED BY <1>4, <1>5, <2>1, SumNat
<1>7. \A a \in S : pay[a] = IF Covers(acct[a].balance, Least(m - before(a), job[r].seen[a]))
                            THEN Least(m - before(a), job[r].seen[a]) ELSE 0
  BY <1>3
<1>8. \A a \in S : acct[a].balance \in Nat /\ job[r].seen[a] \in Nat
  BY <1>1, RowsTyped DEF RowTypes, AcctRows
<1> HIDE DEF before, m
<1>9. \A a \in S : pay[a] <= acct[a].balance /\ (pay[a] > 0 => pay[a] <= m - before(a))
  <2> TAKE a \in S
  <2> QED BY <1>1, <1>5, <1>6, <1>7, <1>8 DEF Covers, Least
<1>10. SumFunctionOnSet(pay, S) \in Nat
  <2> HIDE DEF S
  <2> QED BY <1>4, <1>5, SumNat
<1>11. SumFunctionOnSet(pay, S) <= m
  <2> DEFINE P == {a \in S : pay[a] > 0}  R == {p \in S \X S : rank[p[1]] < rank[p[2]]}
  <2>0. P \in SUBSET S
    OBVIOUS
  <2>1. CASE P = {}
    <3>1. \A a \in S : pay[a] = 0
      BY <1>5, <2>1
    <3>2. SumFunctionOnSet(pay, S) = 0
      <4> HIDE DEF S
      <4> QED BY <1>4, <3>1, SumZero
    <3> QED BY <1>1, <3>2
  <2>2. CASE P # {}
    <3>1. \A x, y \in S : <<x, y>> \in R <=> rank[x] < rank[y]
      OBVIOUS
    <3>2. StrictOrder(R, P)
      <4> HIDE DEF R
      <4> QED BY <1>3, <1>5, <2>0, <3>1 DEF StrictOrder
    <3>3. PICK x \in P : \A y \in P \ {x} : <<y, x>> \in R
      <4> HIDE DEF R, P
      <4> QED BY <1>4, <2>0, <2>2, <3>2, LastExists
    <3> DEFINE B == ahead(x)  T == B \cup {x}
    <3>4. /\ x \in S /\ pay[x] > 0 /\ B \in SUBSET S /\ x \notin B /\ T \in SUBSET S
      BY <1>5
    <3>5. ASSUME NEW y \in S \ T PROVE pay[y] = 0
      <4>1. CASE y \in P
        <5>1. <<y, x>> \in R
          BY <3>3, <4>1
        <5>2. rank[y] < rank[x]
          <6> HIDE DEF R
          <6> QED BY <3>1, <3>4, <5>1
        <5> QED BY <5>2
      <4>2. CASE y \notin P
        BY <1>5, <4>2
      <4> QED BY <4>1, <4>2
    <3> HIDE DEF B, P, R
    <3>6. SumFunctionOnSet(pay, S) = SumFunctionOnSet(pay, T)
      <4>1. \A y \in T : pay[y] \in Int /\ pay[y] = pay[y]
        BY <1>5, <3>4
      <4> HIDE DEF S, T
      <4> QED BY <1>4, <3>4, <3>5, <4>1, SumWhere
    <3>7. SumFunctionOnSet(pay, T) = pay[x] + SumFunctionOnSet(pay, B)
      <4>1. IsFiniteSet(B)
        BY <1>4, <3>4
      <4>2. \A y \in B \cup {x} : pay[y] \in Int
        BY <1>5, <3>4
      <4> HIDE DEF S
      <4> QED BY <3>4, <4>1, <4>2, SumAdd
    <3>8. SumFunctionOnSet(pay, B) = before(x)
      BY DEF B, before
    <3> HIDE DEF S, T
    <3> QED BY <1>1, <1>5, <1>6, <1>9, <3>4, <3>6, <3>7, <3>8
  <2> QED BY <2>1, <2>2
<1>12. pay \in [S -> Nat]
  BY <1>2, <1>5
<1> QED
  BY <1>4, <1>9, <1>10, <1>11, <1>12 DEF m

\* A settlement moves balances to what is received, item by item, and no more than
\* the statement still asks for.
LEMMA SettleCommitStep ==
    ASSUME CreditInv, NEW r \in Transactions, SettleCommit(r)
    PROVE  CreditInv'
<1>1. /\ phase[r] = "busy" /\ job[r].kind = "settle" /\ End(r)
      /\ UNCHANGED <<inst, sale>> /\ setting' = setting /\ plan' = plan
  BY DEF SettleCommit, Running, End
<1> DEFINE c == job[r].cut  S == job[r].todo
<1>4. PICK pay \in Allocations(r) :
          LET settled == job[r].balance + SumFunctionOnSet(pay, S)
              Paying  == {a \in S : pay[a] > 0}
          IN
          /\ acct' = [a \in Accounts |->
                        IF a \in Paying
                          THEN LET balance == acct[a].balance - pay[a] IN
                               [acct[a] EXCEPT !.balance = balance,
                                  !.status = IF balance = 0 THEN "PAID"
                                                            ELSE "PARTIALLY_PAID"]
                          ELSE acct[a]]
          /\ paid' = [a \in Accounts |->
                        IF a \in Paying THEN [paid[a] EXCEPT !.cuts = @ + pay[a]]
                                        ELSE paid[a]]
          /\ item' = [a \in Accounts |->
                        IF a \in Paying THEN [item[a] EXCEPT !.settled = @ + pay[a]]
                                        ELSE item[a]]
          /\ cut' = [cut EXCEPT ![c].settled = settled,
                                ![c].status = CutStatus(settled, cut[c].total)]
  BY DEF SettleCommit
<1>2. c = job[r].cut /\ S = job[r].todo
  OBVIOUS
<1> HIDE DEF c, S
<1>3. /\ c \in Cuts /\ S \in SUBSET Accounts /\ S = ItemsOf(c)
      /\ cut[c].status \in {"OPEN", "PARTIALLY_SETTLED"}
      /\ job[r].balance = cut[c].settled
      /\ job[r].amount <= cut[c].total - cut[c].settled /\ job[r].amount \in Nat
  BY <1>1, <1>2, InFlightReads DEF InHand, ReadSettle, Jobs
<1>5. /\ pay \in [S -> Nat] /\ IsFiniteSet(S)
      /\ \A a \in S : pay[a] <= acct[a].balance
      /\ SumFunctionOnSet(pay, S) \in Nat /\ SumFunctionOnSet(pay, S) <= job[r].amount
  BY <1>1, <1>2, PayFacts
<1>6. RowTypes /\ Books /\ Entries /\ Statements /\ NoneClosed
  BY RowsTyped DEF CreditInv
<1> DEFINE P == {a \in S : pay[a] > 0}
           bal(a) == acct[a].balance - pay[a]
           st(a) == IF bal(a) = 0 THEN "PAID" ELSE "PARTIALLY_PAID"
           bc(a) == [acct[a] EXCEPT !.balance = bal(a), !.status = st(a)]
           pe(a) == [paid[a] EXCEPT !.cuts = paid[a].cuts + pay[a]]
           it(a) == [item[a] EXCEPT !.settled = item[a].settled + pay[a]]
           u == SumFunctionOnSet(pay, S)
           s == cut[c].settled + u
           ct == [cut[c] EXCEPT !.settled = s, !.status = CutStatus(s, cut[c].total)]
<1>7. /\ acct' = [a \in Accounts |-> IF a \in P THEN bc(a) ELSE acct[a]]
      /\ paid' = [a \in Accounts |-> IF a \in P THEN pe(a) ELSE paid[a]]
      /\ item' = [a \in Accounts |-> IF a \in P THEN it(a) ELSE item[a]]
  BY <1>4
<1>8. cut' = [cut EXCEPT ![c] = ct]
  BY <1>3, <1>4, <1>6 DEF RowTypes
<1>9. P \in SUBSET S /\ \A a \in P : a \in Accounts /\ pay[a] \in Nat /\ pay[a] > 0 /\ pay[a] <= acct[a].balance
  BY <1>3, <1>5
<1>10. \A a \in S : pay[a] \in Nat /\ (a \notin P => pay[a] = 0)
  BY <1>5
<1> HIDE DEF P
<1>11. ASSUME NEW a \in P
       PROVE  /\ bc(a) \in AcctRows /\ bc(a).balance = bal(a) /\ bc(a).status = st(a)
              /\ bal(a) \in Nat /\ bal(a) = acct[a].balance - pay[a] /\ acct[a].balance \in Nat
  <2>1. acct[a] \in AcctRows /\ acct[a].balance \in Nat
    BY <1>6, <1>9 DEF RowTypes, AcctRows
  <2>2. bal(a) \in Nat /\ st(a) \in AcctStatus
    BY <1>9, <2>1 DEF AcctStatus
  <2>3. bal(a) = acct[a].balance - pay[a]
    OBVIOUS
  <2> HIDE DEF bal, st
  <2>4. bc(a) \in AcctRows /\ bc(a).balance = bal(a) /\ bc(a).status = st(a)
    BY <2>1, <2>2 DEF AcctRows
  <2> QED BY <2>1, <2>2, <2>3, <2>4
<1>12. ASSUME NEW a \in P
       PROVE  /\ pe(a) \in PaidRows /\ pe(a).cuts = paid[a].cuts + pay[a] /\ pe(a).abonos = paid[a].abonos
              /\ paid[a].cuts \in Nat /\ paid[a].abonos \in Nat
  <2>1. paid[a] \in PaidRows /\ paid[a].cuts \in Nat /\ paid[a].abonos \in Nat
    BY <1>6, <1>9 DEF RowTypes, PaidRows
  <2>2. paid[a].cuts + pay[a] \in Nat
    BY <1>9, <2>1
  <2> QED BY <2>1, <2>2 DEF PaidRows
<1>13. ASSUME NEW a \in P
       PROVE  /\ it(a) \in ItemRows /\ it(a).cut = item[a].cut /\ it(a).amount = item[a].amount
              /\ it(a).settled = item[a].settled + pay[a]
              /\ item[a].amount \in Nat /\ item[a].settled \in Nat
  <2>1. item[a] \in ItemRows /\ item[a].settled \in Nat /\ item[a].amount \in Nat
    BY <1>6, <1>9 DEF RowTypes, ItemRows
  <2>2. item[a].settled + pay[a] \in Nat
    BY <1>9, <2>1
  <2> QED BY <2>1, <2>2 DEF ItemRows
<1>14. /\ cut[c] \in CutRows /\ cut[c].settled \in Nat /\ cut[c].total \in Nat /\ u \in Nat
       /\ u <= cut[c].total - cut[c].settled
  <2>1. cut[c] \in CutRows /\ cut[c].settled \in Nat /\ cut[c].total \in Nat
    BY <1>3, <1>6 DEF RowTypes, CutRows
  <2> QED BY <1>3, <1>5, <2>1
<1> HIDE DEF u
<1>15. s \in Nat /\ s <= cut[c].total
  BY <1>14
<1>16. /\ ct \in CutRows /\ ct.settled = s /\ ct.total = cut[c].total
       /\ ct.status = CutStatus(s, cut[c].total)
  <2>1. CutStatus(s, cut[c].total) \in CutStatuses
    BY DEF CutStatus, CutStatuses
  <2> HIDE DEF s
  <2> QED BY <1>14, <1>15, <2>1 DEF CutRows
<1> HIDE DEF bc, pe, it, ct
<1>17. RowTypes'
  <2>1. \A a \in Accounts : acct'[a] \in AcctRows /\ paid'[a] \in PaidRows /\ item'[a] \in ItemRows
    BY <1>6, <1>7, <1>11, <1>12, <1>13 DEF RowTypes
  <2>2. acct' \in [Accounts -> AcctRows] /\ paid' \in [Accounts -> PaidRows] /\ item' \in [Accounts -> ItemRows]
    BY <1>7, <2>1
  <2>3. cut' \in [Cuts -> CutRows]
    BY <1>6, <1>8, <1>16 DEF RowTypes
  <2> QED BY <1>1, <1>6, <2>2, <2>3 DEF RowTypes
<1>19. /\ \A a \in P : acct'[a] = bc(a) /\ paid'[a] = pe(a) /\ item'[a] = it(a)
       /\ \A a \in Accounts : a \notin P => acct'[a] = acct[a] /\ paid'[a] = paid[a] /\ item'[a] = item[a]
       /\ cut'[c] = ct /\ \A d \in Cuts : d # c => cut'[d] = cut[d]
  BY <1>3, <1>6, <1>7, <1>8, <1>9 DEF RowTypes
<1>20. \A a \in P : acct[a].status # "CANCELLED"
  BY <1>6, <1>9 DEF Books, BookOf
<1>21. Books'
  <2> SUFFICES ASSUME NEW a \in Accounts PROVE BookOf(plan'[a], acct'[a], paid'[a], sale'[a])
    BY DEF Books
  <2>0. BookOf(plan[a], acct[a], paid[a], sale[a])
    BY <1>6 DEF Books
  <2>1. CASE a \notin P
    BY <1>1, <1>19, <2>0, <2>1
  <2>2. CASE a \in P
    <3>1. /\ plan[a] \in Plans /\ acct[a] \in AcctRows /\ paid[a] \in PaidRows /\ sale[a] \in SaleRows
      BY RowsOf DEF CreditInv
    <3>2. PICK b, p : b = bc(a) /\ p = pe(a)
      OBVIOUS
    <3>3. /\ b \in AcctRows /\ b.balance = acct[a].balance - pay[a] /\ b.status # "CANCELLED"
          /\ ((b.status = "PAID") <=> (b.balance = 0))
      <4>1. b.balance = bal(a) /\ b.status = st(a) /\ b \in AcctRows /\ bal(a) = acct[a].balance - pay[a]
        BY <1>11, <2>2, <3>2
      <4> QED BY <4>1
    <3>4. p \in PaidRows /\ p.abonos + p.cuts = paid[a].abonos + paid[a].cuts + pay[a]
      <4>1. /\ p \in PaidRows /\ p.cuts = paid[a].cuts + pay[a] /\ p.abonos = paid[a].abonos
            /\ paid[a].cuts \in Nat /\ paid[a].abonos \in Nat
        BY <1>12, <2>2, <3>2
      <4> QED BY <1>9, <2>2, <4>1
    <3>5. acct[a].status # "CANCELLED" /\ pay[a] \in Nat /\ pay[a] <= acct[a].balance
      BY <1>9, <1>20, <2>2
    <3>6. BookOf(plan[a], b, p, sale[a])
      BY <2>0, <3>1, <3>3, <3>4, <3>5, PaidBook
    <3> QED BY <1>1, <1>19, <2>2, <3>2, <3>6
  <2> QED BY <2>1, <2>2
<1>22. Entries'
  <2> SUFFICES ASSUME NEW a \in Accounts PROVE EntryOf(acct'[a], paid'[a], sale'[a], item'[a])
    BY DEF Entries
  <2>0. EntryOf(acct[a], paid[a], sale[a], item[a])
    BY <1>6 DEF Entries
  <2>1. CASE a \notin P
    BY <1>1, <1>19, <2>0, <2>1
  <2>2. CASE a \in P
    <3>1. item[a].cut = c /\ c # NoRow
      BY <1>3, <1>9, <2>2, AccountAssumption DEF ItemsOf
    <3>2. /\ acct'[a].balance = acct[a].balance - pay[a] /\ acct[a].balance \in Nat
      BY <1>11, <1>19, <2>2
    <3>3. paid'[a].cuts = paid[a].cuts + pay[a]
      BY <1>12, <1>19, <2>2
    <3>4. /\ item'[a].cut = item[a].cut /\ item'[a].amount = item[a].amount
          /\ item'[a].settled = item[a].settled + pay[a]
          /\ item[a].amount \in Nat /\ item[a].settled \in Nat
      BY <1>13, <1>19, <2>2
    <3>5. pay[a] \in Nat
      BY <1>9, <2>2
    <3> QED BY <1>1, <2>0, <3>1, <3>2, <3>3, <3>4, <3>5 DEF EntryOf
  <2> QED BY <2>1, <2>2
<1>23. NoneClosed'
  <2>1. \A a \in P : acct'[a].status # "CANCELLED"
    <3> TAKE a \in P
    <3>1. acct'[a].status = st(a)
      BY <1>11, <1>19
    <3> QED BY <3>1
  <2> QED BY <1>1, <1>6, <1>19, <2>1 DEF NoneClosed
<1>24. \A d \in Cuts : ItemsOf(d)' = ItemsOf(d)
  <2>1. \A a \in Accounts : item'[a].cut = item[a].cut
    BY <1>13, <1>19
  <2> QED BY <2>1 DEF ItemsOf
<1>25. Statements'
  <2> SUFFICES ASSUME NEW d \in Cuts PROVE StatementOf(cut'[d], ItemsOf(d), Owed', Done')
    BY <1>24 DEF Statements
  <2> DEFINE I == ItemsOf(d)  ow == Owed  dn == Done  ow2 == Owed'  dn2 == Done'
  <2>1. StatementOf(cut[d], I, ow, dn)
    BY <1>6 DEF Statements
  <2>2. IsFiniteSet(I) /\ I \in SUBSET Accounts
    <3>1. I \in SUBSET Accounts
      BY DEF ItemsOf
    <3> QED BY <3>1, AccountAssumption, FS_Subset
  <2>3. \A a \in I : ow2[a] = ow[a]
    <3> TAKE a \in I
    <3>1. a \in Accounts /\ item'[a].amount = item[a].amount
      BY <1>13, <1>19, <2>2
    <3> QED BY <3>1 DEF Owed
  <2>4. SumFunctionOnSet(ow2, I) = SumFunctionOnSet(ow, I)
    <3> HIDE DEF I, ow, ow2
    <3> QED BY <2>2, <2>3, SumSame
  <2>5. CASE d # c
    <3>1. \A a \in I : dn2[a] = dn[a]
      <4> TAKE a \in I
      <4>1. a \in Accounts /\ a \notin P
        BY <1>3, <1>9, <2>2, <2>5 DEF ItemsOf
      <4> QED BY <1>19, <4>1 DEF Done
    <3>2. SumFunctionOnSet(dn2, I) = SumFunctionOnSet(dn, I)
      <4> HIDE DEF I, dn, dn2
      <4> QED BY <2>2, <3>1, SumSame
    <3>3. cut'[d] = cut[d]
      BY <1>19, <2>5
    <3> HIDE DEF I, ow, dn, ow2, dn2
    <3>4. StatementOf(cut[d], I, ow2, dn2)
      BY <2>1, <2>4, <3>2 DEF StatementOf
    <3> QED BY <3>3, <3>4 DEF I, ow2, dn2
  <2>6. CASE d = c
    <3>1. I = S
      BY <1>3, <2>6
    <3>2. \A a \in S : dn[a] \in Int /\ pay[a] \in Int /\ dn2[a] = dn[a] + pay[a]
      <4> TAKE a \in S
      <4>1. a \in Accounts /\ pay[a] \in Nat /\ item[a].settled \in Nat
        BY <1>3, <1>6, <1>10 DEF RowTypes, ItemRows
      <4>2. item'[a].settled = item[a].settled + pay[a]
        <5>1. CASE a \in P
          BY <1>13, <1>19, <5>1
        <5>2. CASE a \notin P
          BY <1>10, <1>19, <4>1, <5>2
        <5> QED BY <5>1, <5>2
      <4> QED BY <4>1, <4>2 DEF Done
    <3> HIDE DEF I, ow, dn, ow2, dn2
    <3>3. SumFunctionOnSet(dn2, S) = SumFunctionOnSet(dn, S) + SumFunctionOnSet(pay, S)
      BY <1>5, <3>2, SumPlus
    <3>4. SumFunctionOnSet(dn2, S) = cut[c].settled + u
      BY <2>1, <2>6, <3>1, <3>3 DEF StatementOf, u
    <3>5. cut[c].total = SumFunctionOnSet(ow2, S)
      BY <1>3, <2>1, <2>4, <2>6, <3>1 DEF StatementOf
    <3>6. StatementOf(ct, S, ow2, dn2)
      BY <1>14, <1>15, <1>16, <3>4, <3>5 DEF StatementOf, CutStatus
    <3> QED BY <1>19, <2>6, <3>1, <3>6 DEF I, ow2, dn2
  <2> QED BY <2>5, <2>6
<1>26. LeavesOthers(r)
  <2>1. \A a \in Accounts : acct'[a].balance <= acct[a].balance
    <3> TAKE a \in Accounts
    <3>1. acct[a].balance \in Nat
      BY <1>6 DEF RowTypes, AcctRows
    <3>2. CASE a \in P
      <4>1. acct'[a].balance = acct[a].balance - pay[a] /\ pay[a] \in Nat
        BY <1>9, <1>11, <1>19, <3>2
      <4> QED BY <3>1, <4>1
    <3>3. CASE a \notin P
      BY <1>19, <3>1, <3>3
    <3> QED BY <3>2, <3>3
  <2>2. \A d \in Cuts : d # c => cut'[d] = cut[d]
    BY <1>19
  <2> QED BY <1>1, <1>2, <1>24, <2>1, <2>2 DEF LeavesOthers, OnStatement
<1> QED
  BY <1>1, <1>17, <1>21, <1>22, <1>23, <1>25, <1>26, WriteStep

\* A statement without payments releases items without payments.
LEMMA CancelCutStep ==
    ASSUME CreditInv, NEW c \in Cuts, CancelCut(c)
    PROVE  CreditInv'
<1>1. /\ CutFree(c) /\ cut[c].status = "OPEN" /\ cut[c].settled = 0
      /\ cut' = [cut EXCEPT ![c].status = "CANCELLED"]
      /\ item' = [a \in Accounts |-> IF item[a].cut = c THEN NoItem ELSE item[a]]
      /\ UNCHANGED <<setting, plan, acct, inst, paid, sale, clock, phase, job>>
  BY DEF CancelCut
<1>2. CreditTypeOK /\ Books /\ Entries /\ Statements /\ Held
  BY DEF CreditInv
<1> DEFINE ct == [cut[c] EXCEPT !.status = "CANCELLED"]  I == ItemsOf(c)
<1>3. cut' = [cut EXCEPT ![c] = ct]
  BY <1>1, <1>2 DEF CreditTypeOK
<1>4. ct \in CutRows /\ ct.status = "CANCELLED" /\ ct.settled = 0 /\ ct.total = cut[c].total
      /\ cut[c].total \in Nat
  <2>1. cut[c] \in CutRows /\ "CANCELLED" \in CutStatuses
    BY <1>2 DEF CreditTypeOK, CutStatuses
  <2> QED BY <1>1, <2>1 DEF CutRows
<1> HIDE DEF ct
<1>5. NoItem \in ItemRows
  BY DEF NoItem, ItemRows
<1>6. c # NoRow /\ NoItem.cut = NoRow /\ NoItem.settled = 0 /\ \A d \in Cuts : d # NoRow
  BY AccountAssumption DEF NoItem
<1>7. I \in SUBSET Accounts /\ IsFiniteSet(I)
  <2>1. I \in SUBSET Accounts
    BY DEF ItemsOf
  <2> QED BY <2>1, AccountAssumption, FS_Subset
<1>8. /\ \A a \in I : item'[a] = NoItem
      /\ \A a \in Accounts : a \notin I => item'[a] = item[a]
      /\ cut'[c] = ct /\ \A d \in Cuts : d # c => cut'[d] = cut[d]
  BY <1>1, <1>2, <1>3 DEF ItemsOf, CreditTypeOK
<1>9. ItemsOf(c)' = {} /\ \A d \in Cuts : d # c => ItemsOf(d)' = ItemsOf(d)
  <2>1. ItemsOf(c)' = {}
    BY <1>6, <1>8 DEF ItemsOf
  <2>2. ASSUME NEW d \in Cuts, d # c PROVE ItemsOf(d)' = ItemsOf(d)
    <3>1. \A a \in Accounts : item'[a].cut = d <=> item[a].cut = d
      BY <1>6, <1>8, <2>2 DEF ItemsOf
    <3> QED BY <3>1 DEF ItemsOf
  <2> QED BY <2>1, <2>2
<1>10. CreditTypeOK'
  <2>1. item' \in [Accounts -> ItemRows]
    BY <1>1, <1>2, <1>5 DEF CreditTypeOK
  <2>2. cut' \in [Cuts -> CutRows]
    BY <1>2, <1>3, <1>4 DEF CreditTypeOK
  <2> QED BY <1>1, <1>2, <2>1, <2>2 DEF CreditTypeOK
<1>11. \A a \in I : item[a].settled = 0
  <2>1. StatementOf(cut[c], I, Owed, Done)
    BY <1>2 DEF Statements
  <2> DEFINE dn == Done
  <2>2. \A a \in I : dn[a] \in Nat /\ dn[a] = item[a].settled
    BY <1>2, <1>7 DEF Done, CreditTypeOK, ItemRows
  <2>3. SumFunctionOnSet(dn, I) = 0
    BY <1>1, <2>1 DEF StatementOf
  <2> HIDE DEF dn, I
  <2>4. \A a \in I : dn[a] <= 0
    BY <1>7, <2>2, <2>3, SumNat
  <2> QED BY <2>2, <2>4
<1>12. Entries'
  <2> SUFFICES ASSUME NEW a \in Accounts PROVE EntryOf(acct'[a], paid'[a], sale'[a], item'[a])
    BY DEF Entries
  <2>1. EntryOf(acct[a], paid[a], sale[a], item[a])
    BY <1>2 DEF Entries
  <2>2. CASE a \in I
    BY <1>1, <1>6, <1>8, <1>11, <2>1, <2>2 DEF EntryOf
  <2>3. CASE a \notin I
    BY <1>1, <1>8, <2>1, <2>3
  <2> QED BY <2>2, <2>3
<1>13. Statements'
  <2> SUFFICES ASSUME NEW d \in Cuts PROVE StatementOf(cut'[d], ItemsOf(d)', Owed', Done')
    BY DEF Statements
  <2>1. CASE d = c
    <3> DEFINE dn2 == Done'  ow2 == Owed'
    <3> HIDE DEF dn2, ow2
    <3>1. StatementOf(ct, {}, ow2, dn2)
      BY <1>4, SumEmpty DEF StatementOf
    <3> QED BY <1>8, <1>9, <2>1, <3>1 DEF dn2, ow2
  <2>2. CASE d # c
    <3> DEFINE J == ItemsOf(d)  ow == Owed  dn == Done  ow2 == Owed'  dn2 == Done'
    <3>1. StatementOf(cut[d], J, ow, dn)
      BY <1>2 DEF Statements
    <3>2. J \in SUBSET Accounts /\ IsFiniteSet(J)
      <4>1. J \in SUBSET Accounts
        BY DEF ItemsOf
      <4> QED BY <4>1, AccountAssumption, FS_Subset
    <3>3. \A a \in J : ow2[a] = ow[a] /\ dn2[a] = dn[a]
      <4> TAKE a \in J
      <4>1. a \in Accounts /\ a \notin I
        BY <2>2 DEF ItemsOf
      <4> QED BY <1>8, <4>1 DEF Owed, Done
    <3> HIDE DEF J, ow, dn, ow2, dn2
    <3>4. SumFunctionOnSet(ow2, J) = SumFunctionOnSet(ow, J) /\ SumFunctionOnSet(dn2, J) = SumFunctionOnSet(dn, J)
      BY <3>2, <3>3, SumSame
    <3>5. StatementOf(cut[d], J, ow2, dn2)
      BY <3>1, <3>4 DEF StatementOf
    <3> QED BY <1>8, <1>9, <2>2, <3>5 DEF J, ow2, dn2
  <2> QED BY <2>1, <2>2
<1>14. Held'
  <2> SUFFICES ASSUME NEW q \in InFlight' PROVE InHand(job[q])'
    BY DEF Held
  <2>1. q \in InFlight /\ q \in Transactions
    BY <1>1 DEF InFlight
  <2>2. PICK j : j = job[q]
    OBVIOUS
  <2>3. j \in Jobs /\ job'[q] = j /\ InHand(j)
    BY <1>1, <1>2, <2>1, <2>2 DEF Held, CreditTypeOK
  <2>4. j.kind = "settle" => ReadSettle(j)'
    <3> HAVE j.kind = "settle"
    <3>1. ReadSettle(j) /\ j.cut # c
      BY <1>1, <2>1, <2>2, <2>3 DEF InHand, CutFree
    <3>2. j.cut \in Cuts /\ cut'[j.cut] = cut[j.cut] /\ ItemsOf(j.cut)' = ItemsOf(j.cut)
      BY <1>8, <1>9, <3>1 DEF ReadSettle
    <3> QED BY <3>1, <3>2 DEF ReadSettle
  <2>5. j.kind = "cut" => ReadCut(j)'
    <3> HAVE j.kind = "cut"
    <3>1. ReadCut(j) /\ j.cut # c
      BY <1>1, <2>3 DEF InHand, ReadCut
    <3> QED BY <1>1, <1>8, <3>1 DEF ReadCut
  <2>6. j.kind = "return" => ReadReturn(j)'
    <3> HAVE j.kind = "return"
    <3>1. ReadReturn(j)
      BY <2>3 DEF InHand
    <3>2. ~InCut(j.account)'
      BY <1>6, <1>8, <3>1 DEF InCut, ReadReturn
    <3> QED BY <1>1, <3>1, <3>2 DEF ReadReturn
  <2>7. j.kind = "void" => ReadVoid(j)'
    <3> HAVE j.kind = "void"
    <3>1. ReadVoid(j)
      BY <2>3 DEF InHand
    <3>2. ~InCut(j.account)'
      BY <1>6, <1>8, <3>1 DEF InCut, ReadVoid
    <3> QED BY <1>1, <3>1, <3>2 DEF ReadVoid
  <2>8. /\ j.kind = "abono" => ReadAbono(j)'
        /\ j.kind = "reconcile" => ReadReconcile(j)'
    BY <1>1, <2>3 DEF InHand, ReadAbono, ReadReconcile
  <2>9. InHand(j)'
    BY <2>4, <2>5, <2>6, <2>7, <2>8 DEF InHand
  <2> QED BY <2>3, <2>9
<1>15. Orderly' /\ Queue' /\ NoneClosed' /\ Books' /\ Apart'
  BY <1>1 DEF CreditInv, Orderly, Queue, InFlight, NoneClosed, Books, Apart, OnStatement
<1> QED
  BY <1>10, <1>12, <1>13, <1>14, <1>15 DEF CreditInv

\* Nothing but installments, and the clock, changes.
LEMMA RowsStand ==
    ASSUME CreditInv, UNCHANGED <<setting, plan, acct, paid, sale, cut, item, phase, job>>,
           inst' \in [Accounts -> Schedules], clock' \in Nat
    PROVE  CreditInv'
<1>1. CreditTypeOK'
  BY DEF CreditInv, CreditTypeOK
<1>2. Orderly' /\ Queue' /\ NoneClosed' /\ Books' /\ Apart' /\ Entries'
  BY DEF CreditInv, Orderly, Queue, InFlight, NoneClosed, Books, Apart, OnStatement, Entries
<1>3. Statements'
  BY StatementsStand
<1>4. Held'
  BY DEF CreditInv, Held, InFlight, InHand, ReadAbono, ReadReturn, ReadVoid, ReadCut, ReadSettle,
         ReadReconcile, InCut, ItemsOf
<1> QED
  BY <1>1, <1>2, <1>3, <1>4 DEF CreditInv

\* The reconciliation lists accounts that owe.
LEMMA ReconcileReadStep ==
    ASSUME CreditInv, NEW r \in Transactions, ReconcileRead(r)
    PROVE  CreditInv'
<1> DEFINE todo == {a \in setting.accounts : ToOverdue(a, Late(inst[a]))}
<1>1. CreditTypeOK
  BY DEF CreditInv
<1>2. /\ phase[r] = "idle" /\ "reconcile" \in setting.kinds
      /\ Cardinality(InFlight) < setting.width
      /\ inst' = [a \in Accounts |-> Late(inst[a])]
      /\ phase' = [phase EXCEPT ![r] = IF todo = {} THEN "idle" ELSE "busy"]
      /\ job' = [job EXCEPT ![r] = [NoJob EXCEPT !.todo = todo,
                             !.kind = IF todo = {} THEN @ ELSE "reconcile"]]
      /\ UNCHANGED <<setting, plan, acct, paid, sale, cut, item, clock>>
  BY DEF ReconcileRead
<1>3. inst' \in [Accounts -> Schedules]
  BY <1>1, <1>2, LateIs DEF CreditTypeOK
<1>4. todo \in SUBSET Accounts
  BY <1>1, Types
<1>5. \A a \in todo : acct[a].status \notin {"PAID", "CANCELLED"}
  BY DEF ToOverdue
<1> HIDE DEF todo
<1>6. CASE todo # {}
  <2> DEFINE w == [NoJob EXCEPT !.todo = todo, !.kind = "reconcile"]
  <2>1. phase' = [phase EXCEPT ![r] = "busy"] /\ job' = [job EXCEPT ![r] = w]
    BY <1>2, <1>6
  <2>2. w \in Jobs /\ w.kind = "reconcile" /\ w.todo = todo
    BY <1>4, NoJobIs DEF Jobs, AllKinds
  <2> HIDE DEF w
  <2>3. InHand(w) /\ ~OnStatement(w)
    BY <1>5, <2>2 DEF InHand, ReadReconcile, OnStatement
  <2> QED BY <1>2, <1>3, <2>1, <2>2, <2>3, ReadStep
<1>7. CASE todo = {}
  <2> DEFINE w == [NoJob EXCEPT !.todo = todo, !.kind = @]
  <2>1. phase' = phase /\ job' = [job EXCEPT ![r] = w]
    BY <1>1, <1>2, <1>7 DEF CreditTypeOK
  <2>2. w \in Jobs
    BY <1>4, NoJobIs DEF Jobs
  <2> HIDE DEF w
  <2>3. InFlight' = InFlight /\ \A q \in InFlight : job'[q] = job[q]
    BY <1>1, <1>2, <2>1 DEF InFlight, CreditTypeOK
  <2>4. CreditTypeOK'
    <3>1. job' \in [Transactions -> Jobs]
      BY <1>1, <2>1, <2>2 DEF CreditTypeOK
    <3> QED BY <1>1, <1>2, <1>3, <2>1, <3>1 DEF CreditTypeOK
  <2>5. Orderly' /\ Queue' /\ NoneClosed' /\ Books' /\ Entries'
    BY <1>2, <2>3 DEF CreditInv, Orderly, Queue, NoneClosed, Books, Entries
  <2>6. Statements'
    BY <1>2, StatementsStand
  <2>7. Held'
    <3>1. \A j : InHand(j) => InHand(j)'
      BY <1>2 DEF InHand, ReadAbono, ReadReturn, ReadVoid, ReadCut, ReadSettle, ReadReconcile, InCut, ItemsOf
    <3> SUFFICES ASSUME NEW q \in InFlight' PROVE InHand(job[q])'
      BY DEF Held
    <3>2. PICK x : x = job'[q]
      OBVIOUS
    <3>3. InHand(x)
      BY <2>3, <3>2 DEF CreditInv, Held
    <3>4. InHand(x)'
      BY <3>1, <3>3
    <3> QED BY <3>2, <3>4
  <2>8. Apart'
    BY <2>3 DEF CreditInv, Apart, OnStatement
  <2> QED BY <2>4, <2>5, <2>6, <2>7, <2>8 DEF CreditInv
<1> QED
  BY <1>6, <1>7

\* An account the reconciliation listed still owes, alone as it is in flight.
LEMMA ReconcileWriteStep ==
    ASSUME CreditInv, NEW r \in Transactions, ReconcileWrite(r)
    PROVE  CreditInv'
<1>1. phase[r] = "busy" /\ job[r].kind = "reconcile"
  BY DEF ReconcileWrite, Running
<1>2. PICK a \in job[r].todo :
          LET rest == job[r].todo \ {a} IN
          /\ acct' = [acct EXCEPT ![a].status = "OVERDUE"]
          /\ job' = [job EXCEPT ![r] = IF rest = {} THEN NoJob ELSE [@ EXCEPT !.todo = rest]]
          /\ phase' = [phase EXCEPT ![r] = IF rest = {} THEN "idle" ELSE @]
  BY DEF ReconcileWrite
<1>3. UNCHANGED <<setting, plan, inst, paid, sale, cut, item, clock>>
  BY DEF ReconcileWrite
<1>4. CreditTypeOK /\ Books /\ Entries /\ Queue /\ r \in InFlight
  BY <1>1, InFlightReads DEF CreditInv
<1>5. /\ job[r] \in Jobs /\ job[r].todo \in SUBSET Accounts /\ setting.width = 1
      /\ \A b \in job[r].todo : acct[b].status \notin {"PAID", "CANCELLED"}
  BY <1>1, InFlightReads DEF InHand, ReadReconcile, Jobs, OrderlyKinds
<1>6. a \in Accounts /\ acct[a] \in AcctRows /\ acct[a].status \notin {"PAID", "CANCELLED"}
  BY <1>2, <1>4, <1>5, RowsOf
<1> DEFINE bc == [acct[a] EXCEPT !.status = "OVERDUE"]
           rest == job[r].todo \ {a}
           w == IF rest = {} THEN NoJob ELSE [job[r] EXCEPT !.todo = rest]
<1>7. acct' = [acct EXCEPT ![a] = bc] /\ job' = [job EXCEPT ![r] = w]
  BY <1>2, <1>4, <1>6 DEF CreditTypeOK
<1>8. bc \in AcctRows /\ bc.balance = acct[a].balance /\ bc.status = "OVERDUE"
  <2>1. "OVERDUE" \in AcctStatus
    BY DEF AcctStatus
  <2> QED BY <1>6, <2>1 DEF AcctRows
<1>9. w \in Jobs /\ (rest # {} => w.kind = "reconcile" /\ w.todo = rest)
  <2>1. rest \in SUBSET Accounts
    BY <1>5
  <2> HIDE DEF rest
  <2> QED BY <1>1, <1>5, <2>1, NoJobIs DEF Jobs
<1>10. phase' = [phase EXCEPT ![r] = IF rest = {} THEN "idle" ELSE "busy"]
  BY <1>1, <1>2
<1> HIDE DEF bc, w
<1>11. /\ acct'[a] = bc /\ \A b \in Accounts : b # a => acct'[b] = acct[b]
       /\ acct' \in [Accounts -> AcctRows]
  BY <1>4, <1>6, <1>7, <1>8 DEF CreditTypeOK
<1>12. CreditTypeOK'
  <2>1. job' \in [Transactions -> Jobs] /\ phase' \in [Transactions -> {"idle", "busy"}]
    BY <1>4, <1>7, <1>9, <1>10 DEF CreditTypeOK
  <2> QED BY <1>3, <1>4, <1>11, <2>1 DEF CreditTypeOK
<1>13. Books' /\ Entries'
  <2>1. Books'
    <3> SUFFICES ASSUME NEW b \in Accounts PROVE BookOf(plan'[b], acct'[b], paid'[b], sale'[b])
      BY DEF Books
    <3>1. BookOf(plan[b], acct[b], paid[b], sale[b])
      BY <1>4 DEF Books
    <3>2. CASE b = a
      BY <1>3, <1>6, <1>8, <1>11, <3>1, <3>2 DEF BookOf
    <3>3. CASE b # a
      BY <1>3, <1>11, <3>1, <3>3
    <3> QED BY <3>2, <3>3
  <2>2. Entries'
    <3> SUFFICES ASSUME NEW b \in Accounts PROVE EntryOf(acct'[b], paid'[b], sale'[b], item'[b])
      BY DEF Entries
    <3>1. EntryOf(acct[b], paid[b], sale[b], item[b])
      BY <1>4 DEF Entries
    <3>2. CASE b = a
      BY <1>3, <1>8, <1>11, <3>1, <3>2 DEF EntryOf
    <3>3. CASE b # a
      BY <1>3, <1>11, <3>1, <3>3
    <3> QED BY <3>2, <3>3
  <2> QED BY <2>1, <2>2
<1>14. InFlight' \in SUBSET {r} /\ (rest = {} => InFlight' = {}) /\ job'[r] = w
  <2>1. InFlight \in SUBSET {r}
    BY <1>4, <1>5 DEF Queue
  <2>2. job'[r] = w
    BY <1>4, <1>7 DEF CreditTypeOK, InFlight
  <2> HIDE DEF rest
  <2>3. \A q \in Transactions : q # r => phase'[q] = phase[q]
    BY <1>4, <1>10 DEF CreditTypeOK
  <2>4. rest = {} => phase'[r] = "idle"
    BY <1>4, <1>10 DEF CreditTypeOK, InFlight
  <2> QED BY <2>1, <2>2, <2>3, <2>4 DEF InFlight
<1>15. \A q \in InFlight' : q = r /\ job'[q].kind = "reconcile" /\ job'[q].todo = rest
  <2> HIDE DEF rest
  <2> QED BY <1>9, <1>14
<1>16. Queue'
  <2>1. IsFiniteSet(InFlight')
    <3>1. IsFiniteSet({r})
      BY FS_Singleton
    <3> QED BY <1>14, <3>1, FS_Subset
  <2>2. "reconcile" \in setting.kinds
    BY <1>1, InFlightReads
  <2> QED BY <1>3, <1>14, <1>15, <2>1, <2>2 DEF Queue
<1>17. Held'
  <2> SUFFICES ASSUME NEW q \in InFlight' PROVE InHand(job[q])'
    BY DEF Held
  <2>1. PICK j : j = job'[q]
    OBVIOUS
  <2>2. j.kind = "reconcile" /\ \A b \in j.todo : b \in job[r].todo /\ b # a
    BY <1>15, <2>1
  <2>3. \A b \in j.todo : acct'[b].status \notin {"PAID", "CANCELLED"}
    BY <1>5, <1>11, <2>2
  <2>4. InHand(j)'
    BY <2>2, <2>3 DEF InHand, ReadReconcile
  <2> QED BY <2>1, <2>4
<1>18. Apart' /\ NoneClosed' /\ Orderly'
  BY <1>3, <1>5, <1>14 DEF Apart, NoneClosed, CreditInv, Orderly
<1> QED
  BY <1>3, <1>12, <1>13, <1>16, <1>17, <1>18, StatementsStand DEF CreditInv

\* Time passes.
LEMMA TickStep ==
    ASSUME CreditInv, Tick
    PROVE  CreditInv'
<1>1. inst' \in [Accounts -> Schedules] /\ clock' \in Nat
  BY DEF CreditInv, CreditTypeOK, Tick
<1> QED
  BY <1>1, RowsStand DEF Tick

\* A transaction is rolled back.
LEMMA RollbackStep ==
    ASSUME CreditInv, NEW r \in Transactions, Rollback(r)
    PROVE  CreditInv'
  BY EndsUnwritten DEF Rollback

\* Nothing changes.
LEMMA CreditStutter ==
    ASSUME CreditInv, UNCHANGED creditVars
    PROVE  CreditInv'
<1>1. inst' \in [Accounts -> Schedules] /\ clock' \in Nat
  BY DEF CreditInv, CreditTypeOK, creditVars
<1> QED
  BY <1>1, RowsStand DEF creditVars

\* Every step keeps the books.
LEMMA CreditStep ==
    ASSUME CreditInv, [CreditNext]_creditVars
    PROVE  CreditInv'
  BY AbonoReadStep, AbonoCommitStep, ReturnReadStep, ReturnCommitStep, SaleVoidReadStep,
     SaleVoidCommitStep, CutReadStep, CutCommitStep, SettleReadStep, SettleCommitStep,
     ReconcileReadStep, ReconcileWriteStep, RollbackStep, CancelCutStep, TickStep, CreditStutter
  DEF CreditNext

\* A sale on credit owes what is financed; no statement has items.
LEMMA CreditBegins ==
    ASSUME CreditInit, \A sc \in Settings : OrderlySetting(sc)
    PROVE  CreditInv
<1>1. /\ setting \in Settings /\ plan \in [Accounts -> setting.plans]
      /\ acct = [a \in Accounts |-> [status |-> "PENDING", balance |-> Original(a), due |-> 1]]
      /\ inst = [a \in Accounts |-> Cuotas(Original(a), plan[a].cuotas)]
      /\ paid = [a \in Accounts |-> [abonos |-> 0, cuts |-> 0, interest |-> 0]]
      /\ sale = [a \in Accounts |-> [status |-> "COMPLETED", refunded |-> 0, cashBack |-> 0]]
      /\ cut = [c \in Cuts |-> NoCut] /\ item = [a \in Accounts |-> NoItem] /\ clock = 0
      /\ phase = [r \in Transactions |-> "idle"] /\ job = [r \in Transactions |-> NoJob]
  BY DEF CreditInit
<1>2. \A a \in Accounts : plan[a] \in Plans
  BY <1>1 DEF Plans
<1>3. \A a \in Accounts : Original(a) \in Nat /\ Original(a) > 0 /\ plan[a].cuotas \in Nat \ {0}
  BY <1>2, PlanIs DEF Original
<1>4. CreditTypeOK
  <2>1. acct \in [Accounts -> AcctRows]
    BY <1>1, <1>3 DEF AcctRows, AcctStatus
  <2>2. inst \in [Accounts -> Schedules]
    BY <1>1, <1>3, CuotasAddUp
  <2>3. paid \in [Accounts -> PaidRows] /\ sale \in [Accounts -> SaleRows]
    BY <1>1 DEF PaidRows, SaleRows, SaleStatus
  <2>4. cut \in [Cuts -> CutRows] /\ item \in [Accounts -> ItemRows]
    BY <1>1 DEF NoCut, NoItem, CutRows, CutStatuses, ItemRows
  <2>5. phase \in [Transactions -> {"idle", "busy"}] /\ job \in [Transactions -> Jobs]
    BY <1>1, NoJobIs
  <2> QED BY <1>1, <2>1, <2>2, <2>3, <2>4, <2>5 DEF CreditTypeOK
<1>5. InFlight = {}
  BY <1>1 DEF InFlight
<1>6. Queue /\ Held /\ Apart /\ Orderly
  BY <1>1, <1>5, FS_EmptySet DEF Queue, Held, Apart, Orderly
<1>7. NoneClosed
  BY <1>1 DEF NoneClosed
<1>8. Books
  <2> SUFFICES ASSUME NEW a \in Accounts PROVE BookOf(plan[a], acct[a], paid[a], sale[a])
    BY DEF Books
  <2>1. /\ acct[a].status = "PENDING" /\ acct[a].balance = Original(a)
        /\ paid[a].abonos = 0 /\ paid[a].cuts = 0
        /\ sale[a].status = "COMPLETED" /\ sale[a].refunded = 0 /\ sale[a].cashBack = 0
    BY <1>1
  <2>2. plan[a].total \in Nat /\ plan[a].prima \in Nat /\ plan[a].interest \in Nat
    BY <1>2, PlanIs
  <2> QED BY <1>3, <2>1, <2>2 DEF BookOf, Original
<1>9. Entries
  BY <1>1 DEF Entries, EntryOf, NoItem
<1>10. Statements
  <2> SUFFICES ASSUME NEW c \in Cuts PROVE StatementOf(cut[c], ItemsOf(c), Owed, Done)
    BY DEF Statements
  <2>1. ItemsOf(c) = {}
    BY <1>1, AccountAssumption DEF ItemsOf, NoItem
  <2>2. cut[c] = NoCut
    BY <1>1
  <2>3. SumFunctionOnSet(Done, {}) = 0
    BY SumEmpty
  <2> QED BY <2>1, <2>2, <2>3 DEF StatementOf, NoCut
<1> QED
  BY <1>4, <1>6, <1>7, <1>8, <1>9, <1>10 DEF CreditInv

\* The inductive invariant of the accounts and statements.
LEMMA CreditInvariance ==
    ASSUME \A sc \in Settings : OrderlySetting(sc)
    PROVE  CreditSpec => []CreditInv
<1>1. CreditInit => CreditInv
  BY CreditBegins
<1>2. CreditInv /\ [CreditNext]_creditVars => CreditInv'
  BY CreditStep
<1> QED
  BY <1>1, <1>2, PTL DEF CreditSpec

\* The rows of accounts, installments, payments, sales, statements and items, and
\* what each request has read, keep their types: no balance, amount or sum that
\* credit.service.ts writes ever goes below zero.
THEOREM CreditTyped ==
    ASSUME \A sc \in Settings : OrderlySetting(sc)
    PROVE  CreditSpec => []CreditTypeOK
<1>1. CreditInv => CreditTypeOK
  BY DEF CreditInv
<1> QED
  BY <1>1, CreditInvariance, PTL

\* Money is conserved on every account (CreditLedger): what was received and what
\* is owed add up to what was charged, less what was returned on credit, plus the
\* cash given back, whatever sequence of abonos, returns, voids, statements and
\* settlements came before, and PAID says exactly that nothing is owed.
THEOREM CreditLedgerHolds ==
    ASSUME \A sc \in Settings : OrderlySetting(sc)
    PROVE  CreditSpec => []CreditLedger
<1>1. CreditInv => CreditLedger
  <2> SUFFICES ASSUME CreditInv, NEW a \in Accounts
               PROVE  LET received == paid[a].abonos + paid[a].cuts IN
                      IF sale[a].status = "CANCELLED"
                        THEN acct[a].balance = 0 /\ sale[a].cashBack = received
                        ELSE /\ acct[a].balance >= 0
                             /\ received + acct[a].balance
                                  = Original(a) - sale[a].refunded + sale[a].cashBack
                             /\ acct[a].status # "CANCELLED" =>
                                  ((acct[a].status = "PAID") <=> (acct[a].balance = 0))
    BY DEF CreditLedger
  <2>1. BookOf(plan[a], acct[a], paid[a], sale[a])
    BY DEF CreditInv, Books
  <2>2. /\ acct[a].balance \in Nat /\ paid[a].abonos \in Nat /\ paid[a].cuts \in Nat
        /\ sale[a].refunded \in Nat /\ sale[a].cashBack \in Nat /\ plan[a] \in Plans
    BY RowsOf DEF CreditInv, AcctRows, PaidRows, SaleRows
  <2>3. Original(a) = plan[a].total - plan[a].prima + plan[a].interest /\ Original(a) \in Int
    BY <2>2, PlanIs DEF Original
  <2>4. CASE sale[a].status = "CANCELLED"
    BY <2>1, <2>2, <2>4 DEF BookOf
  <2>5. CASE sale[a].status # "CANCELLED"
    <3>1. paid[a].abonos + paid[a].cuts + acct[a].balance
            = Original(a) - sale[a].refunded + sale[a].cashBack
      <4>1. plan[a].total \in Nat /\ plan[a].prima \in Nat /\ plan[a].interest \in Nat
        BY <2>2, PlanIs
      <4> QED BY <2>1, <2>2, <2>3, <2>5, <4>1 DEF BookOf
    <3>2. acct[a].status # "CANCELLED" => ((acct[a].status = "PAID") <=> (acct[a].balance = 0))
      BY <2>1 DEF BookOf
    <3> QED BY <2>2, <2>3, <2>5, <3>1, <3>2
  <2> QED BY <2>4, <2>5
<1> QED
  BY <1>1, CreditInvariance, PTL

\* Statements add up (CutLedger): total and settled are the sums of the items', a
\* settlement never takes more than the total, and no sale is returned or voided
\* under a statement, which keeps asking at least what its sales owe.
THEOREM CutLedgerHolds ==
    ASSUME \A sc \in Settings : OrderlySetting(sc)
    PROVE  CreditSpec => []CutLedger
<1>1. CreditInv => CutLedger
  <2> SUFFICES ASSUME CreditInv PROVE CutLedger
    OBVIOUS
  <2>0. Statements /\ Entries
    BY DEF CreditInv
  <2>1. ASSUME NEW c \in Cuts
        PROVE  LET I == ItemsOf(c) IN
               /\ cut[c].settled = SumFunctionOnSet([a \in I |-> item[a].settled], I)
               /\ cut[c].settled <= cut[c].total
               /\ cut[c].status \in {"NONE", "CANCELLED"} => I = {} /\ cut[c].settled = 0
               /\ cut[c].status \notin {"NONE", "CANCELLED"} =>
                     cut[c].total = SumFunctionOnSet([a \in I |-> item[a].amount], I)
               /\ cut[c].status = "SETTLED" => cut[c].settled = cut[c].total
    <3> DEFINE I == ItemsOf(c)  ow == Owed  dn == Done
               f == [a \in I |-> item[a].settled]  g == [a \in I |-> item[a].amount]
    <3>1. StatementOf(cut[c], I, ow, dn)
      BY <2>0 DEF Statements
    <3>2. I \in SUBSET Accounts /\ IsFiniteSet(I)
      <4>1. I \in SUBSET Accounts
        BY DEF ItemsOf
      <4> QED BY <4>1, AccountAssumption, FS_Subset
    <3>3. \A a \in I : f[a] = dn[a] /\ g[a] = ow[a]
      BY <3>2 DEF Owed, Done
    <3>4. SumFunctionOnSet(f, I) = SumFunctionOnSet(dn, I) /\ SumFunctionOnSet(g, I) = SumFunctionOnSet(ow, I)
      <4> HIDE DEF I, f, g, ow, dn
      <4> QED BY <3>2, <3>3, SumSame
    <3>5. /\ cut[c].settled = SumFunctionOnSet(f, I)
          /\ cut[c].settled <= cut[c].total
          /\ cut[c].status \in {"NONE", "CANCELLED"} => I = {} /\ cut[c].settled = 0
          /\ cut[c].status \notin {"NONE", "CANCELLED"} => cut[c].total = SumFunctionOnSet(g, I)
          /\ cut[c].status = "SETTLED" => cut[c].settled = cut[c].total
      <4> HIDE DEF I, f, g, ow, dn
      <4> QED BY <3>1, <3>4 DEF StatementOf
    <3> QED BY <3>5
  <2>2. \A a \in Accounts :
          /\ paid[a].cuts = item[a].settled
          /\ InCut(a) => /\ sale[a].status # "CANCELLED"
                         /\ acct[a].balance <= item[a].amount - item[a].settled
    BY <2>0 DEF Entries, EntryOf, InCut
  <2> QED BY <2>1, <2>2 DEF CutLedger
<1> QED
  BY <1>1, CreditInvariance, PTL

-----------------------------------------------------------------------------
(***************************************************************************)
(* The installments and the interest of one account.                       *)
(***************************************************************************)

\* Plans with interest are in settings of one transaction at a time.
SerialInterest(sc) == sc.width = 1 \/ \A p \in sc.plans : p.interest = 0
NoRace == SerialInterest(setting)

\* The installments of one account and its balance, its interest and its plan's.
MatchOf(pl, ac, qs, pd, sl) ==
    /\ ac.status # "CANCELLED" => PendingOf(qs, DOMAIN qs) = ac.balance + pd.cuts
    /\ pd.interest <= pl.interest
    /\ ac.status = "PAID" /\ pd.cuts = 0 /\ sl.refunded = 0 => pd.interest = pl.interest

Match == \A a \in Accounts : MatchOf(plan[a], acct[a], inst[a], paid[a], sale[a])

\* The portion an abono has in hand is that of the balance as it still is.
PortionNow(j) == InterestPortion(j.account, j.amount, acct[j.account].balance,
                                 paid[j.account].interest)
Fresh == \A r \in InFlight : job[r].kind = "abono" => job[r].interest = PortionNow(job[r])

\* The inductive invariant of installments and interest.
MatchInv == CreditInv /\ NoRace /\ Match /\ Fresh

\* The abono that pays off takes the interest that is left.
LEMMA PortionPaysOff ==
    ASSUME CreditTypeOK, NEW a \in Accounts, NEW amount \in Nat, NEW balance \in Nat,
           NEW prior \in Nat, prior <= plan[a].interest, balance <= amount
    PROVE  prior + InterestPortion(a, amount, balance, prior) = plan[a].interest
<1>1. plan[a].interest \in Nat
  BY RowsOf, PlanIs
<1> QED
  BY <1>1 DEF InterestPortion, AtLeast0

\* Without interest there is no portion of it.
LEMMA NoPortion ==
    ASSUME NEW a, NEW amount, NEW balance, NEW prior, plan[a].interest = 0
    PROVE  InterestPortion(a, amount, balance, prior) = 0
  BY DEF InterestPortion

\* What the others have in hand stands when one transaction ends.
LEMMA EndsFresh ==
    ASSUME MatchInv, NEW r \in Transactions, phase[r] = "busy", End(r)
    PROVE  NoRace' /\ Fresh' /\ plan' = plan
<1>1. CreditTypeOK /\ Queue /\ Apart /\ Held /\ Fresh /\ NoRace
  BY DEF MatchInv, CreditInv
<1>2. /\ InFlight' = InFlight \ {r}
      /\ \A q \in InFlight' : job'[q] = job[q] /\ q # r
      /\ setting' = setting /\ plan' = plan
      /\ setting.width = 1 => InFlight' = {}
  BY <1>1, EndStep
<1>3. NoRace'
  BY <1>1, <1>2 DEF NoRace
<1>4. ASSUME NEW q \in InFlight', job'[q].kind = "abono"
      PROVE  job'[q].interest = PortionNow(job[q])'
  <2>1. PICK j : j = job'[q]
    OBVIOUS
  <2>2. q \in InFlight /\ j = job[q] /\ setting.width # 1 /\ j.kind = "abono"
    BY <1>2, <1>4, <2>1
  <2>3. j.account \in Accounts /\ j.interest = PortionNow(j)
    BY <1>1, <2>2 DEF Held, InHand, ReadAbono, Fresh
  <2>4. plan[j.account].interest = 0
    <3>1. plan[j.account] \in setting.plans
      BY <1>1, <2>3 DEF CreditTypeOK
    <3> QED BY <1>1, <2>2, <3>1 DEF NoRace, SerialInterest
  <2>5. j.interest = 0
    BY <2>3, <2>4, NoPortion DEF PortionNow
  <2>6. PortionNow(j)' = 0
    BY <1>2, <2>4 DEF PortionNow, InterestPortion
  <2> QED BY <2>1, <2>5, <2>6
<1> QED
  BY <1>2, <1>3, <1>4 DEF Fresh

\* A transaction that begins changes no row.
LEMMA ReadMatches ==
    ASSUME MatchInv, NEW r \in Transactions, NEW w,
           w.kind = "abono" => w.interest = PortionNow(w),
           phase[r] = "idle", phase' = [phase EXCEPT ![r] = "busy"],
           job' = [job EXCEPT ![r] = w],
           UNCHANGED <<setting, plan, acct, paid, sale>>,
           \A a \in Accounts : PendingOf(inst'[a], DOMAIN inst'[a]) = PendingOf(inst[a], DOMAIN inst[a])
    PROVE  NoRace' /\ Match' /\ Fresh'
<1>1. CreditTypeOK /\ Fresh /\ NoRace /\ Match
  BY DEF MatchInv, CreditInv
<1>2. NoRace'
  BY <1>1 DEF NoRace
<1>3. Match'
  BY <1>1 DEF Match, MatchOf
<1>4. ASSUME NEW q \in InFlight', job'[q].kind = "abono"
      PROVE  job'[q].interest = PortionNow(job[q])'
  <2>1. PICK j : j = job'[q]
    OBVIOUS
  <2>2. j.interest = PortionNow(j)
    <3>1. CASE q = r
      <4>1. j = w
        BY <1>1, <2>1, <3>1 DEF CreditTypeOK
      <4> QED BY <1>4, <2>1, <4>1
    <3>2. CASE q # r
      <4>1. j = job[q] /\ q \in InFlight
        BY <1>1, <2>1, <3>2 DEF CreditTypeOK, InFlight
      <4> QED BY <1>1, <1>4, <2>1, <4>1 DEF Fresh
    <3> QED BY <3>1, <3>2
  <2>3. PortionNow(j)' = PortionNow(j)
    BY DEF PortionNow, InterestPortion, Original
  <2> QED BY <2>1, <2>2, <2>3
<1> QED
  BY <1>2, <1>3, <1>4 DEF Fresh

\* A request that begins and is no abono has no portion in hand.
LEMMA BeginMatches ==
    ASSUME MatchInv, NEW r \in Transactions, NEW k, k # "abono", NEW j, "kind" \in DOMAIN j,
           Begin(r, k, j)
    PROVE  NoRace' /\ Match' /\ Fresh'
<1> DEFINE w == [j EXCEPT !.kind = k]
<1>1. w.kind # "abono"
  OBVIOUS
<1>2. /\ phase[r] = "idle" /\ phase' = [phase EXCEPT ![r] = "busy"]
      /\ job' = [job EXCEPT ![r] = w]
      /\ UNCHANGED <<setting, plan, acct, inst, paid, sale>>
  BY DEF Begin
<1> HIDE DEF w
<1> QED
  BY <1>1, <1>2, ReadMatches

\* An abono that begins has in hand the portion of the balance as it is.
LEMMA AbonoReadMatches ==
    ASSUME MatchInv, NEW r \in Transactions, AbonoRead(r)
    PROVE  NoRace' /\ Match' /\ Fresh'
<1>2. PICK a \in setting.accounts : \E amount \in 1 .. acct[a].balance :
        /\ acct[a].status \notin {"PAID", "CANCELLED"}
        /\ Begin(r, "abono",
             [NoJob EXCEPT !.account = a, !.amount = amount,
                !.interest = InterestPortion(a, amount, acct[a].balance, paid[a].interest)])
  BY DEF AbonoRead
<1>3. PICK amount \in 1 .. acct[a].balance :
        Begin(r, "abono",
             [NoJob EXCEPT !.account = a, !.amount = amount,
                !.interest = InterestPortion(a, amount, acct[a].balance, paid[a].interest)])
  BY <1>2
<1> DEFINE i == InterestPortion(a, amount, acct[a].balance, paid[a].interest)
           w == [[NoJob EXCEPT !.account = a, !.amount = amount, !.interest = i]
                   EXCEPT !.kind = "abono"]
<1>4. /\ phase[r] = "idle" /\ phase' = [phase EXCEPT ![r] = "busy"]
      /\ job' = [job EXCEPT ![r] = w]
      /\ UNCHANGED <<setting, plan, acct, inst, paid, sale>>
  BY <1>3 DEF Begin
<1>5. w.account = a /\ w.amount = amount /\ w.interest = i
  <2> HIDE DEF i
  <2> QED BY DEF NoJob
<1>6. w.interest = PortionNow(w)
  <2> HIDE DEF w
  <2> QED BY <1>5 DEF PortionNow
<1> HIDE DEF w
<1> QED
  BY <1>4, <1>6, ReadMatches

\* Returns, voids, statements and settlements begin.
LEMMA OtherReadsMatch ==
    ASSUME MatchInv, NEW r \in Transactions,
           ReturnRead(r) \/ SaleVoidRead(r) \/ CutRead(r) \/ SettleRead(r)
    PROVE  NoRace' /\ Match' /\ Fresh'
<1>1. PICK k, j : k # "abono" /\ "kind" \in DOMAIN j /\ Begin(r, k, j)
  <2>1. CASE ReturnRead(r)
    <3>1. PICK a, amount : Begin(r, "return",
            [NoJob EXCEPT !.account = a, !.amount = amount, !.balance = acct[a].balance])
      BY <2>1 DEF ReturnRead
    <3>2. "kind" \in DOMAIN [NoJob EXCEPT !.account = a, !.amount = amount, !.balance = acct[a].balance]
      BY DEF NoJob
    <3> QED BY <3>1, <3>2
  <2>2. CASE SaleVoidRead(r)
    <3>1. PICK a : Begin(r, "void",
            [NoJob EXCEPT !.account = a, !.amount = paid[a].abonos + paid[a].cuts])
      BY <2>2 DEF SaleVoidRead
    <3>2. "kind" \in DOMAIN [NoJob EXCEPT !.account = a, !.amount = paid[a].abonos + paid[a].cuts]
      BY DEF NoJob
    <3> QED BY <3>1, <3>2
  <2>3. CASE CutRead(r)
    <3>1. PICK c, S : Begin(r, "cut",
            [NoJob EXCEPT !.cut = c, !.todo = S,
                           !.seen = [a \in Accounts |-> acct[a].balance]])
      BY <2>3 DEF CutRead
    <3>2. "kind" \in DOMAIN [NoJob EXCEPT !.cut = c, !.todo = S,
                           !.seen = [a \in Accounts |-> acct[a].balance]]
      BY DEF NoJob
    <3> QED BY <3>1, <3>2
  <2>4. CASE SettleRead(r)
    <3>1. PICK c, amount : Begin(r, "settle",
            [NoJob EXCEPT !.cut = c, !.amount = amount,
                           !.balance = cut[c].settled, !.todo = ItemsOf(c),
                           !.seen = [a \in Accounts |-> acct[a].balance]])
      BY <2>4 DEF SettleRead
    <3>2. "kind" \in DOMAIN [NoJob EXCEPT !.cut = c, !.amount = amount,
                           !.balance = cut[c].settled, !.todo = ItemsOf(c),
                           !.seen = [a \in Accounts |-> acct[a].balance]]
      BY DEF NoJob
    <3> QED BY <3>1, <3>2
  <2> QED BY <2>1, <2>2, <2>3, <2>4
<1> QED
  BY <1>1, BeginMatches

\* The rows of one account change.
LEMMA AccountMatches ==
    ASSUME MatchInv, NEW a \in Accounts, NEW bc, NEW qs, NEW pe, NEW tl,
           acct' = [acct EXCEPT ![a] = bc], inst' = [inst EXCEPT ![a] = qs],
           paid' = [paid EXCEPT ![a] = pe], sale' = [sale EXCEPT ![a] = tl], plan' = plan,
           MatchOf(plan[a], bc, qs, pe, tl)
    PROVE  Match'
<1>1. CreditTypeOK /\ Match
  BY DEF MatchInv, CreditInv
<1> SUFFICES ASSUME NEW b \in Accounts PROVE MatchOf(plan'[b], acct'[b], inst'[b], paid'[b], sale'[b])
  BY DEF Match
<1>2. MatchOf(plan[b], acct[b], inst[b], paid[b], sale[b])
  BY <1>1 DEF Match
<1>3. CASE b = a
  BY <1>1, <1>3 DEF CreditTypeOK
<1>4. CASE b # a
  BY <1>1, <1>2, <1>4 DEF CreditTypeOK
<1> QED
  BY <1>3, <1>4

\* An abono takes from the installments what it takes from the balance.
LEMMA AbonoCommitMatches ==
    ASSUME MatchInv, NEW r \in Transactions, AbonoCommit(r)
    PROVE  NoRace' /\ Match' /\ Fresh'
<1>1. phase[r] = "busy" /\ job[r].kind = "abono" /\ End(r) /\ UNCHANGED <<sale, cut, item>>
  BY DEF AbonoCommit, Running
<1>0. CreditInv /\ CreditTypeOK /\ Match /\ NoRace' /\ Fresh' /\ plan' = plan
  BY <1>1, EndsFresh DEF MatchInv, CreditInv
<1>2. PICK a, amount, i : a = job[r].account /\ amount = job[r].amount /\ i = job[r].interest
  OBVIOUS
<1>3. /\ a \in Accounts /\ amount \in Nat /\ i \in Nat
      /\ setting.width = 1 => acct[a].status \notin {"PAID", "CANCELLED"}
  BY <1>0, <1>1, <1>2, InFlightReads DEF InHand, ReadAbono, Jobs
<1>4. i = InterestPortion(a, amount, acct[a].balance, paid[a].interest)
  BY <1>0, <1>1, <1>2, InFlightReads DEF MatchInv, Fresh, PortionNow
<1>5. /\ plan[a] \in Plans /\ acct[a] \in AcctRows /\ inst[a] \in Schedules
      /\ paid[a] \in PaidRows /\ sale[a] \in SaleRows
      /\ MatchOf(plan[a], acct[a], inst[a], paid[a], sale[a])
  BY <1>0, <1>3, RowsOf DEF Match
<1>6. /\ acct[a].balance \in Nat /\ acct[a].status # "CANCELLED"
      /\ paid[a].abonos \in Nat /\ paid[a].cuts \in Nat /\ paid[a].interest \in Nat
      /\ plan[a].interest \in Nat
  BY <1>0, <1>3, <1>5, PlanIs DEF CreditInv, NoneClosed, AcctRows, PaidRows
<1>7. CASE ~Covers(acct[a].balance, amount)
  <2>1. UNCHANGED <<inst, paid, acct, sale, plan>>
    BY <1>0, <1>1, <1>2, <1>7 DEF AbonoCommit
  <2> QED BY <1>0, <2>1 DEF Match
<1>8. CASE Covers(acct[a].balance, amount)
  <2> DEFINE bal == acct[a].balance - amount
             qs == PayFifo(inst[a], amount)
             due == NextDue(qs, acct[a].due)
             st == AbonoStatus(bal, Original(a), due)
             bc == [status |-> st, balance |-> bal, due |-> due]
             pe == [paid[a] EXCEPT !.abonos = @ + amount, !.interest = @ + i]
  <2>1. /\ inst' = [inst EXCEPT ![a] = qs]
        /\ paid' = [paid EXCEPT ![a].abonos = @ + amount, ![a].interest = @ + i]
        /\ acct' = [acct EXCEPT ![a] = bc]
    BY <1>2, <1>8 DEF AbonoCommit
  <2>2. paid' = [paid EXCEPT ![a] = pe]
    BY <1>0, <1>3, <2>1 DEF CreditTypeOK
  <2>3. bal \in Nat /\ amount <= acct[a].balance /\ bal = acct[a].balance - amount
    BY <1>3, <1>6, <1>8 DEF Covers
  <2>4. PendingOf(inst[a], DOMAIN inst[a]) = acct[a].balance + paid[a].cuts
    BY <1>5, <1>6 DEF MatchOf
  <2>5. PendingOf(qs, DOMAIN qs) = bal + paid[a].cuts
    <3>1. amount <= PendingOf(inst[a], DOMAIN inst[a])
      BY <1>3, <1>6, <2>3, <2>4
    <3>2. PendingOf(qs, DOMAIN qs) = PendingOf(inst[a], DOMAIN inst[a]) - amount
      BY <1>3, <1>5, <3>1, FifoPays
    <3> HIDE DEF qs
    <3> QED BY <1>3, <1>6, <2>3, <2>4, <3>2
  <2> HIDE DEF qs, due
  <2>6. (st = "PAID") => (bal = 0)
    BY <2>3 DEF AbonoStatus
  <2> HIDE DEF st
  <2>7. bc.balance = bal /\ bc.status = st
    OBVIOUS
  <2>8. pe.cuts = paid[a].cuts /\ pe.interest = paid[a].interest + i
    <3>1. /\ paid[a].abonos + amount \in Nat /\ paid[a].interest + i \in Nat
      BY <1>3, <1>6
    <3> QED BY <1>5, <3>1 DEF PaidRows
  <2> HIDE DEF bc, pe, bal
  <2>9. paid[a].interest <= plan[a].interest
    BY <1>5 DEF MatchOf
  <2>10. paid[a].interest + i <= plan[a].interest
    BY <1>0, <1>3, <1>4, <1>6, <2>9, PortionNat
  <2>11. bal = 0 => paid[a].interest + i = plan[a].interest
    <3> HAVE bal = 0
    <3>1. acct[a].balance <= amount
      BY <1>3, <1>6, <2>3
    <3> QED BY <1>0, <1>3, <1>4, <1>6, <2>9, <3>1, PortionPaysOff
  <2>12. MatchOf(plan[a], bc, qs, pe, sale[a])
    BY <2>5, <2>6, <2>7, <2>8, <2>10, <2>11 DEF MatchOf
  <2>13. sale' = [sale EXCEPT ![a] = sale[a]]
    BY <1>0, <1>1 DEF CreditTypeOK
  <2>14. Match'
    BY <1>0, <1>3, <2>1, <2>2, <2>12, <2>13, AccountMatches
  <2> QED BY <1>0, <2>14
<1> QED
  BY <1>7, <1>8

\* A return takes from the installments what it takes from the balance, or
\* closes the account with them.
LEMMA ReturnCommitMatches ==
    ASSUME MatchInv, NEW r \in Transactions, ReturnCommit(r)
    PROVE  NoRace' /\ Match' /\ Fresh'
<1>1. phase[r] = "busy" /\ job[r].kind = "return" /\ End(r) /\ UNCHANGED <<paid, cut, item>>
  BY DEF ReturnCommit, Running
<1>0. CreditInv /\ CreditTypeOK /\ Match /\ NoRace' /\ Fresh' /\ plan' = plan
  BY <1>1, EndsFresh DEF MatchInv, CreditInv
<1>2. PICK a, amount, left : a = job[r].account /\ amount = job[r].amount /\ left = job[r].balance - amount
  OBVIOUS
<1>3. /\ a \in Accounts /\ amount \in Nat /\ amount > 0 /\ ~InCut(a)
      /\ left = acct[a].balance - amount
  BY <1>0, <1>1, <1>2, InFlightReads DEF InHand, ReadReturn, Jobs
<1>5. /\ plan[a] \in Plans /\ acct[a] \in AcctRows /\ inst[a] \in Schedules
      /\ paid[a] \in PaidRows /\ sale[a] \in SaleRows
      /\ MatchOf(plan[a], acct[a], inst[a], paid[a], sale[a])
      /\ EntryOf(acct[a], paid[a], sale[a], item[a])
      /\ BookOf(plan[a], acct[a], paid[a], sale[a])
  BY <1>0, <1>3, RowsOf DEF Match, CreditInv, Entries, Books
<1>6. /\ acct[a].balance \in Nat /\ sale[a].refunded \in Nat /\ paid[a].cuts = 0
      /\ paid[a].interest \in Nat
  BY <1>3, <1>5 DEF AcctRows, PaidRows, SaleRows, EntryOf, InCut
<1> DEFINE tl == [status |-> IF amount = Refundable(a) THEN "RETURNED" ELSE "PARTIALLY_RETURNED",
                  refunded |-> sale[a].refunded + amount,
                  cashBack |-> sale[a].cashBack + Excess(amount, job[r].balance)]
<1>7. sale' = [sale EXCEPT ![a] = tl]
  BY <1>2 DEF ReturnCommit
<1>8. tl.refunded > 0
  BY <1>3, <1>6
<1> HIDE DEF tl
<1>9. paid' = [paid EXCEPT ![a] = paid[a]]
  BY <1>0, <1>1 DEF CreditTypeOK
<1>10. paid[a].interest <= plan[a].interest
  BY <1>5 DEF MatchOf
<1>11. CASE left < 0
  <2> DEFINE b == [acct[a] EXCEPT !.balance = 0, !.status = "CANCELLED"]
             q == CancelAll(inst[a])
  <2>1. /\ acct' = [acct EXCEPT ![a].balance = 0, ![a].status = "CANCELLED"]
        /\ inst' = [inst EXCEPT ![a] = CancelAll(@)]
    BY <1>2, <1>11 DEF ReturnCommit
  <2>2. acct' = [acct EXCEPT ![a] = b] /\ inst' = [inst EXCEPT ![a] = q]
    BY <1>0, <1>3, <2>1 DEF CreditTypeOK
  <2>3. b.status = "CANCELLED"
    BY <1>5 DEF AcctRows
  <2> HIDE DEF b, q
  <2>4. MatchOf(plan[a], b, q, paid[a], tl)
    BY <1>10, <2>3 DEF MatchOf
  <2> QED BY <1>0, <1>3, <1>7, <1>9, <2>2, <2>4, AccountMatches
<1>12. CASE ~(left < 0)
  <2> DEFINE q == ForgiveLifo(inst[a], amount)
             b == [status |-> IF left = 0 THEN "PAID" ELSE "PARTIALLY_PAID",
                   balance |-> left, due |-> NextDue(q, acct[a].due)]
  <2>1. acct' = [acct EXCEPT ![a] = b] /\ inst' = [inst EXCEPT ![a] = q]
    BY <1>2, <1>12 DEF ReturnCommit
  <2>2. amount <= acct[a].balance /\ b.balance = left
    BY <1>3, <1>6, <1>12
  <2>3. PendingOf(q, DOMAIN q) = left + paid[a].cuts
    <3>1. CASE acct[a].status = "CANCELLED"
      <4>1. acct[a].balance = 0
        BY <1>5, <3>1 DEF BookOf
      <4> QED BY <1>3, <2>2, <4>1
    <3>2. CASE acct[a].status # "CANCELLED"
      <4>1. PendingOf(inst[a], DOMAIN inst[a]) = acct[a].balance
        BY <1>5, <1>6, <3>2 DEF MatchOf
      <4>2. PendingOf(q, DOMAIN q) = acct[a].balance - amount
        BY <1>3, <1>5, <2>2, <4>1, LifoForgives
      <4> HIDE DEF q
      <4> QED BY <1>3, <1>6, <4>2
    <3> QED BY <3>1, <3>2
  <2> HIDE DEF q, b
  <2>4. MatchOf(plan[a], b, q, paid[a], tl)
    BY <1>6, <1>8, <1>10, <2>2, <2>3 DEF MatchOf
  <2> QED BY <1>0, <1>3, <1>7, <1>9, <2>1, <2>4, AccountMatches
<1> QED
  BY <1>11, <1>12

\* A void closes the account with its installments.
LEMMA SaleVoidCommitMatches ==
    ASSUME MatchInv, NEW r \in Transactions, SaleVoidCommit(r)
    PROVE  NoRace' /\ Match' /\ Fresh'
<1>1. phase[r] = "busy" /\ job[r].kind = "void" /\ End(r) /\ UNCHANGED <<paid, cut, item>>
  BY DEF SaleVoidCommit, Running
<1>0. CreditInv /\ CreditTypeOK /\ Match /\ NoRace' /\ Fresh' /\ plan' = plan
  BY <1>1, EndsFresh DEF MatchInv, CreditInv
<1>2. PICK a, amount : a = job[r].account /\ amount = job[r].amount
  OBVIOUS
<1>3. a \in Accounts
  BY <1>0, <1>1, <1>2, InFlightReads DEF InHand, ReadVoid
<1>4. acct[a] \in AcctRows /\ paid[a].interest <= plan[a].interest
  BY <1>0, <1>3, RowsOf DEF Match, MatchOf
<1> DEFINE b == [acct[a] EXCEPT !.balance = 0, !.status = "CANCELLED"]
           q == CancelAll(inst[a])
           tl == [sale[a] EXCEPT !.status = "CANCELLED", !.cashBack = @ + amount]
<1>5. /\ acct' = [acct EXCEPT ![a].balance = 0, ![a].status = "CANCELLED"]
      /\ inst' = [inst EXCEPT ![a] = CancelAll(@)]
      /\ sale' = [sale EXCEPT ![a].status = "CANCELLED", ![a].cashBack = @ + amount]
  BY <1>2 DEF SaleVoidCommit
<1>6. acct' = [acct EXCEPT ![a] = b] /\ inst' = [inst EXCEPT ![a] = q]
  BY <1>0, <1>3, <1>5 DEF CreditTypeOK
<1>7. sale' = [sale EXCEPT ![a] = tl] /\ paid' = [paid EXCEPT ![a] = paid[a]]
  BY <1>0, <1>1, <1>3, <1>5 DEF CreditTypeOK
<1>8. b.status = "CANCELLED"
  BY <1>4 DEF AcctRows
<1> HIDE DEF b, q, tl
<1>9. MatchOf(plan[a], b, q, paid[a], tl)
  BY <1>4, <1>8 DEF MatchOf
<1> QED
  BY <1>0, <1>3, <1>6, <1>7, <1>9, AccountMatches

\* A statement, or a transaction that is rolled back, touches no account.
LEMMA UntouchedMatches ==
    ASSUME MatchInv, NEW r \in Transactions, CutCommit(r) \/ Rollback(r)
    PROVE  NoRace' /\ Match' /\ Fresh'
<1>1. phase[r] = "busy" /\ End(r) /\ UNCHANGED <<acct, inst, paid, sale>>
  BY DEF CutCommit, Rollback, Running
<1>2. NoRace' /\ Fresh' /\ plan' = plan
  BY <1>1, EndsFresh
<1> QED
  BY <1>1, <1>2 DEF MatchInv, Match

\* A settlement takes from balances what it adds to the payments of statements.
LEMMA SettleCommitMatches ==
    ASSUME MatchInv, NEW r \in Transactions, SettleCommit(r)
    PROVE  NoRace' /\ Match' /\ Fresh'
<1>1. /\ phase[r] = "busy" /\ job[r].kind = "settle" /\ End(r) /\ UNCHANGED <<inst, sale>>
  BY DEF SettleCommit, Running
<1>0. CreditInv /\ CreditTypeOK /\ Match /\ NoRace' /\ Fresh' /\ plan' = plan
  BY <1>1, EndsFresh DEF MatchInv, CreditInv
<1> DEFINE S == job[r].todo
<1>4. PICK pay \in Allocations(r) :
          LET Paying  == {a \in S : pay[a] > 0}
          IN
          /\ acct' = [a \in Accounts |->
                        IF a \in Paying
                          THEN LET balance == acct[a].balance - pay[a] IN
                               [acct[a] EXCEPT !.balance = balance,
                                  !.status = IF balance = 0 THEN "PAID"
                                                            ELSE "PARTIALLY_PAID"]
                          ELSE acct[a]]
          /\ paid' = [a \in Accounts |->
                        IF a \in Paying THEN [paid[a] EXCEPT !.cuts = @ + pay[a]]
                                        ELSE paid[a]]
  BY DEF SettleCommit
<1>2. S = job[r].todo
  OBVIOUS
<1> HIDE DEF S
<1>3. S \in SUBSET Accounts
  BY <1>0, <1>1, <1>2, InFlightReads DEF Jobs
<1>5. pay \in [S -> Nat] /\ \A a \in S : pay[a] <= acct[a].balance
  BY <1>0, <1>1, <1>2, PayFacts
<1> SUFFICES ASSUME NEW a \in Accounts PROVE MatchOf(plan'[a], acct'[a], inst'[a], paid'[a], sale'[a])
  BY <1>0 DEF Match
<1>6. /\ acct[a] \in AcctRows /\ paid[a] \in PaidRows
      /\ MatchOf(plan[a], acct[a], inst[a], paid[a], sale[a])
      /\ BookOf(plan[a], acct[a], paid[a], sale[a])
  BY <1>0, RowsOf DEF Match, CreditInv, Books
<1>7. CASE ~(a \in S /\ pay[a] > 0)
  <2>1. acct'[a] = acct[a] /\ paid'[a] = paid[a]
    BY <1>4, <1>7
  <2> QED BY <1>0, <1>1, <1>6, <2>1
<1>8. CASE a \in S /\ pay[a] > 0
  <2> DEFINE bal == acct[a].balance - pay[a]
             st == IF bal = 0 THEN "PAID" ELSE "PARTIALLY_PAID"
             bc == [acct[a] EXCEPT !.balance = bal, !.status = st]
             pe == [paid[a] EXCEPT !.cuts = paid[a].cuts + pay[a]]
  <2>1. acct'[a] = bc /\ paid'[a] = pe
    BY <1>4, <1>8
  <2>2. /\ pay[a] \in Nat /\ pay[a] > 0 /\ pay[a] <= acct[a].balance /\ acct[a].balance \in Nat
        /\ paid[a].cuts \in Nat
    BY <1>5, <1>6, <1>8 DEF AcctRows, PaidRows
  <2>3. acct[a].status # "CANCELLED"
    BY <1>6, <2>2 DEF BookOf
  <2>4. bc.balance = acct[a].balance - pay[a]
    BY <1>6 DEF AcctRows
  <2>5. pe.cuts = paid[a].cuts + pay[a] /\ pe.interest = paid[a].interest
    BY <1>6 DEF PaidRows
  <2> HIDE DEF bc, pe
  <2>6. MatchOf(plan[a], bc, inst[a], pe, sale[a])
    <3>1. PendingOf(inst[a], DOMAIN inst[a]) = acct[a].balance + paid[a].cuts /\ pe.interest <= plan[a].interest
      BY <1>6, <2>3, <2>5 DEF MatchOf
    <3>2. PendingOf(inst[a], DOMAIN inst[a]) = bc.balance + pe.cuts /\ pe.cuts # 0
      BY <2>2, <2>4, <2>5, <3>1
    <3> QED BY <3>1, <3>2 DEF MatchOf
  <2> QED BY <1>0, <1>1, <2>1, <2>6
<1> QED
  BY <1>7, <1>8

\* The clock, and a statement that is cancelled, change no account.
LEMMA StandsMatch ==
    ASSUME MatchInv, UNCHANGED <<setting, plan, acct, inst, paid, sale, phase, job>>
    PROVE  NoRace' /\ Match' /\ Fresh'
<1>1. NoRace' /\ Match'
  BY DEF MatchInv, NoRace, Match
<1>2. \A j : PortionNow(j)' = PortionNow(j)
  BY DEF PortionNow, InterestPortion, Original
<1>3. InFlight' = InFlight /\ job' = job
  BY DEF InFlight
<1>4. Fresh'
  <2> SUFFICES ASSUME NEW q \in InFlight', job'[q].kind = "abono"
               PROVE  job'[q].interest = PortionNow(job[q])'
    BY DEF Fresh
  <2>1. PICK j : j = job'[q]
    OBVIOUS
  <2>2. j.interest = PortionNow(j)
    BY <1>3, <2>1 DEF MatchInv, Fresh
  <2> QED BY <1>2, <2>1, <2>2
<1> QED
  BY <1>1, <1>4

\* A statement is cancelled.
LEMMA CancelCutMatches ==
    ASSUME MatchInv, NEW c \in Cuts, CancelCut(c)
    PROVE  NoRace' /\ Match' /\ Fresh'
  BY StandsMatch DEF CancelCut

\* A late installment asks for what it asked for.
LEMMA ReconcileReadMatches ==
    ASSUME MatchInv, NEW r \in Transactions, ReconcileRead(r)
    PROVE  NoRace' /\ Match' /\ Fresh'
<1> DEFINE todo == {a \in setting.accounts : ToOverdue(a, Late(inst[a]))}
<1>1. CreditTypeOK /\ Fresh /\ NoRace /\ Match
  BY DEF MatchInv, CreditInv
<1>2. /\ phase[r] = "idle"
      /\ inst' = [a \in Accounts |-> Late(inst[a])]
      /\ phase' = [phase EXCEPT ![r] = IF todo = {} THEN "idle" ELSE "busy"]
      /\ job' = [job EXCEPT ![r] = [NoJob EXCEPT !.todo = todo,
                             !.kind = IF todo = {} THEN @ ELSE "reconcile"]]
      /\ UNCHANGED <<setting, plan, acct, paid, sale>>
  BY DEF ReconcileRead
<1>3. \A a \in Accounts : PendingOf(inst'[a], DOMAIN inst'[a]) = PendingOf(inst[a], DOMAIN inst[a])
  <2> TAKE a \in Accounts
  <2>1. inst[a] \in Schedules /\ inst'[a] = Late(inst[a])
    BY <1>1, <1>2, RowsOf
  <2> QED BY <2>1, LateIs
<1> HIDE DEF todo
<1>4. CASE todo # {}
  <2> DEFINE w == [NoJob EXCEPT !.todo = todo, !.kind = "reconcile"]
  <2>1. phase' = [phase EXCEPT ![r] = "busy"] /\ job' = [job EXCEPT ![r] = w]
    BY <1>2, <1>4
  <2>2. w.kind = "reconcile"
    BY DEF NoJob
  <2> HIDE DEF w
  <2> QED BY <1>2, <1>3, <2>1, <2>2, ReadMatches
<1>5. CASE todo = {}
  <2>1. phase' = phase
    BY <1>1, <1>2, <1>5 DEF CreditTypeOK
  <2>2. InFlight' = InFlight /\ \A q \in InFlight : job'[q] = job[q]
    BY <1>1, <1>2, <2>1 DEF InFlight, CreditTypeOK
  <2>3. NoRace' /\ Match'
    BY <1>1, <1>2, <1>3 DEF NoRace, Match, MatchOf
  <2>4. \A j : PortionNow(j)' = PortionNow(j)
    BY <1>2 DEF PortionNow, InterestPortion, Original
  <2>5. Fresh'
    <3> SUFFICES ASSUME NEW q \in InFlight', job'[q].kind = "abono"
                 PROVE  job'[q].interest = PortionNow(job[q])'
      BY DEF Fresh
    <3>1. PICK j : j = job'[q]
      OBVIOUS
    <3>2. j.interest = PortionNow(j)
      BY <1>1, <2>2, <3>1 DEF Fresh
    <3> QED BY <2>4, <3>1, <3>2
  <2> QED BY <2>3, <2>5
<1> QED
  BY <1>4, <1>5

\* An account that becomes overdue keeps its balance, and was not paid.
LEMMA ReconcileWriteMatches ==
    ASSUME MatchInv, NEW r \in Transactions, ReconcileWrite(r)
    PROVE  NoRace' /\ Match' /\ Fresh'
<1>1. /\ phase[r] = "busy" /\ job[r].kind = "reconcile"
      /\ UNCHANGED <<setting, plan, inst, paid, sale>>
  BY DEF ReconcileWrite, Running
<1>2. PICK a \in job[r].todo :
          LET rest == job[r].todo \ {a} IN
          /\ acct' = [acct EXCEPT ![a].status = "OVERDUE"]
          /\ job' = [job EXCEPT ![r] = IF rest = {} THEN NoJob ELSE [@ EXCEPT !.todo = rest]]
          /\ phase' = [phase EXCEPT ![r] = IF rest = {} THEN "idle" ELSE @]
  BY DEF ReconcileWrite
<1>3. CreditInv /\ CreditTypeOK /\ Match /\ NoRace
  BY DEF MatchInv, CreditInv
<1>4. /\ a \in Accounts /\ setting.width = 1 /\ acct[a].status \notin {"PAID", "CANCELLED"}
      /\ InFlight = {r}
  <2>1. /\ job[r] \in Jobs /\ setting.width = 1 /\ r \in InFlight
        /\ \A b \in job[r].todo : acct[b].status \notin {"PAID", "CANCELLED"}
    BY <1>1, <1>3, InFlightReads DEF InHand, ReadReconcile, OrderlyKinds
  <2>2. InFlight = {r}
    BY <1>3, <2>1 DEF CreditInv, Queue
  <2> QED BY <1>2, <2>1, <2>2 DEF Jobs
<1>5. acct[a] \in AcctRows
  BY <1>3, <1>4, RowsOf
<1> DEFINE bc == [acct[a] EXCEPT !.status = "OVERDUE"]
<1>6. acct' = [acct EXCEPT ![a] = bc] /\ bc.balance = acct[a].balance /\ bc.status = "OVERDUE"
  BY <1>2, <1>3, <1>4, <1>5 DEF CreditTypeOK, AcctRows
<1> HIDE DEF bc
<1>7. MatchOf(plan[a], bc, inst[a], paid[a], sale[a])
  BY <1>3, <1>4, <1>6 DEF Match, MatchOf
<1>8. /\ inst' = [inst EXCEPT ![a] = inst[a]] /\ paid' = [paid EXCEPT ![a] = paid[a]]
      /\ sale' = [sale EXCEPT ![a] = sale[a]] /\ plan' = plan
  BY <1>1, <1>3 DEF CreditTypeOK
<1>9. Match'
  BY <1>4, <1>6, <1>7, <1>8, AccountMatches
<1>10. Fresh'
  <2>1. \A q \in Transactions : q # r => phase'[q] = phase[q]
    BY <1>2, <1>3 DEF CreditTypeOK
  <2>2. \A q \in InFlight' : q = r
    BY <1>4, <2>1 DEF InFlight
  <2>3. r \in InFlight' => job'[r].kind = "reconcile"
    <3> DEFINE rest == job[r].todo \ {a}
    <3>1. CASE rest = {}
      <4>1. phase'[r] = "idle"
        BY <1>2, <1>3, <1>4, <3>1 DEF CreditTypeOK, InFlight
      <4> QED BY <4>1 DEF InFlight
    <3>2. CASE rest # {}
      <4> DEFINE w == [job[r] EXCEPT !.todo = rest]
      <4>1. job'[r] = w
        BY <1>2, <1>3, <1>4, <3>2 DEF CreditTypeOK, InFlight
      <4>2. job[r] \in Jobs
        BY <1>3, <1>4 DEF CreditTypeOK, InFlight
      <4>3. w.kind = job[r].kind
        BY <4>2 DEF Jobs
      <4> HIDE DEF w
      <4> QED BY <1>1, <4>1, <4>3
    <3> QED BY <3>1, <3>2
  <2> QED BY <2>2, <2>3 DEF Fresh
<1> QED
  BY <1>1, <1>3, <1>9, <1>10 DEF NoRace

\* Every step keeps installments and interest in line with the account.
LEMMA MatchStep ==
    ASSUME MatchInv, [CreditNext]_creditVars
    PROVE  MatchInv'
<1>1. CreditInv'
  BY CreditStep DEF MatchInv
<1>2. NoRace' /\ Match' /\ Fresh'
  <2>1. ASSUME NEW r \in Transactions,
               \/ AbonoRead(r) \/ AbonoCommit(r)
               \/ ReturnRead(r) \/ ReturnCommit(r)
               \/ SaleVoidRead(r) \/ SaleVoidCommit(r)
               \/ CutRead(r) \/ CutCommit(r)
               \/ SettleRead(r) \/ SettleCommit(r)
               \/ ReconcileRead(r) \/ ReconcileWrite(r)
               \/ Rollback(r)
        PROVE  NoRace' /\ Match' /\ Fresh'
    BY <2>1, AbonoReadMatches, AbonoCommitMatches, OtherReadsMatch, ReturnCommitMatches,
       SaleVoidCommitMatches, UntouchedMatches, SettleCommitMatches, ReconcileReadMatches,
       ReconcileWriteMatches
  <2>2. ASSUME NEW c \in Cuts, CancelCut(c) PROVE NoRace' /\ Match' /\ Fresh'
    BY <2>2, CancelCutMatches
  <2>3. ASSUME Tick \/ UNCHANGED creditVars PROVE NoRace' /\ Match' /\ Fresh'
    BY <2>3, StandsMatch DEF Tick, creditVars
  <2> QED BY <2>1, <2>2, <2>3 DEF CreditNext
<1> QED
  BY <1>1, <1>2 DEF MatchInv

\* The installments of a new sale add up to what is financed.
LEMMA MatchBegins ==
    ASSUME CreditInit, CreditInv, \A sc \in Settings : SerialInterest(sc)
    PROVE  MatchInv
<1>1. /\ setting \in Settings
      /\ acct = [a \in Accounts |-> [status |-> "PENDING", balance |-> Original(a), due |-> 1]]
      /\ inst = [a \in Accounts |-> Cuotas(Original(a), plan[a].cuotas)]
      /\ paid = [a \in Accounts |-> [abonos |-> 0, cuts |-> 0, interest |-> 0]]
      /\ phase = [r \in Transactions |-> "idle"]
  BY DEF CreditInit
<1>2. NoRace
  BY <1>1 DEF NoRace
<1>3. Fresh
  BY <1>1 DEF Fresh, InFlight
<1>4. Match
  <2> SUFFICES ASSUME NEW a \in Accounts PROVE MatchOf(plan[a], acct[a], inst[a], paid[a], sale[a])
    BY DEF Match
  <2>1. plan[a] \in Plans
    BY RowsOf DEF CreditInv
  <2>2. Original(a) \in Nat /\ plan[a].cuotas \in Nat \ {0} /\ plan[a].interest \in Nat
    BY <2>1, PlanIs DEF Original
  <2>3. /\ acct[a].status = "PENDING" /\ acct[a].balance = Original(a)
        /\ paid[a].cuts = 0 /\ paid[a].interest = 0 /\ inst[a] = Cuotas(Original(a), plan[a].cuotas)
    BY <1>1
  <2>4. PendingOf(inst[a], DOMAIN inst[a]) = Original(a)
    BY <2>2, <2>3, CuotasAddUp
  <2> QED BY <2>2, <2>3, <2>4 DEF MatchOf
<1> QED
  BY <1>2, <1>3, <1>4 DEF MatchInv

\* Installments and balance agree (InstallmentsMatch): registerPayment pays
\* installments from the oldest, createReturn takes from the last, and what they
\* still ask for stays the balance plus what statements received; the interest
\* recognised never exceeds the plan's and is all of it once abonos alone have
\* paid the account off.
THEOREM InstallmentsHold ==
    ASSUME \A sc \in Settings : OrderlySetting(sc) /\ SerialInterest(sc)
    PROVE  CreditSpec => []InstallmentsMatch
<1>1. CreditInit => MatchInv
  BY CreditBegins, MatchBegins
<1>2. MatchInv /\ [CreditNext]_creditVars => MatchInv'
  BY MatchStep
<1>3. MatchInv => InstallmentsMatch
  BY DEF MatchInv, Match, MatchOf, InstallmentsMatch
<1> QED
  BY <1>1, <1>2, <1>3, PTL DEF CreditSpec
=============================================================================
