--------------------------- MODULE BookingProofs ---------------------------
(***************************************************************************)
(* Proofs about Booking, for every set of specialists, customers, slots    *)
(* and handlers, and every duration of the service; and about Salon, for   *)
(* every floor, and every order of finitely many rows.                     *)
(***************************************************************************)
EXTENDS Booking, Salon, SumTheorems, FiniteSetTheorems, WellFoundedInduction, TLAPS

(***************************************************************************)
(* Types.                                                                  *)
(***************************************************************************)
Lane     == Specialists \cup {Generic}
HoldStep == {"holdHolds", "holdInsert"}
ConfStep == {"confirmCheck", "confirmWrite"}
MoveStep == {"moveCheck", "moveWrite"}
SaleStep == {"checkoutSale", "checkoutDone"}
ApptStep == MoveStep \cup SaleStep \cup {"cancelWrite"}
Steps    == {"idle", "strike"} \cup HoldStep \cup ConfStep \cup ApptStep

HoldRow == [status : {"none", "live", "expired", "used", "freed"}, lane : Lane, at : Nat]
ApptRow == [status : {"none", "CANCELLED"} \cup Occupying, lane : Lane, at : Nat,
            who : Customers \cup {None}, moves : Nat, from : HoldIds \cup {0}]
Work    == [target : Lane \cup {Anyone}, lanes : SUBSET Lane, lane : Lane, at : Nat,
            hold : HoldIds \cup {0}, appt : ApptIds \cup {0},
            who : Customers \cup {None}, moves : Nat, strikes : Nat]

RowsOK == /\ active \subseteq Specialists
          /\ hold \in [HoldIds -> HoldRow]
          /\ appt \in [ApptIds -> ApptRow]
          /\ sold \in [ApptIds -> Nat]
          /\ strikes \in [Customers -> Nat]
          /\ blocked \subseteq Customers

TypeOK == /\ scenario \in Scenarios
          /\ RowsOK
          /\ pc \in [Requests -> Steps]
          /\ loc \in [Requests -> Work]

(***************************************************************************)
(* Who works on what.  A handler owns the row it read as long as it lives: *)
(* rows keep their identity, and an appointment its customer and hold.     *)
(***************************************************************************)
Made(a)   == appt[a].status # "none"
Placed(i) == hold[i].status # "none"

OwnWork(r) ==
    /\ pc[r] \in HoldStep /\ loc[r].target # Anyone => loc[r].lanes \subseteq {loc[r].target}
    /\ pc[r] \in HoldStep /\ loc[r].target = Anyone => scenario.auto
    /\ pc[r] = "holdInsert" => loc[r].lane \in loc[r].lanes
    /\ pc[r] \in ConfStep => /\ loc[r].hold \in HoldIds /\ Placed(loc[r].hold)
                             /\ loc[r].who \in Customers
                             /\ loc[r].lanes \subseteq Specialists
    /\ pc[r] \in ApptStep => loc[r].appt \in ApptIds /\ Made(loc[r].appt)
    /\ pc[r] = "strike" => loc[r].who \in Customers

FromOnce ==
    \A a, b \in ApptIds : a # b /\ Made(a) /\ Made(b) => appt[a].from # appt[b].from

Origins ==
    \A a \in ApptIds : Made(a) => /\ appt[a].who \in Customers
                                  /\ appt[a].from \in HoldIds
                                  /\ hold[appt[a].from].status = "used"

\* The advisory locks: of createHold by target, of createAppointment by hold.
Locks ==
    \A q, r \in Requests : q # r =>
        /\ pc[q] \in HoldStep /\ pc[r] \in HoldStep => loc[q].target # loc[r].target
        /\ pc[q] = "confirmWrite" /\ pc[r] = "confirmWrite" => loc[q].hold # loc[r].hold

Alone ==
    /\ IsFiniteSet(Busy)
    /\ scenario.width <= 1 =>
          \A q, r \in Requests : pc[q] # "idle" /\ pc[r] # "idle" => q = r

BaseInv == /\ TypeOK
           /\ \A r \in Requests : OwnWork(r)
           /\ FromOnce /\ Origins /\ Locks /\ Alone

Sole(r) == scenario.width <= 1 => \A q \in Requests \ {r} : pc[q] = "idle"

\* No row disappears.
RowsKept == /\ \A i \in HoldIds : Placed(i) => hold'[i].status # "none"
            /\ \A a \in ApptIds : Made(a) => appt'[a].status # "none"

Less == {ss \in Nat \X Nat : ss[1] < ss[2]}

LEMMA LessWellFounded == IsWellFoundedOn(Less, Nat)
  BY NatLessThanWellFounded DEF OpToRel, Less

LEMMA FirstIn ==
    ASSUME NEW lanes \in SUBSET Lane, lanes # {}
    PROVE  First(lanes) \in lanes
<1>1. lanes \subseteq Nat
  BY BookingAssumption DEF Lane, Generic
<1>2. PICK x \in lanes : \A y \in lanes : ~(<<y, x>> \in Less)
  BY <1>1, WFMin, LessWellFounded
<1>3. \A y \in lanes : x <= y
  <2> TAKE y \in lanes
  <2> DEFINE p == <<y, x>>
  <2>1. p \in Nat \X Nat /\ p[1] = y /\ p[2] = x
    BY <1>1
  <2>2. ~(p \in Less)
    BY <1>2
  <2> HIDE DEF p
  <2>3. ~(p[1] < p[2])
    BY <2>1, <2>2 DEF Less
  <2> QED
    BY <1>1, <2>1, <2>3
<1> QED
  BY <1>3 DEF First

LEMMA Given ==
    TypeOK => /\ scenario.width \in Nat /\ scenario.times \subseteq Nat
              /\ HoldIds \subseteq Nat \ {0} /\ ApptIds \subseteq Nat \ {0}
              /\ Specialists \subseteq Nat \ {0} /\ Duration \in Nat \ {0}
  BY BookingAssumption DEF TypeOK

LEMMA StartSole ==
    ASSUME BaseInv, NEW kind, MayStart(kind), scenario.width <= 1
    PROVE  \A q \in Requests : pc[q] = "idle"
<1>1. IsFiniteSet(Busy) /\ Cardinality(Busy) < scenario.width /\ scenario.width \in Nat
  BY Given DEF BaseInv, Alone, MayStart
<1>2. Cardinality(Busy) \in Nat
  BY <1>1, FS_CardinalityType
<1>3. Cardinality(Busy) = 0
  BY <1>1, <1>2
<1>4. Busy = {}
  BY <1>1, <1>3, FS_EmptySet
<1> QED
  BY <1>4 DEF Busy

LEMMA BusySole ==
    ASSUME BaseInv, NEW r \in Requests, pc[r] # "idle"
    PROVE  Sole(r)
  BY DEF BaseInv, Alone, Sole

LEMMA GoFacts ==
    ASSUME TypeOK, NEW r \in Requests, NEW step \in Steps, NEW job \in Work,
           Go(r, step, job)
    PROVE  /\ scenario' = scenario
           /\ pc' \in [Requests -> Steps] /\ loc' \in [Requests -> Work]
           /\ pc'[r] = step /\ loc'[r] = job
           /\ \A q \in Requests \ {r} : pc'[q] = pc[q] /\ loc'[q] = loc[q]
  BY DEF TypeOK, Go

LEMMA OwnKept ==
    ASSUME NEW q \in Requests, OwnWork(q), RowsKept,
           scenario' = scenario, pc'[q] = pc[q], loc'[q] = loc[q]
    PROVE  OwnWork(q)'
  BY DEF OwnWork, RowsKept, Placed, Made

\* A step of the handler r, whatever it does to the rows.
LEMMA GoKeeps ==
    ASSUME BaseInv, NEW r \in Requests, NEW step \in Steps, NEW job \in Work,
           Go(r, step, job), Sole(r),
           RowsOK', RowsKept, Origins', FromOnce', OwnWork(r)',
           \A q \in Requests \ {r} :
              /\ step \in HoldStep /\ pc[q] \in HoldStep => loc[q].target # job.target
              /\ step = "confirmWrite" /\ pc[q] = "confirmWrite" => loc[q].hold # job.hold
    PROVE  BaseInv'
<1>1. /\ scenario' = scenario
      /\ pc' \in [Requests -> Steps] /\ loc' \in [Requests -> Work]
      /\ pc'[r] = step /\ loc'[r] = job
      /\ \A q \in Requests \ {r} : pc'[q] = pc[q] /\ loc'[q] = loc[q]
  BY GoFacts DEF BaseInv
<1>2. TypeOK'
  BY <1>1 DEF BaseInv, TypeOK
<1>3. \A q \in Requests : OwnWork(q)'
  <2> TAKE q \in Requests
  <2>1. CASE q = r
    BY <2>1
  <2>2. CASE q # r
    BY <1>1, <2>2, OwnKept DEF BaseInv
  <2> QED
    BY <2>1, <2>2
<1>4. Locks'
  <2>1. SUFFICES ASSUME NEW q \in Requests, NEW s \in Requests, q # s
                 PROVE  /\ pc'[q] \in HoldStep /\ pc'[s] \in HoldStep
                             => loc'[q].target # loc'[s].target
                        /\ pc'[q] = "confirmWrite" /\ pc'[s] = "confirmWrite"
                             => loc'[q].hold # loc'[s].hold
    BY DEF Locks
  <2>2. CASE q # r /\ s # r
    BY <1>1, <2>1, <2>2 DEF BaseInv, Locks
  <2>3. CASE q = r
    BY <1>1, <2>1, <2>3
  <2>4. CASE s = r
    BY <1>1, <2>1, <2>4
  <2> QED
    BY <2>2, <2>3, <2>4
<1>5. Alone'
  <2>1. IsFiniteSet(Busy \cup {r})
    BY FS_AddElement DEF BaseInv, Alone
  <2>2. Busy' \subseteq Busy \cup {r}
    BY <1>1 DEF Busy
  <2>3. IsFiniteSet(Busy')
    BY <2>1, <2>2, FS_Subset
  <2>4. scenario'.width <= 1 =>
           \A p, q \in Requests : pc'[p] # "idle" /\ pc'[q] # "idle" => p = q
    BY <1>1 DEF Sole
  <2> QED
    BY <2>3, <2>4 DEF Alone
<1> QED
  BY <1>2, <1>3, <1>4, <1>5 DEF BaseInv

\* A step of no handler.
LEMMA RestKeeps ==
    ASSUME BaseInv, UNCHANGED <<scenario, pc, loc>>, RowsOK', RowsKept, Origins', FromOnce'
    PROVE  BaseInv'
<1>1. TypeOK' /\ Locks'
  BY DEF BaseInv, TypeOK, Locks
<1>2. \A q \in Requests : OwnWork(q)'
  BY OwnKept DEF BaseInv
<1>3. Busy' = Busy
  BY DEF Busy
<1>4. Alone'
  BY <1>3 DEF BaseInv, Alone
<1> QED
  BY <1>1, <1>2, <1>4 DEF BaseInv

LEMMA RowsSame ==
    ASSUME BaseInv, UNCHANGED rows
    PROVE  RowsOK' /\ RowsKept /\ Origins' /\ FromOnce'
  BY DEF BaseInv, TypeOK, RowsOK, RowsKept, Origins, FromOnce, Placed, Made, rows

\* The handlers that start: what they read is theirs.
LEMMA BaseHoldAppts ==
    ASSUME BaseInv, NEW r \in Requests, NEW target \in Specialists \cup {Generic, Anyone},
           NEW t \in scenario.times, HoldAppts(r, target, t)
    PROVE  BaseInv'
<1> DEFINE w == [NoWork EXCEPT !.target = target, !.at = t, !.lanes = Unbooked(target, t)]
<1>1. Sole(r)
  BY StartSole DEF HoldAppts, Start, Sole
<1>2. Unbooked(target, t) \subseteq Lanes(target) /\ Lanes(target) \subseteq Lane
  BY DEF Unbooked, Lanes, BaseInv, TypeOK, RowsOK, Lane
<1>3. w \in Work /\ w.target = target /\ w.lanes = Unbooked(target, t)
  BY <1>2, Given DEF BaseInv, NoWork, Work, Lane
<1> HIDE DEF w
<1>4. Go(r, "holdHolds", w) /\ UNCHANGED rows
  BY DEF HoldAppts, w
<1>5. /\ scenario' = scenario /\ pc'[r] = "holdHolds" /\ loc'[r] = w
  BY <1>3, <1>4, GoFacts DEF BaseInv, Steps, HoldStep
<1>6. OwnWork(r)'
  BY <1>2, <1>3, <1>5 DEF OwnWork, HoldStep, ConfStep, ApptStep, MoveStep, SaleStep, HoldAppts, Lanes
<1>7. \A q \in Requests \ {r} : pc[q] \in HoldStep => loc[q].target # w.target
  BY <1>3 DEF HoldAppts, HoldLockFree, LockName, HoldStep
<1>8. "holdHolds" \in Steps
  BY DEF Steps, HoldStep
<1> QED
  BY <1>1, <1>3, <1>4, <1>6, <1>7, <1>8, RowsSame, GoKeeps

LEMMA BaseConfirmRead ==
    ASSUME BaseInv, NEW r \in Requests, NEW i \in HoldIds, NEW c \in Customers,
           ConfirmRead(r, i, c)
    PROVE  BaseInv'
<1> DEFINE w == [NoWork EXCEPT !.hold = i, !.who = c, !.lanes = active]
<1>1. Sole(r)
  BY StartSole DEF ConfirmRead, Start, Sole
<1>3. w \in Work /\ w.hold = i /\ w.who = c /\ w.lanes = active
  BY DEF BaseInv, TypeOK, RowsOK, NoWork, Work, Lane
<1> HIDE DEF w
<1>4. Go(r, "confirmCheck", w) /\ UNCHANGED rows /\ Exists(i)
  BY DEF ConfirmRead, w
<1>8. "confirmCheck" \in Steps
  BY DEF Steps, ConfStep
<1>5. /\ scenario' = scenario /\ pc'[r] = "confirmCheck" /\ loc'[r] = w
  BY <1>3, <1>4, <1>8, GoFacts DEF BaseInv
<1>6. OwnWork(r)'
  BY <1>3, <1>4, <1>5 DEF OwnWork, HoldStep, ConfStep, ApptStep, MoveStep, SaleStep, Placed,
     Exists, BaseInv, TypeOK, RowsOK, rows
<1> QED
  BY <1>1, <1>3, <1>4, <1>6, <1>8, RowsSame, GoKeeps DEF HoldStep

\* Those that read an appointment.
LEMMA BaseApptRead ==
    ASSUME BaseInv, NEW r \in Requests, NEW a \in ApptIds, Made(a),
           NEW kind, Start(r, kind), NEW step \in ApptStep,
           NEW w \in Work, w.appt = a, Go(r, step, w), UNCHANGED rows
    PROVE  BaseInv'
<1>1. Sole(r)
  BY StartSole DEF Start, Sole
<1>8. step \in Steps /\ step \notin HoldStep \cup ConfStep \cup {"strike"}
  BY DEF Steps, HoldStep, ConfStep, ApptStep, MoveStep, SaleStep
<1>5. /\ scenario' = scenario /\ pc'[r] = step /\ loc'[r] = w
  BY <1>8, GoFacts DEF BaseInv
<1>6. OwnWork(r)'
  BY <1>5, <1>8 DEF OwnWork, HoldStep, ConfStep, Made, rows
<1> QED
  BY <1>1, <1>6, <1>8, RowsSame, GoKeeps DEF ConfStep

LEMMA BaseAppts ==
    ASSUME BaseInv, NEW r \in Requests, NEW a \in ApptIds,
           \/ \E t \in scenario.times : RescheduleRead(r, a, t)
           \/ \E s \in Specialists : ReassignRead(r, a, s)
           \/ CancelRead(r, a)
           \/ CheckoutRead(r, a)
    PROVE  BaseInv'
<1>0. appt[a] \in ApptRow /\ NoWork \in Work /\ Specialists \subseteq Lane
  BY DEF BaseInv, TypeOK, RowsOK, NoWork, Work, Lane
<1>1. CASE \E t \in scenario.times : RescheduleRead(r, a, t)
  <2> PICK t \in scenario.times : RescheduleRead(r, a, t)
    BY <1>1
  <2> DEFINE w == [NoWork EXCEPT !.target = appt[a].lane, !.lane = appt[a].lane,
                                 !.appt = a, !.at = t, !.moves = appt[a].moves + 1]
  <2>3. appt[a].lane \in Lane /\ appt[a].moves + 1 \in Nat /\ t \in Nat
    BY <1>0, Given DEF BaseInv, ApptRow
  <2>1. w \in Work /\ w.appt = a
    BY <1>0, <2>3 DEF NoWork, Work
  <2>2. Go(r, "moveCheck", w) /\ UNCHANGED rows /\ Made(a) /\ Start(r, "reschedule")
    BY DEF RescheduleRead, OpenTo, Made
  <2> HIDE DEF w
  <2> QED
    BY <2>1, <2>2, BaseApptRead DEF ApptStep, MoveStep
<1>2. CASE \E s \in Specialists : ReassignRead(r, a, s)
  <2> PICK s \in Specialists : ReassignRead(r, a, s)
    BY <1>2
  <2> DEFINE w == [NoWork EXCEPT !.target = appt[a].lane, !.lane = s,
                                 !.appt = a, !.at = appt[a].at]
  <2>1. w \in Work /\ w.appt = a
    BY <1>0 DEF NoWork, Work, ApptRow
  <2>2. Go(r, "moveCheck", w) /\ UNCHANGED rows /\ Made(a) /\ Start(r, "reassign")
    BY DEF ReassignRead, OpenTo, Made
  <2> HIDE DEF w
  <2> QED
    BY <2>1, <2>2, BaseApptRead DEF ApptStep, MoveStep
<1> DEFINE w == [NoWork EXCEPT !.appt = a]
<1>3. w \in Work /\ w.appt = a
  BY <1>0 DEF NoWork, Work
<1>4. CASE CancelRead(r, a)
  <2>1. Go(r, "cancelWrite", w) /\ UNCHANGED rows /\ Made(a) /\ Start(r, "cancel")
    BY <1>4 DEF CancelRead, OpenTo, Made
  <2> HIDE DEF w
  <2> QED
    BY <1>3, <2>1, BaseApptRead DEF ApptStep
<1>5. CASE CheckoutRead(r, a)
  <2>1. Go(r, "checkoutSale", w) /\ UNCHANGED rows /\ Made(a) /\ Start(r, "checkout")
    BY <1>5 DEF CheckoutRead, OpenTo, Made
  <2> HIDE DEF w
  <2> QED
    BY <1>3, <2>1, BaseApptRead DEF ApptStep, SaleStep
<1> QED
  BY <1>1, <1>2, <1>4, <1>5

\* Those that go on.
LEMMA BaseHoldHolds ==
    ASSUME BaseInv, NEW r \in Requests, HoldHolds(r)
    PROVE  BaseInv'
<1> DEFINE free == Unheld(loc[r].lanes, loc[r].at)
           l == First(free)
           w == [loc[r] EXCEPT !.lane = l]
<1>0. loc[r] \in Work /\ pc[r] = "holdHolds" /\ OwnWork(r)
  BY DEF BaseInv, TypeOK, HoldHolds
<1>1. free \in SUBSET loc[r].lanes /\ loc[r].lanes \in SUBSET Lane /\ free # {}
  BY <1>0 DEF Unheld, Work, HoldHolds
<1>2. l \in loc[r].lanes /\ l \in Lane
  BY <1>1, FirstIn
<1>3. Go(r, "holdInsert", w) /\ UNCHANGED rows
  BY DEF HoldHolds
<1> HIDE DEF l
<1>4. w \in Work /\ w.target = loc[r].target /\ w.lanes = loc[r].lanes /\ w.lane = l
  BY <1>0, <1>2 DEF Work
<1> HIDE DEF w
<1>5. "holdInsert" \in Steps
  BY DEF Steps, HoldStep
<1>6. scenario' = scenario /\ pc'[r] = "holdInsert" /\ loc'[r] = w
  BY <1>3, <1>4, <1>5, GoFacts DEF BaseInv
<1>7. OwnWork(r)'
  BY <1>0, <1>2, <1>4, <1>6 DEF OwnWork, HoldStep, ConfStep, ApptStep, MoveStep, SaleStep
<1>8. \A q \in Requests \ {r} : pc[q] \in HoldStep => loc[q].target # w.target
  BY <1>0, <1>4 DEF BaseInv, Locks, HoldStep
<1> QED
  BY <1>0, <1>3, <1>4, <1>5, <1>7, <1>8, BusySole, RowsSame, GoKeeps

LEMMA BaseConfirmCheck ==
    ASSUME BaseInv, NEW r \in Requests, ConfirmCheck(r)
    PROVE  BaseInv'
<1> DEFINE t == hold[loc[r].hold].at
           free == {l \in Resolved(r) : ~ApptConflict(l, t, 0)}
           l == First(free)
           w == [loc[r] EXCEPT !.lane = l, !.at = t]
<1>0. loc[r] \in Work /\ pc[r] = "confirmCheck" /\ OwnWork(r)
  BY DEF BaseInv, TypeOK, ConfirmCheck
<1>1. /\ loc[r].hold \in HoldIds /\ Placed(loc[r].hold) /\ loc[r].who \in Customers
      /\ loc[r].lanes \subseteq Specialists
  BY <1>0 DEF OwnWork, ConfStep
<1>2. t \in Nat /\ Resolved(r) \subseteq Lane
  BY <1>1 DEF BaseInv, TypeOK, RowsOK, HoldRow, Resolved, Lane
<1>3. free \in SUBSET Lane /\ free # {}
  BY <1>2 DEF ConfirmCheck
<1>4. l \in Lane
  BY <1>3, FirstIn
<1>5. Go(r, "confirmWrite", w) /\ UNCHANGED rows /\ ConfirmLockFree(r)
  BY DEF ConfirmCheck
<1> HIDE DEF l, t
<1>6. w \in Work /\ w.hold = loc[r].hold /\ w.who = loc[r].who /\ w.lanes = loc[r].lanes
  BY <1>0, <1>2, <1>4 DEF Work
<1> HIDE DEF w
<1>7. "confirmWrite" \in Steps
  BY DEF Steps, ConfStep
<1>8. scenario' = scenario /\ pc'[r] = "confirmWrite" /\ loc'[r] = w
  BY <1>5, <1>6, <1>7, GoFacts DEF BaseInv
<1>9. OwnWork(r)'
  BY <1>1, <1>5, <1>6, <1>8 DEF OwnWork, HoldStep, ConfStep, ApptStep, MoveStep, SaleStep, Placed, rows
<1>10. \A q \in Requests \ {r} : pc[q] = "confirmWrite" => loc[q].hold # w.hold
  BY <1>5, <1>6 DEF ConfirmLockFree
<1> QED
  BY <1>0, <1>5, <1>6, <1>7, <1>9, <1>10, BusySole, RowsSame, GoKeeps DEF HoldStep

LEMMA BaseMoveCheck ==
    ASSUME BaseInv, NEW r \in Requests, MoveCheck(r)
    PROVE  BaseInv'
<1>0. loc[r] \in Work /\ pc[r] = "moveCheck" /\ OwnWork(r)
  BY DEF BaseInv, TypeOK, MoveCheck
<1>1. Go(r, "moveWrite", loc[r]) /\ UNCHANGED rows /\ "moveWrite" \in Steps
  BY DEF MoveCheck, Steps, ApptStep, MoveStep
<1>2. scenario' = scenario /\ pc'[r] = "moveWrite" /\ loc'[r] = loc[r]
  BY <1>0, <1>1, GoFacts DEF BaseInv
<1>3. OwnWork(r)'
  BY <1>0, <1>1, <1>2 DEF OwnWork, HoldStep, ConfStep, ApptStep, MoveStep, SaleStep, Made, rows
<1> QED
  BY <1>0, <1>1, <1>3, BusySole, RowsSame, GoKeeps DEF HoldStep

\* The handlers that write, and end.
LEMMA Ends ==
    ASSUME BaseInv, NEW r \in Requests, pc[r] # "idle", Finish(r),
           RowsOK', RowsKept, Origins', FromOnce'
    PROVE  BaseInv'
<1>1. NoWork \in Work /\ "idle" \in Steps
  BY DEF NoWork, Work, Lane, Steps, BaseInv, TypeOK, RowsOK
<1>2. Go(r, "idle", NoWork)
  BY DEF Finish
<1>3. pc'[r] = "idle" /\ loc'[r] = NoWork
  BY <1>1, <1>2, GoFacts DEF BaseInv
<1>4. OwnWork(r)'
  BY <1>3 DEF OwnWork, HoldStep, ConfStep, ApptStep, MoveStep, SaleStep
<1> QED
  BY <1>1, <1>2, <1>4, BusySole, GoKeeps DEF HoldStep

LEMMA BaseHoldInsert ==
    ASSUME BaseInv, NEW r \in Requests, HoldInsert(r)
    PROVE  BaseInv'
<1>1. PICK i \in HoldIds :
         /\ hold[i].status = "none"
         /\ hold' = [hold EXCEPT ![i] =
                        [status |-> "live", lane |-> loc[r].lane, at |-> loc[r].at]]
  BY DEF HoldInsert
<1>2. pc[r] # "idle" /\ Finish(r) /\ UNCHANGED <<appt, sold, strikes, blocked, active>>
  BY DEF HoldInsert
<1>3. [status |-> "live", lane |-> loc[r].lane, at |-> loc[r].at] \in HoldRow
  BY DEF BaseInv, TypeOK, Work, HoldRow
<1>4. RowsOK'
  BY <1>1, <1>2, <1>3 DEF BaseInv, TypeOK, RowsOK
<1>5. RowsKept /\ Origins' /\ FromOnce'
  BY <1>1, <1>2 DEF BaseInv, TypeOK, RowsOK, RowsKept, Origins, FromOnce, Made, Placed
<1> QED
  BY <1>2, <1>4, <1>5, Ends

LEMMA BaseConfirmWrite ==
    ASSUME BaseInv, NEW r \in Requests, ConfirmWrite(r)
    PROVE  BaseInv'
<1> DEFINE n == [NoAppt EXCEPT !.status = "PENDING", !.lane = loc[r].lane,
                               !.at = loc[r].at, !.who = loc[r].who,
                               !.from = loc[r].hold]
<1>0. loc[r] \in Work /\ pc[r] = "confirmWrite" /\ OwnWork(r)
  BY DEF BaseInv, TypeOK, ConfirmWrite
<1>1. loc[r].hold \in HoldIds /\ loc[r].who \in Customers /\ Exists(loc[r].hold)
  BY <1>0 DEF OwnWork, ConfStep, ConfirmWrite
<1>2. PICK a \in ApptIds : ~Made(a) /\ appt' = [appt EXCEPT ![a] = n]
  BY DEF ConfirmWrite, Made
<1>3. n \in ApptRow /\ n.status = "PENDING" /\ n.who = loc[r].who /\ n.from = loc[r].hold
  BY <1>0, <1>1 DEF NoAppt, ApptRow, Work, Lane, Occupying
<1>4. /\ pc[r] # "idle" /\ Finish(r) /\ UNCHANGED <<sold, strikes, blocked, active>>
      /\ hold' = [hold EXCEPT ![loc[r].hold].status = "used"]
  BY <1>0 DEF ConfirmWrite
<1> HIDE DEF n
<1>5. hold' \in [HoldIds -> HoldRow]
  BY <1>1, <1>4 DEF BaseInv, TypeOK, RowsOK, HoldRow
<1>6. RowsOK'
  BY <1>2, <1>3, <1>4, <1>5 DEF BaseInv, TypeOK, RowsOK
<1>7. /\ hold'[loc[r].hold].status = "used"
      /\ \A i \in HoldIds \ {loc[r].hold} : hold'[i] = hold[i]
      /\ appt'[a] = n /\ \A b \in ApptIds \ {a} : appt'[b] = appt[b]
  BY <1>1, <1>2, <1>4 DEF BaseInv, TypeOK, RowsOK, HoldRow
<1>8. RowsKept
  BY <1>3, <1>7 DEF RowsKept, Made, Placed
<1>9. Origins'
  BY <1>1, <1>3, <1>7 DEF BaseInv, Origins, Made
<1>10. \A b \in ApptIds \ {a} : Made(b) => appt[b].from # loc[r].hold
  BY <1>1 DEF BaseInv, Origins, Exists
<1>11. FromOnce'
  BY <1>3, <1>7, <1>10 DEF BaseInv, FromOnce, Made
<1> QED
  BY <1>4, <1>6, <1>8, <1>9, <1>11, Ends

\* What is done to one appointment that is there.
LEMMA ApptSet ==
    ASSUME BaseInv, NEW a \in ApptIds, Made(a), NEW n \in ApptRow,
           n.status # "none", n.who = appt[a].who, n.from = appt[a].from,
           appt' = [appt EXCEPT ![a] = n], UNCHANGED <<hold, sold, active>>,
           strikes' \in [Customers -> Nat], blocked' \in SUBSET Customers
    PROVE  RowsOK' /\ RowsKept /\ Origins' /\ FromOnce'
<1>1. RowsOK'
  BY DEF BaseInv, TypeOK, RowsOK
<1>2. appt'[a] = n /\ \A b \in ApptIds \ {a} : appt'[b] = appt[b]
  BY DEF BaseInv, TypeOK, RowsOK
<1>3. RowsKept /\ Origins'
  BY <1>2 DEF BaseInv, RowsKept, Origins, Made, Placed
<1>4. FromOnce'
  BY <1>2 DEF BaseInv, FromOnce, Made
<1> QED
  BY <1>1, <1>3, <1>4

LEMMA StatusSet ==
    ASSUME BaseInv, NEW a \in ApptIds, Made(a), NEW s \in {"CANCELLED"} \cup Occupying,
           SetStatus(a, s), UNCHANGED <<hold, sold, active>>,
           strikes' \in [Customers -> Nat], blocked' \in SUBSET Customers
    PROVE  RowsOK' /\ RowsKept /\ Origins' /\ FromOnce'
<1> DEFINE n == [appt[a] EXCEPT !.status = s]
<1>1. appt[a] \in ApptRow
  BY DEF BaseInv, TypeOK, RowsOK
<1>2. n \in ApptRow /\ n.status = s /\ n.who = appt[a].who /\ n.from = appt[a].from
  BY <1>1 DEF ApptRow
<1>3. appt' = [appt EXCEPT ![a] = n] /\ s # "none"
  BY DEF SetStatus, Occupying
<1> HIDE DEF n
<1> QED
  BY <1>2, <1>3, ApptSet

LEMMA BaseMoveWrite ==
    ASSUME BaseInv, NEW r \in Requests, MoveWrite(r)
    PROVE  BaseInv'
<1> DEFINE a == loc[r].appt
           m == [appt[a] EXCEPT !.at = loc[r].at, !.moves = loc[r].moves, !.status = "PENDING"]
           s == [appt[a] EXCEPT !.lane = loc[r].lane]
           n == IF loc[r].moves > 0 THEN m ELSE s
<1>0. loc[r] \in Work /\ pc[r] = "moveWrite" /\ OwnWork(r)
  BY DEF BaseInv, TypeOK, MoveWrite
<1>1. a \in ApptIds /\ Made(a) /\ appt[a] \in ApptRow
  BY <1>0 DEF OwnWork, ApptStep, MoveStep, BaseInv, TypeOK, RowsOK
<1>2. appt' = [appt EXCEPT ![a] = n]
  BY DEF MoveWrite
<1>3. /\ Finish(r) /\ UNCHANGED <<hold, sold, strikes, blocked, active>>
      /\ strikes \in [Customers -> Nat] /\ blocked \in SUBSET Customers
  BY DEF MoveWrite, BaseInv, TypeOK, RowsOK
<1>4. m \in ApptRow /\ m.status = "PENDING" /\ m.who = appt[a].who /\ m.from = appt[a].from
  BY <1>0, <1>1 DEF ApptRow, Work, Occupying
<1>5. s \in ApptRow /\ s.status = appt[a].status /\ s.who = appt[a].who /\ s.from = appt[a].from
  BY <1>0, <1>1 DEF ApptRow, Work
<1>6. n \in ApptRow /\ n.status # "none" /\ n.who = appt[a].who /\ n.from = appt[a].from
  BY <1>1, <1>4, <1>5 DEF Made
<1> HIDE DEF a, n
<1>7. RowsOK' /\ RowsKept /\ Origins' /\ FromOnce'
  BY <1>1, <1>2, <1>3, <1>6, ApptSet
<1> QED
  BY <1>0, <1>3, <1>7, Ends

LEMMA BaseCancelWrite ==
    ASSUME BaseInv, NEW r \in Requests, CancelWrite(r)
    PROVE  BaseInv'
<1>1. loc[r].appt \in ApptIds /\ Made(loc[r].appt)
  BY DEF BaseInv, OwnWork, ApptStep, CancelWrite
<1>2. /\ pc[r] # "idle" /\ Finish(r) /\ UNCHANGED <<hold, sold, strikes, blocked, active>>
      /\ SetStatus(loc[r].appt, "CANCELLED")
      /\ strikes \in [Customers -> Nat] /\ blocked \in SUBSET Customers
  BY DEF CancelWrite, BaseInv, TypeOK, RowsOK
<1>3. RowsOK' /\ RowsKept /\ Origins' /\ FromOnce'
  BY <1>1, <1>2, StatusSet
<1> QED
  BY <1>2, <1>3, Ends

LEMMA BaseCheckoutSale ==
    ASSUME BaseInv, NEW r \in Requests, CheckoutSale(r)
    PROVE  BaseInv'
<1>0. loc[r] \in Work /\ pc[r] = "checkoutSale" /\ OwnWork(r)
  BY DEF BaseInv, TypeOK, CheckoutSale
<1>1. /\ Go(r, "checkoutDone", loc[r]) /\ UNCHANGED <<hold, appt, strikes, blocked, active>>
      /\ "checkoutDone" \in Steps
  BY DEF CheckoutSale, Steps, ApptStep, SaleStep
<1>2. scenario' = scenario /\ pc'[r] = "checkoutDone" /\ loc'[r] = loc[r]
  BY <1>0, <1>1, GoFacts DEF BaseInv
<1>6. loc[r].appt \in ApptIds /\ sold \in [ApptIds -> Nat]
  BY <1>0 DEF OwnWork, ApptStep, SaleStep, BaseInv, TypeOK, RowsOK
<1>7. sold' = [sold EXCEPT ![loc[r].appt] = sold[loc[r].appt] + 1]
  BY DEF CheckoutSale
<1>3. sold' \in [ApptIds -> Nat]
  BY <1>6, <1>7
<1>4. RowsOK' /\ RowsKept /\ Origins' /\ FromOnce'
  BY <1>1, <1>3 DEF BaseInv, TypeOK, RowsOK, RowsKept, Origins, FromOnce, Made, Placed
<1>5. OwnWork(r)'
  BY <1>0, <1>1, <1>2 DEF OwnWork, HoldStep, ConfStep, ApptStep, MoveStep, SaleStep, Made
<1> QED
  BY <1>0, <1>1, <1>4, <1>5, BusySole, GoKeeps DEF HoldStep

LEMMA BaseCheckoutDone ==
    ASSUME BaseInv, NEW r \in Requests, CheckoutDone(r)
    PROVE  BaseInv'
<1>1. loc[r].appt \in ApptIds /\ Made(loc[r].appt)
  BY DEF BaseInv, OwnWork, ApptStep, SaleStep, CheckoutDone
<1>2. /\ pc[r] # "idle" /\ Finish(r) /\ UNCHANGED <<hold, sold, blocked, active>>
      /\ SetStatus(loc[r].appt, "COMPLETED")
      /\ strikes' \in [Customers -> Nat] /\ blocked \in SUBSET Customers
  BY DEF CheckoutDone, BaseInv, TypeOK, RowsOK
<1>3. RowsOK' /\ RowsKept /\ Origins' /\ FromOnce'
  BY <1>1, <1>2, StatusSet DEF Occupying
<1> QED
  BY <1>2, <1>3, Ends

LEMMA BaseNoShow ==
    ASSUME BaseInv, NEW r \in Requests, NEW a \in ApptIds, NoShow(r, a)
    PROVE  BaseInv'
<1> DEFINE w == [NoWork EXCEPT !.who = appt[a].who, !.strikes = strikes[appt[a].who]]
<1>1. Made(a) /\ appt[a].who \in Customers /\ strikes[appt[a].who] \in Nat
  BY DEF NoShow, OpenTo, Made, BaseInv, Origins, TypeOK, RowsOK
<1>2. w \in Work /\ w.who = appt[a].who
  BY <1>1 DEF NoWork, Work, Lane, BaseInv, TypeOK, RowsOK
<1>3. /\ Go(r, "strike", w) /\ SetStatus(a, "NO_SHOW")
      /\ UNCHANGED <<hold, sold, strikes, blocked, active>>
      /\ strikes \in [Customers -> Nat] /\ blocked \in SUBSET Customers
  BY DEF NoShow, BaseInv, TypeOK, RowsOK
<1>4. Sole(r) /\ "strike" \in Steps
  BY StartSole DEF NoShow, Start, Sole, Steps
<1> HIDE DEF w
<1>5. scenario' = scenario /\ pc'[r] = "strike" /\ loc'[r] = w
  BY <1>2, <1>3, <1>4, GoFacts DEF BaseInv
<1>6. OwnWork(r)'
  BY <1>1, <1>2, <1>5 DEF OwnWork, HoldStep, ConfStep, ApptStep, MoveStep, SaleStep
<1>7. RowsOK' /\ RowsKept /\ Origins' /\ FromOnce'
  BY <1>1, <1>3, StatusSet DEF Occupying
<1> QED
  BY <1>2, <1>3, <1>4, <1>6, <1>7, GoKeeps DEF HoldStep

LEMMA BaseStrike ==
    ASSUME BaseInv, NEW r \in Requests, Strike(r)
    PROVE  BaseInv'
<1>1. loc[r].who \in Customers /\ loc[r].strikes + 1 \in Nat
  BY DEF BaseInv, OwnWork, TypeOK, Work, Strike
<1>2. /\ strikes' = [strikes EXCEPT ![loc[r].who] = loc[r].strikes + 1]
      /\ blocked' \in {blocked, blocked \cup {loc[r].who}}
      /\ pc[r] # "idle" /\ Finish(r) /\ UNCHANGED <<hold, appt, sold, active>>
  BY DEF Strike
<1>3. strikes' \in [Customers -> Nat] /\ blocked' \subseteq Customers
  BY <1>1, <1>2 DEF BaseInv, TypeOK, RowsOK
<1>4. RowsOK' /\ RowsKept /\ Origins' /\ FromOnce'
  BY <1>2, <1>3 DEF BaseInv, TypeOK, RowsOK, RowsKept, Origins, FromOnce, Made, Placed
<1> QED
  BY <1>2, <1>4, Ends

LEMMA BaseStop ==
    ASSUME BaseInv, NEW r \in Requests, Stop(r)
    PROVE  BaseInv'
  BY RowsSame, Ends DEF Stop

\* What takes no time.
LEMMA BaseRelease ==
    ASSUME BaseInv, NEW i \in HoldIds, Release(i) \/ Lapse(i)
    PROVE  BaseInv'
<1>1. /\ hold[i].status \in {"live", "expired"}
      /\ \E s \in {"freed", "expired"} : hold' = [hold EXCEPT ![i].status = s]
      /\ UNCHANGED <<scenario, appt, sold, strikes, blocked, active, pc, loc>>
  BY DEF Release, Lapse
<1>2. PICK s \in {"freed", "expired"} : hold' = [hold EXCEPT ![i].status = s]
  BY <1>1
<1>3. RowsOK'
  BY <1>1, <1>2 DEF BaseInv, TypeOK, RowsOK, HoldRow
<1>4. /\ hold'[i].status = s /\ s # "none"
      /\ \A j \in HoldIds \ {i} : hold'[j] = hold[j]
  BY <1>2 DEF BaseInv, TypeOK, RowsOK, HoldRow
<1>5. RowsKept /\ Origins' /\ FromOnce'
  BY <1>1, <1>4 DEF BaseInv, RowsKept, Origins, FromOnce, Made, Placed
<1> QED
  BY <1>1, <1>3, <1>5, RestKeeps

LEMMA BaseDecide ==
    ASSUME BaseInv, NEW a \in ApptIds, Approve(a) \/ Decline(a)
    PROVE  BaseInv'
<1>1. /\ UNCHANGED <<scenario, hold, sold, strikes, blocked, active, pc, loc>> /\ Made(a)
      /\ strikes \in [Customers -> Nat] /\ blocked \in SUBSET Customers
      /\ \E s \in {"CONFIRMED", "CANCELLED"} : SetStatus(a, s)
  BY DEF Approve, Decline, OpenTo, Made, BaseInv, TypeOK, RowsOK
<1>2. RowsOK' /\ RowsKept /\ Origins' /\ FromOnce'
  BY <1>1, StatusSet DEF Occupying
<1> QED
  BY <1>1, <1>2, RestKeeps

LEMMA BaseToggle ==
    ASSUME BaseInv, NEW s \in Specialists, Toggle(s)
    PROVE  BaseInv'
<1>1. /\ active' \subseteq Specialists
      /\ UNCHANGED <<scenario, hold, appt, sold, strikes, blocked, pc, loc>>
  BY DEF Toggle, BaseInv, TypeOK, RowsOK
<1>2. RowsOK' /\ RowsKept /\ Origins' /\ FromOnce'
  BY <1>1 DEF BaseInv, TypeOK, RowsOK, RowsKept, Origins, FromOnce, Made, Placed
<1> QED
  BY <1>1, <1>2, RestKeeps

LEMMA BaseInit == Init => BaseInv
<1> SUFFICES ASSUME Init PROVE BaseInv
  OBVIOUS
<1>1. NoHold \in HoldRow /\ NoAppt \in ApptRow /\ NoWork \in Work
  BY DEF NoHold, NoAppt, NoWork, HoldRow, ApptRow, Work, Lane
<1>2. TypeOK
  BY <1>1 DEF Init, TypeOK, RowsOK, Steps
<1>3. \A r \in Requests : OwnWork(r)
  BY DEF Init, OwnWork, HoldStep, ConfStep, ApptStep, MoveStep, SaleStep
<1>4. \A a \in ApptIds : ~Made(a)
  BY DEF Init, Made, NoAppt
<1>5. Busy = {}
  BY DEF Init, Busy
<1>6. Locks /\ Alone
  BY <1>5, FS_EmptySet DEF Init, Locks, Alone, HoldStep
<1> QED
  BY <1>2, <1>3, <1>4, <1>6 DEF BaseInv, FromOnce, Origins

LEMMA BaseNext == BaseInv /\ [Next]_vars => BaseInv'
<1> SUFFICES ASSUME BaseInv, [Next]_vars PROVE BaseInv'
  OBVIOUS
<1>1. CASE UNCHANGED vars
  BY <1>1, RowsSame, RestKeeps DEF vars
<1>2. ASSUME NEW r \in Requests, Handle(r) PROVE BaseInv'
  BY <1>2, BaseHoldAppts, BaseHoldHolds, BaseHoldInsert, BaseConfirmRead, BaseConfirmCheck,
     BaseConfirmWrite, BaseAppts, BaseMoveCheck, BaseMoveWrite, BaseCancelWrite,
     BaseCheckoutSale, BaseCheckoutDone, BaseNoShow, BaseStrike, BaseStop DEF Handle
<1> QED
  BY <1>1, <1>2, BaseRelease, BaseDecide, BaseToggle DEF Next

\* The rows are well formed, handlers work on rows that exist, one advisory lock
\* has one holder, and a hold becomes at most one appointment.
THEOREM BaseHolds == Spec => []BaseInv
  BY BaseInit, BaseNext, PTL DEF Spec

(***************************************************************************)
(* Holds.  Where requests run one at a time, or every hold names its       *)
(* specialist, the slot a handler is about to write is free of live holds. *)
(***************************************************************************)
\* createHold locks by the target of the request: one that names a specialist and one
\* that does not exclude each other only if they follow one another.
Serial(sc) == sc.width <= 1 \/ ~sc.auto

HoldsApart ==
    \A i, j \in Live : i # j /\ hold[i].lane = hold[j].lane => ~Overlap(hold[i].at, hold[j].at)

InsertFree ==
    \A r \in Requests, i \in Live :
        pc[r] = "holdInsert" /\ hold[i].lane = loc[r].lane => ~Overlap(loc[r].at, hold[i].at)

HoldInv == BaseInv /\ (Serial(scenario) => HoldsApart /\ InsertFree)

LEMMA ScenarioFixed == [Next]_vars => scenario' = scenario
<1> SUFFICES ASSUME [Next]_vars PROVE scenario' = scenario
  OBVIOUS
<1>1. ASSUME NEW r \in Requests, Handle(r) PROVE scenario' = scenario
  BY <1>1 DEF Handle, Go, Finish, HoldAppts, HoldHolds, HoldInsert, ConfirmRead, ConfirmCheck,
     ConfirmWrite, RescheduleRead, ReassignRead, MoveCheck, MoveWrite, CancelRead, CancelWrite,
     CheckoutRead, CheckoutSale, CheckoutDone, NoShow, Strike, Stop
<1> QED
  BY <1>1 DEF Next, vars, Release, Lapse, Approve, Decline, Toggle

\* Live holds only go, and nobody comes to write one.
HoldsFewer == \A i \in HoldIds : hold'[i].status = "live" => hold'[i] = hold[i]
NoInsert   == \A r \in Requests :
                  pc'[r] = "holdInsert" => pc[r] = "holdInsert" /\ loc'[r] = loc[r]

LEMMA GoNoInsert ==
    ASSUME TypeOK, NEW r \in Requests, NEW step, NEW job, Go(r, step, job),
           step # "holdInsert"
    PROVE  NoInsert
  BY DEF TypeOK, Go, NoInsert

LEMMA HoldShape ==
    ASSUME BaseInv, [Next]_vars, ~\E r \in Requests : HoldHolds(r) \/ HoldInsert(r)
    PROVE  HoldsFewer /\ NoInsert
<1> TypeOK
  BY DEF BaseInv
<1>0. ASSUME UNCHANGED hold PROVE HoldsFewer
  BY <1>0 DEF HoldsFewer
<1>1. ASSUME UNCHANGED <<pc, loc>> PROVE NoInsert
  BY <1>1 DEF NoInsert
<1>2. ASSUME NEW r \in Requests, Handle(r) PROVE HoldsFewer
  <2>1. CASE ConfirmWrite(r)
    <3>1. hold' = [hold EXCEPT ![loc[r].hold].status = "used"]
      BY <2>1 DEF ConfirmWrite
    <3> QED
      BY <3>1 DEF HoldsFewer, BaseInv, TypeOK, RowsOK, HoldRow
  <2>2. CASE ~ConfirmWrite(r)
    <3>1. UNCHANGED hold
      BY <1>2, <2>2 DEF Handle, HoldAppts, ConfirmRead, ConfirmCheck,
         RescheduleRead, ReassignRead, MoveCheck, MoveWrite, CancelRead, CancelWrite,
         CheckoutRead, CheckoutSale, CheckoutDone, NoShow, Strike, Stop, rows
    <3> QED
      BY <1>0, <3>1
  <2> QED
    BY <2>1, <2>2
<1>3. ASSUME NEW r \in Requests, Handle(r) PROVE NoInsert
  <2>1. \/ \E w : Go(r, "holdHolds", w) \/ Go(r, "confirmCheck", w) \/ Go(r, "confirmWrite", w)
        \/ \E w : Go(r, "moveCheck", w) \/ Go(r, "moveWrite", w) \/ Go(r, "cancelWrite", w)
        \/ \E w : Go(r, "checkoutSale", w) \/ Go(r, "checkoutDone", w) \/ Go(r, "strike", w)
        \/ Go(r, "idle", NoWork)
    BY <1>3 DEF Handle, Finish, HoldAppts, ConfirmRead, ConfirmCheck,
       ConfirmWrite, RescheduleRead, ReassignRead, MoveCheck, MoveWrite, CancelRead, CancelWrite,
       CheckoutRead, CheckoutSale, CheckoutDone, NoShow, Strike, Stop
  <2> QED
    BY <2>1, GoNoInsert
<1>4. ASSUME NEW i \in HoldIds, Release(i) \/ Lapse(i) PROVE HoldsFewer
  <2>1. \E s \in {"freed", "expired"} : hold' = [hold EXCEPT ![i].status = s]
    BY <1>4 DEF Release, Lapse
  <2> QED
    BY <2>1 DEF HoldsFewer, BaseInv, TypeOK, RowsOK, HoldRow
<1> QED
  BY <1>0, <1>1, <1>2, <1>3, <1>4 DEF Next, vars, rows, Release, Lapse, Approve, Decline, Toggle

LEMMA FewerKeeps ==
    ASSUME BaseInv, HoldsApart, InsertFree, HoldsFewer, NoInsert
    PROVE  HoldsApart' /\ InsertFree'
<1>1. \A i \in Live' : i \in Live /\ hold'[i] = hold[i]
  BY DEF Live, HoldsFewer
<1>2. HoldsApart'
  BY <1>1 DEF HoldsApart, Overlap
<1>3. InsertFree'
  BY <1>1 DEF InsertFree, NoInsert, Overlap
<1> QED
  BY <1>2, <1>3

\* Two handlers about to write have different lanes.
LEMMA InsertApart ==
    ASSUME BaseInv, Serial(scenario), NEW q \in Requests, NEW r \in Requests, q # r,
           pc[q] = "holdInsert", pc[r] = "holdInsert"
    PROVE  loc[q].lane # loc[r].lane
<1>1. CASE scenario.width <= 1
  BY <1>1 DEF BaseInv, Alone
<1>2. CASE ~scenario.auto
  <2>1. loc[q].target # Anyone /\ loc[r].target # Anyone /\ loc[q].target # loc[r].target
    BY <1>2 DEF BaseInv, OwnWork, Locks, HoldStep
  <2>2. /\ loc[q].lane \in loc[q].lanes /\ loc[q].lanes \subseteq {loc[q].target}
        /\ loc[r].lane \in loc[r].lanes /\ loc[r].lanes \subseteq {loc[r].target}
    BY <2>1 DEF BaseInv, OwnWork, HoldStep
  <2> QED
    BY <2>1, <2>2
<1> QED
  BY <1>1, <1>2 DEF Serial

LEMMA HoldHoldsKeeps ==
    ASSUME BaseInv, HoldsApart, InsertFree, NEW r \in Requests, HoldHolds(r)
    PROVE  HoldsApart' /\ InsertFree'
<1> DEFINE free == Unheld(loc[r].lanes, loc[r].at)
           l == First(free)
           w == [loc[r] EXCEPT !.lane = l]
<1>0. loc[r] \in Work
  BY DEF BaseInv, TypeOK
<1>1. free \in SUBSET Lane /\ free # {}
  BY <1>0 DEF Unheld, Work, HoldHolds
<1>2. l \in free
  BY <1>1, FirstIn
<1>3. ~HoldConflict(l, loc[r].at) /\ l \in Lane
  BY <1>1, <1>2 DEF Unheld
<1>4. Go(r, "holdInsert", w) /\ UNCHANGED hold
  BY DEF HoldHolds, rows
<1> HIDE DEF l, free
<1>5. w \in Work /\ w.at = loc[r].at /\ w.lane = l
  BY <1>0, <1>3 DEF Work
<1> HIDE DEF w
<1>6. loc'[r] = w /\ \A q \in Requests \ {r} : pc'[q] = pc[q] /\ loc'[q] = loc[q]
  BY <1>4, <1>5, GoFacts DEF BaseInv, Steps, HoldStep
<1>7. Live' = Live /\ HoldsApart'
  BY <1>4 DEF Live, HoldsApart, Overlap
<1>8. InsertFree'
  <2> SUFFICES ASSUME NEW q \in Requests, NEW i \in Live,
                      pc'[q] = "holdInsert", hold[i].lane = loc'[q].lane
               PROVE  ~Overlap(loc'[q].at, hold[i].at)
    BY <1>4, <1>7 DEF InsertFree, Overlap
  <2>1. CASE q = r
    BY <1>3, <1>5, <1>6, <2>1 DEF HoldConflict
  <2>2. CASE q # r
    BY <1>6, <2>2 DEF InsertFree
  <2> QED
    BY <2>1, <2>2
<1> QED
  BY <1>7, <1>8

LEMMA HoldInsertKeeps ==
    ASSUME BaseInv, Serial(scenario), HoldsApart, InsertFree, NEW r \in Requests, HoldInsert(r)
    PROVE  HoldsApart' /\ InsertFree'
<1> DEFINE n == [status |-> "live", lane |-> loc[r].lane, at |-> loc[r].at]
<1>1. PICK i \in HoldIds : hold[i].status = "none" /\ hold' = [hold EXCEPT ![i] = n]
  BY DEF HoldInsert
<1>2. n.lane = loc[r].lane /\ n.at = loc[r].at
  OBVIOUS
<1> HIDE DEF n
<1>3. /\ hold'[i] = n /\ i \notin Live
      /\ \A j \in HoldIds \ {i} : hold'[j] = hold[j]
      /\ \A j \in Live' \ {i} : j \in Live
  BY <1>1 DEF Live, BaseInv, TypeOK, RowsOK
<1>4. pc[r] = "holdInsert" /\ Go(r, "idle", NoWork) /\ loc[r] \in Work
  BY DEF HoldInsert, Finish, BaseInv, TypeOK
<1>5. /\ pc'[r] = "idle"
      /\ \A q \in Requests \ {r} : pc'[q] = pc[q] /\ loc'[q] = loc[q]
  BY <1>4 DEF Go, BaseInv, TypeOK
<1>6. \A j \in Live : hold[j].lane = n.lane => ~Overlap(n.at, hold[j].at) /\ ~Overlap(hold[j].at, n.at)
  BY <1>2, <1>4 DEF InsertFree, Overlap
<1>7. HoldsApart'
  <2> SUFFICES ASSUME NEW j \in Live', NEW k \in Live', j # k, hold'[j].lane = hold'[k].lane
               PROVE  ~Overlap(hold'[j].at, hold'[k].at)
    BY DEF HoldsApart, Overlap
  <2>0. j \in HoldIds /\ k \in HoldIds
    BY DEF Live
  <2>1. CASE j = i
    BY <1>3, <1>6, <2>0, <2>1
  <2>2. CASE k = i
    BY <1>3, <1>6, <2>0, <2>2
  <2>3. CASE j # i /\ k # i
    BY <1>3, <2>0, <2>3 DEF HoldsApart
  <2> QED
    BY <2>1, <2>2, <2>3
<1>8. InsertFree'
  <2> SUFFICES ASSUME NEW q \in Requests, NEW j \in Live',
                      pc'[q] = "holdInsert", hold'[j].lane = loc'[q].lane
               PROVE  ~Overlap(loc'[q].at, hold'[j].at)
    BY DEF InsertFree, Overlap
  <2>1. q # r /\ pc[q] = "holdInsert" /\ loc'[q] = loc[q]
    BY <1>5
  <2>2. j # i
    BY <1>2, <1>3, <1>4, <2>1, InsertApart
  <2>3. j \in Live /\ hold'[j] = hold[j]
    BY <1>3, <2>2 DEF Live
  <2> QED
    BY <2>1, <2>3 DEF InsertFree
<1> QED
  BY <1>7, <1>8

LEMMA HoldNext == HoldInv /\ [Next]_vars => HoldInv'
<1> SUFFICES ASSUME HoldInv, [Next]_vars, Serial(scenario) PROVE HoldsApart' /\ InsertFree'
  BY BaseNext, ScenarioFixed DEF HoldInv, Serial
<1>0. BaseInv /\ HoldsApart /\ InsertFree
  BY DEF HoldInv
<1>1. CASE \E r \in Requests : HoldHolds(r)
  BY <1>0, <1>1, HoldHoldsKeeps
<1>2. CASE \E r \in Requests : HoldInsert(r)
  BY <1>0, <1>2, HoldInsertKeeps
<1>3. CASE ~\E r \in Requests : HoldHolds(r) \/ HoldInsert(r)
  BY <1>0, <1>3, HoldShape, FewerKeeps
<1> QED
  BY <1>1, <1>2, <1>3

LEMMA HoldInit == Init => HoldInv
<1> SUFFICES ASSUME Init PROVE HoldInv
  OBVIOUS
<1>1. Live = {} /\ \A r \in Requests : pc[r] = "idle"
  BY DEF Init, Live, NoHold
<1> QED
  BY <1>1, BaseInit DEF HoldInv, HoldsApart, InsertFree

\* createHold: one request at a time, or each under the lock of its specialist.
THEOREM HoldsNeverOverlap == Spec => [](Serial(scenario) => OneAppointmentPerHold)
<1>1. HoldInv => (Serial(scenario) => OneAppointmentPerHold)
  BY DEF HoldInv, BaseInv, HoldsApart, FromOnce, Made, OneAppointmentPerHold
<1> QED
  BY <1>1, HoldInit, HoldNext, PTL DEF Spec

\* However often and however concurrently its holder confirms it.
THEOREM HeldOnceBookedOnce == Spec => []FromOnce
  BY BaseHolds, PTL DEF BaseInv

(***************************************************************************)
(* Appointments.  Requests one at a time that leave settled appointments   *)
(* alone, or any number that hold, release, confirm and check out slots    *)
(* of a named specialist.                                                  *)
(***************************************************************************)
\* Requests follow one another and nobody brings a settled appointment back; or they
\* interleave, and what each holds, confirms or charges is of a named specialist.
Orderly(sc) == sc.width <= 1 /\ ~sc.late
ByName(sc)  == /\ sc.kinds \subseteq {"hold", "release", "confirm", "checkout"}
               /\ ~sc.auto /\ ~sc.lapse
Careful(sc) == Orderly(sc) \/ ByName(sc)

ConfirmFree ==
    \A r \in Requests : pc[r] = "confirmWrite" /\ Exists(loc[r].hold)
                        => ~ApptConflict(loc[r].lane, loc[r].at, 0)

Moving(r) ==
    /\ pc[r] = "moveWrite" => ~ApptConflict(loc[r].lane, loc[r].at, loc[r].appt)
    /\ pc[r] \in MoveStep => IF loc[r].moves > 0 THEN loc[r].lane = appt[loc[r].appt].lane
                                                 ELSE loc[r].at = appt[loc[r].appt].at

Selling(r) == pc[r] \in SaleStep => appt[loc[r].appt].status # "CANCELLED"

\* Where a hold names its specialist it is what its confirmation writes.
Named ==
    /\ active = Specialists
    /\ \A i \in HoldIds : Placed(i) => /\ hold[i].status # "expired"
                                       /\ hold[i].lane = Generic => Specialists = {}
    /\ \A a \in ApptIds : appt[a].status \in {"none", "PENDING", "COMPLETED"}
    /\ \A r \in Requests :
         /\ pc[r] \in {"idle"} \cup HoldStep \cup ConfStep \cup SaleStep
         /\ pc[r] \in HoldStep /\ loc[r].target = Generic => Specialists = {}
         /\ pc[r] = "confirmWrite" => /\ loc[r].lane = hold[loc[r].hold].lane
                                      /\ loc[r].at = hold[loc[r].hold].at

BookInv ==
    /\ HoldInv
    /\ Careful(scenario) => /\ NoDoubleBooking /\ ConfirmFree
                            /\ \A r \in Requests : Selling(r)
    /\ Orderly(scenario) => \A r \in Requests : Moving(r)
    /\ ByName(scenario)  => Named
LEMMA Arrives ==
    ASSUME TypeOK, NEW r \in Requests, Handle(r)
    PROVE  /\ pc'[r] = "holdHolds" =>
                 \E target \in Specialists \cup {Generic, Anyone}, t \in scenario.times :
                     HoldAppts(r, target, t)
           /\ pc'[r] = "holdInsert" => HoldHolds(r)
           /\ pc'[r] = "confirmWrite" => ConfirmCheck(r)
           /\ pc'[r] = "moveCheck" => \/ \E a \in ApptIds, t \in scenario.times : RescheduleRead(r, a, t)
                                      \/ \E a \in ApptIds, s \in Specialists : ReassignRead(r, a, s)
           /\ pc'[r] = "moveWrite" => MoveCheck(r)
           /\ pc'[r] = "checkoutSale" => \E a \in ApptIds : CheckoutRead(r, a)
           /\ pc'[r] = "checkoutDone" => CheckoutSale(r)
           /\ \A q \in Requests \ {r} : pc'[q] = pc[q] /\ loc'[q] = loc[q]
<1> DEFINE To(step) == /\ pc'[r] = step
                       /\ \A q \in Requests \ {r} : pc'[q] = pc[q] /\ loc'[q] = loc[q]
<1>0. ASSUME NEW step, NEW w, Go(r, step, w) PROVE To(step)
  BY <1>0 DEF TypeOK, Go
<1> HIDE DEF To
<1>1. (\E target \in Specialists \cup {Generic, Anyone}, t \in scenario.times : HoldAppts(r, target, t))
         => To("holdHolds")
  BY <1>0 DEF HoldAppts
<1>2. HoldHolds(r) => To("holdInsert")
  BY <1>0 DEF HoldHolds
<1>3. (\E i \in HoldIds, c \in Customers : ConfirmRead(r, i, c)) => To("confirmCheck")
  BY <1>0 DEF ConfirmRead
<1>4. ConfirmCheck(r) => To("confirmWrite")
  BY <1>0 DEF ConfirmCheck
<1>5. /\ (\E a \in ApptIds, t \in scenario.times : RescheduleRead(r, a, t)) => To("moveCheck")
      /\ (\E a \in ApptIds, s \in Specialists : ReassignRead(r, a, s)) => To("moveCheck")
  BY <1>0 DEF RescheduleRead, ReassignRead
<1>6. MoveCheck(r) => To("moveWrite")
  BY <1>0 DEF MoveCheck
<1>7. (\E a \in ApptIds : CancelRead(r, a)) => To("cancelWrite")
  BY <1>0 DEF CancelRead
<1>8. (\E a \in ApptIds : CheckoutRead(r, a)) => To("checkoutSale")
  BY <1>0 DEF CheckoutRead
<1>9. CheckoutSale(r) => To("checkoutDone")
  BY <1>0 DEF CheckoutSale
<1>10. (\E a \in ApptIds : NoShow(r, a)) => To("strike")
  BY <1>0 DEF NoShow
<1>11. HoldInsert(r) \/ ConfirmWrite(r) \/ MoveWrite(r) \/ CancelWrite(r) \/ CheckoutDone(r)
          \/ Strike(r) \/ Stop(r) => To("idle")
  BY <1>0 DEF HoldInsert, ConfirmWrite, MoveWrite, CancelWrite, CheckoutDone, Strike, Stop, Finish
<1> USE DEF To
<1>12. CASE To("idle") \/ To("strike") \/ To("cancelWrite") \/ To("confirmCheck")
  BY <1>12
<1>13. CASE (\E target \in Specialists \cup {Generic, Anyone}, t \in scenario.times : HoldAppts(r, target, t))
            \/ HoldHolds(r) \/ ConfirmCheck(r)
  BY <1>1, <1>2, <1>4, <1>13
<1>14. CASE (\E a \in ApptIds, t \in scenario.times : RescheduleRead(r, a, t))
            \/ (\E a \in ApptIds, s \in Specialists : ReassignRead(r, a, s)) \/ MoveCheck(r)
  BY <1>5, <1>6, <1>14
<1>15. CASE (\E a \in ApptIds : CheckoutRead(r, a)) \/ CheckoutSale(r)
  BY <1>8, <1>9, <1>15
<1> HIDE DEF To
<1> QED
  BY <1>3, <1>7, <1>10, <1>11, <1>12, <1>13, <1>14, <1>15 DEF Handle

\* Where requests run one at a time, whoever is at work acts alone.
LEMMA AloneStep ==
    ASSUME BaseInv, scenario.width <= 1, [Next]_vars, NEW r \in Requests, pc'[r] # "idle"
    PROVE  Handle(r) \/ UNCHANGED <<appt, pc, loc>>
<1>0. TypeOK
  BY DEF BaseInv
<1>1. CASE pc[r] = "idle"
  <2>1. ASSUME NEW q \in Requests, Handle(q) PROVE q = r
    BY <1>0, <1>1, <2>1, Arrives
  <2> QED
    BY <1>1, <2>1 DEF Next, vars, Release, Lapse, Approve, Decline, Toggle
<1>2. CASE pc[r] # "idle"
  <2>1. \A kind : ~MayStart(kind)
    BY <1>2, StartSole
  <2>2. ASSUME NEW q \in Requests, Handle(q) PROVE q = r
    <3>1. pc[q] # "idle"
      BY <2>1, <2>2 DEF Handle, Start, HoldAppts, HoldHolds, HoldInsert, ConfirmRead, ConfirmCheck,
         ConfirmWrite, RescheduleRead, ReassignRead, MoveCheck, MoveWrite, CancelRead, CancelWrite,
         CheckoutRead, CheckoutSale, CheckoutDone, NoShow, Strike, Stop
    <3> QED
      BY <1>2, <3>1 DEF BaseInv, Alone
  <2> QED
    BY <2>1, <2>2 DEF Next, vars, rows, Release, Lapse, Approve, Decline, Toggle
<1> QED
  BY <1>1, <1>2

LEMMA SellingKept ==
    ASSUME BookInv, Orderly(scenario), [Next]_vars, NEW r \in Requests
    PROVE  Selling(r)'
<1>1. TypeOK /\ BaseInv /\ scenario.width <= 1 /\ Selling(r)
  BY DEF BookInv, HoldInv, BaseInv, Orderly, Careful
<1>2. SUFFICES ASSUME pc'[r] \in SaleStep PROVE appt'[loc'[r].appt].status # "CANCELLED"
  BY DEF Selling
<1>3. Handle(r) \/ UNCHANGED <<appt, pc, loc>>
  BY <1>1, <1>2, AloneStep DEF SaleStep
<1>4. CASE UNCHANGED <<appt, pc, loc>>
  BY <1>1, <1>2, <1>4 DEF Selling
<1>5. CASE \E a \in ApptIds : CheckoutRead(r, a)
  <2> PICK a \in ApptIds : CheckoutRead(r, a)
    BY <1>5
  <2> DEFINE w == [NoWork EXCEPT !.appt = a]
  <2>1. w.appt = a
    BY DEF NoWork
  <2> HIDE DEF w
  <2>2. UNCHANGED appt /\ loc' = [loc EXCEPT ![r] = w] /\ appt[a].status # "CANCELLED"
    BY DEF CheckoutRead, Go, rows, OpenTo, Settled, w
  <2> QED
    BY <1>1, <2>1, <2>2 DEF TypeOK
<1>6. CASE CheckoutSale(r)
  BY <1>1, <1>6 DEF CheckoutSale, Selling, SaleStep, Go, TypeOK
<1> QED
  BY <1>1, <1>2, <1>3, <1>4, <1>5, <1>6, Arrives DEF SaleStep

LEMMA MovingKept ==
    ASSUME BookInv, Orderly(scenario), [Next]_vars, NEW r \in Requests
    PROVE  Moving(r)'
<1>1. TypeOK /\ BaseInv /\ scenario.width <= 1 /\ Moving(r)
  BY DEF BookInv, HoldInv, BaseInv, Orderly
<1>2. CASE pc'[r] \notin MoveStep
  BY <1>2 DEF Moving, MoveStep
<1>3. CASE pc'[r] \in MoveStep /\ UNCHANGED <<appt, pc, loc>>
  BY <1>1, <1>3 DEF Moving, ApptConflict, Overlap
<1>4. CASE \E a \in ApptIds, t \in scenario.times : RescheduleRead(r, a, t)
  <2> PICK a \in ApptIds, t \in scenario.times : RescheduleRead(r, a, t)
    BY <1>4
  <2> DEFINE w == [NoWork EXCEPT !.target = appt[a].lane, !.lane = appt[a].lane,
                                 !.appt = a, !.at = t, !.moves = appt[a].moves + 1]
  <2>1. w.appt = a /\ w.lane = appt[a].lane /\ w.moves = appt[a].moves + 1
    BY DEF NoWork
  <2>2. appt[a].moves \in Nat
    BY <1>1 DEF TypeOK, RowsOK, ApptRow
  <2> HIDE DEF w
  <2>3. UNCHANGED appt /\ pc' = [pc EXCEPT ![r] = "moveCheck"] /\ loc' = [loc EXCEPT ![r] = w]
    BY DEF RescheduleRead, Go, rows, w
  <2>4. pc'[r] = "moveCheck" /\ loc'[r] = w
    BY <1>1, <2>3 DEF TypeOK
  <2>5. w.moves > 0
    BY <2>1, <2>2
  <2> QED
    BY <2>1, <2>3, <2>4, <2>5 DEF Moving
<1>5. CASE \E a \in ApptIds, s \in Specialists : ReassignRead(r, a, s)
  <2> PICK a \in ApptIds, s \in Specialists : ReassignRead(r, a, s)
    BY <1>5
  <2> DEFINE w == [NoWork EXCEPT !.target = appt[a].lane, !.lane = s,
                                 !.appt = a, !.at = appt[a].at]
  <2>1. w.appt = a /\ w.at = appt[a].at /\ w.moves = 0
    BY DEF NoWork
  <2> HIDE DEF w
  <2>3. UNCHANGED appt /\ pc' = [pc EXCEPT ![r] = "moveCheck"] /\ loc' = [loc EXCEPT ![r] = w]
    BY DEF ReassignRead, Go, rows, w
  <2>4. pc'[r] = "moveCheck" /\ loc'[r] = w
    BY <1>1, <2>3 DEF TypeOK
  <2> QED
    BY <2>1, <2>3, <2>4 DEF Moving
<1>6. CASE MoveCheck(r)
  <2>1. /\ UNCHANGED appt /\ pc'[r] = "moveWrite" /\ loc'[r] = loc[r] /\ pc[r] = "moveCheck"
        /\ ~ApptConflict(loc[r].lane, loc[r].at, loc[r].appt)
    BY <1>1, <1>6 DEF MoveCheck, MoveFree, Go, rows, TypeOK
  <2>2. ~ApptConflict(loc[r].lane, loc[r].at, loc[r].appt)'
    BY <2>1 DEF ApptConflict, Overlap
  <2> QED
    BY <1>1, <2>1, <2>2 DEF Moving, MoveStep
<1>7. pc'[r] \in MoveStep => Handle(r) \/ UNCHANGED <<appt, pc, loc>>
  BY <1>1, AloneStep DEF MoveStep
<1> QED
  BY <1>1, <1>2, <1>3, <1>4, <1>5, <1>6, <1>7, Arrives DEF MoveStep

\* Appointments that occupy a lane only go.
ApptsFewer ==
    \A a \in ApptIds : appt'[a].status \in Occupying =>
        /\ appt[a].status \in Occupying
        /\ appt'[a].lane = appt[a].lane /\ appt'[a].at = appt[a].at

LEMMA FewerStatus ==
    ASSUME TypeOK, NEW a \in ApptIds, NEW s, SetStatus(a, s),
           appt[a].status \in Occupying \/ s \notin Occupying
    PROVE  ApptsFewer
<1>1. appt[a] \in ApptRow
  BY DEF TypeOK, RowsOK
<1> DEFINE n == [appt[a] EXCEPT !.status = s]
<1>2. n.status = s /\ n.lane = appt[a].lane /\ n.at = appt[a].at
  BY <1>1 DEF ApptRow
<1>3. appt' = [appt EXCEPT ![a] = n]
  BY DEF SetStatus
<1> HIDE DEF n
<1> QED
  BY <1>2, <1>3 DEF TypeOK, RowsOK, ApptsFewer

LEMMA FewerAppts ==
    ASSUME BookInv, Careful(scenario), [Next]_vars,
           ~\E r \in Requests : ConfirmWrite(r) \/ MoveWrite(r)
    PROVE  ApptsFewer
<1>1. TypeOK /\ BaseInv
  BY DEF BookInv, HoldInv, BaseInv
<1>2. ASSUME UNCHANGED appt PROVE ApptsFewer
  BY <1>2 DEF ApptsFewer
<1>4. "CANCELLED" \notin Occupying
  BY DEF Occupying
<1>6. ASSUME NEW r \in Requests, CancelWrite(r) PROVE ApptsFewer
  <2>1. loc[r].appt \in ApptIds /\ SetStatus(loc[r].appt, "CANCELLED")
    BY <1>1, <1>6 DEF BaseInv, OwnWork, ApptStep, CancelWrite
  <2> QED
    BY <1>1, <1>4, <2>1, FewerStatus
<1>7. ASSUME NEW r \in Requests, CheckoutDone(r) PROVE ApptsFewer
  <2>1. /\ loc[r].appt \in ApptIds /\ Made(loc[r].appt) /\ SetStatus(loc[r].appt, "COMPLETED")
        /\ appt[loc[r].appt].status # "CANCELLED"
    BY <1>1, <1>7 DEF BookInv, BaseInv, OwnWork, ApptStep, SaleStep, CheckoutDone, Selling
  <2>2. appt[loc[r].appt].status \in Occupying
    BY <1>1, <2>1 DEF Made, TypeOK, RowsOK, ApptRow
  <2> QED
    BY <1>1, <2>1, <2>2, FewerStatus
<1>8. ASSUME NEW a \in ApptIds, NEW s, SetStatus(a, s), NEW kind \in {"decide", "noShow"},
             MayStart(kind), OpenTo(a, scenario.late)
      PROVE  ApptsFewer
  <2>1. ~ByName(scenario)
    BY <1>8 DEF ByName, MayStart
  <2>2. ~scenario.late
    BY <2>1 DEF Careful, Orderly
  <2>3. appt[a].status \in Occupying
    BY <1>1, <1>8, <2>2 DEF OpenTo, TypeOK, RowsOK, ApptRow, Settled
  <2> QED
    BY <1>1, <1>8, <2>3, FewerStatus
<1>9. ASSUME NEW r \in Requests, Handle(r) PROVE ApptsFewer
  <2>1. CASE \E a \in ApptIds : NoShow(r, a)
    BY <1>8, <2>1 DEF NoShow, Start
  <2>2. CASE ~(\E a \in ApptIds : NoShow(r, a)) /\ ~CancelWrite(r) /\ ~CheckoutDone(r)
    <3>1. UNCHANGED appt
      BY <1>9, <2>2 DEF Handle, HoldAppts, HoldHolds, HoldInsert, ConfirmRead, ConfirmCheck,
         RescheduleRead, ReassignRead, MoveCheck, CancelRead,
         CheckoutRead, CheckoutSale, Strike, Stop, rows
    <3> QED
      BY <1>2, <3>1
  <2> QED
    BY <1>6, <1>7, <2>1, <2>2
<1>10. ASSUME NEW a \in ApptIds, Approve(a) \/ Decline(a) PROVE ApptsFewer
  BY <1>8, <1>10 DEF Approve, Decline
<1> QED
  BY <1>2, <1>9, <1>10 DEF Next, vars, rows, Release, Lapse, Toggle

\* A hold that is gone does not come back.
LEMMA ExistsBefore ==
    ASSUME BaseInv, [Next]_vars, NEW i \in HoldIds, Placed(i), Exists(i)'
    PROVE  Exists(i)
<1>1. CASE \E r \in Requests : HoldInsert(r)
  <2> PICK r \in Requests : HoldInsert(r)
    BY <1>1
  <2>1. PICK j \in HoldIds :
           /\ hold[j].status = "none"
           /\ hold' = [hold EXCEPT ![j] =
                          [status |-> "live", lane |-> loc[r].lane, at |-> loc[r].at]]
    BY DEF HoldInsert
  <2>2. hold'[i] = hold[i]
    BY <2>1 DEF Placed, BaseInv, TypeOK, RowsOK
  <2> QED
    BY <2>2 DEF Exists
<1>2. CASE \E r \in Requests : ConfirmWrite(r)
  <2> PICK r \in Requests : ConfirmWrite(r)
    BY <1>2
  <2>1. hold' = [hold EXCEPT ![loc[r].hold].status = "used"]
    BY DEF ConfirmWrite
  <2> QED
    BY <2>1 DEF Exists, BaseInv, TypeOK, RowsOK, HoldRow
<1>3. CASE \E r \in Requests : Handle(r) /\ ~HoldInsert(r) /\ ~ConfirmWrite(r)
  <2> PICK r \in Requests : Handle(r) /\ ~HoldInsert(r) /\ ~ConfirmWrite(r)
    BY <1>3
  <2>1. /\ \A target, t : HoldAppts(r, target, t) => UNCHANGED rows
        /\ HoldHolds(r) => UNCHANGED rows
        /\ \A j, c : ConfirmRead(r, j, c) => UNCHANGED rows
        /\ ConfirmCheck(r) => UNCHANGED rows
    BY DEF HoldAppts, HoldHolds, ConfirmRead, ConfirmCheck
  <2>2. /\ \A a, t : RescheduleRead(r, a, t) => UNCHANGED rows
        /\ \A a, s : ReassignRead(r, a, s) => UNCHANGED rows
        /\ \A a : CancelRead(r, a) \/ CheckoutRead(r, a) => UNCHANGED rows
        /\ MoveCheck(r) \/ Stop(r) => UNCHANGED rows
    BY DEF RescheduleRead, ReassignRead, CancelRead, CheckoutRead, MoveCheck, Stop
  <2>3. /\ MoveWrite(r) \/ CancelWrite(r) \/ CheckoutSale(r) \/ CheckoutDone(r) => UNCHANGED hold
        /\ \A a : NoShow(r, a) => UNCHANGED hold
        /\ Strike(r) => UNCHANGED hold
    BY DEF MoveWrite, CancelWrite, CheckoutSale, CheckoutDone, NoShow, Strike
  <2>4. UNCHANGED hold
    BY <2>1, <2>2, <2>3 DEF Handle, rows
  <2> QED
    BY <2>4 DEF Exists
<1>4. CASE \E j \in HoldIds : Release(j) \/ Lapse(j)
  <2> PICK j \in HoldIds : Release(j) \/ Lapse(j)
    BY <1>4
  <2>1. /\ hold[j].status \in {"live", "expired"}
        /\ \E s \in {"freed", "expired"} : hold' = [hold EXCEPT ![j].status = s]
    BY DEF Release, Lapse
  <2> QED
    BY <2>1 DEF Exists, BaseInv, TypeOK, RowsOK, HoldRow
<1>5. CASE UNCHANGED hold
  BY <1>5 DEF Exists
<1> QED
  BY <1>1, <1>2, <1>3, <1>4, <1>5 DEF Next, vars, rows, Approve, Decline, Toggle

LEMMA FewerConflicts ==
    ASSUME ApptsFewer, NEW lane, NEW t, NEW but, ~ApptConflict(lane, t, but)
    PROVE  ~ApptConflict(lane, t, but)'
  BY DEF ApptsFewer, ApptConflict, Overlap

LEMMA FewerBookings == ASSUME ApptsFewer, NoDoubleBooking PROVE NoDoubleBooking'
  BY DEF ApptsFewer, NoDoubleBooking, Overlap

\* What confirms writes a slot that is free, and no other confirmation takes the
\* slot of a handler that will: it is alone, or the live holds keep them apart.
LEMMA ConfirmAdds ==
    ASSUME TypeOK, NEW q \in Requests, ConfirmWrite(q)
    PROVE  \E a \in ApptIds :
              /\ ~Made(a) /\ appt'[a].lane = loc[q].lane /\ appt'[a].at = loc[q].at
              /\ \A b \in ApptIds \ {a} : appt'[b] = appt[b]
<1> DEFINE n == [NoAppt EXCEPT !.status = "PENDING", !.lane = loc[q].lane,
                               !.at = loc[q].at, !.who = loc[q].who,
                               !.from = loc[q].hold]
<1>1. n.lane = loc[q].lane /\ n.at = loc[q].at
  BY DEF NoAppt
<1>2. PICK a \in ApptIds : ~Made(a) /\ appt' = [appt EXCEPT ![a] = n]
  BY DEF ConfirmWrite, Made
<1> HIDE DEF n
<1>3. appt'[a] = n /\ \A b \in ApptIds \ {a} : appt'[b] = appt[b]
  BY <1>2 DEF TypeOK, RowsOK
<1> QED
  BY <1>1, <1>2, <1>3

LEMMA ConfirmBooks ==
    ASSUME BookInv, Careful(scenario), NEW q \in Requests, ConfirmWrite(q)
    PROVE  NoDoubleBooking'
<1>1. TypeOK /\ NoDoubleBooking /\ ~ApptConflict(loc[q].lane, loc[q].at, 0)
  BY DEF BookInv, HoldInv, BaseInv, ConfirmFree, ConfirmWrite
<1>2. PICK a \in ApptIds :
         /\ ~Made(a) /\ appt'[a].lane = loc[q].lane /\ appt'[a].at = loc[q].at
         /\ \A b \in ApptIds \ {a} : appt'[b] = appt[b]
  BY <1>1, ConfirmAdds
<1>3. \A b \in ApptIds \ {a} : appt'[b].status \in Occupying /\ appt'[b].lane = appt'[a].lane
                                  => /\ ~Overlap(appt'[a].at, appt'[b].at)
                                     /\ ~Overlap(appt'[b].at, appt'[a].at)
  BY <1>1, <1>2, Given DEF ApptConflict, Overlap
<1> SUFFICES ASSUME NEW b \in ApptIds, NEW c \in ApptIds, b # c, appt'[b].lane = appt'[c].lane,
                    appt'[b].status \in Occupying, appt'[c].status \in Occupying
             PROVE  ~Overlap(appt'[b].at, appt'[c].at)
  BY DEF NoDoubleBooking, Overlap
<1>4. CASE b = a \/ c = a
  BY <1>3, <1>4
<1>5. CASE b # a /\ c # a
  BY <1>1, <1>2, <1>5 DEF NoDoubleBooking
<1> QED
  BY <1>4, <1>5

LEMMA MoveBooks ==
    ASSUME BookInv, Careful(scenario), NEW q \in Requests, MoveWrite(q)
    PROVE  NoDoubleBooking'
<1>1. TypeOK /\ NoDoubleBooking /\ OwnWork(q) /\ pc[q] = "moveWrite"
  BY DEF BookInv, HoldInv, BaseInv, MoveWrite
<1>2. Moving(q)
  BY <1>1 DEF BookInv, Careful, Named, HoldStep, ConfStep, SaleStep
<1> DEFINE a == loc[q].appt
           w == loc[q]
           m == [appt[a] EXCEPT !.at = w.at, !.moves = w.moves, !.status = "PENDING"]
           s == [appt[a] EXCEPT !.lane = w.lane]
           n == IF w.moves > 0 THEN m ELSE s
<1>3. a \in ApptIds /\ appt[a] \in ApptRow
  BY <1>1 DEF OwnWork, ApptStep, MoveStep, TypeOK, RowsOK
<1>4. m.lane = appt[a].lane /\ m.at = w.at /\ s.lane = w.lane /\ s.at = appt[a].at
  BY <1>3 DEF ApptRow
<1>5. n.lane = w.lane /\ n.at = w.at
  BY <1>1, <1>2, <1>4 DEF Moving, MoveStep
<1>6. appt' = [appt EXCEPT ![a] = n]
  BY DEF MoveWrite
<1>7. ~ApptConflict(w.lane, w.at, a)
  BY <1>1, <1>2 DEF Moving
<1> HIDE DEF n, m, s, w, a
<1>8. appt'[a] = n /\ \A b \in ApptIds \ {a} : appt'[b] = appt[b]
  BY <1>1, <1>3, <1>6 DEF TypeOK, RowsOK
<1>9. \A b \in ApptIds \ {a} : appt'[b].status \in Occupying /\ appt'[b].lane = appt'[a].lane
                                  => /\ ~Overlap(appt'[a].at, appt'[b].at)
                                     /\ ~Overlap(appt'[b].at, appt'[a].at)
  BY <1>5, <1>7, <1>8 DEF ApptConflict, Overlap
<1> SUFFICES ASSUME NEW b \in ApptIds, NEW c \in ApptIds, b # c, appt'[b].lane = appt'[c].lane,
                    appt'[b].status \in Occupying, appt'[c].status \in Occupying
             PROVE  ~Overlap(appt'[b].at, appt'[c].at)
  BY DEF NoDoubleBooking, Overlap
<1>10. CASE b = a \/ c = a
  BY <1>9, <1>10
<1>11. CASE b # a /\ c # a
  BY <1>1, <1>8, <1>11 DEF NoDoubleBooking
<1> QED
  BY <1>10, <1>11

LEMMA ConfirmFreeKept ==
    ASSUME BookInv, Careful(scenario), [Next]_vars
    PROVE  ConfirmFree'
<1>0. TypeOK /\ BaseInv /\ ConfirmFree
  BY DEF BookInv, HoldInv, BaseInv
<1> SUFFICES ASSUME NEW r \in Requests, pc'[r] = "confirmWrite", Exists(loc[r].hold)'
             PROVE  ~ApptConflict(loc[r].lane, loc[r].at, 0)'
  BY DEF ConfirmFree
<1>1. CASE ConfirmCheck(r)
  <2> DEFINE t == hold[loc[r].hold].at
             free == {l \in Resolved(r) : ~ApptConflict(l, t, 0)}
             l == First(free)
             w == [loc[r] EXCEPT !.lane = l, !.at = t]
  <2>1. loc[r] \in Work /\ loc[r].hold \in HoldIds /\ loc[r].lanes \subseteq Specialists
    BY <1>0, <1>1 DEF TypeOK, BaseInv, OwnWork, ConfirmCheck, ConfStep
  <2>2. free \in SUBSET Lane /\ free # {} /\ t \in Nat
    BY <1>0, <1>1, <2>1 DEF ConfirmCheck, Resolved, Lane, TypeOK, RowsOK, HoldRow
  <2>3. l \in free /\ l \in Lane
    BY <2>2, FirstIn
  <2>4. ~ApptConflict(l, t, 0)
    BY <2>3
  <2>5. loc' = [loc EXCEPT ![r] = w] /\ UNCHANGED appt
    BY <1>1 DEF ConfirmCheck, Go, rows
  <2> HIDE DEF l, t
  <2>6. w.lane = l /\ w.at = t
    BY <2>1, <2>2, <2>3 DEF Work
  <2> HIDE DEF w
  <2>7. loc'[r] = w
    BY <1>0, <2>5 DEF TypeOK
  <2> QED
    BY <2>4, <2>5, <2>6, <2>7 DEF ApptConflict, Overlap
<1>2. CASE ~ConfirmCheck(r)
  <2>1. pc[r] = "confirmWrite" /\ loc'[r] = loc[r]
    <3>1. ~Handle(r)
      BY <1>0, <1>2, Arrives
    <3>2. CASE \E q \in Requests : Handle(q)
      BY <1>0, <3>1, <3>2, Arrives
    <3> QED
      BY <3>1, <3>2 DEF Next, vars, Release, Lapse, Approve, Decline, Toggle
  <2>2. loc[r].hold \in HoldIds /\ Placed(loc[r].hold)
    BY <1>0, <2>1 DEF BaseInv, OwnWork, ConfStep
  <2>3. Exists(loc[r].hold) /\ ~ApptConflict(loc[r].lane, loc[r].at, 0)
    <3>1. Exists(loc[r].hold)
      <4> DEFINE i == loc[r].hold
      <4>1. hold'[i].status \in {"live", "expired"}
        BY <2>1 DEF Exists
      <4> HIDE DEF i
      <4>2. i \in HoldIds /\ Placed(i)
        BY <2>2 DEF i
      <4>3. Exists(i)
        BY <1>0, <4>1, <4>2, ExistsBefore DEF Exists
      <4> QED
        BY <4>3 DEF i
    <3> QED
      BY <1>0, <2>1, <3>1 DEF ConfirmFree
  <2>4. CASE \E q \in Requests : ConfirmWrite(q)
    <3> PICK q \in Requests : ConfirmWrite(q)
      BY <2>4
    <3>1. pc[q] = "confirmWrite" /\ pc'[q] = "idle" /\ Exists(loc[q].hold) /\ q # r
      BY <1>0 DEF ConfirmWrite, Finish, Go, TypeOK
    <3>2. ByName(scenario)
      BY <1>0, <2>1, <3>1 DEF Careful, Orderly, BaseInv, Alone
    <3>3. Named /\ HoldsApart
      BY <3>2 DEF BookInv, HoldInv, ByName, Serial
    <3>4. /\ loc[q].hold \in Live /\ loc[r].hold \in Live /\ loc[q].hold # loc[r].hold
      BY <1>0, <2>1, <2>2, <2>3, <3>1, <3>3 DEF BaseInv, OwnWork, ConfStep, Locks, Live, Exists, Named
    <3>5. /\ loc[q].lane = hold[loc[q].hold].lane /\ loc[q].at = hold[loc[q].hold].at
          /\ loc[r].lane = hold[loc[r].hold].lane /\ loc[r].at = hold[loc[r].hold].at
      BY <2>1, <3>1, <3>3 DEF Named
    <3>6. loc[q].lane = loc[r].lane => ~Overlap(loc[r].at, loc[q].at)
      BY <3>3, <3>4, <3>5 DEF HoldsApart
    <3>7. PICK a \in ApptIds :
             /\ ~Made(a) /\ appt'[a].lane = loc[q].lane /\ appt'[a].at = loc[q].at
             /\ \A b \in ApptIds \ {a} : appt'[b] = appt[b]
      BY <1>0, ConfirmAdds
    <3> QED
      BY <2>1, <2>3, <3>6, <3>7 DEF ApptConflict, Overlap
  <2>5. CASE \E q \in Requests : MoveWrite(q)
    <3> PICK q \in Requests : MoveWrite(q)
      BY <2>5
    <3>1. pc[q] = "moveWrite"
      BY DEF MoveWrite
    <3>2. ByName(scenario)
      BY <1>0, <2>1, <3>1 DEF Careful, Orderly, BaseInv, Alone
    <3> QED
      BY <3>1, <3>2 DEF BookInv, Named, HoldStep, ConfStep, SaleStep
  <2>6. CASE ~\E q \in Requests : ConfirmWrite(q) \/ MoveWrite(q)
    <3>1. ApptsFewer
      BY <2>6, FewerAppts
    <3> QED
      BY <2>1, <2>3, <3>1 DEF ApptsFewer, ApptConflict, Overlap
  <2> QED
    BY <2>4, <2>5, <2>6
<1> QED
  BY <1>1, <1>2

\* What may happen where every hold names its specialist.
LEMMA NamedSteps ==
    ASSUME BookInv, ByName(scenario), [Next]_vars
    PROVE  \/ UNCHANGED vars
           \/ \E i \in HoldIds : Release(i)
           \/ \E r \in Requests : Handle(r) /\ pc'[r] # "strike" /\ pc'[r] # "cancelWrite"
                                            /\ pc'[r] \notin MoveStep
<1>0. TypeOK /\ Named
  BY DEF BookInv, HoldInv, BaseInv
<1>1. /\ ~MayStart("reschedule") /\ ~MayStart("reassign") /\ ~MayStart("cancel")
      /\ ~MayStart("noShow") /\ ~MayStart("decide") /\ ~MayStart("staff")
  BY DEF ByName, MayStart
<1>2. ~scenario.lapse
  BY DEF ByName
<1>3. ASSUME NEW r \in Requests, Handle(r)
      PROVE  pc'[r] # "strike" /\ pc'[r] # "cancelWrite" /\ pc'[r] \notin MoveStep
  <2>1. /\ ~\E a \in ApptIds, t \in scenario.times : RescheduleRead(r, a, t)
        /\ ~\E a \in ApptIds, s \in Specialists : ReassignRead(r, a, s)
        /\ ~\E a \in ApptIds : CancelRead(r, a) \/ NoShow(r, a)
    BY <1>1 DEF RescheduleRead, ReassignRead, CancelRead, NoShow, Start
  <2>2. pc[r] \notin MoveStep
    BY <1>0 DEF Named, MoveStep, HoldStep, ConfStep, SaleStep
  <2>3. pc'[r] \notin MoveStep
    BY <1>0, <1>3, <2>1, <2>2, Arrives DEF MoveCheck, MoveStep
  <2>4. pc'[r] # "strike" /\ pc'[r] # "cancelWrite"
    BY <1>0, <1>3, <2>1 DEF Handle, Go, Finish, HoldAppts, HoldHolds, HoldInsert, ConfirmRead,
       ConfirmCheck, ConfirmWrite, MoveCheck, MoveWrite, CancelWrite,
       CheckoutRead, CheckoutSale, CheckoutDone, Strike, Stop, TypeOK
  <2> QED
    BY <2>3, <2>4
<1>4. /\ \A i \in HoldIds : ~Lapse(i)
      /\ \A a \in ApptIds : ~Approve(a) /\ ~Decline(a)
      /\ \A s \in Specialists : ~Toggle(s)
  BY <1>1, <1>2 DEF Lapse, Approve, Decline, Toggle
<1> QED
  BY <1>3, <1>4 DEF Next

HoldsNamed == \A i \in HoldIds : Placed(i) => /\ hold[i].status # "expired"
                                              /\ hold[i].lane = Generic => Specialists = {}

\* The rows of holds that were there keep their lane and time.
HoldsStay == \A i \in HoldIds : Placed(i) => /\ hold'[i].lane = hold[i].lane
                                             /\ hold'[i].at = hold[i].at

LEMMA NamedHolds ==
    ASSUME BookInv, ByName(scenario), [Next]_vars
    PROVE  HoldsNamed' /\ HoldsStay
<1>0. TypeOK /\ Named /\ HoldsNamed /\ BaseInv
  BY DEF BookInv, HoldInv, BaseInv, Named, HoldsNamed
<1>1. ASSUME UNCHANGED hold PROVE HoldsNamed' /\ HoldsStay
  BY <1>0, <1>1 DEF HoldsNamed, HoldsStay, Placed
<1>2. ASSUME NEW i \in HoldIds, NEW s \in {"used", "freed"}, Placed(i),
             hold' = [hold EXCEPT ![i].status = s]
      PROVE  HoldsNamed' /\ HoldsStay
  <2>1. /\ hold'[i].status = s /\ hold'[i].lane = hold[i].lane /\ hold'[i].at = hold[i].at
        /\ \A j \in HoldIds \ {i} : hold'[j] = hold[j]
    BY <1>0, <1>2 DEF TypeOK, RowsOK, HoldRow
  <2> QED
    BY <1>0, <1>2, <2>1 DEF HoldsNamed, HoldsStay, Placed
<1>3. ASSUME NEW i \in HoldIds, Release(i) PROVE HoldsNamed' /\ HoldsStay
  BY <1>2, <1>3 DEF Release, Placed
<1>4. ASSUME NEW r \in Requests, ConfirmWrite(r) PROVE HoldsNamed' /\ HoldsStay
  <2>1. loc[r].hold \in HoldIds /\ Placed(loc[r].hold)
    BY <1>0, <1>4 DEF BaseInv, OwnWork, ConfStep, ConfirmWrite
  <2> QED
    BY <1>2, <1>4, <2>1 DEF ConfirmWrite
<1>5. ASSUME NEW r \in Requests, HoldInsert(r) PROVE HoldsNamed' /\ HoldsStay
  <2> DEFINE n == [status |-> "live", lane |-> loc[r].lane, at |-> loc[r].at]
  <2>1. PICK i \in HoldIds : hold[i].status = "none" /\ hold' = [hold EXCEPT ![i] = n]
    BY <1>5 DEF HoldInsert
  <2>2. pc[r] \in HoldStep /\ pc[r] = "holdInsert" /\ OwnWork(r)
    BY <1>0, <1>5 DEF HoldInsert, HoldStep, BaseInv
  <2>3. loc[r].target # Anyone
    BY <2>2 DEF OwnWork, ByName
  <2>4. loc[r].lane = loc[r].target
    BY <2>2, <2>3 DEF OwnWork
  <2>5. n.lane = Generic => Specialists = {}
    BY <1>0, <2>2, <2>4 DEF Named
  <2>6. n.status = "live"
    OBVIOUS
  <2> HIDE DEF n
  <2>7. hold'[i] = n /\ \A j \in HoldIds \ {i} : hold'[j] = hold[j]
    BY <1>0, <2>1 DEF TypeOK, RowsOK
  <2>8. HoldsNamed'
    BY <1>0, <2>5, <2>6, <2>7 DEF HoldsNamed, Placed
  <2> QED
    BY <2>1, <2>7, <2>8 DEF HoldsStay, Placed
<1>6. ASSUME NEW r \in Requests, Handle(r), ~ConfirmWrite(r), ~HoldInsert(r) PROVE UNCHANGED hold
  BY <1>6 DEF Handle, HoldAppts, HoldHolds, ConfirmRead, ConfirmCheck,
     RescheduleRead, ReassignRead, MoveCheck, MoveWrite, CancelRead, CancelWrite,
     CheckoutRead, CheckoutSale, CheckoutDone, NoShow, Strike, Stop, rows
<1> QED
  BY <1>1, <1>3, <1>4, <1>5, <1>6, NamedSteps DEF vars, rows

LEMMA NamedAppts ==
    ASSUME BookInv, ByName(scenario), [Next]_vars
    PROVE  /\ active' = active
           /\ \A a \in ApptIds : appt'[a].status \in {"none", "PENDING", "COMPLETED"}
<1>0. TypeOK /\ Named /\ BaseInv
  BY DEF BookInv, HoldInv, BaseInv
<1>1. active' = active
  <2>1. ASSUME NEW r \in Requests, Handle(r) PROVE UNCHANGED active
    BY <2>1 DEF Handle, HoldAppts, HoldHolds, HoldInsert, ConfirmRead, ConfirmCheck, ConfirmWrite,
       RescheduleRead, ReassignRead, MoveCheck, MoveWrite, CancelRead, CancelWrite,
       CheckoutRead, CheckoutSale, CheckoutDone, NoShow, Strike, Stop, rows
  <2> QED
    BY <2>1, NamedSteps DEF vars, rows, Release
<1>3. ASSUME NEW r \in Requests, ConfirmWrite(r)
      PROVE  \A b \in ApptIds : appt'[b].status \in {"none", "PENDING", "COMPLETED"}
  <2> DEFINE n == [NoAppt EXCEPT !.status = "PENDING", !.lane = loc[r].lane,
                                 !.at = loc[r].at, !.who = loc[r].who,
                                 !.from = loc[r].hold]
  <2>1. PICK a \in ApptIds : appt' = [appt EXCEPT ![a] = n]
    BY <1>3 DEF ConfirmWrite
  <2>2. n.status = "PENDING"
    BY DEF NoAppt
  <2> HIDE DEF n
  <2> QED
    BY <1>0, <2>1, <2>2 DEF Named, TypeOK, RowsOK
<1>4. ASSUME NEW r \in Requests, CheckoutDone(r)
      PROVE  \A b \in ApptIds : appt'[b].status \in {"none", "PENDING", "COMPLETED"}
  <2> DEFINE a == loc[r].appt
             n == [appt[a] EXCEPT !.status = "COMPLETED"]
  <2>1. a \in ApptIds /\ appt[a] \in ApptRow /\ appt' = [appt EXCEPT ![a] = n]
    BY <1>0, <1>4 DEF CheckoutDone, SetStatus, BaseInv, OwnWork, ApptStep, SaleStep, TypeOK, RowsOK
  <2>2. n.status = "COMPLETED"
    BY <2>1 DEF ApptRow
  <2> HIDE DEF n, a
  <2> QED
    BY <1>0, <2>1, <2>2 DEF Named, TypeOK, RowsOK
<1>5. ASSUME NEW r \in Requests, Handle(r), ~ConfirmWrite(r), ~CheckoutDone(r),
             pc'[r] # "strike"
      PROVE  UNCHANGED appt
  <2>1. pc[r] \in {"idle"} \cup HoldStep \cup ConfStep \cup SaleStep
    BY <1>0 DEF Named
  <2>2. ~MoveWrite(r) /\ ~CancelWrite(r) /\ ~\E a \in ApptIds : NoShow(r, a)
    BY <1>0, <1>5, <2>1 DEF MoveWrite, CancelWrite, NoShow, Go, TypeOK,
       HoldStep, ConfStep, SaleStep
  <2> QED
    BY <1>5, <2>2 DEF Handle, HoldAppts, HoldHolds, HoldInsert, ConfirmRead, ConfirmCheck,
       RescheduleRead, ReassignRead, MoveCheck, CancelRead,
       CheckoutRead, CheckoutSale, Strike, Stop, rows
<1>6. CASE UNCHANGED appt
  BY <1>0, <1>1, <1>6 DEF Named
<1> QED
  BY <1>1, <1>3, <1>4, <1>5, <1>6, NamedSteps DEF vars, rows, Release

NamedAt(r) ==
    /\ pc[r] \in {"idle"} \cup HoldStep \cup ConfStep \cup SaleStep
    /\ pc[r] \in HoldStep /\ loc[r].target = Generic => Specialists = {}
    /\ pc[r] = "confirmWrite" => /\ loc[r].lane = hold[loc[r].hold].lane
                                 /\ loc[r].at = hold[loc[r].hold].at

LEMMA NamedWork ==
    ASSUME BookInv, ByName(scenario), [Next]_vars, NEW r \in Requests
    PROVE  NamedAt(r)'
<1>0. TypeOK /\ Named /\ BaseInv /\ NamedAt(r) /\ OwnWork(r)
  BY DEF BookInv, HoldInv, BaseInv, Named, NamedAt
<1>1. HoldsStay
  BY NamedHolds
<1>2. CASE pc'[r] = pc[r] /\ loc'[r] = loc[r]
  <2>1. pc[r] = "confirmWrite" => loc[r].hold \in HoldIds /\ Placed(loc[r].hold)
    BY <1>0 DEF OwnWork, ConfStep
  <2> QED
    BY <1>0, <1>1, <1>2, <2>1 DEF NamedAt, HoldsStay
<1>3. CASE /\ Handle(r) /\ pc'[r] # "strike" /\ pc'[r] # "cancelWrite"
           /\ pc'[r] \notin MoveStep
  <2>0. pc' \in [Requests -> Steps]
    <3>1. TypeOK'
      BY <1>0, BaseNext DEF BaseInv
    <3> QED
      BY <3>1 DEF TypeOK
  <2>1. pc'[r] \in {"idle"} \cup HoldStep \cup ConfStep \cup SaleStep
    BY <1>3, <2>0 DEF Steps, ApptStep
  <2>2. CASE pc'[r] \notin HoldStep /\ pc'[r] # "confirmWrite"
    BY <2>1, <2>2 DEF NamedAt
  <2>3. CASE pc'[r] = "holdHolds"
    <3>1. PICK target \in Specialists \cup {Generic, Anyone}, t \in scenario.times :
             HoldAppts(r, target, t)
      BY <1>0, <1>3, <2>3, Arrives
    <3> DEFINE w == [NoWork EXCEPT !.target = target, !.at = t, !.lanes = Unbooked(target, t)]
    <3>2. w.target = target
      BY DEF NoWork
    <3>3. loc' = [loc EXCEPT ![r] = w] /\ target \in Targets
      BY <3>1 DEF HoldAppts, Go
    <3> HIDE DEF w
    <3>4. loc'[r].target = target
      BY <1>0, <3>2, <3>3 DEF TypeOK
    <3>5. target = Generic => Specialists = {}
      BY <1>0, <3>3, Given DEF Targets, Named, Generic, Anyone
    <3> QED
      BY <2>1, <2>3, <3>4, <3>5 DEF NamedAt
  <2>4. CASE pc'[r] = "holdInsert"
    <3>1. HoldHolds(r)
      BY <1>0, <1>3, <2>4, Arrives
    <3> DEFINE l == First(Unheld(loc[r].lanes, loc[r].at))
               w == [loc[r] EXCEPT !.lane = l]
    <3>2. loc' = [loc EXCEPT ![r] = w] /\ pc[r] = "holdHolds" /\ loc[r] \in Work
      BY <1>0, <3>1 DEF HoldHolds, Go, TypeOK
    <3> HIDE DEF l
    <3>3. w.target = loc[r].target
      BY <3>2 DEF Work
    <3> HIDE DEF w
    <3>4. loc'[r].target = loc[r].target
      BY <1>0, <3>2, <3>3 DEF TypeOK
    <3> QED
      BY <1>0, <2>1, <2>4, <3>2, <3>4 DEF NamedAt, HoldStep
  <2>5. CASE pc'[r] = "confirmWrite"
    <3>1. ConfirmCheck(r) /\ pc[r] = "confirmCheck"
      BY <1>0, <1>3, <2>5, Arrives DEF ConfirmCheck
    <3> DEFINE t == hold[loc[r].hold].at
               free == {l \in Resolved(r) : ~ApptConflict(l, t, 0)}
               l == First(free)
               w == [loc[r] EXCEPT !.lane = l, !.at = t]
    <3>2. /\ loc[r] \in Work /\ loc[r].hold \in HoldIds /\ Placed(loc[r].hold)
          /\ loc[r].lanes \subseteq Specialists
      BY <1>0, <3>1 DEF TypeOK, OwnWork, ConfStep
    <3>3. Resolved(r) = {hold[loc[r].hold].lane}
      BY <1>0, <3>2 DEF Resolved, Named
    <3>4. free \in SUBSET Lane /\ free # {} /\ t \in Nat
      BY <1>0, <3>1, <3>2, <3>3 DEF ConfirmCheck, TypeOK, RowsOK, HoldRow
    <3>5. l \in free
      BY <3>4, FirstIn
    <3>6. l = hold[loc[r].hold].lane /\ l \in Lane
      BY <3>3, <3>4, <3>5
    <3>7. loc' = [loc EXCEPT ![r] = w] /\ UNCHANGED hold
      BY <3>1 DEF ConfirmCheck, Go, rows
    <3>8. t = hold[loc[r].hold].at
      OBVIOUS
    <3> HIDE DEF l, t, free
    <3>9. w.lane = l /\ w.at = t /\ w.hold = loc[r].hold
      BY <3>2, <3>4, <3>6 DEF Work
    <3> HIDE DEF w
    <3>10. loc'[r] = w
      BY <1>0, <3>7 DEF TypeOK
    <3> QED
      BY <2>1, <2>5, <3>6, <3>7, <3>8, <3>9, <3>10 DEF NamedAt, HoldStep
  <2> QED
    BY <2>2, <2>3, <2>4, <2>5 DEF HoldStep
<1>4. CASE \E q \in Requests \ {r} : Handle(q)
  BY <1>0, <1>2, <1>4, Arrives
<1> QED
  BY <1>2, <1>3, <1>4, NamedSteps DEF vars, Release

LEMMA NamedKept ==
    ASSUME BookInv, ByName(scenario), [Next]_vars
    PROVE  Named'
<1>1. HoldsNamed' /\ \A r \in Requests : NamedAt(r)'
  BY NamedHolds, NamedWork
<1>2. active = Specialists
  BY DEF BookInv, Named
<1> QED
  BY <1>1, <1>2, NamedAppts DEF Named, HoldsNamed, NamedAt

LEMMA BookNext == BookInv /\ [Next]_vars => BookInv'
<1> SUFFICES ASSUME BookInv, [Next]_vars PROVE BookInv'
  OBVIOUS
<1>1. HoldInv' /\ scenario' = scenario
  BY HoldNext, ScenarioFixed DEF BookInv
<1>2. Orderly(scenario) => \A r \in Requests : Moving(r)' /\ Selling(r)'
  BY MovingKept, SellingKept
<1>3. ByName(scenario) => Named'
  BY NamedKept
<1>4. ByName(scenario) => \A r \in Requests : Selling(r)'
  <2> SUFFICES ASSUME ByName(scenario), NEW r \in Requests, pc'[r] \in SaleStep
               PROVE  appt'[loc'[r].appt].status # "CANCELLED"
    BY DEF Selling
  <2>1. loc'[r].appt \in ApptIds
    BY <1>1 DEF HoldInv, BaseInv, OwnWork, ApptStep
  <2> QED
    BY <1>3, <2>1 DEF Named
<1>5. Careful(scenario) => ConfirmFree'
  BY ConfirmFreeKept
<1>6. Careful(scenario) => NoDoubleBooking'
  <2>1. CASE \E q \in Requests : ConfirmWrite(q)
    BY <2>1, ConfirmBooks
  <2>2. CASE \E q \in Requests : MoveWrite(q)
    BY <2>2, MoveBooks
  <2>3. CASE ~\E q \in Requests : ConfirmWrite(q) \/ MoveWrite(q)
    BY <2>3, FewerAppts, FewerBookings DEF BookInv
  <2> QED
    BY <2>1, <2>2, <2>3
<1>7. /\ Orderly(scenario)' = Orderly(scenario) /\ ByName(scenario)' = ByName(scenario)
      /\ Careful(scenario)' = Careful(scenario)
  BY <1>1 DEF Orderly, ByName, Careful
<1> QED
  BY <1>1, <1>2, <1>3, <1>4, <1>5, <1>6, <1>7 DEF BookInv, Careful

LEMMA BookInit == Init => BookInv
<1> SUFFICES ASSUME Init PROVE BookInv
  OBVIOUS
<1>1. HoldInv
  BY HoldInit
<1>2. \A a \in ApptIds : appt[a].status = "none"
  BY DEF Init, NoAppt
<1>3. \A i \in HoldIds : ~Placed(i)
  BY DEF Init, NoHold, Placed
<1>4. \A r \in Requests : pc[r] = "idle"
  BY DEF Init
<1>5. NoDoubleBooking /\ ConfirmFree
  BY <1>2, <1>4 DEF NoDoubleBooking, ConfirmFree, Occupying
<1>6. \A r \in Requests : Moving(r) /\ Selling(r)
  BY <1>4 DEF Moving, Selling, MoveStep, SaleStep
<1>7. Named
  BY <1>2, <1>3, <1>4 DEF Named, Init, HoldStep
<1> QED
  BY <1>1, <1>5, <1>6, <1>7 DEF BookInv

\* hasConflictingAppointment is enough where requests follow one another, and,
\* for slots of a named specialist, however requests interleave.
THEOREM NobodyBookedTwice == Spec => [](Careful(scenario) => NoDoubleBooking)
<1>1. BookInv => (Careful(scenario) => NoDoubleBooking)
  BY DEF BookInv
<1> QED
  BY <1>1, BookInit, BookNext, PTL DEF Spec

\* getAvailability offers nothing that createHold, alone, refuses.
THEOREM OfferIsHonoured == Spec => []OfferedCanBeHeld
<1>1. OfferedCanBeHeld
  <2> SUFFICES ASSUME NEW target \in Targets, NEW t \in Times, Offered(target, t)
               PROVE  Unheld(Unbooked(target, t), t) # {}
    BY DEF OfferedCanBeHeld
  <2>1. PICK l \in Lanes(target) : AvailableLane(l, t)
    BY DEF Offered, Lanes
  <2>2. l \in Unbooked(target, t) /\ ~HoldConflict(l, t)
    BY <2>1 DEF AvailableLane, Unbooked, HoldConflict
  <2> QED
    BY <2>2 DEF Unheld
<1> QED
  BY <1>1, PTL

(***************************************************************************)
(* The floor of Salon, where its requests come one at a time.  A table     *)
(* that was hidden, or whose vehicle left, keeps its number, so that a     *)
(* vehicle received again finds the last of its number only if none was    *)
(* renumbered to it meanwhile.                                             *)
(***************************************************************************)
OneByOne(sc) == sc.together \cap FloorKinds = {}

\* Where tables out of use keep their number.
Leaves(sc) == "hide" \in sc.kinds \/ (sc.profile = "TALLER" /\ "close" \in sc.kinds)

Spots == [number : Names \cup {Nothing}, zone : Zones \cup {Nothing},
          cell : Cells \cup {Nothing}, active : BOOLEAN]
Asks == [kind : FloorKinds, table : TableIds \cup {0}, number : Names \cup {Same},
         zone : Zones \cup {Same}, cell : Cells \cup {Nothing, Same},
         tech : Techs \cup {Nothing, AutoTech}, valid : BOOLEAN]

\* What a request names: a table there is, or the number and zone of one to come.
WellAsked(q) ==
    /\ q \in Asks /\ q.kind \in setting.kinds
    /\ q.kind \in {"create", "receive"} =>
          q.number \in Names /\ q.zone \in Zones /\ q.cell \in Cells \cup {Nothing}
    /\ q.kind \notin {"create", "receive"} => q.table \in TableIds
    /\ q.kind = "change" => q.cell \in Cells \cup {Same}
    /\ q.kind \in {"open", "receive"} => q.tech \in {Nothing, AutoTech}

HeadTyped ==
    head = [h \in OrderIds |-> [status |-> head[h].status, spot |-> head[h].spot,
                                tech |-> head[h].tech]]

AskTyped == setting \in Settings /\ HeadTyped /\ task = [r \in Handlers |-> task[r]]

FloorTyped == AskTyped /\ spot \in [TableIds -> Spots]

\* A request in hand has read the floor as it is.
ReadHolds ==
    \A r \in AtWork :
        /\ task[r] = [kind |-> "write", q |-> task[r].q, seen |-> Floor]
        /\ WellAsked(task[r].q) /\ Accepts(Floor, task[r].q)
        /\ NeedsSpot(Floor, task[r].q) => SpotLeft
        /\ task[r].q.kind \in {"open", "receive"} => HeadLeft
OneRequest == \A r, s \in AtWork : r = s

AskInv == AskTyped /\ (OneByOne(setting) => ReadHolds /\ OneRequest)

Seated ==
    \A t \in TableIds : spot[t].active => spot[t].number \in Names /\ spot[t].zone \in Zones

\* Of the tables that had a number only the last one is in use: where none goes
\* out of use, there is no other; where none is renumbered, the others came before.
AllInUse ==
    ~Leaves(setting) =>
        \A t \in TableIds : spot[t].number \in Names => spot[t].active

Alike(t, u) ==
    /\ spot[t].number \in Names /\ spot[u].number \in Names
    /\ Fold[spot[t].number] = Fold[spot[u].number]

LastInUse ==
    "change" \notin setting.kinds =>
        /\ \A t, u \in TableIds : spot[t] # NoSpot /\ spot[u] = NoSpot => t < u
        /\ \A t, u \in TableIds : t < u /\ Alike(t, u) => ~spot[t].active

Laid == Seated /\ (Renumbers(setting) \/ (AllInUse /\ LastInUse /\ OneTablePerPlace))

OpenHeads == {h \in OrderIds : head[h].status = "OPEN"}
OpenSeen ==
    "hide" \notin setting.kinds =>
        /\ \A h \in OpenHeads : head[h].spot \in TableIds /\ spot[head[h].spot].active
        /\ \A g, h \in OpenHeads : head[g].spot = head[h].spot => g = h

FloorHolds == ReadHolds /\ OneRequest /\ Laid /\ OpenSeen

FloorInv == OneByOne(setting) => FloorTyped /\ FloorHolds

-----------------------------------------------------------------------------
\* The least and the greatest of a finite set of naturals.
LEMMA LeastIn ==
    ASSUME NEW S \in SUBSET Nat, IsFiniteSet(S), S # {}
    PROVE  Least(S) \in S /\ \A y \in S : Least(S) <= y
<1> DEFINE Above == {p \in S \X S : p[1] > p[2]}
<1>1. \A x, y \in S : <<x, y>> \in Above <=> x > y
  OBVIOUS
<1> HIDE DEF Above
<1>2. StrictOrder(Above, S)
  BY <1>1 DEF StrictOrder
<1>3. PICK m \in S : \A x \in S \ {m} : <<x, m>> \in Above
  BY <1>2, LastExists
<1>4. ASSUME NEW y \in S PROVE m <= y
  <2>1. y \in S \ {m} => <<y, m>> \in Above
    BY <1>3
  <2>2. y \in Nat /\ m \in Nat
    OBVIOUS
  <2> QED BY <1>1, <2>1, <2>2
<1> QED
  BY <1>4 DEF Least

\* The greatest of some numbers is one of them.
LEMMA GreatestIn ==
    ASSUME NEW S \in SUBSET Nat, IsFiniteSet(S), S # {}
    PROVE  Greatest(S) \in S /\ \A y \in S : y <= Greatest(S)
<1> DEFINE Below == {p \in S \X S : p[1] < p[2]}
<1>1. \A x, y \in S : <<x, y>> \in Below <=> x < y
  OBVIOUS
<1> HIDE DEF Below
<1>2. StrictOrder(Below, S)
  BY <1>1 DEF StrictOrder
<1>3. PICK m \in S : \A x \in S \ {m} : <<x, m>> \in Below
  BY <1>2, LastExists
<1>4. ASSUME NEW y \in S PROVE m >= y
  <2>1. y \in S \ {m} => <<y, m>> \in Below
    BY <1>3
  <2>2. y \in Nat /\ m \in Nat
    OBVIOUS
  <2> QED BY <1>1, <2>1, <2>2
<1> QED
  BY <1>4 DEF Greatest

\* No request of one order touches the setting.
LEMMA SettingStays ==
    ASSUME TableNext
    PROVE  setting' = setting
<1>1. ASSUME NEW r, Begins(r) PROVE setting' = setting
  <2>1. \A kind, item, acct, n, token : Begin(r, kind, item, acct, n, token) => setting' = setting
    BY DEF Begin
  <2> HIDE DEF Begin
  <2> QED BY <1>1, <2>1 DEF Begins
<1>2. ASSUME NEW r, Commit(r) \/ SendCommit(r) \/ VoidTell(r) \/ Abandon(r)
      PROVE  setting' = setting
  BY <1>2 DEF Commit, SendCommit, VoidTell, Abandon
<1>3. ASSUME NEW st, NEW k, ClaimPrint(st, k) \/ MarkPrint(st, k) PROVE setting' = setting
  BY <1>3 DEF ClaimPrint, MarkPrint
<1>4. ASSUME NEW k, ClaimLapses(k) \/ Reprint(k) PROVE setting' = setting
  BY <1>4 DEF ClaimLapses, Reprint
<1> QED
  BY <1>1, <1>2, <1>3, <1>4 DEF TableNext

\* Rows and numbers.
LEMMA SpotShape ==
    ASSUME FloorTyped, NEW t \in TableIds
    PROVE  /\ spot[t] \in Spots
           /\ spot[t].number # Nothing \/ spot[t].zone # Nothing => spot[t] # NoSpot
           /\ t \in Nat
  BY SalonAssumption DEF FloorTyped, Spots, NoSpot

-----------------------------------------------------------------------------
(* The rows of the tables, whatever is open at them.                        *)

\* A table that is created, or a vehicle received for the first time.
LEMMA Occupies ==
    ASSUME FloorTyped, Laid, setting' = setting, NEW q, NEW s \in TableIds,
           spot[s] = NoSpot, \A u \in TableIds : spot[u] = NoSpot => s <= u,
           q.number \in Names, q.zone \in Zones, q.cell \in Cells \cup {Nothing},
           \A u \in TableIds : spot[u].active =>
               /\ Fold[spot[u].number] # Fold[q.number]
               /\ Workshop \/ <<spot[u].zone, spot[u].cell>> # <<q.zone, q.cell>>,
           spot' = [spot EXCEPT ![s] = NewSpot(q)]
    PROVE  /\ spot' \in [TableIds -> Spots] /\ Laid'
           /\ spot'[s].active /\ ~spot[s].active
           /\ \A t \in TableIds : spot[t].active => spot'[t].active
<1>1. /\ spot'[s] = NewSpot(q)
      /\ \A u \in TableIds : u # s => spot'[u] = spot[u]
      /\ spot' \in [TableIds -> Spots]
  BY DEF FloorTyped, NewSpot, Spots
<1>2. /\ spot'[s].number = q.number /\ spot'[s].zone = q.zone /\ spot'[s].cell = q.cell
      /\ spot'[s].active /\ spot'[s] # NoSpot
  BY <1>1, SalonAssumption DEF NewSpot, NoSpot
<1>3. ~spot[s].active
  BY DEF NoSpot
<1>4. Seated'
  BY <1>1, <1>2 DEF Seated, Laid
<1>m. CASE Renumbers(setting)
  BY <1>1, <1>2, <1>3, <1>4, <1>m DEF Laid, Renumbers
<1> SUFFICES ASSUME ~Renumbers(setting)
             PROVE  /\ spot' \in [TableIds -> Spots] /\ Laid'
                     /\ spot'[s].active /\ ~spot[s].active
                     /\ \A t \in TableIds : spot[t].active => spot'[t].active
  BY <1>m
<1>n. Renumbers(setting)' = Renumbers(setting) /\ Leaves(setting)' = Leaves(setting)
  BY DEF Renumbers, Leaves
<1>5. AllInUse'
  BY <1>1, <1>2, <1>n DEF AllInUse, Laid
<1>6. LastInUse'
  <2> SUFFICES ASSUME "change" \notin setting.kinds
               PROVE  LastInUse'
    BY DEF LastInUse
  <2>1. \A t, u \in TableIds : spot[t] # NoSpot /\ spot[u] = NoSpot => t < u
    BY DEF LastInUse, Laid
  <2>2. \A t, u \in TableIds : t < u /\ Alike(t, u) => ~spot[t].active
    BY DEF LastInUse, Laid
  <2>3. ASSUME NEW t \in TableIds, NEW u \in TableIds, spot'[t] # NoSpot, spot'[u] = NoSpot
        PROVE  t < u
    <3>1. u # s /\ spot[u] = NoSpot
      BY <1>1, <1>2, <2>3
    <3>2. CASE t = s
      BY <3>1, <3>2, SalonAssumption
    <3>3. CASE t # s
      BY <1>1, <2>1, <2>3, <3>1, <3>3
    <3> QED BY <3>2, <3>3
  <2>4. ASSUME NEW t \in TableIds, NEW u \in TableIds, t < u, Alike(t, u)'
        PROVE  ~spot'[t].active
    <3>1. /\ spot'[t].number \in Names /\ spot'[u].number \in Names
          /\ Fold[spot'[t].number] = Fold[spot'[u].number]
      BY <2>4 DEF Alike
    <3>2. CASE t = s
      <4>1. u # s /\ spot[u].number \in Names
        BY <1>1, <2>4, <3>1, <3>2, SalonAssumption
      <4>2. spot[u] # NoSpot
        BY <4>1, SpotShape, SalonAssumption
      <4> QED BY <2>1, <2>4, <3>2, <4>2, SalonAssumption
    <3>3. CASE u = s
      <4>1. t # s /\ Fold[spot[t].number] = Fold[q.number]
        BY <1>1, <1>2, <2>4, <3>1, <3>3, SalonAssumption
      <4> QED BY <1>1, <4>1
    <3>4. CASE t # s /\ u # s
      BY <1>1, <2>2, <2>4, <3>1, <3>4 DEF Alike
    <3> QED BY <3>2, <3>3, <3>4
  <2> QED
    BY <2>3, <2>4 DEF LastInUse
<1>7. OneTablePerPlace'
  <2> SUFFICES ASSUME NEW t \in TableIds, NEW u \in TableIds, t # u, spot'[t].active,
                      spot'[u].active
               PROVE  /\ Fold[spot'[t].number] # Fold[spot'[u].number]
                      /\ Workshop \/ <<spot'[t].zone, spot'[t].cell>>
                                         # <<spot'[u].zone, spot'[u].cell>>
    BY DEF OneTablePerPlace, Active, Floor, Workshop
  <2>1. CASE t = s
    BY <1>1, <1>2, <2>1
  <2>2. CASE u = s
    BY <1>1, <1>2, <2>2
  <2>3. CASE t # s /\ u # s
    BY <1>1, <2>3 DEF OneTablePerPlace, Active, Floor, Laid
  <2> QED
    BY <2>1, <2>2, <2>3
<1> QED
  BY <1>1, <1>2, <1>3, <1>4, <1>5, <1>6, <1>7 DEF Laid

\* A vehicle that comes back: to the last table with its number.
LEMMA Returns ==
    ASSUME FloorTyped, Laid, setting' = setting, NEW n \in Names, NEW z \in Zones,
           NEW s \in TableIds, spot[s].number \in Names, Fold[spot[s].number] = Fold[n],
           \A u \in TableIds : spot[u].number \in Names /\ Fold[spot[u].number] = Fold[n]
               => u <= s,
           Workshop, "receive" \in setting.kinds,
           spot' = [spot EXCEPT ![s] = [@ EXCEPT !.active = TRUE, !.zone = z]]
    PROVE  /\ spot' \in [TableIds -> Spots] /\ Laid' /\ spot'[s].active
           /\ \A t \in TableIds : spot[t].active => spot'[t].active
<1>0. spot[s] \in Spots
  BY DEF FloorTyped
<1>1. /\ spot'[s] = [spot[s] EXCEPT !.active = TRUE, !.zone = z]
      /\ \A u \in TableIds : u # s => spot'[u] = spot[u]
      /\ spot' \in [TableIds -> Spots]
  BY <1>0 DEF FloorTyped, Spots
<1>2. /\ spot'[s].number = spot[s].number /\ spot'[s].zone = z /\ spot'[s].active
      /\ spot'[s] # NoSpot /\ spot[s] # NoSpot
  <2>1. \A p \in Spots : LET b == [p EXCEPT !.active = TRUE, !.zone = z]
                         IN  b.number = p.number /\ b.zone = z /\ b.active
    BY DEF Spots
  <2>2. /\ spot'[s].number = spot[s].number /\ spot'[s].zone = z /\ spot'[s].active
    BY <1>0, <1>1, <2>1
  <2>3. NoSpot.number \notin Names
    BY SalonAssumption DEF NoSpot
  <2> QED
    BY <2>2, <2>3
<1>4. Seated'
  BY <1>1, <1>2 DEF Seated, Laid
<1>m. CASE Renumbers(setting)
  BY <1>1, <1>2, <1>4, <1>m DEF Laid, Renumbers
<1> SUFFICES ASSUME ~Renumbers(setting)
             PROVE  /\ spot' \in [TableIds -> Spots] /\ Laid' /\ spot'[s].active
                     /\ \A t \in TableIds : spot[t].active => spot'[t].active
  BY <1>m
<1>n. Renumbers(setting)' = Renumbers(setting) /\ Leaves(setting)' = Leaves(setting)
  BY DEF Renumbers, Leaves
<1>3. ~Leaves(setting) => spot[s].active
  BY DEF AllInUse, Laid
<1>k. ~Leaves(setting) \/ "change" \notin setting.kinds
  BY DEF Renumbers, Leaves, Workshop
<1>5. AllInUse'
  BY <1>1, <1>2, <1>n DEF AllInUse, Laid
<1>6. LastInUse'
  <2> SUFFICES ASSUME "change" \notin setting.kinds
               PROVE  LastInUse'
    BY DEF LastInUse
  <2>1. \A t, u \in TableIds : spot[t] # NoSpot /\ spot[u] = NoSpot => t < u
    BY DEF LastInUse, Laid
  <2>2. \A t, u \in TableIds : t < u /\ Alike(t, u) => ~spot[t].active
    BY DEF LastInUse, Laid
  <2>3. ASSUME NEW t \in TableIds, NEW u \in TableIds, spot'[t] # NoSpot, spot'[u] = NoSpot
        PROVE  t < u
    BY <1>1, <1>2, <2>1, <2>3
  <2>4. ASSUME NEW t \in TableIds, NEW u \in TableIds, t < u, Alike(t, u)'
        PROVE  ~spot'[t].active
    <3>1. Alike(t, u)
      BY <1>1, <1>2, <2>4 DEF Alike
    <3>2. t # s
      BY <2>4, <3>1, SalonAssumption DEF Alike
    <3> QED BY <1>1, <2>2, <2>4, <3>1, <3>2
  <2> QED
    BY <2>3, <2>4 DEF LastInUse
<1>7. OneTablePerPlace'
  <2>1. ASSUME NEW u \in TableIds, u # s, spot[u].active
        PROVE  Fold[spot[u].number] # Fold[n]
    <3> SUFFICES ASSUME Fold[spot[u].number] = Fold[n] PROVE FALSE
      OBVIOUS
    <3>1. spot[u].number \in Names
      BY <2>1 DEF Seated, Laid
    <3>2. u < s
      BY <2>1, <3>1, SalonAssumption
    <3>3. CASE ~Leaves(setting)
      BY <1>3, <2>1, <3>3 DEF OneTablePerPlace, Active, Floor, Laid
    <3>4. CASE "change" \notin setting.kinds
      BY <2>1, <3>1, <3>2, <3>4 DEF LastInUse, Alike, Laid
    <3> QED BY <1>k, <3>3, <3>4
  <2> SUFFICES ASSUME NEW t \in TableIds, NEW u \in TableIds, t # u, spot'[t].active,
                      spot'[u].active
               PROVE  Fold[spot'[t].number] # Fold[spot'[u].number]
    BY DEF OneTablePerPlace, Active, Floor, Workshop
  <2>2. CASE t = s
    BY <1>1, <1>2, <2>1, <2>2
  <2>3. CASE u = s
    BY <1>1, <1>2, <2>1, <2>3
  <2>4. CASE t # s /\ u # s
    BY <1>1, <2>4 DEF OneTablePerPlace, Active, Floor, Laid
  <2> QED
    BY <2>2, <2>3, <2>4
<1> QED
  BY <1>1, <1>2, <1>4, <1>5, <1>6, <1>7 DEF Laid

\* A table that is renumbered or moved.
LEMMA Changes ==
    ASSUME FloorTyped, Laid, setting' = setting, "change" \in setting.kinds, NEW q, WellAsked(q),
           q.kind = "change", CanUpdateTable(Floor, q),
           spot' = [spot EXCEPT ![q.table] = Changed(Floor, q)]
    PROVE  /\ spot' \in [TableIds -> Spots] /\ Laid'
           /\ \A t \in TableIds : spot[t].active => spot'[t].active
<1> DEFINE s == q.table
<1>0. s \in TableIds /\ spot[s] \in Spots /\ spot[s].active
  BY DEF FloorTyped, WellAsked, CanUpdateTable, Active, Floor
<1>1. /\ Changed(Floor, q).number = IF q.number = Same THEN spot[s].number ELSE q.number
      /\ Changed(Floor, q).zone = Zone(Floor, q) /\ Changed(Floor, q).cell = Cell(Floor, q)
      /\ Changed(Floor, q).active
      /\ Changed(Floor, q) = [number |-> Changed(Floor, q).number, zone |-> Zone(Floor, q),
                              cell |-> Cell(Floor, q), active |-> TRUE]
  <2>1. PICK n, z, c, b : /\ n = IF q.number = Same THEN spot[s].number ELSE q.number
                          /\ z = Zone(Floor, q) /\ c = Cell(Floor, q) /\ b = Changed(Floor, q)
    OBVIOUS
  <2>2. PICK p \in Spots : p = spot[s]
    BY <1>0
  <2>3. b = [p EXCEPT !.number = n, !.zone = z, !.cell = c]
    BY <1>0, <2>1, <2>2 DEF Changed, Spots
  <2>4. /\ b.number = n /\ b.zone = z /\ b.cell = c /\ b.active = p.active
        /\ b = [number |-> n, zone |-> z, cell |-> c, active |-> p.active]
    BY <2>3 DEF Spots
  <2>5. p.active = TRUE
    BY <1>0, <2>2 DEF Spots
  <2> HIDE DEF s
  <2> QED
    BY <2>1, <2>2, <2>4, <2>5
<1>2. /\ Zone(Floor, q) = IF q.zone = Same THEN spot[s].zone ELSE q.zone
      /\ Cell(Floor, q) = IF q.cell = Same THEN spot[s].cell ELSE q.cell
  BY DEF Zone, Cell, Floor
<1>3. /\ q.number # Same => q.number \in Names
      /\ q.zone # Same => q.zone \in Zones
      /\ q.cell # Same => q.cell \in Cells
  BY DEF WellAsked, Asks
<1>4. spot[s].number \in Names /\ spot[s].zone \in Zones /\ spot[s].cell \in Cells \cup {Nothing}
  BY <1>0 DEF Seated, Laid, Spots
<1>5. Changed(Floor, q) \in Spots
  <2>1. /\ Changed(Floor, q).number \in Names /\ Zone(Floor, q) \in Zones
        /\ Cell(Floor, q) \in Cells \cup {Nothing}
    BY <1>1, <1>2, <1>3, <1>4
  <2> QED BY <1>1, <2>1 DEF Spots
<1>6. /\ spot'[s] = Changed(Floor, q)
      /\ \A u \in TableIds : u # s => spot'[u] = spot[u]
      /\ spot' \in [TableIds -> Spots]
  BY <1>0, <1>5 DEF FloorTyped
<1>a. spot'[s].number \in Names /\ spot'[s].zone \in Zones /\ spot'[s].active
  BY <1>1, <1>2, <1>3, <1>4, <1>6
<1>b. Seated'
  BY <1>6, <1>a DEF Seated, Laid
<1>m. CASE Renumbers(setting)
  BY <1>1, <1>6, <1>b, <1>m DEF Laid, Renumbers
<1> SUFFICES ASSUME ~Renumbers(setting)
             PROVE  /\ spot' \in [TableIds -> Spots] /\ Laid'
                     /\ \A t \in TableIds : spot[t].active => spot'[t].active
  BY <1>m
<1>n. Renumbers(setting)' = Renumbers(setting) /\ Leaves(setting)' = Leaves(setting)
  BY DEF Renumbers, Leaves
<1>7. AllInUse' /\ LastInUse'
  BY <1>6, <1>a, <1>n DEF AllInUse, LastInUse, Laid
<1>8. ASSUME NEW u \in TableIds, u # s, spot[u].active
      PROVE  /\ Fold[spot[u].number] # Fold[Changed(Floor, q).number]
             /\ Workshop \/ <<spot[u].zone, spot[u].cell>> # <<Zone(Floor, q), Cell(Floor, q)>>
  <2>1. /\ Fold[spot[u].number] # Fold[spot[s].number]
        /\ Workshop \/ <<spot[u].zone, spot[u].cell>> # <<spot[s].zone, spot[s].cell>>
    BY <1>0, <1>8 DEF OneTablePerPlace, Active, Floor, Laid
  <2>2. Fold[spot[u].number] # Fold[Changed(Floor, q).number]
    <3>1. CASE q.number = Same
      BY <1>1, <2>1, <3>1
    <3>2. CASE q.number # Same
      <4>1. CASE Fold[q.number] = Fold[spot[s].number]
        BY <1>1, <2>1, <3>2, <4>1
      <4>2. CASE Taken(Floor, q.number) \ {s} = {}
        <5>1. spot[u].number \in Names
          BY <1>8 DEF Seated, Laid
        <5> QED
          BY <1>1, <1>8, <3>2, <4>2, <5>1 DEF Taken, Like, Active, Floor
      <4> QED
        BY <3>2, <4>1, <4>2 DEF CanUpdateTable, CanRenumber, Floor
    <3> QED BY <3>1, <3>2
  <2>3. ASSUME ~Workshop
        PROVE  <<spot[u].zone, spot[u].cell>> # <<Zone(Floor, q), Cell(Floor, q)>>
    <3>1. CASE q.cell # Same \/ Moves(Floor, s, Zone(Floor, q))
      <4>1. TakenCell(Floor, Zone(Floor, q), Cell(Floor, q)) \ {s} = {}
        BY <2>3, <3>1 DEF CanUpdateTable, CanPlace
      <4> QED
        BY <1>8, <4>1 DEF TakenCell, Active, Floor
    <3>2. CASE ~(q.cell # Same \/ Moves(Floor, s, Zone(Floor, q)))
      <4>1. Zone(Floor, q) = spot[s].zone /\ Cell(Floor, q) = spot[s].cell
        BY <1>2, <3>2 DEF Moves, Floor
      <4> QED BY <2>1, <2>3, <4>1
    <3> QED BY <3>1, <3>2
  <2> QED BY <2>2, <2>3
<1>9. OneTablePerPlace'
  <2> SUFFICES ASSUME NEW t \in TableIds, NEW u \in TableIds, t # u, spot'[t].active,
                      spot'[u].active
               PROVE  /\ Fold[spot'[t].number] # Fold[spot'[u].number]
                      /\ Workshop \/ <<spot'[t].zone, spot'[t].cell>>
                                         # <<spot'[u].zone, spot'[u].cell>>
    BY DEF OneTablePerPlace, Active, Floor, Workshop
  <2>1. CASE t = s
    BY <1>1, <1>6, <1>8, <2>1
  <2>2. CASE u = s
    BY <1>1, <1>6, <1>8, <2>2
  <2>3. CASE t # s /\ u # s
    BY <1>6, <2>3 DEF OneTablePerPlace, Active, Floor, Laid
  <2> QED
    BY <2>1, <2>2, <2>3
<1> QED
  BY <1>1, <1>6, <1>b, <1>7, <1>9 DEF Laid

\* A table that is hidden, or whose vehicle leaves.
LEMMA Hides ==
    ASSUME FloorTyped, Laid, setting' = setting, Leaves(setting),
           NEW s \in TableIds, spot[s].active, spot' = [spot EXCEPT ![s].active = FALSE]
    PROVE  spot' \in [TableIds -> Spots] /\ Laid'
<1>0. spot[s] \in Spots /\ spot[s].number \in Names
  BY DEF FloorTyped, Seated, Laid
<1>1. /\ spot'[s] = [spot[s] EXCEPT !.active = FALSE]
      /\ \A u \in TableIds : u # s => spot'[u] = spot[u]
      /\ spot' \in [TableIds -> Spots]
  BY <1>0 DEF FloorTyped, Spots
<1>2. /\ ~spot'[s].active /\ spot'[s].number = spot[s].number
      /\ spot'[s] # NoSpot /\ spot[s] # NoSpot
  BY <1>0, <1>1, SalonAssumption DEF Spots, NoSpot
<1>b. Seated'
  BY <1>1, <1>2 DEF Seated, Laid
<1>m. CASE Renumbers(setting)
  BY <1>1, <1>b, <1>m DEF Laid, Renumbers
<1> SUFFICES ASSUME ~Renumbers(setting)
             PROVE  spot' \in [TableIds -> Spots] /\ Laid'
  BY <1>m
<1>n. Renumbers(setting)' = Renumbers(setting) /\ Leaves(setting)' = Leaves(setting)
  BY DEF Renumbers, Leaves
<1>3. AllInUse'
  BY <1>n DEF AllInUse
<1>4. \A t \in TableIds : /\ spot'[t].number = spot[t].number
                          /\ spot'[t].active => spot[t].active /\ spot'[t] = spot[t]
                          /\ spot'[t] = NoSpot <=> spot[t] = NoSpot
  BY <1>1, <1>2
<1>5. LastInUse'
  BY <1>4 DEF LastInUse, Alike, Laid
<1>6. OneTablePerPlace'
  <2> SUFFICES ASSUME NEW t \in TableIds, NEW u \in TableIds, t # u, spot'[t].active,
                      spot'[u].active
               PROVE  /\ Fold[spot'[t].number] # Fold[spot'[u].number]
                      /\ Workshop \/ <<spot'[t].zone, spot'[t].cell>>
                                         # <<spot'[u].zone, spot'[u].cell>>
    BY DEF OneTablePerPlace, Active, Floor, Workshop
  <2>1. t # s /\ u # s
    BY <1>2
  <2> QED
    BY <1>1, <2>1 DEF OneTablePerPlace, Active, Floor, Laid
<1> QED
  BY <1>1, <1>b, <1>3, <1>5, <1>6 DEF Laid

\* A table deleted leaves its place, and its number, to others.
LEMMA Deletes ==
    ASSUME FloorTyped, Laid, setting' = setting,
           NEW s \in TableIds, spot[s].active,
           spot' = [spot EXCEPT ![s].active = FALSE, ![s].number = Nothing]
    PROVE  /\ spot' \in [TableIds -> Spots] /\ Laid'
           /\ \A t \in TableIds \ {s} : spot'[t] = spot[t]
<1>0. spot[s] \in Spots /\ spot[s].number \in Names /\ spot[s].zone \in Zones
  BY DEF FloorTyped, Seated, Laid
<1>1. /\ spot'[s] = [spot[s] EXCEPT !.active = FALSE, !.number = Nothing]
      /\ \A u \in TableIds : u # s => spot'[u] = spot[u]
      /\ spot' \in [TableIds -> Spots]
  BY <1>0 DEF FloorTyped, Spots
<1>2. /\ ~spot'[s].active /\ spot'[s].number \notin Names
      /\ spot'[s] # NoSpot /\ spot[s] # NoSpot
  BY <1>0, <1>1, SalonAssumption DEF Spots, NoSpot
<1>3. \A t \in TableIds : /\ spot'[t].number \in Names => spot'[t] = spot[t]
                          /\ spot'[t].active => spot'[t] = spot[t]
                          /\ spot'[t] = NoSpot <=> spot[t] = NoSpot
  BY <1>1, <1>2
<1>b. Seated'
  BY <1>3 DEF Seated, Laid
<1>m. CASE Renumbers(setting)
  BY <1>1, <1>b, <1>m DEF Laid, Renumbers
<1> SUFFICES ASSUME ~Renumbers(setting)
             PROVE  /\ spot' \in [TableIds -> Spots] /\ Laid'
                     /\ \A t \in TableIds \ {s} : spot'[t] = spot[t]
  BY <1>m
<1>n. Renumbers(setting)' = Renumbers(setting) /\ Leaves(setting)' = Leaves(setting)
  BY DEF Renumbers, Leaves
<1>4. AllInUse'
  BY <1>3, <1>n DEF AllInUse, Laid
<1>5. LastInUse'
  <2>1. \A t, u \in TableIds : Alike(t, u)' => Alike(t, u) /\ spot'[t] = spot[t]
    BY <1>3 DEF Alike
  <2> QED
    BY <1>3, <2>1 DEF LastInUse, Laid
<1>6. OneTablePerPlace'
  <2> SUFFICES ASSUME NEW t \in TableIds, NEW u \in TableIds, t # u, spot'[t].active,
                      spot'[u].active
               PROVE  /\ Fold[spot'[t].number] # Fold[spot'[u].number]
                      /\ Workshop \/ <<spot'[t].zone, spot'[t].cell>>
                                         # <<spot'[u].zone, spot'[u].cell>>
    BY DEF OneTablePerPlace, Active, Floor, Workshop
  <2>1. t # s /\ u # s
    BY <1>2
  <2> QED
    BY <1>1, <2>1 DEF OneTablePerPlace, Active, Floor, Laid
<1> QED
  BY <1>1, <1>b, <1>4, <1>5, <1>6 DEF Laid

-----------------------------------------------------------------------------
(* The orders at the tables.                                                *)
\* Orders that stay where they are, and of which none is opened.
LEMMA HeadsStay ==
    ASSUME OpenSeen, setting' = setting,
           "hide" \notin setting.kinds =>
              \A h \in OpenHeads : spot[head[h].spot].active => spot'[head[h].spot].active,
           \A h \in OrderIds : /\ head'[h].spot = head[h].spot
                               /\ head'[h].status = "OPEN" => head[h].status = "OPEN"
    PROVE  OpenSeen'
<1>1. \A h \in OpenHeads' : h \in OpenHeads /\ head'[h].spot = head[h].spot
  BY DEF OpenHeads
<1> HIDE DEF OpenHeads
<1> QED
  BY <1>1 DEF OpenSeen

\* The order of a table that opens, or of a vehicle received.
LEMMA HeadOpens ==
    ASSUME HeadTyped, OpenSeen, setting' = setting, HeadLeft, NEW s \in TableIds, NEW tech,
           spot'[s].active, \A t \in TableIds : spot[t].active => spot'[t].active,
           "hide" \notin setting.kinds => \A h \in OpenHeads : head[h].spot # s,
           head' = [head EXCEPT ![NextHead] = [status |-> "OPEN", tech |-> tech, spot |-> s]]
    PROVE  HeadTyped' /\ OpenSeen'
<1> DEFINE new == NextHead
<1>1. new \in OrderIds
  <2>1. {h \in OrderIds : head[h] = NoHead} \in SUBSET Nat
    BY SalonAssumption
  <2>2. IsFiniteSet({h \in OrderIds : head[h] = NoHead})
    BY SalonAssumption, FS_Subset
  <2> QED
    BY <2>1, <2>2, LeastIn DEF HeadLeft, NextHead
<1> HIDE DEF new
<1>2. /\ head'[new].status = "OPEN" /\ head'[new].spot = s /\ head'[new].tech = tech
      /\ \A h \in OrderIds : h # new => head'[h] = head[h]
      /\ DOMAIN head' = OrderIds
      /\ head' = [h \in OrderIds |-> head'[h]]
  BY <1>1 DEF HeadTyped, new
<1>3. HeadTyped'
  <2>1. \A h \in OrderIds : head'[h] = [status |-> head'[h].status, spot |-> head'[h].spot,
                                        tech |-> head'[h].tech]
    <3> TAKE h \in OrderIds
    <3>1. CASE h = new
      <4>1. head'[new] = [status |-> "OPEN", tech |-> tech, spot |-> s]
        BY <1>1 DEF HeadTyped, new
      <4> QED BY <3>1, <4>1
    <3>2. CASE h # new
      BY <1>2, <3>2 DEF HeadTyped
    <3> QED BY <3>1, <3>2
  <2> QED
    BY <1>2, <2>1 DEF HeadTyped
<1>4. \A h \in OpenHeads' : h # new => h \in OpenHeads /\ head'[h].spot = head[h].spot
  BY <1>2 DEF OpenHeads
<1> HIDE DEF OpenHeads
<1>5. OpenSeen'
  <2> SUFFICES ASSUME "hide" \notin setting.kinds
               PROVE  OpenSeen'
    BY DEF OpenSeen
  <2>1. /\ \A h \in OpenHeads : head[h].spot \in TableIds /\ spot[head[h].spot].active
        /\ \A g, h \in OpenHeads : head[g].spot = head[h].spot => g = h
    BY DEF OpenSeen
  <2>2. \A h \in OpenHeads' : head'[h].spot \in TableIds /\ spot'[head'[h].spot].active
    BY <1>2, <1>4, <2>1
  <2>3. \A g, h \in OpenHeads' : head'[g].spot = head'[h].spot => g = h
    BY <1>2, <1>4, <2>1
  <2> QED
    BY <2>2, <2>3 DEF OpenSeen
<1> QED
  BY <1>3, <1>5

\* The floor of tables stays as it is.
LEMMA LaidStays ==
    ASSUME Laid, setting' = setting, spot' = spot
    PROVE  Laid'
<1>1. Renumbers(setting)' = Renumbers(setting) /\ Leaves(setting)' = Leaves(setting)
  BY DEF Renumbers, Leaves
<1> QED
  BY <1>1 DEF Laid, Seated, AllInUse, LastInUse, Alike, OneTablePerPlace, Active, Floor, Workshop

-----------------------------------------------------------------------------
(* What each request writes, when it has read the floor as it is.           *)
Granted(q) ==
    /\ FloorTyped /\ Laid /\ OpenSeen /\ WellAsked(q) /\ Accepts(Floor, q)
    /\ NeedsSpot(Floor, q) => SpotLeft
    /\ q.kind \in {"open", "receive"} => HeadLeft
    /\ setting' = setting
    /\ spot' = SpotsAfter(Floor, q) /\ head' = HeadsAfter(Floor, q)

Written == spot' \in [TableIds -> Spots] /\ HeadTyped' /\ Laid' /\ OpenSeen'

\* The first row that is free.
LEMMA FreeRow ==
    ASSUME FloorTyped, SpotLeft
    PROVE  /\ NextSpot \in TableIds /\ spot[NextSpot] = NoSpot
           /\ \A u \in TableIds : spot[u] = NoSpot => NextSpot <= u
<1>1. {t \in TableIds : spot[t] = NoSpot} # {}
  BY SalonAssumption DEF FloorTyped, AskTyped, SpotLeft
<1>2. {t \in TableIds : spot[t] = NoSpot} \in SUBSET Nat
  BY SalonAssumption
<1>3. IsFiniteSet({t \in TableIds : spot[t] = NoSpot})
  BY SalonAssumption, FS_Subset
<1> QED
  BY <1>1, <1>2, <1>3, LeastIn DEF NextSpot

\* A table created has a number and a place nobody has.
LEMMA CreateWrites == ASSUME NEW q, Granted(q), q.kind = "create" PROVE Written
<1>1. CanCreate(Floor, q)
  BY DEF Granted, Accepts
<1>2. spot' = [spot EXCEPT ![NextSpot] = NewSpot(q)] /\ head' = head
  BY DEF Granted, SpotsAfter, HeadsAfter
<1>3. q.number \in Names /\ q.zone \in Zones /\ q.cell \in Cells \cup {Nothing}
  BY DEF Granted, WellAsked, Asks
<1>4. ASSUME NEW u \in TableIds, spot[u].active
      PROVE  /\ Fold[spot[u].number] # Fold[q.number]
             /\ Workshop \/ <<spot[u].zone, spot[u].cell>> # <<q.zone, q.cell>>
  <2>1. spot[u].number \in Names
    BY <1>4 DEF Granted, Laid, Seated
  <2> QED
    BY <1>1, <1>4, <2>1 DEF CanCreate, Taken, TakenCell, Like, Active, Floor
<1>5. /\ NextSpot \in TableIds /\ spot[NextSpot] = NoSpot
      /\ \A u \in TableIds : spot[u] = NoSpot => NextSpot <= u
  BY FreeRow DEF Granted, NeedsSpot
<1>6. /\ spot' \in [TableIds -> Spots] /\ Laid'
      /\ \A t \in TableIds : spot[t].active => spot'[t].active
  BY <1>2, <1>3, <1>4, <1>5, Occupies DEF Granted
<1>7. OpenSeen'
  <2>1. "hide" \notin setting.kinds => \A h \in OpenHeads : head[h].spot \in TableIds
    BY DEF Granted, OpenSeen
  <2> QED
    BY <1>2, <1>6, <2>1, HeadsStay DEF Granted
<1> QED
  BY <1>2, <1>6, <1>7 DEF Granted, FloorTyped, AskTyped, HeadTyped, Written

\* So has one that is renumbered or moved.
LEMMA ChangeWrites == ASSUME NEW q, Granted(q), q.kind = "change" PROVE Written
<1>1. CanUpdateTable(Floor, q)
  BY DEF Granted, Accepts
<1>2. spot' = [spot EXCEPT ![q.table] = Changed(Floor, q)] /\ head' = head
  BY DEF Granted, SpotsAfter, HeadsAfter
<1>3. /\ spot' \in [TableIds -> Spots] /\ Laid'
      /\ \A t \in TableIds : spot[t].active => spot'[t].active
  BY <1>1, <1>2, Changes DEF Granted, WellAsked
<1>4. OpenSeen'
  <2>1. "hide" \notin setting.kinds => \A h \in OpenHeads : head[h].spot \in TableIds
    BY DEF Granted, OpenSeen
  <2> QED
    BY <1>2, <1>3, <2>1, HeadsStay DEF Granted
<1> QED
  BY <1>2, <1>3, <1>4 DEF Granted, FloorTyped, AskTyped, HeadTyped, Written

\* A table hidden leaves the others where they are.
LEMMA HideWrites == ASSUME NEW q, Granted(q), q.kind = "hide" PROVE Written
<1>1. q.table \in TableIds /\ spot[q.table].active /\ "hide" \in setting.kinds
  BY DEF Granted, Accepts, CanHide, Active, Floor, WellAsked
<1>2. spot' = [spot EXCEPT ![q.table].active = FALSE] /\ head' = head
  BY DEF Granted, SpotsAfter, HeadsAfter, Leaving
<1>3. spot' \in [TableIds -> Spots] /\ Laid'
  <2>1. Leaves(setting)
    BY <1>1 DEF Leaves
  <2> QED BY <1>1, <1>2, <2>1, Hides DEF Granted
<1>4. OpenSeen'
  BY <1>1 DEF Granted, OpenSeen
<1> QED
  BY <1>2, <1>3, <1>4 DEF Granted, FloorTyped, AskTyped, HeadTyped, Written

\* A table deleted had no order.
LEMMA DeleteWrites == ASSUME NEW q, Granted(q), q.kind = "delete" PROVE Written
<1>1. q.table \in TableIds /\ spot[q.table].active /\ OpenAt(Floor, q.table) = {}
  BY DEF Granted, Accepts, CanDelete, NoOrderAt, Active, Floor
<1>2. /\ spot' = [spot EXCEPT ![q.table].active = FALSE, ![q.table].number = Nothing]
      /\ head' = head
  BY DEF Granted, SpotsAfter, HeadsAfter
<1>3. /\ spot' \in [TableIds -> Spots] /\ Laid'
      /\ \A t \in TableIds \ {q.table} : spot'[t] = spot[t]
  BY <1>1, <1>2, Deletes DEF Granted
<1>4. \A h \in OpenHeads : head[h].spot # q.table
  BY <1>1 DEF OpenHeads, OpenAt, Heads, Floor
<1>5. OpenSeen'
  <2>1. "hide" \notin setting.kinds => \A h \in OpenHeads : head[h].spot \in TableIds
    BY DEF Granted, OpenSeen
  <2> QED
    BY <1>2, <1>3, <1>4, <2>1, HeadsStay DEF Granted
<1> QED
  BY <1>2, <1>3, <1>5 DEF Granted, FloorTyped, AskTyped, HeadTyped, Written

\* The order of a table that opens is its last, and its only open one.
LEMMA OpenWrites == ASSUME NEW q, Granted(q), q.kind = "open" PROVE Written
<1>1. q.table \in TableIds /\ spot[q.table].active /\ OpenAt(Floor, q.table) = {}
  BY DEF Granted, Accepts, CanOpen, NoOrderAt, Active, Floor
<1>2. spot' = spot
  BY DEF Granted, SpotsAfter
<1>3. Laid'
  BY <1>2, LaidStays DEF Granted
<1>4. \A h \in OpenHeads : head[h].spot # q.table
  BY <1>1 DEF OpenHeads, OpenAt, Heads, Floor
<1>5. HeadTyped
  BY DEF Granted, FloorTyped, AskTyped
<1>6. HeadTyped' /\ OpenSeen'
  <2>1. CASE q.valid
    <3>1. head' = [head EXCEPT ![NextHead] = [status |-> "OPEN", spot |-> q.table,
                                              tech |-> Technician(Floor, q.tech)]]
      BY <2>1 DEF Granted, HeadsAfter, NewHead
    <3> QED
      BY <1>1, <1>2, <1>4, <1>5, <3>1, HeadOpens DEF Granted
  <2>2. CASE ~q.valid
    <3>1. head' = head
      BY <2>2 DEF Granted, HeadsAfter
    <3> QED
      BY <1>2, <1>5, <3>1, HeadsStay DEF Granted, HeadTyped
  <2> QED
    BY <2>1, <2>2
<1> QED
  BY <1>2, <1>3, <1>6 DEF Granted, FloorTyped, Written

\* The vehicle has a row of its own or the last one of its number.
LEMMA ReceiveWrites == ASSUME NEW q, Granted(q), q.kind = "receive" PROVE Written
<1> DEFINE n == q.number
           old == Received(Floor, n)
           s == IF old = 0 THEN NextSpot ELSE old
<1>0. Workshop
  BY DEF Granted, Accepts, CanReceive
<1>a. old # 0 => OpenAt(Floor, old) = {}
  BY DEF Granted, Accepts, CanReceive, NoOrderAt
<1>1. /\ HeadLeft /\ "receive" \in setting.kinds
      /\ n \in Names /\ q.zone \in Zones /\ q.cell \in Cells \cup {Nothing}
  BY DEF Granted, WellAsked, Asks
<1>2. spot' = Arrived(Floor, q)
  BY DEF Granted, SpotsAfter
<1>3. /\ spot' \in [TableIds -> Spots] /\ Laid' /\ s \in TableIds /\ spot'[s].active
      /\ \A t \in TableIds : spot[t].active => spot'[t].active
      /\ "hide" \notin setting.kinds => \A h \in OpenHeads : head[h].spot # s
  <2>1. CASE Like(Floor, n) = {}
    <3>1. old = 0
      BY <2>1 DEF Received
    <3>2. spot' = [spot EXCEPT ![NextSpot] = NewSpot(q)]
      BY <1>2, <3>1 DEF Arrived
    <3>3. ASSUME NEW u \in TableIds, spot[u].active
          PROVE  Fold[spot[u].number] # Fold[n]
      <4>1. spot[u].number \in Names
        BY <3>3 DEF Granted, Laid, Seated
      <4> QED
        BY <2>1, <4>1 DEF Like, Floor
    <3>4. /\ NextSpot \in TableIds /\ spot[NextSpot] = NoSpot
          /\ \A u \in TableIds : spot[u] = NoSpot => NextSpot <= u
      BY <3>1, FreeRow DEF Granted, NeedsSpot
    <3>a. FloorTyped /\ Laid /\ setting' = setting
      BY DEF Granted
    <3>b. q.number \in Names /\ q.zone \in Zones /\ q.cell \in Cells \cup {Nothing}
      BY <1>1
    <3>c. ASSUME NEW u \in TableIds, spot[u].active
          PROVE  /\ Fold[spot[u].number] # Fold[q.number]
                 /\ Workshop \/ <<spot[u].zone, spot[u].cell>> # <<q.zone, q.cell>>
      BY <1>0, <3>3, <3>c
    <3> HIDE DEF old, s, n
    <3>5. /\ spot' \in [TableIds -> Spots] /\ Laid'
          /\ spot'[NextSpot].active /\ ~spot[NextSpot].active
          /\ \A t \in TableIds : spot[t].active => spot'[t].active
      BY <3>a, <3>b, <3>c, <3>2, <3>4, Occupies
    <3>6. "hide" \notin setting.kinds => \A h \in OpenHeads : head[h].spot # NextSpot
      BY <3>5 DEF Granted, OpenSeen
    <3> QED
      BY <3>1, <3>4, <3>5, <3>6 DEF s
  <2>2. CASE Like(Floor, n) # {}
    <3>1. Like(Floor, n) \in SUBSET Nat /\ IsFiniteSet(Like(Floor, n))
      BY SalonAssumption, FS_Subset DEF Like
    <3>2. old \in Like(Floor, n) /\ \A u \in Like(Floor, n) : u <= old
      BY <2>2, <3>1, GreatestIn DEF Received
    <3>3. /\ old \in TableIds /\ old # 0 /\ spot[old].number \in Names
          /\ Fold[spot[old].number] = Fold[n]
          /\ \A u \in TableIds : spot[u].number \in Names /\ Fold[spot[u].number] = Fold[n]
                => u <= old
      BY <3>2, SalonAssumption DEF Like, Floor
    <3>4. spot' = [spot EXCEPT ![old] = [@ EXCEPT !.active = TRUE, !.zone = q.zone]]
      BY <1>2, <3>3 DEF Arrived
    <3>a. FloorTyped /\ Laid /\ setting' = setting
      BY DEF Granted
    <3> HIDE DEF old, s, n
    <3>6. /\ spot' \in [TableIds -> Spots] /\ Laid' /\ spot'[old].active
          /\ \A t \in TableIds : spot[t].active => spot'[t].active
      BY <1>0, <1>1, <3>a, <3>3, <3>4, Returns
    <3>7. \A h \in OpenHeads : head[h].spot # old
      BY <1>a, <3>3 DEF OpenHeads, OpenAt, Heads, Floor
    <3> QED
      BY <3>3, <3>6, <3>7 DEF s
  <2> QED
    BY <2>1, <2>2
<1>4. HeadTyped
  BY DEF Granted, FloorTyped, AskTyped
<1>5. HeadTyped' /\ OpenSeen'
  <2>1. CASE q.valid
    <3>1. head' = [head EXCEPT ![NextHead] = [status |-> "OPEN", spot |-> s,
                                              tech |-> Technician(Floor, q.tech)]]
      BY <2>1 DEF Granted, HeadsAfter, NewHead
    <3> HIDE DEF s
    <3> QED
      BY <1>1, <1>3, <1>4, <3>1, HeadOpens DEF Granted
  <2>2. CASE ~q.valid
    <3>1. head' = head
      BY <2>2 DEF Granted, HeadsAfter
    <3>2. "hide" \notin setting.kinds => \A h \in OpenHeads : head[h].spot \in TableIds
      BY DEF Granted, OpenSeen
    <3> QED
      BY <1>3, <1>4, <3>1, <3>2, HeadsStay DEF Granted, HeadTyped
  <2> QED
    BY <2>1, <2>2
<1> QED
  BY <1>3, <1>5 DEF Written

\* An order that is assigned, or ends while its table stays.
LEMMA OrderStays ==
    ASSUME FloorTyped, Laid, OpenSeen, setting' = setting, spot' = spot, NEW h0, NEW v,
           \/ head' = [head EXCEPT ![h0].tech = v]
           \/ head' = [head EXCEPT ![h0].status = "CLOSED"]
           \/ head' = [head EXCEPT ![h0].status = "CANCELLED"]
    PROVE  Written
<1>1. HeadTyped
  BY DEF FloorTyped, AskTyped
<1>2. /\ HeadTyped'
      /\ \A h \in OrderIds : /\ head'[h].spot = head[h].spot
                             /\ head'[h].status = "OPEN" => head[h].status = "OPEN"
  BY <1>1 DEF HeadTyped
<1>3. OpenSeen'
  BY <1>2, HeadsStay
<1> QED
  BY <1>2, <1>3, LaidStays DEF FloorTyped, Written

\* One that is assigned or cancelled.
LEMMA OrderWrites == ASSUME NEW q, Granted(q), q.kind \in {"assign", "free"} PROVE Written
<1>1. spot' = spot
  BY DEF Granted, SpotsAfter
<1>2. PICK h0, v : \/ head' = [head EXCEPT ![h0].tech = v]
                   \/ head' = [head EXCEPT ![h0].status = "CANCELLED"]
  BY DEF Granted, HeadsAfter, Assigned
<1>3. FloorTyped /\ Laid /\ OpenSeen /\ setting' = setting
  BY DEF Granted
<1> QED
  BY <1>1, <1>2, <1>3, OrderStays

\* One that is charged was the only one of its table, which a workshop puts out of
\* use.
LEMMA CloseWrites == ASSUME NEW q, Granted(q), q.kind = "close" PROVE Written
<1>1. PICK t, h0 : t = q.table /\ h0 = StatusOf(Floor, q.table)
  OBVIOUS
<1>2. head' = [head EXCEPT ![h0].status = "CLOSED"]
  BY <1>1 DEF Granted, HeadsAfter
<1>3. t \in TableIds /\ "close" \in setting.kinds
  BY <1>1 DEF Granted, WellAsked
<1>4. spot' = IF Workshop THEN [spot EXCEPT ![t].active = FALSE] ELSE spot
  BY <1>1 DEF Granted, SpotsAfter, Charged, Leaving
<1>5. FloorTyped /\ Laid /\ OpenSeen /\ setting' = setting /\ HeadTyped
  BY DEF Granted, FloorTyped, AskTyped
<1>6. CASE ~Workshop \/ ~spot[t].active
  <2>1. spot' = spot
    <3>1. CASE ~Workshop
      BY <1>4, <3>1
    <3>2. CASE Workshop /\ ~spot[t].active
      <4>1. spot[t] \in Spots /\ spot \in [TableIds -> Spots]
        BY <1>3, <1>5 DEF FloorTyped
      <4>2. [spot[t] EXCEPT !.active = FALSE] = spot[t]
        BY <3>2, <4>1 DEF Spots
      <4> QED BY <1>3, <1>4, <3>2, <4>1, <4>2
    <3> QED BY <1>6, <3>1, <3>2
  <2> QED BY <1>2, <1>5, <2>1, OrderStays
<1>7. CASE Workshop /\ spot[t].active
  <2>1. spot' = [spot EXCEPT ![t].active = FALSE] /\ Leaves(setting)
    BY <1>3, <1>4, <1>7 DEF Leaves, Workshop
  <2>2. spot' \in [TableIds -> Spots] /\ Laid'
    BY <1>3, <1>5, <1>7, <2>1, Hides
  <2>3. h0 \in OrderIds /\ head[h0].status = "OPEN" /\ head[h0].spot = t
    <3>1. OpenAt(Floor, t) # {}
      BY <1>1 DEF Granted, Accepts, CanClose
    <3>2. OpenAt(Floor, t) \in SUBSET Nat /\ IsFiniteSet(OpenAt(Floor, t))
      BY SalonAssumption, FS_Subset DEF OpenAt, Heads
    <3>3. h0 \in OpenAt(Floor, t)
      BY <1>1, <3>1, <3>2, GreatestIn DEF StatusOf
    <3> QED BY <3>3 DEF OpenAt, Heads, Floor
  <2>4. /\ HeadTyped'
        /\ \A h \in OrderIds : head'[h].spot = head[h].spot
        /\ \A h \in OpenHeads' : h \in OpenHeads /\ h # h0
    BY <1>2, <1>5, <2>3 DEF HeadTyped, OpenHeads
  <2>5. OpenSeen'
    <3> SUFFICES ASSUME "hide" \notin setting.kinds PROVE OpenSeen'
      BY <1>5 DEF OpenSeen
    <3>1. /\ \A h \in OpenHeads : head[h].spot \in TableIds /\ spot[head[h].spot].active
          /\ \A g, h \in OpenHeads : head[g].spot = head[h].spot => g = h
      BY <1>5 DEF OpenSeen
    <3>2. h0 \in OpenHeads /\ OpenHeads \subseteq OrderIds
      BY <2>3 DEF OpenHeads
    <3>3. \A u \in TableIds : u # t => spot'[u] = spot[u]
      BY <1>5, <2>1 DEF FloorTyped
    <3> HIDE DEF OpenHeads
    <3>4. ASSUME NEW h \in OpenHeads'
          PROVE  head'[h].spot \in TableIds /\ spot'[head'[h].spot].active
      <4>1. h \in OpenHeads /\ h # h0 /\ head'[h].spot = head[h].spot
        BY <2>4, <3>2
      <4>2. head[h].spot # t
        BY <2>3, <3>1, <3>2, <4>1
      <4> QED BY <3>1, <3>3, <4>1, <4>2
    <3>5. \A g, h \in OpenHeads' : head'[g].spot = head'[h].spot => g = h
      BY <2>4, <3>1, <3>2
    <3> QED BY <3>4, <3>5 DEF OpenSeen
  <2> QED BY <2>2, <2>4, <2>5 DEF Written
<1> QED
  BY <1>6, <1>7

-----------------------------------------------------------------------------
(* The steps of the floor.                                                  *)

\* An empty floor, and nobody at work.
LEMMA InitFloor == SalonInit => AskInv /\ FloorInv
<1> SUFFICES ASSUME SalonInit PROVE FloorTyped /\ FloorHolds
  BY DEF FloorInv, FloorTyped, FloorHolds, AskInv
<1>1. NoSpot \in Spots /\ ~NoSpot.active /\ NoSpot.number \notin Names
  BY SalonAssumption DEF Spots, NoSpot
<1>2. /\ \A t \in TableIds : spot[t] = NoSpot
      /\ \A h \in OrderIds : head[h] = NoHead
      /\ spot \in [TableIds -> Spots]
  BY <1>1 DEF SalonInit
<1>3. FloorTyped
  <2>1. setting \in Settings
    BY DEF SalonInit, TableInit
  <2>2. head = [h \in OrderIds |-> [status |-> head[h].status, spot |-> head[h].spot,
                                    tech |-> head[h].tech]]
    BY DEF SalonInit, NoHead
  <2>3. task = [r \in Handlers |-> task[r]]
    BY DEF SalonInit
  <2> QED BY <1>2, <2>1, <2>2, <2>3 DEF FloorTyped, AskTyped, HeadTyped
<1>4. AtWork = {}
  BY DEF SalonInit, AtWork
<1>5. Laid
  BY <1>1, <1>2 DEF Laid, Seated, AllInUse, LastInUse, Alike, OneTablePerPlace, Active, Floor
<1>6. OpenSeen
  <2>1. OpenHeads = {}
    BY <1>2 DEF OpenHeads, NoHead
  <2> QED BY <2>1 DEF OpenSeen
<1> QED
  BY <1>3, <1>4, <1>5, <1>6 DEF FloorHolds, ReadHolds, OneRequest

\* Every request that is read names what there is.
LEMMA ReadsNamed ==
    ASSUME AskTyped, NEW r, SalonReads(r)
    PROVE  \E q : Reads(r, q) /\ WellAsked(q)
<1>1. setting.zones \subseteq Zones /\ setting.techs \subseteq {Nothing, AutoTech}
  BY SalonAssumption DEF AskTyped, AutoTech
<1>2. \A q : Reads(r, q) => q.kind \in setting.kinds
  BY DEF Reads
<1>3. ASSUME NEW q, Reads(r, q), q \in Asks,
             /\ q.kind \in {"create", "receive"} =>
                   q.number \in Names /\ q.zone \in Zones /\ q.cell \in Cells \cup {Nothing}
             /\ q.kind \notin {"create", "receive"} => q.table \in TableIds
             /\ q.kind = "change" => q.cell \in Cells \cup {Same}
             /\ q.kind \in {"open", "receive"} => q.tech \in {Nothing, AutoTech}
      PROVE  \E p : Reads(r, p) /\ WellAsked(p)
  BY <1>2, <1>3 DEF WellAsked
<1>a. ASSUME NEW kind \in FloorKinds, NEW t \in TableIds \cup {0}
      PROVE  /\ Plain(kind, t) \in Asks
             /\ Plain(kind, t).kind = kind /\ Plain(kind, t).table = t
             /\ Plain(kind, t).tech = Nothing
  BY DEF Plain, Asks
<1> HIDE DEF Reads, Plain
<1> USE DEF FloorKinds
<1>4. ASSUME NEW n \in Names, NEW z \in setting.zones, NEW c \in Cells \cup {Nothing},
             Reads(r, [Plain("create", 0) EXCEPT !.number = n, !.zone = z, !.cell = c])
      PROVE  \E p : Reads(r, p) /\ WellAsked(p)
  <2> DEFINE q == [Plain("create", 0) EXCEPT !.number = n, !.zone = z, !.cell = c]
  <2>a. PICK p \in Asks : p = Plain("create", 0)
    BY <1>a
  <2>b. p.kind = "create" /\ p.table = 0 /\ z \in Zones
    BY <1>1, <1>a, <2>a
  <2>c. q = [p EXCEPT !.number = n, !.zone = z, !.cell = c]
    BY <2>a
  <2>1. q \in Asks /\ q.kind = "create" /\ q.number = n /\ q.zone = z /\ q.cell = c
    BY <2>b, <2>c DEF Asks
  <2> HIDE DEF q
  <2>2. Reads(r, q)
    BY <1>4 DEF q
  <2> QED BY <1>1, <1>3, <2>1, <2>2
<1>5. ASSUME NEW n \in Names, NEW z \in setting.zones, NEW tech \in {Nothing, AutoTech},
             NEW valid \in BOOLEAN,
             Reads(r, [Plain("receive", 0) EXCEPT !.number = n, !.zone = z, !.cell = Nothing,
                                                  !.tech = tech, !.valid = valid])
      PROVE  \E p : Reads(r, p) /\ WellAsked(p)
  <2> DEFINE q == [Plain("receive", 0) EXCEPT !.number = n, !.zone = z, !.cell = Nothing,
                                              !.tech = tech, !.valid = valid]
  <2>a. PICK p \in Asks : p = Plain("receive", 0)
    BY <1>a
  <2>b. p.kind = "receive" /\ p.table = 0 /\ z \in Zones
    BY <1>1, <1>a, <2>a
  <2>c. q = [p EXCEPT !.number = n, !.zone = z, !.cell = Nothing,
                           !.tech = tech, !.valid = valid]
    BY <2>a
  <2>1. q \in Asks /\ q.kind = "receive" /\ q.number = n /\ q.zone = z /\ q.cell = Nothing
        /\ q.tech \in {Nothing, AutoTech}
    BY <2>b, <2>c DEF Asks
  <2> HIDE DEF q
  <2>2. Reads(r, q)
    BY <1>5 DEF q
  <2> QED BY <1>1, <1>3, <2>1, <2>2
<1>6. ASSUME NEW t \in TableIds, NEW kind \in {"hide", "delete", "open", "close", "free"},
             Reads(r, Plain(kind, t))
      PROVE  \E p : Reads(r, p) /\ WellAsked(p)
  BY <1>3, <1>6, <1>a
<1>7. ASSUME NEW t \in TableIds, NEW n \in Names \cup {Same}, NEW z \in setting.zones \cup {Same},
             NEW c \in Cells \cup {Same},
             Reads(r, [Plain("change", t) EXCEPT !.number = n, !.zone = z, !.cell = c])
      PROVE  \E p : Reads(r, p) /\ WellAsked(p)
  <2> DEFINE q == [Plain("change", t) EXCEPT !.number = n, !.zone = z, !.cell = c]
  <2>a. PICK p \in Asks : p = Plain("change", t)
    BY <1>a
  <2>b. p.kind = "change" /\ p.table = t /\ z \in Zones \cup {Same}
    BY <1>1, <1>a, <2>a
  <2>c. q = [p EXCEPT !.number = n, !.zone = z, !.cell = c]
    BY <2>a
  <2>1. q \in Asks /\ q.kind = "change" /\ q.table = t /\ q.cell = c
    BY <2>b, <2>c DEF Asks
  <2> HIDE DEF q
  <2>2. Reads(r, q)
    BY <1>7 DEF q
  <2> QED BY <1>1, <1>3, <2>1, <2>2
<1>8. ASSUME NEW t \in TableIds, NEW tech \in Techs \cup {Nothing, AutoTech},
             Reads(r, [Plain("assign", t) EXCEPT !.tech = tech])
      PROVE  \E p : Reads(r, p) /\ WellAsked(p)
  <2> DEFINE q == [Plain("assign", t) EXCEPT !.tech = tech]
  <2>1. q \in Asks /\ q.kind = "assign" /\ q.table = t
    BY <1>1, <1>a DEF Asks
  <2> HIDE DEF q
  <2>2. Reads(r, q)
    BY <1>8 DEF q
  <2> QED BY <1>3, <2>1, <2>2
<1> QED
  BY <1>1, <1>4, <1>5, <1>6, <1>7, <1>8 DEF SalonReads

\* Reading and writing, where requests come one at a time.
LEMMA AskReads ==
    ASSUME AskTyped, OneByOne(setting), NEW r \in Handlers, SalonReads(r)
    PROVE  UNCHANGED <<setting, spot, head>> /\ AskTyped' /\ ReadHolds' /\ OneRequest'
<1>1. PICK q : Reads(r, q) /\ WellAsked(q)
  BY ReadsNamed
<1>2. UNCHANGED <<setting, spot, head>>
  BY <1>1 DEF Reads, tableVars, floor
<1>3. AtWork = {}
  BY <1>1 DEF Reads, WellAsked, Asks, OneByOne
<1>4. /\ task'[r] = [kind |-> "write", q |-> q, seen |-> Floor]
      /\ \A s \in Handlers : s # r => task'[s] = NoTask
      /\ task' = [s \in Handlers |-> task'[s]]
  BY <1>1, <1>3 DEF AskTyped, Reads, AtWork
<1>5. AtWork' \subseteq {r}
  BY <1>4 DEF AtWork
<1>6. /\ Floor' = Floor /\ WellAsked(q)' /\ Accepts(Floor, q)' /\ SpotLeft' = SpotLeft
      /\ HeadLeft' = HeadLeft /\ (NeedsSpot(Floor, q)' <=> NeedsSpot(Floor, q))
  <2>1. Floor' = Floor
    BY <1>2 DEF Floor
  <2>2. WellAsked(q)'
    BY <1>1, <1>2 DEF WellAsked
  <2>3. Accepts(Floor, q)' <=> Accepts(Floor, q)
    BY <1>2, <2>1 DEF Accepts, CanCreate, CanUpdateTable, CanRenumber, CanPlace, CanHide, CanDelete,
          CanOpen, CanReceive, CanAssign, CanClose, CanCancelOrder, Workshop
  <2> QED
    BY <1>1, <1>2, <2>1, <2>2, <2>3 DEF Reads, SpotLeft, HeadLeft, NeedsSpot
<1>7. ReadHolds' /\ OneRequest'
  BY <1>1, <1>4, <1>5, <1>6 DEF ReadHolds, OneRequest, Reads
<1> QED
  BY <1>2, <1>4, <1>7 DEF AskTyped, HeadTyped

\* What was read is the floor as it is when it is written.
LEMMA AskWrites ==
    ASSUME AskTyped, ReadHolds, OneRequest, NEW r \in Handlers, Writes(r)
    PROVE  /\ setting' = setting /\ ReadHolds' /\ OneRequest'
           /\ task' = [s \in Handlers |-> task'[s]]
           /\ WellAsked(task[r].q) /\ Accepts(Floor, task[r].q) /\ task[r].seen = Floor
           /\ NeedsSpot(Floor, task[r].q) => SpotLeft
           /\ task[r].q.kind \in {"open", "receive"} => HeadLeft
<1>1. r \in AtWork
  BY DEF Writes, AtWork, NoTask
<1>2. task[r] = [kind |-> "write", q |-> task[r].q, seen |-> Floor] /\ task[r].seen = Floor
  BY <1>1 DEF ReadHolds
<1>3. setting' = setting /\ task' = [task EXCEPT ![r] = NoTask]
  BY DEF Writes, tableVars
<1>4. AtWork' = {} /\ task' = [s \in Handlers |-> task'[s]]
  BY <1>1, <1>3 DEF AtWork, AskTyped, OneRequest
<1>5. ReadHolds' /\ OneRequest'
  BY <1>4 DEF ReadHolds, OneRequest
<1> QED
  BY <1>1, <1>2, <1>3, <1>4, <1>5 DEF ReadHolds

\* A request that reads leaves the floor as it is, and holds what it read.
LEMMA FloorReads ==
    ASSUME FloorTyped, FloorHolds, OneByOne(setting), NEW r \in Handlers, SalonReads(r)
    PROVE  FloorTyped' /\ FloorHolds'
<1>1. UNCHANGED <<setting, spot, head>> /\ AskTyped' /\ ReadHolds' /\ OneRequest'
  BY AskReads DEF FloorTyped
<1>2. Laid' /\ OpenSeen'
  BY <1>1, LaidStays DEF FloorHolds, OpenSeen, OpenHeads
<1> QED
  BY <1>1, <1>2 DEF FloorTyped, FloorHolds

\* A request that writes.
LEMMA FloorWrites ==
    ASSUME FloorTyped, FloorHolds, OneByOne(setting), NEW r \in Handlers, Writes(r)
    PROVE  FloorTyped' /\ FloorHolds'
<1> DEFINE q == task[r].q
<1>1. /\ setting' = setting /\ ReadHolds' /\ OneRequest'
      /\ task' = [s \in Handlers |-> task'[s]]
      /\ WellAsked(q) /\ Accepts(Floor, q) /\ task[r].seen = Floor
      /\ NeedsSpot(Floor, q) => SpotLeft
      /\ q.kind \in {"open", "receive"} => HeadLeft
  BY AskWrites DEF FloorTyped, FloorHolds
<1>2. spot' \in [TableIds -> Spots] /\ HeadTyped' /\ Laid' /\ OpenSeen'
  <2>1. CASE IndexRefuses(q)
    <3>1. UNCHANGED floor
      BY <2>1 DEF Writes
    <3> QED
      BY <1>1, <3>1, LaidStays DEF floor, FloorTyped, AskTyped, HeadTyped, FloorHolds, OpenSeen,
                                   OpenHeads
  <2>2. CASE ~IndexRefuses(q)
    <3>1. spot' = SpotsAfter(Floor, q) /\ head' = HeadsAfter(Floor, q)
      BY <1>1, <2>2 DEF Writes
    <3>2. q.kind \in FloorKinds
      BY <1>1 DEF WellAsked, Asks
    <3> HIDE DEF q
    <3>3. Granted(q)
      BY <1>1, <3>1 DEF Granted, FloorHolds
    <3> QED
      BY <3>2, <3>3, CreateWrites, ChangeWrites, HideWrites, DeleteWrites, OpenWrites,
         ReceiveWrites, OrderWrites, CloseWrites DEF FloorKinds, Written
  <2> QED BY <2>1, <2>2
<1> QED
  BY <1>1, <1>2 DEF FloorTyped, AskTyped, FloorHolds

\* A step of the order leaves the floor.
LEMMA FloorStays ==
    ASSUME UNCHANGED <<setting, floor, task>>
    PROVE  (AskInv => AskInv') /\ (FloorInv => FloorInv')
<1>1. (AskTyped => AskTyped') /\ (FloorTyped => FloorTyped')
  BY DEF FloorTyped, AskTyped, HeadTyped, floor
<1>2. Laid /\ OpenSeen => Laid' /\ OpenSeen'
  BY LaidStays DEF floor, OpenSeen, OpenHeads
<1>3. ReadHolds /\ OneRequest => ReadHolds' /\ OneRequest'
  <2> SUFFICES ASSUME ReadHolds, OneRequest PROVE ReadHolds' /\ OneRequest'
    OBVIOUS
  <2>1. AtWork' = AtWork /\ Floor' = Floor /\ SpotLeft' = SpotLeft /\ HeadLeft' = HeadLeft
    BY DEF floor, AtWork, Floor, SpotLeft, HeadLeft
  <2>2. ASSUME NEW s \in AtWork PROVE WellAsked(task[s].q)' /\ Accepts(Floor, task[s].q)'
    <3>1. WellAsked(task[s].q) /\ Accepts(Floor, task[s].q)
      BY DEF ReadHolds
    <3> QED
      BY <2>1, <3>1 DEF WellAsked, Accepts, CanCreate, CanUpdateTable, CanRenumber, CanPlace, CanHide,
            CanDelete, CanOpen, CanReceive, CanAssign, CanClose, CanCancelOrder, Workshop
  <2> QED
    BY <2>1, <2>2 DEF ReadHolds, OneRequest
<1> QED
  BY <1>1, <1>2, <1>3 DEF AskInv, FloorInv, FloorHolds, OneByOne

\* Every step keeps it.
LEMMA FloorSteps == FloorInv /\ [SalonNext]_salonVars => FloorInv'
<1> SUFFICES ASSUME FloorInv, [SalonNext]_salonVars PROVE FloorInv'
  OBVIOUS
<1>1. CASE UNCHANGED salonVars
  BY <1>1, FloorStays DEF salonVars, tableVars, floor
<1>2. CASE SalonNext /\ setting.kinds \cap FloorKinds = {}
  <2>1. TableNext /\ UNCHANGED <<floor, task>>
    BY <1>2 DEF SalonNext
  <2> QED
    BY <2>1, SettingStays, FloorStays
<1>3. ASSUME NEW r \in Handlers, SalonReads(r) \/ Writes(r) PROVE FloorInv'
  <2>1. setting' = setting
    <3>1. ASSUME NEW p, Reads(r, p) PROVE setting' = setting
      BY <3>1 DEF Reads, tableVars
    <3> HIDE DEF Reads
    <3> QED BY <1>3, <3>1 DEF SalonReads, Writes, tableVars
  <2>2. CASE OneByOne(setting)
    BY <1>3, <2>1, <2>2, FloorReads, FloorWrites DEF FloorInv
  <2>3. CASE ~OneByOne(setting)
    BY <2>1, <2>3 DEF FloorInv
  <2> QED BY <2>2, <2>3
<1> QED
  BY <1>1, <1>2, <1>3 DEF SalonNext

\* The screen shows a table at each of its places and every open order.
LEMMA HoldsShown == ASSUME FloorTyped, FloorHolds PROVE OrdersShown
<1> SUFFICES ASSUME "hide" \notin setting.kinds, NEW h \in OrderIds, head[h].status = "OPEN"
             PROVE  head[h].spot \in Active(Floor) /\ StatusOf(Floor, head[h].spot) = h
  BY DEF FloorHolds, Laid, OrdersShown
<1>1. h \in OpenHeads
  BY DEF OpenHeads
<1>2. head[h].spot \in TableIds /\ spot[head[h].spot].active
  BY <1>1 DEF FloorHolds, OpenSeen
<1>3. OpenAt(Floor, head[h].spot) = {h}
  <2>1. \A g \in OpenHeads : head[g].spot = head[h].spot => g = h
    BY <1>1 DEF FloorHolds, OpenSeen
  <2> QED
    BY <2>1 DEF OpenHeads, OpenAt, Heads, Floor
<1>4. h \in Nat
  BY SalonAssumption
<1>5. Greatest({h}) = h
  BY <1>4 DEF Greatest
<1> QED
  BY <1>2, <1>3, <1>5 DEF StatusOf, Active, Floor

\* createTable, updateTable, deleteTable, openTableOrder, receiveVehicle,
\* checkoutTableOrder, cancelTableOrder: where the requests of the floor come one at
\* a time, and with any number of tables and orders, every open order is the one its
\* table shows, unless tables with orders are hidden; and no two active tables share
\* a number or a cell, but in a workshop that renumbers tables beside those it
\* receives again (Renumbers).
THEOREM FloorShown == SalonSpec => [](OneByOne(setting) => OrdersShown)
<1>1. SalonInit => FloorInv
  BY InitFloor
<1>2. FloorInv /\ [SalonNext]_salonVars => FloorInv'
  BY FloorSteps
<1>3. FloorInv => (OneByOne(setting) => OrdersShown)
  BY HoldsShown DEF FloorInv
<1> QED
  BY <1>1, <1>2, <1>3, PTL DEF SalonSpec

-----------------------------------------------------------------------------
(* The technician of a vehicle received.                                    *)
LEMMA HeadsTyped ==
    ASSUME HeadTyped, NEW f, NEW q, head' = HeadsAfter(f, q)
    PROVE  HeadTyped'
<1>1. CASE q.kind \in {"open", "receive"} /\ q.valid
  <2>1. PICK new, s, v :
           head' = [head EXCEPT ![new] = [status |-> "OPEN", tech |-> v, spot |-> s]]
    BY <1>1 DEF HeadsAfter, NewHead
  <2> QED
    BY <2>1 DEF HeadTyped
<1>2. CASE ~(q.kind \in {"open", "receive"} /\ q.valid)
  <2>1. PICK x, v : \/ head' = head
                    \/ head' = [head EXCEPT ![x].tech = v]
                    \/ head' = [head EXCEPT ![x].status = "CLOSED"]
                    \/ head' = [head EXCEPT ![x].status = "CANCELLED"]
    BY <1>2 DEF HeadsAfter, Assigned
  <2> QED
    BY <2>1 DEF HeadTyped
<1> QED
  BY <1>1, <1>2

\* Every step keeps what the requests have read.
LEMMA AskSteps == AskInv /\ [SalonNext]_salonVars => AskInv'
<1> SUFFICES ASSUME AskInv, [SalonNext]_salonVars PROVE AskInv'
  OBVIOUS
<1>1. CASE UNCHANGED salonVars
  BY <1>1, FloorStays DEF salonVars, tableVars, floor
<1>2. CASE SalonNext /\ setting.kinds \cap FloorKinds = {}
  <2>1. TableNext /\ UNCHANGED <<floor, task>>
    BY <1>2 DEF SalonNext
  <2> QED
    BY <2>1, SettingStays, FloorStays
<1>3. ASSUME NEW r \in Handlers, SalonReads(r) PROVE AskInv'
  <2>1. PICK q : Reads(r, q)
    BY <1>3, ReadsNamed DEF AskInv
  <2>2. setting' = setting /\ AskTyped'
    BY <2>1 DEF Reads, tableVars, floor, AskInv, AskTyped, HeadTyped
  <2> QED
    BY <1>3, <2>2, AskReads DEF AskInv
<1>4. ASSUME NEW r \in Handlers, Writes(r) PROVE AskInv'
  <2>1. setting' = setting /\ task' = [s \in Handlers |-> task'[s]]
    BY <1>4 DEF Writes, tableVars, AskInv, AskTyped
  <2>2. HeadTyped'
    <3>1. CASE UNCHANGED floor
      BY <3>1 DEF floor, AskInv, AskTyped, HeadTyped
    <3>2. CASE head' = HeadsAfter(task[r].seen, task[r].q)
      BY <3>2, HeadsTyped DEF AskInv, AskTyped
    <3> QED
      BY <1>4, <3>1, <3>2 DEF Writes
  <2>3. OneByOne(setting) => ReadHolds' /\ OneRequest'
    BY <1>4, AskWrites DEF AskInv
  <2> QED
    BY <2>1, <2>2, <2>3 DEF AskInv, AskTyped
<1> QED
  BY <1>1, <1>2, <1>3, <1>4 DEF SalonNext

\* There is a technician sooner than every other; nobody has fewer orders open.
LEMMA FirstIsFree ==
    ASSUME NEW f, NEW w \in Techs
    PROVE  OpenOrders(f, FirstAvailable(f)) <= OpenOrders(f, w)
<1>1. ASSUME NEW v \in Techs PROVE OpenOrders(f, v) \in Nat /\ LastOrder(f, v) \in Nat
  <2>1. OpenOrders(f, v) \in Nat
    <3>1. IsFiniteSet({h \in OrderIds : f.head[h].tech = v /\ f.head[h].status = "OPEN"})
      BY SalonAssumption, FS_Subset
    <3> QED
      BY <3>1, FS_CardinalityType DEF OpenOrders
  <2>2. LastOrder(f, v) \in Nat
    <3> DEFINE own == {h \in OrderIds : f.head[h].tech = v}
    <3>1. own \in SUBSET Nat /\ IsFiniteSet(own)
      BY SalonAssumption, FS_Subset
    <3>2. own # {} => Greatest(own) \in Nat
      <4> HIDE DEF own
      <4> QED BY <3>1, GreatestIn
    <3> QED
      BY <3>2 DEF LastOrder
  <2> QED BY <2>1, <2>2
<1> DEFINE After == {p \in Techs \X Techs : ~Sooner(f, p[1], p[2])}
<1>2. \A x, y \in Techs : <<x, y>> \in After <=> ~Sooner(f, x, y)
  OBVIOUS
<1> HIDE DEF After
<1>3. StrictOrder(After, Techs)
  BY <1>1, <1>2, SalonAssumption DEF StrictOrder, Sooner
<1>4. PICK m \in Techs : \A x \in Techs \ {m} : <<x, m>> \in After
  BY <1>3, SalonAssumption, LastExists
<1>5. ASSUME NEW x \in Techs PROVE Sooner(f, m, x)
  <2>1. CASE x = m
    BY <1>1, <2>1, SalonAssumption DEF Sooner
  <2>2. CASE x # m
    <3>1. ~Sooner(f, x, m)
      BY <1>2, <1>4, <2>2
    <3>2. m \in Nat /\ x \in Nat
      BY SalonAssumption
    <3> QED
      BY <1>1, <3>1, <3>2 DEF Sooner
  <2> QED BY <2>1, <2>2
<1>6. FirstAvailable(f) \in Techs /\ Sooner(f, FirstAvailable(f), w)
  BY <1>5 DEF FirstAvailable
<1> QED
  BY <1>1, <1>6 DEF Sooner

\* The technician who gets a vehicle has the fewest open orders.
LEMMA FairStep ==
    ASSUME AskInv, OneByOne(setting), [SalonNext]_salonVars, NEW h \in OrderIds,
           head[h] = NoHead, head'[h].tech \in Techs, NEW w \in Techs
    PROVE  Load(head'[h].tech) <= Load(w)
<1>1. head[h].tech \notin Techs /\ head[h].status # "OPEN"
  BY SalonAssumption DEF NoHead
<1>2. PICK r \in Handlers : Writes(r) /\ ~UNCHANGED floor
  <2>1. ~UNCHANGED floor
    BY <1>1 DEF floor
  <2>2. \A r, p : Reads(r, p) => UNCHANGED floor
    BY DEF Reads
  <2>3. \A r : SalonReads(r) => UNCHANGED floor
    <3> HIDE DEF Reads
    <3> QED BY <2>2 DEF SalonReads
  <2> QED
    BY <2>1, <2>3 DEF SalonNext, salonVars, floor
<1> DEFINE q == task[r].q
<1>3. /\ WellAsked(q) /\ Accepts(Floor, q) /\ task[r].seen = Floor
      /\ head' = HeadsAfter(Floor, q)
  BY <1>2, AskWrites DEF AskInv, Writes
<1> HIDE DEF q
<1>4. q.kind \in {"open", "receive"} /\ q.valid
  <2> SUFFICES ASSUME ~(q.kind \in {"open", "receive"} /\ q.valid) PROVE FALSE
    OBVIOUS
  <2>1. CASE q.kind = "assign"
    <3> DEFINE x == StatusOf(Floor, q.table)
    <3>1. OpenAt(Floor, q.table) # {}
      BY <1>3, <2>1 DEF Accepts, CanAssign
    <3>2. x \in OpenAt(Floor, q.table)
      <4>1. OpenAt(Floor, q.table) \in SUBSET Nat /\ IsFiniteSet(OpenAt(Floor, q.table))
        BY SalonAssumption, FS_Subset DEF OpenAt, Heads
      <4> QED
        BY <3>1, <4>1, GreatestIn DEF StatusOf
    <3>3. x # h
      BY <1>1, <3>2 DEF OpenAt, Heads, Floor
    <3>4. head' = [head EXCEPT ![x].tech = Technician(Floor, q.tech)]
      BY <1>3, <2>1 DEF HeadsAfter, Assigned
    <3> HIDE DEF x
    <3> QED
      BY <1>1, <3>3, <3>4 DEF AskInv, AskTyped, HeadTyped
  <2>2. CASE q.kind # "assign"
    <3>1. PICK x : \/ head' = head
                   \/ head' = [head EXCEPT ![x].status = "CLOSED"]
                   \/ head' = [head EXCEPT ![x].status = "CANCELLED"]
      BY <1>3, <2>2 DEF HeadsAfter
    <3>2. HeadTyped
      BY DEF AskInv, AskTyped
    <3>3. CASE head' = head
      BY <1>1, <3>3
    <3>4. CASE head' = [head EXCEPT ![x].status = "CLOSED"]
      BY <1>1, <3>2, <3>4 DEF HeadTyped
    <3>5. CASE head' = [head EXCEPT ![x].status = "CANCELLED"]
      BY <1>1, <3>2, <3>5 DEF HeadTyped
    <3> QED BY <3>1, <3>3, <3>4, <3>5
  <2> QED BY <2>1, <2>2
<1>5. PICK s : head' = [head EXCEPT ![NextHead] = [status |-> "OPEN", spot |-> s,
                                                   tech |-> Technician(Floor, q.tech)]]
  BY <1>3, <1>4 DEF HeadsAfter, NewHead
<1>6. head'[h].tech = Technician(Floor, q.tech)
  <2>1. h = NextHead
    BY <1>1, <1>5 DEF AskInv, AskTyped, HeadTyped
  <2> QED
    BY <1>5, <2>1 DEF AskInv, AskTyped, HeadTyped
<1>7. q.tech = AutoTech
  BY <1>3, <1>4, <1>6, SalonAssumption DEF WellAsked, Technician
<1>8. head'[h].tech = FirstAvailable(Floor)
  BY <1>6, <1>7 DEF Technician
<1>9. \A v : Load(v) = OpenOrders(Floor, v)
  BY DEF Load, OpenOrders, Floor
<1> QED
  BY <1>8, <1>9, FirstIsFree

\* receiveVehicle, resolveTechnician, findFirstAvailableTechnician: where the
\* requests of the floor come one at a time, a vehicle received with AUTO goes to a
\* technician than whom no other has fewer orders open, whatever was assigned by
\* hand or closed before, with any number of technicians and orders.
THEOREM ReceptionFair ==
    ASSUME \A sc \in Settings : OneByOne(sc)
    PROVE  SalonSpec => FairReception
<1> DEFINE Fair == \A h \in OrderIds : head[h] = NoHead /\ head'[h].tech \in Techs =>
                      \A w \in Techs : Load(head'[h].tech) <= Load(w)
<1>1. SalonInit => AskInv
  BY InitFloor
<1>2. AskInv /\ [SalonNext]_salonVars => AskInv'
  BY AskSteps
<1>3. AskInv /\ [SalonNext]_salonVars => [Fair]_salonVars
  <2> SUFFICES ASSUME AskInv, [SalonNext]_salonVars PROVE Fair
    OBVIOUS
  <2>1. OneByOne(setting)
    BY DEF AskInv, AskTyped
  <2> QED
    BY <2>1, FairStep
<1> QED
  BY <1>1, <1>2, <1>3, PTL DEF SalonSpec, FairReception

-----------------------------------------------------------------------------
(***************************************************************************)
(* The kitchen of TableOrders.  Of the requests that change how much is on *)
(* the order, or was sent, only sends may overlap, all with one token; and *)
(* nothing crashes between a void and what it tells the kitchen.           *)
(***************************************************************************)
Counted == {"add", "update", "void", "move"}
OrderKinds == Counted \cup {"split", "grow", "merge", "undo", "discount", "cancel", "send",
                            "checkout"}

KitchenCalm(sc) ==
    /\ sc.together \cap Counted = {}
    /\ "send" \in sc.together => \A s, t \in sc.tokens : s = t /\ t # Nothing
    /\ sc.crash => "void" \notin sc.kinds

\* An order, as rows of quantities.
OrderTyped(o) ==
    /\ o = [status |-> o.status, mode |-> o.mode, disc |-> o.disc, items |-> o.items,
            accts |-> o.accts]
    /\ o.items = [i \in ItemIds |-> [qty |-> o.items[i].qty, round |-> o.items[i].round,
                                     acct |-> o.items[i].acct]]
    /\ \A i \in ItemIds : o.items[i].qty \in Nat

RoundShape(row) ==
    row = [type |-> row.type, qty |-> row.qty, print |-> row.print, stale |-> row.stale,
           token |-> row.token]
RoundTyped ==
    round = [k \in RoundIds |-> round[k]] /\ \A k \in RoundIds : RoundShape(round[k])

WorkTyped ==
    /\ work = [r \in Handlers |-> work[r]]
    /\ \A r \in Working : /\ work[r] = [kind |-> work[r].kind, q |-> work[r].q,
                                        seen |-> work[r].seen]
                          /\ work[r].kind \in {"commit", "tell"}
                          /\ work[r].kind = "tell" => work[r].q.kind = "void"
                          /\ work[r].q.kind \in OrderKinds \cap setting.kinds

TicketTyped == OrderTyped(order) /\ (\A k \in RoundIds : round[k].qty \in Nat) /\ WorkTyped

\* The same dishes, sent or not.
SameCount(s, o) ==
    \A i \in ItemIds : /\ s.items[i].qty = o.items[i].qty
                       /\ o.items[i].qty > 0 => s.items[i].round = o.items[i].round

\* What a request of the kitchen has read is still so; or its token was used.
ToCount(w) ==
    w.q.kind \in Counted /\ w.kind = "commit" =>
       /\ OrderTyped(w.seen) /\ SameCount(w.seen, order) /\ Can(w.seen, w.q)
       /\ w.q.n \in Nat
       /\ w.q.kind \in {"add", "update", "move"} => Free(order) # {}
ToSend(w) ==
    w.q.kind = "send" =>
       /\ w.q.token \in setting.tokens
       /\ TokenFree(w.q.token) => OrderTyped(w.seen) /\ SameCount(w.seen, order)
Held(r) == /\ ToCount(work[r]) /\ ToSend(work[r])
           /\ work[r].q.kind = "void" => work[r].q.n \in Nat
CountHolds == \A r \in Working : Held(r)

CountAlone ==
    \A r, s \in Working :
        work[r].q.kind \in Counted \cup {"send"} /\ work[r].q.kind \notin setting.together
            => r = s

\* What the rounds told the kitchen is on the order, or is about to be told.
SentOnOrder == Dishes(order, Rows(order) \ Unsent(order))

Reported ==
    /\ (\A r \in Working : work[r].kind # "tell") =>
          RoundSum("SEND") - RoundSum("VOID") = SentOnOrder
    /\ \A r \in Working : work[r].kind = "tell" =>
          RoundSum("SEND") - RoundSum("VOID") = SentOnOrder + work[r].q.n

KitchenHolds == TicketTyped /\ CountHolds /\ CountAlone /\ Reported

\* A claim that is current: its round is not to be claimed.
Current(k) == Printers(k) \ late
ClaimHolds ==
    \A k \in RoundIds : /\ \A a, b \in Current(k) : a = b
                        /\ Current(k) # {} => /\ round[k].print \notin {"NONE", "PENDING"}
                                              /\ ~(round[k].print = "PRINTING" /\ round[k].stale)

KitchenInv ==
    /\ setting \in Settings /\ RoundTyped /\ ClaimHolds
    /\ KitchenCalm(setting) => KitchenHolds

-----------------------------------------------------------------------------
(* Sums of rows.                                                            *)
SentOf(o)   == [i \in ItemIds |-> IF o.items[i].qty > 0 /\ o.items[i].round # 0
                                  THEN o.items[i].qty ELSE 0]
UnsentOf(o) == [i \in ItemIds |-> IF o.items[i].qty > 0 /\ o.items[i].round = 0
                                  THEN o.items[i].qty ELSE 0]
AllSent(o)   == SumFunctionOnSet(SentOf(o), ItemIds)
AllUnsent(o) == SumFunctionOnSet(UnsentOf(o), ItemIds)
RoundOf(rd, type) == [k \in RoundIds |-> IF rd[k].type = type THEN rd[k].qty ELSE 0]

\* What was sent and what was not, as sums over all rows.
LEMMA CountSums ==
    ASSUME NEW o, OrderTyped(o)
    PROVE  /\ Dishes(o, Rows(o) \ Unsent(o)) = AllSent(o) /\ Dishes(o, Unsent(o)) = AllUnsent(o)
           /\ AllSent(o) \in Int /\ AllUnsent(o) \in Nat
<1> DEFINE q == [i \in ItemIds |-> o.items[i].qty]
           sent == SentOf(o)
           left == UnsentOf(o)
<1>1. IsFiniteSet(ItemIds) /\ \A i \in ItemIds : q[i] \in Nat /\ o.items[i].qty \in Nat
  BY TableAssumption DEF OrderTyped
<1>2. \A i \in ItemIds : sent[i] \in Nat /\ left[i] \in Nat
  BY <1>1 DEF SentOf, UnsentOf
<1>3. /\ \A i \in Rows(o) \ Unsent(o) : q[i] \in Int /\ sent[i] = q[i]
      /\ \A i \in ItemIds \ (Rows(o) \ Unsent(o)) : sent[i] = 0
      /\ Rows(o) \ Unsent(o) \in SUBSET ItemIds
  BY <1>1 DEF SentOf, Rows, Unsent
<1>4. /\ \A i \in Unsent(o) : q[i] \in Int /\ left[i] = q[i]
      /\ \A i \in ItemIds \ Unsent(o) : left[i] = 0
      /\ Unsent(o) \in SUBSET ItemIds
  BY <1>1 DEF UnsentOf, Rows, Unsent
<1> HIDE DEF q, sent, left
<1>5. SumFunctionOnSet(sent, ItemIds) = SumFunctionOnSet(q, Rows(o) \ Unsent(o))
  BY <1>1, <1>3, SumWhere
<1>6. SumFunctionOnSet(left, ItemIds) = SumFunctionOnSet(q, Unsent(o))
  BY <1>1, <1>4, SumWhere
<1>7. SumFunctionOnSet(sent, ItemIds) \in Int /\ SumFunctionOnSet(left, ItemIds) \in Nat
  BY <1>1, <1>2, SumInt, SumNat
<1> QED
  BY <1>5, <1>6, <1>7 DEF Dishes, AllSent, AllUnsent, q, sent, left

\* What the rounds of a type told, as a sum over all rounds.
LEMMA RoundSums ==
    ASSUME NEW rd, NEW type, \A k \in RoundIds : rd[k].qty \in Nat
    PROVE  LET sum == SumFunctionOnSet([k \in RoundIds |-> rd[k].qty],
                                       {k \in RoundIds : rd[k].type = type})
           IN  sum = SumFunctionOnSet(RoundOf(rd, type), RoundIds) /\ sum \in Int
<1> DEFINE q == [k \in RoundIds |-> rd[k].qty]
           of == RoundOf(rd, type)
           T == {k \in RoundIds : rd[k].type = type}
<1>1. /\ IsFiniteSet(RoundIds) /\ T \in SUBSET RoundIds
      /\ \A k \in T : q[k] \in Int /\ of[k] = q[k]
      /\ \A k \in RoundIds \ T : of[k] = 0
      /\ \A k \in RoundIds : of[k] \in Int
  BY TableAssumption DEF RoundOf
<1> HIDE DEF q, of
<1>2. SumFunctionOnSet(of, RoundIds) = SumFunctionOnSet(q, T)
  <2> HIDE DEF T
  <2> QED BY <1>1, SumWhere
<1>3. SumFunctionOnSet(of, RoundIds) \in Int
  BY <1>1, SumInt
<1> QED
  BY <1>2, <1>3 DEF q, of

\* The same dishes add up to the same.
LEMMA SameSums ==
    ASSUME NEW s, NEW o, OrderTyped(o), SameCount(s, o)
    PROVE  AllSent(s) = AllSent(o) /\ AllUnsent(s) = AllUnsent(o)
<1>1. IsFiniteSet(ItemIds)
  BY TableAssumption
<1>2. \A i \in ItemIds : SentOf(s)[i] = SentOf(o)[i] /\ UnsentOf(s)[i] = UnsentOf(o)[i]
  BY DEF SameCount, SentOf, UnsentOf, OrderTyped
<1> HIDE DEF SentOf, UnsentOf
<1> QED
  BY <1>1, <1>2, SumSame DEF AllSent, AllUnsent

\* The row of a round that is created, and the others.
LEMMA RoundCreated ==
    ASSUME RoundTyped, NEW type, NEW n, NEW token, NewRound(type, n, token)
    PROVE  LET new == Least({k \in RoundIds : round[k] = NoRound})
           IN  /\ RoundTyped' /\ new \in RoundIds /\ round[new] = NoRound
               /\ \A k \in RoundIds \ {new} : round'[k] = round[k]
               /\ round'[new].type = type /\ round'[new].qty = n
               /\ round'[new].token = token
<1> DEFINE new == Least({k \in RoundIds : round[k] = NoRound})
<1>1. new \in RoundIds /\ round[new] = NoRound
  <2>1. {k \in RoundIds : round[k] = NoRound} \in SUBSET Nat
    BY TableAssumption
  <2>2. IsFiniteSet({k \in RoundIds : round[k] = NoRound})
    BY TableAssumption, FS_Subset
  <2> QED
    BY <2>1, <2>2, LeastIn DEF NewRound
<1>2. PICK row : /\ row = [NoRound EXCEPT !.type = type, !.qty = n, !.print = "PENDING",
                                           !.token = token]
                 /\ round' = [round EXCEPT ![new] = row]
  BY DEF NewRound
<1>3. row.type = type /\ row.qty = n /\ row.token = token
  BY <1>2 DEF NoRound
<1>4. RoundShape(row)
  BY <1>2 DEF RoundShape, NoRound
<1> HIDE DEF new
<1>5. /\ round' = [k \in RoundIds |-> round'[k]] /\ round'[new] = row
      /\ \A k \in RoundIds \ {new} : round'[k] = round[k]
  BY <1>1, <1>2 DEF RoundTyped
<1>6. RoundTyped'
  BY <1>4, <1>5 DEF RoundTyped, RoundShape
<1> QED
  BY <1>1, <1>3, <1>5, <1>6 DEF new

\* What a round that is created adds to the sums.
LEMMA NewRoundAdds ==
    ASSUME RoundTyped, \A k \in RoundIds : round[k].qty \in Nat, NEW type, NEW n \in Nat,
           NEW token, NewRound(type, n, token), type # "NONE"
    PROVE  /\ \A k \in RoundIds : round'[k].qty \in Nat
           /\ RoundSum(type)' = RoundSum(type) + n
           /\ \A other : other # type /\ other # "NONE" => RoundSum(other)' = RoundSum(other)
           /\ \E k \in RoundIds : round'[k].token = token
<1> DEFINE new == Least({k \in RoundIds : round[k] = NoRound})
<1>1. new \in RoundIds /\ round[new] = NoRound
  <2>1. {k \in RoundIds : round[k] = NoRound} \in SUBSET Nat
    BY TableAssumption
  <2>2. IsFiniteSet({k \in RoundIds : round[k] = NoRound})
    BY TableAssumption, FS_Subset
  <2> QED
    BY <2>1, <2>2, LeastIn DEF NewRound
<1>2. /\ round'[new].type = type /\ round'[new].qty = n /\ round'[new].token = token
      /\ \A k \in RoundIds \ {new} : round'[k] = round[k]
  BY <1>1, RoundCreated
<1> HIDE DEF new
<1>3. \A k \in RoundIds : round'[k].qty \in Nat
  BY <1>1, <1>2
<1>4. ASSUME NEW other, other # "NONE"
      PROVE  RoundSum(other)' = RoundSum(other) + (IF other = type THEN n ELSE 0)
  <2> DEFINE of == RoundOf(round, other)
             to == RoundOf(round', other)
  <2>1. /\ RoundSum(other) = SumFunctionOnSet(of, RoundIds) /\ RoundSum(other) \in Int
    BY RoundSums DEF RoundSum
  <2>2. RoundSum(other)' = SumFunctionOnSet(to, RoundIds)
    BY <1>3, RoundSums DEF RoundSum
  <2>3. /\ \A k \in RoundIds : of[k] \in Int /\ to[k] \in Int
        /\ \A k \in RoundIds \ {new} : to[k] = of[k]
        /\ of[new] = 0 /\ to[new] = IF other = type THEN n ELSE 0
    BY <1>1, <1>2, <1>3, <1>4 DEF RoundOf, NoRound
  <2> HIDE DEF of, to
  <2>4. SumFunctionOnSet(to, RoundIds) = SumFunctionOnSet(of, RoundIds) - of[new] + to[new]
    BY <1>1, <2>3, TableAssumption, SumChange
  <2> QED
    BY <2>1, <2>2, <2>3, <2>4
<1> QED
  <2>1. RoundSum(type) \in Int
    BY RoundSums DEF RoundSum
  <2>2. \A other : other # type /\ other # "NONE" => RoundSum(other) \in Int
    BY RoundSums DEF RoundSum
  <2> QED
    BY <1>1, <1>2, <1>3, <1>4, <2>1, <2>2

-----------------------------------------------------------------------------
(* What a request does to the rows.                                         *)
RowTyped(row) == /\ row = [qty |-> row.qty, round |-> row.round, acct |-> row.acct]
                 /\ row.qty \in Nat

\* A row that changes.
LEMMA RowChange ==
    ASSUME NEW o, OrderTyped(o), NEW i \in ItemIds, NEW row, RowTyped(row)
    PROVE  LET p == SetRow(o, i, row)
           IN  /\ OrderTyped(p) /\ p.items[i] = row
               /\ \A j \in ItemIds : j # i => p.items[j] = o.items[j]
               /\ AllSent(p) = AllSent(o) - SentOf(o)[i] + SentOf(p)[i]
<1> DEFINE p == SetRow(o, i, row)
<1>1. /\ p.items[i] = row
      /\ \A j \in ItemIds : j # i => p.items[j] = o.items[j]
      /\ p.items = [j \in ItemIds |-> p.items[j]]
  BY DEF OrderTyped, SetRow
<1>2. p = [status |-> p.status, mode |-> p.mode, disc |-> p.disc, items |-> p.items,
           accts |-> p.accts]
  BY DEF OrderTyped, SetRow
<1> HIDE DEF p
<1>3. OrderTyped(p)
  <2>1. ASSUME NEW j \in ItemIds PROVE RowTyped(p.items[j])
    <3>1. RowTyped(o.items[j])
      BY DEF OrderTyped, RowTyped
    <3> QED BY <1>1, <3>1
  <2> QED
    BY <1>1, <1>2, <2>1 DEF OrderTyped, RowTyped
<1>4. /\ \A j \in ItemIds : SentOf(o)[j] \in Int /\ SentOf(p)[j] \in Int
      /\ \A j \in ItemIds \ {i} : SentOf(p)[j] = SentOf(o)[j]
  BY <1>1, <1>3 DEF SentOf, OrderTyped
<1>5. AllSent(p) = AllSent(o) - SentOf(o)[i] + SentOf(p)[i]
  <2> HIDE DEF SentOf
  <2> QED BY <1>4, TableAssumption, SumChange DEF AllSent
<1> QED
  BY <1>1, <1>3, <1>5 DEF p

\* A row that was not sent and is not sent counts nothing.
LEMMA UnsentChange ==
    ASSUME NEW o, OrderTyped(o), NEW i \in ItemIds, NEW row, RowTyped(row), row.round = 0,
           o.items[i].qty > 0 => o.items[i].round = 0
    PROVE  OrderTyped(SetRow(o, i, row)) /\ AllSent(SetRow(o, i, row)) = AllSent(o)
<1>1. LET p == SetRow(o, i, row)
      IN  /\ OrderTyped(p) /\ p.items[i] = row
          /\ AllSent(p) = AllSent(o) - SentOf(o)[i] + SentOf(p)[i]
  BY RowChange
<1>2. SentOf(o)[i] = 0 /\ SentOf(SetRow(o, i, row))[i] = 0
  BY <1>1 DEF SentOf
<1>3. AllSent(o) \in Int
  BY CountSums
<1> QED
  BY <1>1, <1>2, <1>3

\* The row that is taken next is free.
LEMMA FreeItem ==
    ASSUME NEW o, Free(o) # {}
    PROVE  Least(Free(o)) \in ItemIds /\ o.items[Least(Free(o))].qty = 0
<1>1. Free(o) \in SUBSET Nat /\ IsFiniteSet(Free(o))
  BY TableAssumption, FS_Subset DEF Free
<1>2. Least(Free(o)) \in Free(o)
  BY <1>1, LeastIn
<1> QED
  BY <1>2 DEF Free

\* The first of some rows that were not sent is one of them, still not sent.
LEMMA LeastUnsent ==
    ASSUME NEW s, NEW o, SameCount(s, o), NEW T \in SUBSET Unsent(s), T # {}
    PROVE  /\ Least(T) \in ItemIds /\ Least(T) \in T
           /\ o.items[Least(T)].qty > 0 => o.items[Least(T)].round = 0
<1>1. T \in SUBSET Nat /\ IsFiniteSet(T)
  BY TableAssumption, FS_Subset DEF Unsent, Rows
<1>2. Least(T) \in T
  BY <1>1, LeastIn
<1> QED
  BY <1>2 DEF Unsent, Rows, SameCount

\* A request that has read the rows as they are.
Counts(s, o, q) ==
    /\ OrderTyped(s) /\ OrderTyped(o) /\ SameCount(s, o) /\ Can(s, q) /\ q.n \in Nat
    /\ q.kind \in {"add", "update", "move"} => Free(o) # {}

\* Adding changes nothing that was sent.
LEMMA AddCounts ==
    ASSUME NEW s, NEW o, NEW q, Counts(s, o, q), q.kind = "add"
    PROVE  OrderTyped(Effect(s, o, q)) /\ AllSent(Effect(s, o, q)) = AllSent(o)
<1>1. Effect(s, o, q) = Adding(s, o, 1)
  BY DEF Effect
<1>2. CASE Unsent(s) # {}
  <2> DEFINE i == Least(Unsent(s))
             row == [o.items[i] EXCEPT !.qty = s.items[i].qty + 1]
  <2>1. i \in ItemIds /\ i \in Unsent(s) /\ (o.items[i].qty > 0 => o.items[i].round = 0)
    BY <1>2, LeastUnsent DEF Counts
  <2> HIDE DEF i
  <2>2. o.items[i].round = 0 /\ s.items[i].qty \in Nat
    BY <2>1 DEF Counts, OrderTyped, SameCount, Unsent, Rows
  <2>3. RowTyped(row) /\ row.round = 0
    BY <2>1, <2>2 DEF Counts, OrderTyped, RowTyped
  <2>4. Adding(s, o, 1) = SetRow(o, i, row)
    BY <1>2 DEF Adding, i
  <2> HIDE DEF row
  <2> QED
    BY <1>1, <2>1, <2>3, <2>4, UnsentChange DEF Counts
<1>3. CASE Unsent(s) = {}
  <2>1. PICK row : RowTyped(row) /\ row.round = 0 /\ Adding(s, o, 1) = NewRow(o, row)
    BY <1>3 DEF Adding, RowTyped
  <2>2. Least(Free(o)) \in ItemIds /\ o.items[Least(Free(o))].qty = 0
    BY FreeItem DEF Counts
  <2> QED
    BY <1>1, <2>1, <2>2, UnsentChange DEF Counts, NewRow
<1> QED
  BY <1>2, <1>3

\* Nor does a new quantity: what is more becomes a row not sent yet.
LEMMA UpdateCounts ==
    ASSUME NEW s, NEW o, NEW q, Counts(s, o, q), q.kind = "update"
    PROVE  OrderTyped(Effect(s, o, q)) /\ AllSent(Effect(s, o, q)) = AllSent(o)
<1> DEFINE old == s.items[q.item]
           kin == {i \in Unsent(s) : s.items[i].acct = old.acct}
<1>1. Effect(s, o, q) = Updating(s, o, q)
  BY DEF Effect
<1>2. CanUpdate(s, q)
  BY DEF Counts, Can
<1>3. /\ q.item \in ItemIds /\ s.items[q.item].qty \in Nat /\ o.items[q.item].qty > 0
      /\ o.items[q.item].round = s.items[q.item].round
      /\ RowTyped(o.items[q.item]) /\ RowTyped(s.items[q.item])
  BY <1>2 DEF Counts, CanUpdate, Rows, OrderTyped, SameCount, RowTyped
<1>4. CASE old.round = 0
  <2> DEFINE row == [o.items[q.item] EXCEPT !.qty = q.n]
  <2>1. RowTyped(row) /\ row.round = 0
    BY <1>3, <1>4 DEF Counts, RowTyped
  <2>2. Updating(s, o, q) = SetRow(o, q.item, row)
    BY <1>4 DEF Updating
  <2> HIDE DEF row
  <2> QED
    BY <1>1, <1>3, <1>4, <2>1, <2>2, UnsentChange DEF Counts
<1>5. CASE old.round # 0 /\ kin # {}
  <2> DEFINE i == Least(kin)
             row == [o.items[i] EXCEPT !.qty = s.items[i].qty + q.n - s.items[q.item].qty]
  <2>1. i \in ItemIds /\ i \in Unsent(s) /\ (o.items[i].qty > 0 => o.items[i].round = 0)
    <3>1. kin \in SUBSET Unsent(s)
      OBVIOUS
    <3> HIDE DEF kin
    <3> QED
      BY <1>5, <3>1, LeastUnsent DEF Counts
  <2>4. Updating(s, o, q) = SetRow(o, i, row)
    BY <1>5 DEF Updating
  <2> HIDE DEF i
  <2>a. o.items[i].round = 0 /\ s.items[i].qty \in Nat
    BY <2>1 DEF Counts, OrderTyped, SameCount, Unsent, Rows
  <2>b. q.n > s.items[q.item].qty /\ q.n \in Nat
    BY <1>2, <1>5 DEF Counts, CanUpdate
  <2>2. /\ o.items[i].round = 0 /\ s.items[i].qty \in Nat
        /\ s.items[i].qty + q.n - s.items[q.item].qty \in Nat
    BY <1>3, <2>a, <2>b
  <2>5. RowTyped(o.items[i])
    BY <2>1 DEF Counts, OrderTyped, RowTyped
  <2>3. RowTyped(row) /\ row.round = 0
    BY <2>2, <2>5 DEF RowTyped
  <2> HIDE DEF row
  <2> QED
    BY <1>1, <2>1, <2>3, <2>4, UnsentChange DEF Counts
<1>6. CASE old.round # 0 /\ kin = {}
  <2>1. s.items[q.item].qty \in Nat /\ q.n - s.items[q.item].qty \in Nat
    BY <1>2, <1>3, <1>6 DEF Counts, CanUpdate
  <2> DEFINE row == [qty |-> q.n - s.items[q.item].qty, round |-> 0, acct |-> s.items[q.item].acct]
  <2>2. RowTyped(row) /\ row.round = 0
    BY <2>1 DEF RowTyped
  <2>3. Updating(s, o, q) = NewRow(o, row)
    BY <1>6 DEF Updating
  <2>4. Least(Free(o)) \in ItemIds /\ o.items[Least(Free(o))].qty = 0
    BY FreeItem DEF Counts
  <2> HIDE DEF row
  <2> QED
    BY <1>1, <2>2, <2>3, <2>4, UnsentChange DEF Counts, NewRow
<1> QED
  BY <1>4, <1>5, <1>6

\* A void takes its dishes from what was sent, if they were.
LEMMA VoidCounts ==
    ASSUME NEW s, NEW o, NEW q, Counts(s, o, q), q.kind = "void"
    PROVE  /\ OrderTyped(Effect(s, o, q))
           /\ AllSent(Effect(s, o, q)) =
                 AllSent(o) - (IF s.items[q.item].round # 0 THEN q.n ELSE 0)
<1> DEFINE row == [o.items[q.item] EXCEPT !.qty = s.items[q.item].qty - q.n]
           p == SetRow(o, q.item, row)
<1>1. Effect(s, o, q) = p
  BY DEF Effect, Voiding
<1>2. CanVoid(s, q)
  BY DEF Counts, Can
<1>3. /\ q.item \in ItemIds /\ s.items[q.item].qty \in Nat /\ o.items[q.item].qty > 0
      /\ o.items[q.item].qty = s.items[q.item].qty
      /\ o.items[q.item].round = s.items[q.item].round
      /\ s.items[q.item].qty - q.n \in Nat
      /\ RowTyped(o.items[q.item])
  BY <1>2 DEF Counts, CanVoid, Rows, OrderTyped, SameCount, RowTyped
<1>4. /\ RowTyped(row) /\ row.round = s.items[q.item].round
      /\ row.qty = s.items[q.item].qty - q.n
  BY <1>3 DEF RowTyped
<1> HIDE DEF row
<1>5. /\ OrderTyped(p) /\ p.items[q.item] = row
      /\ AllSent(p) = AllSent(o) - SentOf(o)[q.item] + SentOf(p)[q.item]
  BY <1>3, <1>4, RowChange DEF Counts
<1> HIDE DEF p
<1>6. q.n \in Nat /\ AllSent(o) \in Int
  BY CountSums DEF Counts
<1>7. /\ SentOf(o)[q.item] = IF s.items[q.item].round # 0 THEN s.items[q.item].qty ELSE 0
      /\ SentOf(p)[q.item] = IF s.items[q.item].round # 0 THEN s.items[q.item].qty - q.n ELSE 0
  BY <1>3, <1>4, <1>5 DEF SentOf
<1> QED
  BY <1>1, <1>3, <1>5, <1>6, <1>7

\* A move divides a row, sent or not, and loses nothing of it.
LEMMA MoveCounts ==
    ASSUME NEW s, NEW o, NEW q, Counts(s, o, q), q.kind = "move"
    PROVE  OrderTyped(Effect(s, o, q)) /\ AllSent(Effect(s, o, q)) = AllSent(o)
<1> DEFINE old == s.items[q.item]
<1>1. Effect(s, o, q) = MoveDishes(s, o, q)
  BY DEF Effect
<1>2. CanMove(s, q)
  BY DEF Counts, Can
<1>a. q.item \in Rows(s) /\ q.n <= old.qty /\ q.n \in Nat
  BY <1>2 DEF Counts, CanMove
<1>b. q.item \in ItemIds /\ old.qty > 0
  BY <1>a DEF Rows
<1>c. RowTyped(o.items[q.item]) /\ RowTyped(old)
  BY <1>b DEF Counts, OrderTyped, RowTyped
<1>d. o.items[q.item].qty = old.qty
  BY <1>b DEF Counts, SameCount
<1>e. o.items[q.item].round = old.round
  BY <1>b, <1>d DEF Counts, SameCount
<1>3. /\ q.item \in ItemIds /\ old.qty \in Nat /\ o.items[q.item].qty > 0
      /\ o.items[q.item].qty = old.qty /\ o.items[q.item].round = old.round
      /\ old.qty - q.n \in Nat
      /\ RowTyped(o.items[q.item]) /\ RowTyped(old)
  <2>1. old.qty \in Nat
    BY <1>c DEF RowTyped
  <2> HIDE DEF old
  <2> QED
    BY <1>a, <1>b, <1>c, <1>d, <1>e, <2>1
<1>4. CASE q.n = old.qty
  <2> DEFINE row == [o.items[q.item] EXCEPT !.acct = q.acct]
             p == SetRow(o, q.item, row)
  <2>1. RowTyped(row) /\ row.round = o.items[q.item].round /\ row.qty = o.items[q.item].qty
    BY <1>3 DEF RowTyped
  <2>2. MoveDishes(s, o, q) = p
    BY <1>4 DEF MoveDishes
  <2> HIDE DEF row
  <2>3. /\ OrderTyped(p) /\ p.items[q.item] = row
        /\ AllSent(p) = AllSent(o) - SentOf(o)[q.item] + SentOf(p)[q.item]
    BY <1>3, <2>1, RowChange DEF Counts
  <2> HIDE DEF p
  <2>4. SentOf(o)[q.item] = SentOf(p)[q.item] /\ SentOf(o)[q.item] \in Int
    BY <1>3, <2>1, <2>3 DEF SentOf
  <2>5. AllSent(o) \in Int
    BY CountSums DEF Counts
  <2> QED
    BY <1>1, <2>2, <2>3, <2>4, <2>5
<1>5. CASE q.n # old.qty
  <2> DEFINE less == [o.items[q.item] EXCEPT !.qty = old.qty - q.n]
             more == [old EXCEPT !.qty = q.n, !.acct = q.acct]
             p == SetRow(o, q.item, less)
             new == Least(Free(p))
             t == SetRow(p, new, more)
  <2>a. RowTyped(more) /\ more.round = old.round /\ more.qty = q.n
    <3>1. more = [old EXCEPT !.qty = q.n, !.acct = q.acct]
      OBVIOUS
    <3> HIDE DEF old, more
    <3>2. old = [qty |-> old.qty, round |-> old.round, acct |-> old.acct]
      BY <1>c DEF RowTyped
    <3>3. more.round = old.round /\ more.qty = q.n
      BY <3>1, <3>2
    <3>4. more = [qty |-> more.qty, round |-> more.round, acct |-> more.acct]
      BY <3>1, <3>2
    <3> QED BY <1>a, <3>3, <3>4 DEF RowTyped
  <2>b. RowTyped(less) /\ less.round = old.round /\ less.qty = old.qty - q.n
    <3> HIDE DEF old
    <3> QED BY <1>3, <1>c DEF RowTyped
  <2>c. old.qty - q.n > 0
    <3> HIDE DEF old
    <3> QED BY <1>a, <1>3, <1>5
  <2>1. /\ RowTyped(less) /\ less.round = old.round /\ less.qty = old.qty - q.n /\ less.qty > 0
        /\ RowTyped(more) /\ more.round = old.round /\ more.qty = q.n
    <3> HIDE DEF old, less, more
    <3> QED BY <2>a, <2>b, <2>c
  <2>2. MoveDishes(s, o, q) = t
    BY <1>5 DEF MoveDishes, NewRow
  <2>d. OrderTyped(o)
    BY DEF Counts
  <2> HIDE DEF less, more, old
  <2>3. /\ OrderTyped(p) /\ p.items[q.item] = less
        /\ \A j \in ItemIds : j # q.item => p.items[j] = o.items[j]
        /\ AllSent(p) = AllSent(o) - SentOf(o)[q.item] + SentOf(p)[q.item]
    BY <1>3, <2>1, <2>d, RowChange
  <2> HIDE DEF p
  <2>4. Free(p) = Free(o)
    BY <1>3, <2>1, <2>3 DEF Free
  <2>5. new \in ItemIds /\ p.items[new].qty = 0 /\ new # q.item
    BY <2>1, <2>3, <2>4, FreeItem DEF Counts
  <2> HIDE DEF new
  <2>6. /\ OrderTyped(t) /\ t.items[new] = more
        /\ AllSent(t) = AllSent(p) - SentOf(p)[new] + SentOf(t)[new]
    BY <2>1, <2>3, <2>5, RowChange
  <2> HIDE DEF t
  <2>8. AllSent(o) \in Int
    BY CountSums DEF Counts
  <2>7. /\ SentOf(p)[new] = 0
        /\ SentOf(o)[q.item] = SentOf(p)[q.item] + SentOf(t)[new]
        /\ SentOf(o)[q.item] \in Int /\ SentOf(p)[q.item] \in Int /\ SentOf(t)[new] \in Int
    BY <1>a, <1>3, <2>1, <2>3, <2>5, <2>6 DEF SentOf
  <2> QED
    BY <1>1, <2>2, <2>3, <2>6, <2>7, <2>8
<1> QED
  BY <1>4, <1>5

\* No other request touches how much there is, or was sent.
Fields(o) == o = [status |-> o.status, mode |-> o.mode, disc |-> o.disc, items |-> o.items,
                  accts |-> o.accts]

\* An order whose rows keep their dishes.
LEMMA ItemsKept ==
    ASSUME NEW o, OrderTyped(o), NEW p, Fields(p),
           p.items = [i \in ItemIds |-> [qty |-> p.items[i].qty, round |-> p.items[i].round,
                                         acct |-> p.items[i].acct]],
           \A i \in ItemIds : /\ p.items[i].qty = o.items[i].qty
                              /\ o.items[i].qty > 0 => p.items[i].round = o.items[i].round
    PROVE  OrderTyped(p) /\ SameCount(o, p)
<1>1. \A i \in ItemIds : o.items[i].qty \in Nat
  BY DEF OrderTyped
<1>2. OrderTyped(p)
  BY <1>1 DEF OrderTyped, Fields
<1> QED
  BY <1>2 DEF SameCount

\* Requests about the bill keep them.
LEMMA OtherCounts ==
    ASSUME NEW s, NEW o, NEW q, OrderTyped(o), q.kind \in OrderKinds \ (Counted \cup {"send"})
    PROVE  OrderTyped(Effect(s, o, q)) /\ SameCount(o, Effect(s, o, q))
<1> DEFINE p == Effect(s, o, q)
           Row(items) == /\ items = [i \in ItemIds |-> [qty |-> items[i].qty,
                                        round |-> items[i].round, acct |-> items[i].acct]]
                         /\ \A i \in ItemIds :
                               /\ items[i].qty = o.items[i].qty
                               /\ o.items[i].qty > 0 => items[i].round = o.items[i].round
<1>a. Fields(o) /\ Row(o.items)
  BY DEF OrderTyped, Fields
<1>b. ASSUME Fields(p), Row(p.items) PROVE OrderTyped(p) /\ SameCount(o, p)
  <2> HIDE DEF p
  <2> QED BY <1>b, ItemsKept
<1>1. ASSUME NEW a PROVE Row(Detached(o, a))
  BY DEF Detached, OrderTyped, NoItem
<1>2. CASE q.kind = "split"
  <2>1. PICK a, mode, accts :
           p = [o EXCEPT !.mode = mode, !.items = Detached(o, a), !.accts = accts]
    BY <1>2 DEF Effect, Splitting
  <2> HIDE DEF p, Row
  <2>2. Fields(p) /\ p.items = Detached(o, a)
    BY <1>a, <2>1 DEF Fields
  <2> QED
    BY <1>1, <1>b, <2>2 DEF p
<1>3. CASE q.kind \in {"undo", "cancel"}
  <2> DEFINE u == Undoing(o)
  <2>1. Fields(u) /\ u.items = Detached(o, 0)
    <3>1. PICK accts : u = [o EXCEPT !.mode = "NONE", !.items = Detached(o, 0), !.accts = accts]
      BY DEF Undoing
    <3> HIDE DEF u
    <3> QED BY <1>a, <3>1 DEF Fields
  <2>2. p = u \/ p = [u EXCEPT !.mode = o.mode, !.status = "CANCELLED"]
    BY <1>3 DEF Effect
  <2> HIDE DEF p, u, Row
  <2>3. Fields(p) /\ p.items = Detached(o, 0)
    BY <2>1, <2>2 DEF Fields
  <2> QED
    BY <1>1, <1>b, <2>3 DEF p
<1>4. CASE q.kind = "merge"
  <2> DEFINE items == [i \in ItemIds |-> IF o.items[i].qty > 0 /\ o.items[i].acct = q.item
                                         THEN [o.items[i] EXCEPT !.acct = q.acct]
                                         ELSE o.items[i]]
  <2>1. PICK accts : p = [o EXCEPT !.accts = accts, !.items = items]
    BY <1>4 DEF Effect, Merging
  <2>2. Row(items)
    BY DEF OrderTyped
  <2> HIDE DEF p, items, Row
  <2>3. Fields(p) /\ p.items = items
    BY <1>a, <2>1 DEF Fields
  <2> QED
    BY <1>b, <2>2, <2>3 DEF p
<1>5. CASE q.kind = "grow"
  <2>1. PICK accts : p = [o EXCEPT !.accts = accts]
    BY <1>5 DEF Effect, Growing
  <2> HIDE DEF p, Row
  <2>2. Fields(p) /\ p.items = o.items
    BY <1>a, <2>1 DEF Fields
  <2> QED
    BY <1>a, <1>b, <2>2 DEF p
<1>6. CASE q.kind = "discount"
  <2>1. p = [o EXCEPT !.disc = q.n]
    BY <1>6 DEF Effect
  <2> HIDE DEF p, Row
  <2>2. Fields(p) /\ p.items = o.items
    BY <1>a, <2>1 DEF Fields
  <2> QED
    BY <1>a, <1>b, <2>2 DEF p
<1>7. CASE q.kind = "checkout"
  <2> DEFINE paid == IF q.acct = 0 THEN o ELSE [o EXCEPT !.accts[q.acct].status = "PAID"]
  <2>1. p = paid \/ p = [paid EXCEPT !.status = "CLOSED"]
    BY <1>7 DEF Effect, Charging
  <2>2. Fields(paid) /\ paid.items = o.items
    BY <1>a DEF Fields
  <2> HIDE DEF p, paid, Row
  <2>3. Fields(p) /\ p.items = o.items
    BY <2>1, <2>2 DEF Fields
  <2> QED
    BY <1>a, <1>b, <2>3 DEF p
<1> QED
  BY <1>2, <1>3, <1>4, <1>5, <1>6, <1>7 DEF OrderKinds, Counted

-----------------------------------------------------------------------------
(* Who prints a round.                                                      *)
ClaimInv == RoundTyped /\ ClaimHolds

\* No round, no claim.
LEMMA ClaimInit == TableInit => ClaimInv
<1> SUFFICES ASSUME TableInit PROVE ClaimInv
  OBVIOUS
<1>1. RoundTyped
  BY DEF TableInit, RoundTyped, RoundShape, NoRound
<1>2. \A k : Current(k) = {}
  BY DEF TableInit, Current, Printers
<1> QED
  BY <1>1, <1>2 DEF ClaimInv, ClaimHolds

\* A new round has no printer.
LEMMA NewRoundClaims ==
    ASSUME ClaimInv, NEW type, NEW n, NEW token, NewRound(type, n, token),
           UNCHANGED <<printing, late>>
    PROVE  ClaimInv'
<1> DEFINE new == Least({k \in RoundIds : round[k] = NoRound})
<1>1. /\ new \in RoundIds /\ round[new] = NoRound
      /\ \A k \in RoundIds \ {new} : round'[k] = round[k]
  BY RoundCreated DEF ClaimInv
<1>2. RoundTyped'
  BY RoundCreated DEF ClaimInv
<1> HIDE DEF new
<1>3. Current(new) = {}
  BY <1>1 DEF ClaimInv, ClaimHolds, NoRound
<1>4. \A k : Current(k)' = Current(k)
  BY DEF Current, Printers
<1> QED
  BY <1>1, <1>2, <1>3, <1>4 DEF ClaimInv, ClaimHolds

\* A round that is claimed or marked keeps what it tells.
LEMMA RoundPrinted ==
    ASSUME RoundTyped, NEW st, NEW k \in RoundIds,
           ClaimPrint(st, k) \/ MarkPrint(st, k) \/ ClaimLapses(k) \/ Reprint(k)
    PROVE  /\ RoundTyped' /\ \A j \in RoundIds \ {k} : round'[j] = round[j]
           /\ ClaimPrint(st, k) => round'[k].print = "PRINTING" /\ round'[k].stale = FALSE
           /\ MarkPrint(st, k) => round'[k].print \in {"PRINTED", "FAILED"}
           /\ round'[k].type = round[k].type /\ round'[k].qty = round[k].qty
           /\ round'[k].token = round[k].token
<1>0. RoundShape(round[k])
  BY DEF RoundTyped
<1>1. PICK print, stale :
         /\ \/ round' = [round EXCEPT ![k].print = print, ![k].stale = stale]
            \/ round' = [round EXCEPT ![k].print = print]
            \/ round' = [round EXCEPT ![k].stale = stale] /\ print = round[k].print
         /\ ClaimPrint(st, k) =>
               /\ round' = [round EXCEPT ![k].print = print, ![k].stale = stale]
               /\ print = "PRINTING" /\ stale = FALSE
         /\ MarkPrint(st, k) =>
               /\ round' = [round EXCEPT ![k].print = print]
               /\ print \in {"PRINTED", "FAILED"}
  <2>1. CASE ClaimPrint(st, k)
    BY <2>1 DEF ClaimPrint, MarkPrint
  <2>2. CASE MarkPrint(st, k)
    BY <2>2 DEF ClaimPrint, MarkPrint
  <2>3. CASE ClaimLapses(k) /\ ~ClaimPrint(st, k) /\ ~MarkPrint(st, k)
    BY <2>3 DEF ClaimLapses
  <2>4. CASE Reprint(k) /\ ~ClaimPrint(st, k) /\ ~MarkPrint(st, k)
    BY <2>4 DEF Reprint
  <2> QED BY <2>1, <2>2, <2>3, <2>4
<1> DEFINE row == round'[k]
           old == round[k]
<1>2. /\ round' = [j \in RoundIds |-> round'[j]]
      /\ \A j \in RoundIds \ {k} : round'[j] = round[j]
      /\ \/ row = [[old EXCEPT !.print = print] EXCEPT !.stale = stale]
         \/ row = [old EXCEPT !.print = print]
         \/ row = [old EXCEPT !.stale = stale]
  BY <1>1 DEF RoundTyped
<1>3. /\ ClaimPrint(st, k) => row = [[old EXCEPT !.print = print] EXCEPT !.stale = stale]
      /\ MarkPrint(st, k) => row = [old EXCEPT !.print = print]
  BY <1>1 DEF RoundTyped
<1>4. /\ RoundShape(row)
      /\ row.type = old.type /\ row.qty = old.qty /\ row.token = old.token
      /\ row = [[old EXCEPT !.print = print] EXCEPT !.stale = stale] =>
            row.print = print /\ row.stale = stale
      /\ row = [old EXCEPT !.print = print] => row.print = print
  <2>1. RoundShape(old)
    BY <1>0
  <2> HIDE DEF row, old
  <2> QED BY <1>2, <2>1 DEF RoundShape
<1>5. RoundTyped'
  BY <1>2, <1>4 DEF RoundTyped, RoundShape
<1> QED
  BY <1>1, <1>2, <1>3, <1>4, <1>5

\* A claim is not given while another is current.
LEMMA PrintClaims ==
    ASSUME ClaimInv, NEW st, NEW k \in RoundIds,
           ClaimPrint(st, k) \/ MarkPrint(st, k) \/ ClaimLapses(k) \/ Reprint(k)
    PROVE  ClaimInv'
<1>1. /\ RoundTyped' /\ \A j \in RoundIds : j # k => round'[j] = round[j]
      /\ ClaimPrint(st, k) => round'[k].print = "PRINTING" /\ round'[k].stale = FALSE
      /\ MarkPrint(st, k) => round'[k].print \in {"PRINTED", "FAILED"}
  BY RoundPrinted DEF ClaimInv
<1>2. \A j \in RoundIds : j # k => Current(j)' = Current(j)
  BY DEF Current, Printers, ClaimPrint, MarkPrint, ClaimLapses, Reprint
<1>3. /\ \A a, b \in Current(k)' : a = b
      /\ Current(k)' # {} => /\ round'[k].print \notin {"NONE", "PENDING"}
                             /\ ~(round'[k].print = "PRINTING" /\ round'[k].stale)
  <2>1. CASE ClaimPrint(st, k)
    <3>1. Current(k) = {}
      BY <2>1 DEF ClaimPrint, Claimable, ClaimInv, ClaimHolds
    <3>2. Current(k)' \subseteq Current(k) \cup {<<st, k>>}
      BY <2>1 DEF Current, Printers, ClaimPrint
    <3> QED BY <1>1, <2>1, <3>1, <3>2
  <2>2. CASE MarkPrint(st, k)
    <3>1. Current(k)' \subseteq Current(k)
      BY <2>2 DEF Current, Printers, MarkPrint
    <3> QED
      BY <1>1, <2>2, <3>1 DEF ClaimInv, ClaimHolds
  <2>3. CASE ClaimLapses(k) \/ Reprint(k)
    <3>1. Current(k)' = {}
      BY <2>3 DEF Current, Printers, ClaimLapses, Reprint
    <3> QED BY <3>1
  <2> QED BY <2>1, <2>2, <2>3
<1> QED
  BY <1>1, <1>2, <1>3 DEF ClaimInv, ClaimHolds

\* No step gives a round two current claims.
LEMMA ClaimSteps == ClaimInv /\ [TableNext]_tableVars => ClaimInv'
<1> SUFFICES ASSUME ClaimInv, [TableNext]_tableVars PROVE ClaimInv'
  OBVIOUS
<1>1. ASSUME UNCHANGED <<round, printing, late>> PROVE ClaimInv'
  BY <1>1 DEF ClaimInv, RoundTyped, ClaimHolds, Current, Printers
<1>2. CASE UNCHANGED tableVars
  BY <1>1, <1>2 DEF tableVars
<1>3. ASSUME NEW r \in Handlers, Begins(r) PROVE ClaimInv'
  <2>1. \A kind, item, acct, n, token :
           Begin(r, kind, item, acct, n, token) => UNCHANGED <<round, printing, late>>
    BY DEF Begin
  <2> HIDE DEF Begin
  <2> QED BY <1>1, <1>3, <2>1 DEF Begins
<1>4. ASSUME NEW r \in Handlers, Commit(r) \/ Abandon(r) PROVE ClaimInv'
  BY <1>1, <1>4 DEF Commit, Abandon
<1>5. ASSUME NEW r \in Handlers, SendCommit(r) \/ VoidTell(r) PROVE ClaimInv'
  BY <1>5, NewRoundClaims DEF SendCommit, VoidTell
<1>6. ASSUME NEW st \in Stations, NEW k \in RoundIds, ClaimPrint(st, k) \/ MarkPrint(st, k)
      PROVE  ClaimInv'
  BY <1>6, PrintClaims
<1>7. ASSUME NEW k \in RoundIds, ClaimLapses(k) \/ Reprint(k) PROVE ClaimInv'
  BY <1>7, PrintClaims
<1> QED
  BY <1>2, <1>3, <1>4, <1>5, <1>6, <1>7 DEF TableNext

-----------------------------------------------------------------------------
(* What the kitchen knows.                                                  *)
LEMMA KitchenInit == TableInit => KitchenHolds
<1> SUFFICES ASSUME TableInit PROVE KitchenHolds
  OBVIOUS
<1>1. Working = {}
  BY DEF TableInit, Working
<1>2. OrderTyped(order) /\ SentOf(order) = [i \in ItemIds |-> 0]
  BY DEF TableInit, NewOrder, NoItem, OrderTyped, SentOf
<1>3. \A k \in RoundIds : round[k].qty = 0
  BY DEF TableInit, NoRound
<1>4. TicketTyped
  BY <1>1, <1>2, <1>3 DEF TicketTyped, WorkTyped, TableInit
<1>5. SentOnOrder = 0
  <2>1. AllSent(order) = 0
    BY <1>2, SumZero, TableAssumption DEF AllSent
  <2> QED
    BY <1>2, <2>1, CountSums DEF SentOnOrder
<1>6. ASSUME NEW type PROVE RoundSum(type) = 0
  <2>1. IsFiniteSet({k \in RoundIds : round[k].type = type})
    BY TableAssumption, FS_Subset
  <2>2. \A k \in {j \in RoundIds : round[j].type = type} : [j \in RoundIds |-> round[j].qty][k] = 0
    BY <1>3
  <2> QED
    BY <2>1, <2>2, SumZero DEF RoundSum
<1> QED
  BY <1>1, <1>4, <1>5, <1>6 DEF KitchenHolds, CountHolds, CountAlone, Reported

\* Requests that begin.
LEMMA BeginNamed ==
    ASSUME NEW r, Begins(r)
    PROVE  \E kind, item, acct, n, token :
              /\ Begin(r, kind, item, acct, n, token) /\ kind \in OrderKinds
              /\ kind \in Counted => n \in Nat
              /\ kind = "send" => token \in setting.tokens
<1> HIDE DEF Begin
<1>1. Amounts \subseteq Nat
  BY TableAssumption DEF Amounts
<1> QED
  BY <1>1 DEF Begins, OrderKinds, Counted

\* The same dishes as the same dishes.
LEMMA SameCountTrans ==
    ASSUME NEW s, NEW o, NEW p, SameCount(s, o), SameCount(o, p)
    PROVE  SameCount(s, p) /\ Free(p) = Free(o)
  BY DEF SameCount, Free

\* What a request may do of the order it read does not depend on anything else.
LEMMA CanAgain ==
    ASSUME NEW o, NEW q, q.kind \in Counted, Can(o, q)
    PROVE  Can(o, q)'
  BY DEF Can, Counted, CanAdd, CanUpdate, CanVoid, CanMove

\* What a request has read stays so while the dishes do.
LEMMA CountsKept ==
    ASSUME NEW w, ToCount(w), ToSend(w), setting' = setting, SameCount(order, order'),
           TokenFree(w.q.token)' => TokenFree(w.q.token)
    PROVE  ToCount(w)' /\ ToSend(w)'
<1>1. ToCount(w)'
  <2>1. SUFFICES ASSUME w.q.kind \in Counted, w.kind = "commit" PROVE ToCount(w)'
    BY DEF ToCount
  <2>2. /\ OrderTyped(w.seen) /\ SameCount(w.seen, order) /\ Can(w.seen, w.q)
        /\ w.q.n \in Nat
        /\ w.q.kind \in {"add", "update", "move"} => Free(order) # {}
    BY <2>1 DEF ToCount
  <2>3. SameCount(w.seen, order') /\ Free(order') = Free(order)
    BY <2>2, SameCountTrans
  <2>4. Can(w.seen, w.q)'
    BY <2>1, <2>2, CanAgain
  <2> QED
    BY <2>2, <2>3, <2>4 DEF ToCount
<1>2. ToSend(w)'
  BY SameCountTrans DEF ToSend
<1> QED
  BY <1>1, <1>2

\* A request at work that the step does not touch.
LEMMA OthersKept ==
    ASSUME CountHolds, setting' = setting, SameCount(order, order'),
           \A t : TokenFree(t)' => TokenFree(t), NEW s \in Working, work'[s] = work[s]
    PROVE  Held(s)'
<1>1. PICK w : w = work[s]
  OBVIOUS
<1>2. ToCount(w) /\ ToSend(w) /\ (w.q.kind = "void" => w.q.n \in Nat)
  BY <1>1 DEF CountHolds, Held
<1>3. ToCount(w)' /\ ToSend(w)'
  BY <1>2, CountsKept
<1> QED
  BY <1>1, <1>2, <1>3 DEF Held, ToCount, ToSend

\* A request that ends.
LEMMA Ended ==
    ASSUME WorkTyped, setting' = setting, NEW r \in Handlers, work' = [work EXCEPT ![r] = Idle]
    PROVE  /\ WorkTyped' /\ Working' = Working \ {r}
           /\ \A s \in Working \ {r} : work'[s] = work[s]
<1>1. /\ work' = [s \in Handlers |-> work'[s]] /\ work'[r] = Idle
      /\ \A s \in Handlers \ {r} : work'[s] = work[s]
  BY DEF WorkTyped
<1>2. Working' = Working \ {r}
  BY <1>1 DEF Working
<1> QED
  BY <1>1, <1>2 DEF WorkTyped, Working

\* One that begins, or goes on.
LEMMA Goes ==
    ASSUME WorkTyped, setting' = setting, NEW r \in Handlers, NEW w,
           work' = [work EXCEPT ![r] = w], w = [kind |-> w.kind, q |-> w.q, seen |-> w.seen],
           w.kind \in {"commit", "tell"}, w.kind = "tell" => w.q.kind = "void",
           w.q.kind \in OrderKinds \cap setting.kinds
    PROVE  /\ WorkTyped' /\ Working' = Working \cup {r} /\ work'[r] = w
           /\ \A s \in Handlers \ {r} : work'[s] = work[s]
<1>1. /\ work' = [s \in Handlers |-> work'[s]] /\ work'[r] = w
      /\ \A s \in Handlers \ {r} : work'[s] = work[s]
  BY DEF WorkTyped
<1>2. w # Idle
  BY DEF Idle
<1>3. Working' = Working \cup {r}
  BY <1>1, <1>2 DEF Working
<1> QED
  BY <1>1, <1>3 DEF WorkTyped, Working

\* Nothing else happens while a request counts dishes.
LEMMA CountsAlone ==
    ASSUME KitchenCalm(setting), CountAlone, NEW r \in Working, work[r].q.kind \in Counted
    PROVE  Working = {r}
  BY DEF KitchenCalm, CountAlone

KitchenStep == /\ setting' = setting /\ setting \in Settings /\ KitchenCalm(setting)
               /\ RoundTyped /\ KitchenHolds

\* A request given up has told the kitchen nothing and changed nothing.
LEMMA AbandonHolds ==
    ASSUME KitchenStep, NEW r \in Handlers, Abandon(r)
    PROVE  KitchenHolds'
<1>1. r \in Working /\ work[r].kind = "commit"
  <2>1. r \in Working
    BY DEF Abandon, Working
  <2>2. WorkTyped /\ (setting.crash => "void" \notin setting.kinds)
    BY DEF KitchenStep, KitchenHolds, TicketTyped, KitchenCalm
  <2> QED
    BY <2>1, <2>2 DEF Abandon, WorkTyped
<1>2. /\ WorkTyped' /\ Working' = Working \ {r}
      /\ \A s \in Working \ {r} : work'[s] = work[s]
  BY Ended DEF KitchenStep, KitchenHolds, TicketTyped, Abandon
<1>3. order' = order /\ round' = round
  BY DEF Abandon
<1>4. TicketTyped'
  BY <1>2, <1>3 DEF KitchenStep, KitchenHolds, TicketTyped, OrderTyped
<1>5. CountHolds'
  <2>1. SameCount(order, order') /\ \A t : TokenFree(t)' => TokenFree(t)
    BY <1>3 DEF SameCount, TokenFree
  <2>2. ASSUME NEW s \in Working \ {r} PROVE Held(s)'
    BY <1>2, <2>1, OthersKept DEF KitchenStep, KitchenHolds
  <2> QED
    BY <1>2, <2>2 DEF CountHolds
<1>6. CountAlone'
  BY <1>2 DEF KitchenStep, KitchenHolds, CountAlone
<1>7. Reported'
  BY <1>1, <1>2, <1>3 DEF KitchenStep, KitchenHolds, Reported, RoundSum, SentOnOrder
<1> QED
  BY <1>4, <1>5, <1>6, <1>7 DEF KitchenHolds

\* A request that begins reads the order as it is.
LEMMA BeginHolds ==
    ASSUME KitchenStep, NEW r \in Handlers, NEW kind \in OrderKinds, NEW item, NEW acct, NEW n,
           NEW token, Begin(r, kind, item, acct, n, token), kind \in Counted => n \in Nat,
           kind = "send" => token \in setting.tokens
    PROVE  KitchenHolds'
<1> DEFINE q == [kind |-> kind, item |-> item, acct |-> acct, n |-> n, token |-> token]
           w == [kind |-> "commit", q |-> q, seen |-> order]
<1>1. /\ work[r] = Idle /\ Asked(q) /\ RoomFor(q) /\ Can(order, q)
      /\ work' = [work EXCEPT ![r] = w]
  BY DEF Begin
<1>2. order' = order /\ round' = round
  BY DEF Begin
<1>3. /\ q.kind = kind /\ q.n = n /\ q.token = token
      /\ w.kind = "commit" /\ w.q = q /\ w.seen = order
      /\ w = [kind |-> w.kind, q |-> w.q, seen |-> w.seen]
  OBVIOUS
<1> HIDE DEF q, w
<1>4. kind \in setting.kinds /\ r \notin Working
  BY <1>1, <1>3 DEF Asked, Working
<1>5. /\ WorkTyped' /\ Working' = Working \cup {r} /\ work'[r] = w
      /\ \A s \in Handlers \ {r} : work'[s] = work[s]
  BY <1>1, <1>3, <1>4, Goes DEF KitchenStep, KitchenHolds, TicketTyped
<1>6. TicketTyped'
  BY <1>2, <1>5 DEF KitchenStep, KitchenHolds, TicketTyped, OrderTyped
<1>7. CountHolds'
  <2>1. SameCount(order, order') /\ (\A t : TokenFree(t)' => TokenFree(t))
    BY <1>2 DEF SameCount, TokenFree
  <2>2. ASSUME NEW s \in Working PROVE Held(s)'
    <3>1. work'[s] = work[s]
      BY <1>4, <1>5 DEF Working
    <3> QED
      BY <2>1, <3>1, OthersKept DEF KitchenStep, KitchenHolds
  <2>3. Held(r)'
    <3>1. OrderTyped(order) /\ SameCount(order, order)
      BY DEF KitchenStep, KitchenHolds, TicketTyped, SameCount
    <3>2. PICK v : v = w
      OBVIOUS
    <3>3. ToCount(v)
      BY <1>1, <1>3, <3>1, <3>2 DEF ToCount, RoomFor, Counted
    <3>4. ToSend(v) /\ (v.q.kind = "void" => v.q.n \in Nat)
      BY <1>3, <3>1, <3>2 DEF ToSend, Counted
    <3>5. ToCount(v)' /\ ToSend(v)'
      BY <2>1, <3>3, <3>4, CountsKept DEF KitchenStep
    <3> QED
      BY <1>5, <3>2, <3>4, <3>5 DEF Held, ToCount, ToSend
  <2> QED
    BY <1>5, <2>2, <2>3 DEF CountHolds
<1>8. CountAlone'
  <2>1. CASE Working = {}
    BY <1>5, <2>1 DEF CountAlone
  <2>2. CASE \A k \in {q.kind} \cup {work[s].q.kind : s \in Working} : k \in setting.together
    <3>1. \A s \in Working' : work'[s].q.kind \in setting.together
      BY <1>3, <1>4, <1>5, <2>2 DEF Working
    <3> QED
      BY <3>1 DEF CountAlone, KitchenStep
  <2> QED
    BY <1>1, <2>1, <2>2 DEF Asked
<1>9. Reported'
  <2>1. \A s \in Working : work'[s] = work[s]
    BY <1>4, <1>5 DEF Working
  <2>2. RoundSum("SEND")' = RoundSum("SEND") /\ RoundSum("VOID")' = RoundSum("VOID")
        /\ SentOnOrder' = SentOnOrder
    BY <1>2 DEF RoundSum, SentOnOrder
  <2> QED
    BY <1>3, <1>5, <2>1, <2>2 DEF KitchenStep, KitchenHolds, Reported
<1> QED
  BY <1>6, <1>7, <1>8, <1>9 DEF KitchenHolds

\* A change of the dishes, which is alone.
LEMMA CountedHolds ==
    ASSUME KitchenStep, NEW r \in Handlers, Commit(r), work[r].q.kind \in Counted
    PROVE  KitchenHolds'
<1>1. PICK w : w = work[r]
  OBVIOUS
<1>2. r \in Working /\ w.kind = "commit" /\ w.q.kind \in Counted
  BY <1>1 DEF Commit, Working, Idle
<1>3. Working = {r}
  BY <1>1, <1>2, CountsAlone DEF KitchenStep, KitchenHolds
<1>4. Counts(w.seen, order, w.q)
  BY <1>1, <1>2 DEF KitchenStep, KitchenHolds, TicketTyped, CountHolds, Held, ToCount, Counts
<1>5. order' = Effect(w.seen, order, w.q) /\ round' = round
  BY <1>1 DEF Commit
<1>6. /\ OrderTyped(order')
      /\ AllSent(order') = AllSent(order) - (IF Told(w) THEN w.q.n ELSE 0)
  <2>1. AllSent(order) \in Int
    BY CountSums DEF KitchenStep, KitchenHolds, TicketTyped
  <2>2. CASE w.q.kind = "void"
    BY <1>4, <1>5, <2>1, <2>2, VoidCounts DEF Told
  <2>3. CASE w.q.kind = "add"
    BY <1>4, <1>5, <2>1, <2>3, AddCounts DEF Told
  <2>4. CASE w.q.kind = "update"
    BY <1>4, <1>5, <2>1, <2>4, UpdateCounts DEF Told
  <2>5. CASE w.q.kind = "move"
    BY <1>4, <1>5, <2>1, <2>5, MoveCounts DEF Told
  <2> QED
    BY <1>2, <2>2, <2>3, <2>4, <2>5 DEF Counted
<1>7. /\ SentOnOrder = AllSent(order) /\ SentOnOrder' = AllSent(order')
      /\ AllSent(order) \in Int /\ AllSent(order') \in Int
  BY <1>6, CountSums DEF SentOnOrder, KitchenStep, KitchenHolds, TicketTyped
<1>8. RoundSum("SEND") - RoundSum("VOID") = SentOnOrder
  BY <1>1, <1>2, <1>3 DEF KitchenStep, KitchenHolds, Reported
<1>9. RoundSum("SEND")' = RoundSum("SEND") /\ RoundSum("VOID")' = RoundSum("VOID")
  BY <1>5 DEF RoundSum
<1>a. w.q.n \in Nat
  BY <1>4 DEF Counts
<1>b. /\ RoundTyped /\ \A k \in RoundIds : round'[k].qty \in Nat
  BY <1>5 DEF KitchenStep, KitchenHolds, TicketTyped
<1>c. WorkTyped /\ setting' = setting
  BY DEF KitchenStep, KitchenHolds, TicketTyped
<1>d. CASE Told(w)
  <2> DEFINE v == [w EXCEPT !.kind = "tell"]
  <2>1. work' = [work EXCEPT ![r] = v]
    BY <1>1, <1>d DEF Commit
  <2>2. w = [kind |-> w.kind, q |-> w.q, seen |-> w.seen] /\ w.q.kind \in OrderKinds \cap setting.kinds
    BY <1>1, <1>2, <1>c DEF WorkTyped
  <2>3. /\ v.kind = "tell" /\ v.q = w.q /\ v.seen = w.seen
        /\ v = [kind |-> v.kind, q |-> v.q, seen |-> v.seen]
    BY <2>2
  <2> HIDE DEF v
  <2>4. v.q.kind = "void"
    BY <1>d, <2>3 DEF Told
  <2>5. /\ WorkTyped' /\ Working' = Working \cup {r} /\ work'[r] = v
    BY <1>c, <2>1, <2>2, <2>3, <2>4, Goes
  <2>6. Working' = {r}
    BY <1>3, <2>5
  <2>7. CountHolds'
    BY <1>a, <2>3, <2>4, <2>5, <2>6 DEF CountHolds, Held, ToCount, ToSend
  <2>8. Reported'
    <3>1. RoundSum("SEND")' - RoundSum("VOID")' = SentOnOrder' + w.q.n
      BY <1>d, <1>6, <1>7, <1>8, <1>9, <1>a
    <3> QED
      BY <2>3, <2>5, <2>6, <3>1 DEF Reported
  <2> QED
    BY <1>6, <1>b, <2>5, <2>6, <2>7, <2>8 DEF KitchenHolds, TicketTyped, CountAlone
<1>e. CASE ~Told(w)
  <2>1. work' = [work EXCEPT ![r] = Idle]
    BY <1>1, <1>e DEF Commit
  <2>2. WorkTyped' /\ Working' = {}
    BY <1>3, <1>c, <2>1, Ended
  <2>3. RoundSum("SEND")' - RoundSum("VOID")' = SentOnOrder'
    BY <1>e, <1>6, <1>7, <1>8, <1>9
  <2> QED
    BY <1>6, <1>b, <2>2, <2>3
       DEF KitchenHolds, TicketTyped, CountAlone, CountHolds, Reported
<1> QED
  BY <1>d, <1>e

\* Any other change leaves what the requests at work have read.
LEMMA OtherHolds ==
    ASSUME KitchenStep, NEW r \in Handlers, Commit(r), work[r].q.kind \notin Counted
    PROVE  KitchenHolds'
<1>1. PICK w : w = work[r]
  OBVIOUS
<1>2. r \in Working /\ w.kind = "commit" /\ w.q.kind # "send"
  BY <1>1 DEF Commit, Working, Idle
<1>3. WorkTyped /\ OrderTyped(order) /\ setting' = setting
  BY DEF KitchenStep, KitchenHolds, TicketTyped
<1>4. w.q.kind \in OrderKinds \ (Counted \cup {"send"})
  BY <1>1, <1>2, <1>3 DEF WorkTyped
<1>5. order' = Effect(w.seen, order, w.q) /\ round' = round
  BY <1>1 DEF Commit
<1>6. OrderTyped(order') /\ SameCount(order, order')
  BY <1>3, <1>4, <1>5, OtherCounts
<1>7. work' = [work EXCEPT ![r] = Idle]
  <2>1. ~Told(w)
    BY <1>4 DEF Told, Counted
  <2> QED BY <1>1, <2>1 DEF Commit
<1>8. /\ WorkTyped' /\ Working' = Working \ {r}
      /\ \A s \in Working \ {r} : work'[s] = work[s]
  BY <1>3, <1>7, Ended
<1>9. CountHolds'
  <2>1. \A t : TokenFree(t)' => TokenFree(t)
    BY <1>5 DEF TokenFree
  <2>2. ASSUME NEW s \in Working \ {r} PROVE Held(s)'
    BY <1>6, <1>8, <2>1, OthersKept DEF KitchenStep, KitchenHolds
  <2> QED
    BY <1>8, <2>2 DEF CountHolds
<1>a. CountAlone'
  BY <1>8 DEF KitchenStep, KitchenHolds, CountAlone
<1>b. Reported'
  <2>1. SentOnOrder' = SentOnOrder
    BY <1>3, <1>6, CountSums, SameSums DEF SentOnOrder
  <2>2. RoundSum("SEND")' = RoundSum("SEND") /\ RoundSum("VOID")' = RoundSum("VOID")
    BY <1>5 DEF RoundSum
  <2> QED
    BY <1>1, <1>2, <1>8, <2>1, <2>2 DEF KitchenStep, KitchenHolds, Reported
<1>c. \A k \in RoundIds : round'[k].qty \in Nat
  BY <1>5 DEF KitchenStep, KitchenHolds, TicketTyped
<1> QED
  BY <1>6, <1>8, <1>9, <1>a, <1>b, <1>c DEF KitchenHolds, TicketTyped

\* A round sent: its rows are those of the order, not sent until now.
LEMMA MarkCounts ==
    ASSUME NEW s, NEW o, OrderTyped(s), OrderTyped(o), SameCount(s, o)
    PROVE  LET p == [o EXCEPT !.items = [i \in ItemIds |->
                         IF i \in Unsent(s) /\ o.items[i].qty > 0
                         THEN [o.items[i] EXCEPT !.round = 1] ELSE o.items[i]]]
           IN  OrderTyped(p) /\ AllSent(p) = AllSent(o) + AllUnsent(o)
<1> DEFINE items == [i \in ItemIds |-> IF i \in Unsent(s) /\ o.items[i].qty > 0
                                       THEN [o.items[i] EXCEPT !.round = 1] ELSE o.items[i]]
           p == [o EXCEPT !.items = items]
<1>1. ASSUME NEW i \in ItemIds
      PROVE  /\ RowTyped(items[i]) /\ items[i].qty = o.items[i].qty
             /\ o.items[i].qty > 0 => items[i].round # 0
  <2>1. RowTyped(o.items[i])
    BY DEF OrderTyped, RowTyped
  <2>2. o.items[i].qty > 0 => (i \in Unsent(s) <=> o.items[i].round = 0)
    BY DEF Unsent, Rows, SameCount
  <2> QED
    BY <2>1, <2>2 DEF RowTyped
<1>2. Fields(o)
  BY DEF OrderTyped, Fields
<1>3. items = [i \in ItemIds |-> items[i]]
  OBVIOUS
<1> HIDE DEF items
<1>4. Fields(p) /\ p.items = items
  BY <1>2 DEF Fields
<1> HIDE DEF p
<1>5. OrderTyped(p)
  BY <1>1, <1>3, <1>4 DEF OrderTyped, Fields, RowTyped
<1>6. \A i \in ItemIds : /\ SentOf(p)[i] = SentOf(o)[i] + UnsentOf(o)[i]
                         /\ SentOf(o)[i] \in Int /\ UnsentOf(o)[i] \in Int
  <2> SUFFICES ASSUME NEW i \in ItemIds
               PROVE  /\ SentOf(p)[i] = SentOf(o)[i] + UnsentOf(o)[i]
                      /\ SentOf(o)[i] \in Int /\ UnsentOf(o)[i] \in Int
    OBVIOUS
  <2>1. o.items[i].qty \in Nat
    BY DEF OrderTyped
  <2>2. p.items[i].qty = o.items[i].qty /\ (o.items[i].qty > 0 => p.items[i].round # 0)
    BY <1>1, <1>4
  <2> QED
    BY <2>1, <2>2 DEF SentOf, UnsentOf
<1>7. AllSent(p) = AllSent(o) + AllUnsent(o)
  <2> HIDE DEF SentOf, UnsentOf
  <2> QED BY <1>6, TableAssumption, SumPlus DEF AllSent, AllUnsent
<1> QED
  BY <1>5, <1>7 DEF p, items

\* A send tells the kitchen what was not sent, and marks it.
LEMMA SendHolds ==
    ASSUME KitchenStep, NEW r \in Handlers, SendCommit(r)
    PROVE  KitchenHolds'
<1>1. PICK w : w = work[r]
  OBVIOUS
<1> DEFINE n == Dishes(w.seen, Unsent(w.seen))
<1>2. /\ r \in Working /\ w.kind = "commit" /\ w.q.kind = "send" /\ TokenFree(w.q.token)
      /\ NewRound("SEND", n, w.q.token) /\ work' = [work EXCEPT ![r] = Idle]
  BY <1>1 DEF SendCommit, Working, Idle
<1>3. WorkTyped /\ OrderTyped(order) /\ setting' = setting
  BY DEF KitchenStep, KitchenHolds, TicketTyped
<1>4. w.q.token \in setting.tokens /\ OrderTyped(w.seen) /\ SameCount(w.seen, order)
  BY <1>1, <1>2 DEF KitchenStep, KitchenHolds, CountHolds, Held, ToSend
<1>5. n = AllUnsent(order) /\ n \in Nat
  BY <1>3, <1>4, CountSums, SameSums
<1>6. OrderTyped(order') /\ AllSent(order') = AllSent(order) + AllUnsent(order)
  BY <1>1, <1>3, <1>4, MarkCounts DEF SendCommit
<1> HIDE DEF n
<1>7. /\ \A k \in RoundIds : round'[k].qty \in Nat
      /\ RoundSum("SEND")' = RoundSum("SEND") + n
      /\ RoundSum("VOID")' = RoundSum("VOID")
      /\ \E k \in RoundIds : round'[k].token = w.q.token
  <2>1. RoundTyped /\ \A k \in RoundIds : round[k].qty \in Nat
    BY DEF KitchenStep, KitchenHolds, TicketTyped
  <2>2. /\ \A k \in RoundIds : round'[k].qty \in Nat
        /\ RoundSum("SEND")' = RoundSum("SEND") + n
        /\ \A other : other # "SEND" /\ other # "NONE" => RoundSum(other)' = RoundSum(other)
        /\ \E k \in RoundIds : round'[k].token = w.q.token
    BY <1>2, <1>5, <2>1, NewRoundAdds
  <2> QED BY <2>2
<1>8. /\ WorkTyped' /\ Working' = Working \ {r}
      /\ \A s \in Working \ {r} : work'[s] = work[s]
  BY <1>2, <1>3, Ended
<1>9. \A s \in Working \ {r} : /\ work[s].q.kind \notin Counted /\ work[s].kind # "tell"
                               /\ work[s].q.kind = "send" => "send" \in setting.together
  <2> SUFFICES ASSUME NEW s \in Working \ {r}
               PROVE  /\ work[s].q.kind \notin Counted /\ work[s].kind # "tell"
                      /\ work[s].q.kind = "send" => "send" \in setting.together
    OBVIOUS
  <2>1. work[s].q.kind \notin Counted
    BY <1>2, CountsAlone DEF KitchenStep, KitchenHolds
  <2>2. work[s].kind # "tell"
    BY <1>3, <2>1 DEF WorkTyped, Counted
  <2>3. work[s].q.kind = "send" => "send" \in setting.together
    BY <1>2 DEF KitchenStep, KitchenHolds, CountAlone
  <2> QED BY <2>1, <2>2, <2>3
<1>a. CountHolds'
  <2>1. ASSUME NEW s \in Working \ {r} PROVE Held(s)'
    <3>1. PICK v : v = work[s]
      OBVIOUS
    <3>2. v.q.kind \notin Counted /\ (v.q.kind = "send" => "send" \in setting.together)
      BY <1>9, <3>1
    <3>3. v.q.kind = "send" => v.q.token \in setting.tokens
      BY <3>1 DEF KitchenStep, KitchenHolds, CountHolds, Held, ToSend
    <3>4. v.q.kind = "send" => v.q.token = w.q.token /\ w.q.token # Nothing
      BY <1>4, <3>2, <3>3 DEF KitchenStep, KitchenCalm
    <3>5. v.q.kind = "send" => ~TokenFree(v.q.token)'
      BY <1>7, <3>4 DEF TokenFree
    <3>6. ToSend(v)'
      BY <1>3, <3>3, <3>5 DEF ToSend
    <3>7. ToCount(v)' /\ v.q.kind # "void"
      BY <3>2 DEF ToCount, Counted
    <3>8. work'[s] = v
      BY <1>8, <3>1
    <3> QED
      BY <3>6, <3>7, <3>8 DEF Held, ToSend, ToCount
  <2> QED
    BY <1>8, <2>1 DEF CountHolds
<1>b. CountAlone'
  BY <1>3, <1>8 DEF KitchenStep, KitchenHolds, CountAlone
<1>c. Reported'
  <2>1. /\ SentOnOrder = AllSent(order) /\ SentOnOrder' = AllSent(order')
        /\ AllSent(order) \in Int
    BY <1>3, <1>6, CountSums DEF SentOnOrder
  <2>2. RoundSum("SEND") - RoundSum("VOID") = SentOnOrder
    BY <1>1, <1>2, <1>9 DEF KitchenStep, KitchenHolds, Reported
  <2>3. RoundSum("SEND") \in Int /\ RoundSum("VOID") \in Int
    BY RoundSums DEF RoundSum, KitchenStep, KitchenHolds, TicketTyped
  <2>4. RoundSum("SEND")' - RoundSum("VOID")' = SentOnOrder'
    BY <1>5, <1>6, <1>7, <2>1, <2>2, <2>3
  <2> QED
    BY <1>8, <1>9, <2>4 DEF Reported
<1> QED
  BY <1>6, <1>7, <1>8, <1>a, <1>b, <1>c DEF KitchenHolds, TicketTyped

\* The kitchen is told what a void took.
LEMMA TellHolds ==
    ASSUME KitchenStep, NEW r \in Handlers, VoidTell(r)
    PROVE  KitchenHolds'
<1>1. PICK w : w = work[r]
  OBVIOUS
<1>2. WorkTyped /\ OrderTyped(order) /\ setting' = setting
  BY DEF KitchenStep, KitchenHolds, TicketTyped
<1>3. r \in Working /\ w.kind = "tell"
  BY <1>1 DEF VoidTell, Working, Idle
<1>4. w.q.kind = "void"
  BY <1>1, <1>2, <1>3 DEF WorkTyped
<1>5. Working = {r}
  BY <1>1, <1>3, <1>4, CountsAlone DEF KitchenStep, KitchenHolds, Counted
<1>6. w.q.n \in Nat
  BY <1>1, <1>3, <1>4 DEF KitchenStep, KitchenHolds, CountHolds, Held
<1>7. /\ NewRound("VOID", w.q.n, Nothing) /\ work' = [work EXCEPT ![r] = Idle]
      /\ order' = order
  BY <1>1 DEF VoidTell
<1>8. /\ \A k \in RoundIds : round'[k].qty \in Nat
      /\ RoundSum("VOID")' = RoundSum("VOID") + w.q.n
      /\ RoundSum("SEND")' = RoundSum("SEND")
  <2>1. RoundTyped /\ \A k \in RoundIds : round[k].qty \in Nat
    BY DEF KitchenStep, KitchenHolds, TicketTyped
  <2>2. /\ \A k \in RoundIds : round'[k].qty \in Nat
        /\ RoundSum("VOID")' = RoundSum("VOID") + w.q.n
        /\ \A other : other # "VOID" /\ other # "NONE" => RoundSum(other)' = RoundSum(other)
    BY <1>6, <1>7, <2>1, NewRoundAdds
  <2> QED BY <2>2
<1>9. WorkTyped' /\ Working' = {}
  BY <1>2, <1>5, <1>7, Ended
<1>a. RoundSum("SEND") - RoundSum("VOID") = SentOnOrder + w.q.n
  BY <1>1, <1>3 DEF KitchenStep, KitchenHolds, Reported
<1>b. RoundSum("SEND") \in Int /\ RoundSum("VOID") \in Int /\ SentOnOrder \in Int
  BY <1>2, RoundSums, CountSums
     DEF RoundSum, SentOnOrder, KitchenStep, KitchenHolds, TicketTyped
<1>c. RoundSum("SEND")' - RoundSum("VOID")' = SentOnOrder'
  BY <1>6, <1>7, <1>8, <1>a, <1>b DEF SentOnOrder
<1>d. OrderTyped(order')
  BY <1>2, <1>7
<1> QED
  BY <1>8, <1>9, <1>c, <1>d DEF KitchenHolds, TicketTyped, CountHolds, CountAlone, Reported

\* Printing changes nothing of what a round tells; nor does a step of the floor.
LEMMA PrintHolds ==
    ASSUME KitchenStep, UNCHANGED <<order, work>>,
           \A k \in RoundIds : /\ round'[k].type = round[k].type
                               /\ round'[k].qty = round[k].qty
                               /\ round'[k].token = round[k].token
    PROVE  KitchenHolds'
<1>1. WorkTyped /\ OrderTyped(order) /\ setting' = setting
  BY DEF KitchenStep, KitchenHolds, TicketTyped
<1>2. Working' = Working /\ WorkTyped'
  BY <1>1 DEF Working, WorkTyped
<1>3. \A k \in RoundIds : round'[k].qty \in Nat
  BY DEF KitchenStep, KitchenHolds, TicketTyped
<1>4. CountHolds'
  <2>1. SameCount(order, order') /\ \A t : TokenFree(t)' => TokenFree(t)
    BY DEF SameCount, TokenFree
  <2>2. ASSUME NEW s \in Working PROVE Held(s)'
    BY <2>1, OthersKept DEF KitchenStep, KitchenHolds
  <2> QED
    BY <1>2, <2>2 DEF CountHolds
<1>5. CountAlone'
  BY <1>2 DEF KitchenStep, KitchenHolds, CountAlone
<1>6. RoundSum("SEND")' = RoundSum("SEND") /\ RoundSum("VOID")' = RoundSum("VOID")
  BY DEF RoundSum
<1>7. Reported'
  BY <1>2, <1>6 DEF KitchenStep, KitchenHolds, Reported, SentOnOrder
<1> QED
  BY <1>1, <1>2, <1>3, <1>4, <1>5, <1>7 DEF KitchenHolds, TicketTyped

\* Every step of the order.
LEMMA KitchenSteps ==
    ASSUME KitchenInv, [TableNext]_tableVars
    PROVE  KitchenInv'
<1>1. setting' = setting
  BY SettingStays DEF tableVars
<1>2. ClaimInv'
  BY ClaimSteps DEF KitchenInv, ClaimInv
<1>3. ASSUME KitchenCalm(setting)
      PROVE  KitchenHolds'
  <2>1. KitchenStep
    BY <1>1, <1>3 DEF KitchenInv, KitchenStep
  <2>2. CASE UNCHANGED tableVars
    <3>1. UNCHANGED <<order, work, round>>
      BY <2>2 DEF tableVars
    <3> QED BY <2>1, <3>1, PrintHolds
  <2>3. ASSUME NEW r \in Handlers, Begins(r) PROVE KitchenHolds'
    <3>1. PICK kind, item, acct, n, token :
             /\ Begin(r, kind, item, acct, n, token) /\ kind \in OrderKinds
             /\ kind \in Counted => n \in Nat
             /\ kind = "send" => token \in setting.tokens
      BY <2>3, BeginNamed
    <3> QED BY <2>1, <3>1, BeginHolds
  <2>4. ASSUME NEW r \in Handlers, Commit(r) PROVE KitchenHolds'
    BY <2>1, <2>4, CountedHolds, OtherHolds
  <2>5. ASSUME NEW r \in Handlers, SendCommit(r) \/ VoidTell(r) \/ Abandon(r)
        PROVE  KitchenHolds'
    BY <2>1, <2>5, SendHolds, TellHolds, AbandonHolds
  <2>6. ASSUME NEW st, NEW k \in RoundIds,
               ClaimPrint(st, k) \/ MarkPrint(st, k) \/ ClaimLapses(k) \/ Reprint(k)
        PROVE  KitchenHolds'
    <3>1. \A j \in RoundIds : /\ round'[j].type = round[j].type
                              /\ round'[j].qty = round[j].qty
                              /\ round'[j].token = round[j].token
      BY <2>6, RoundPrinted DEF KitchenInv
    <3>2. UNCHANGED <<order, work>>
      BY <2>6 DEF ClaimPrint, MarkPrint, ClaimLapses, Reprint
    <3> QED BY <2>1, <3>1, <3>2, PrintHolds
  <2>7. CASE \E st \in Stations, k \in RoundIds : ClaimPrint(st, k) \/ MarkPrint(st, k)
    BY <2>6, <2>7
  <2>8. CASE \E k \in RoundIds : ClaimLapses(k) \/ Reprint(k)
    BY <2>6, <2>8
  <2> QED
    BY <2>2, <2>3, <2>4, <2>5, <2>7, <2>8 DEF TableNext
<1> QED
  BY <1>1, <1>2, <1>3 DEF KitchenInv, ClaimInv

\* A step of the floor is none of the order's.
LEMMA SalonIsTable == [SalonNext]_salonVars => [TableNext]_tableVars
<1>1. \A r, q : Reads(r, q) => UNCHANGED tableVars
  BY DEF Reads
<1>2. \A r : SalonReads(r) => UNCHANGED tableVars
  <2> HIDE DEF Reads
  <2> QED BY <1>1 DEF SalonReads
<1> QED
  BY <1>2 DEF SalonNext, Writes, salonVars

\* Current claims of a round are one at most, whatever lapsed or was reprinted;
\* and where nothing counts dishes twice at a time and a round's token is the
\* client's (KitchenCalm), what the kitchen was told is what is on the order.
THEOREM KitchenTold ==
    SalonSpec => [](/\ \A k \in RoundIds : \A a, b \in Printers(k) \ late : a = b
                    /\ KitchenCalm(setting) => KitchenMatches)
<1>1. SalonInit => KitchenInv
  BY ClaimInit, KitchenInit DEF SalonInit, TableInit, KitchenInv, ClaimInv
<1>2. KitchenInv /\ [SalonNext]_salonVars => KitchenInv'
  BY SalonIsTable, KitchenSteps
<1>3. KitchenInv => /\ \A k \in RoundIds : \A a, b \in Printers(k) \ late : a = b
                    /\ KitchenCalm(setting) => KitchenMatches
  <2> SUFFICES ASSUME KitchenInv
               PROVE  /\ \A k \in RoundIds : \A a, b \in Printers(k) \ late : a = b
                      /\ KitchenCalm(setting) => KitchenMatches
    OBVIOUS
  <2>1. \A k \in RoundIds : \A a, b \in Printers(k) \ late : a = b
    BY DEF KitchenInv, ClaimHolds, Current
  <2>2. ASSUME NEW k \in RoundIds PROVE Cardinality(Printers(k) \ late) <= 1
    <3>1. CASE Printers(k) \ late = {}
      BY <3>1, FS_EmptySet
    <3>2. CASE Printers(k) \ late # {}
      <4>1. PICK p : Printers(k) \ late = {p}
        BY <2>1, <3>2
      <4> QED BY <4>1, FS_Singleton
    <3> QED BY <3>1, <3>2
  <2>3. ASSUME KitchenCalm(setting), \A r \in Working : work[r].kind # "tell"
        PROVE  RoundSum("SEND") - RoundSum("VOID") = Dishes(order, Rows(order) \ Unsent(order))
    BY <2>3 DEF KitchenInv, KitchenHolds, Reported, SentOnOrder
  <2> QED
    BY <2>1, <2>2, <2>3 DEF KitchenMatches
<1> QED
  BY <1>1, <1>2, <1>3, PTL DEF SalonSpec

-----------------------------------------------------------------------------
(***************************************************************************)
(* The bill of TableOrders.  Checkouts and sends to the kitchen may        *)
(* overlap; what else changes the bill comes one request at a time, and    *)
(* not once a part of it is paid.                                          *)
(***************************************************************************)
BillCalm(sc) == sc.calm /\ sc.together \cap OrderKinds \subseteq {"checkout", "send"}

\* The rest of the discount, which the last account takes, is neither less than
\* nothing nor, by items, more than the account's own dishes, if each has some.
PartsFit(o) ==
    \A a \in Accounts(o) :
        /\ o.mode = "ITEMS" /\ NoEmptyAccount(o) =>
              ItemsPart(o, a) \in 0 .. Subtotal(o, OfAcct(o, a))
        /\ o.mode = "EQUAL" => EqualPart(o, a) >= 0

BillTyped(o) ==
    /\ OrderTyped(o)
    /\ o.status \in {"OPEN", "CLOSED", "CANCELLED"} /\ o.mode \in {"NONE", "ITEMS", "EQUAL"}
    /\ o.disc \in Nat
    /\ o.accts \in [AcctIds -> [status : {"NONE", "OPEN", "PAID"}, fixed : Nat]]

\* Something can be charged: the dishes, divided by a number that is not zero.
Chargeable(o) ==
    /\ Rows(o) # {}
    /\ o.mode = "EQUAL" => Fixed(o, Accounts(o)) > 0 \/ \E a \in AcctIds : Accounts(o) = {a}

BillDivided(o) ==
    /\ Accounts(o) = {} <=> o.mode = "NONE" \/ o.status = "CANCELLED"
    /\ o.status # "CANCELLED" /\ o.mode = "ITEMS" =>
          \A i \in Rows(o) : o.items[i].acct \in Accounts(o)
    /\ o.status # "CANCELLED" /\ o.mode = "EQUAL" => Fixed(o, Accounts(o)) = Due(o)
    /\ o.status = "CLOSED" \/ Paid(o) # {} => Chargeable(o)
    /\ Accounts(o) # {} => (OpenAccts(o) = {} <=> o.status = "CLOSED")
    /\ o.mode = "ITEMS" => \A a \in Paid(o) : OfAcct(o, a) # {}

\* The sales, of the order as it is.
BillSales(o) ==
    IF o.mode # "NONE" THEN Cardinality(Paid(o)) ELSE IF o.status = "CLOSED" THEN 1 ELSE 0
BillUnits(o) ==
    IF o.mode # "NONE" THEN SumFunctionOnSet([a \in AcctIds |-> Charge(o, a).units], Paid(o))
    ELSE IF o.status = "CLOSED" THEN WholeCharge(o, 0).units ELSE 0
BillCents(o, off) ==
    IF o.mode # "NONE" THEN SumFunctionOnSet([a \in AcctIds |-> Charge(o, a).cents], Paid(o))
    ELSE IF o.status = "CLOSED" THEN WholeCharge(o, off).cents ELSE 0
BillCharged ==
    /\ charged = [units |-> BillUnits(order), cents |-> BillCents(order, charged.off),
                  sales |-> BillSales(order), off |-> charged.off]
    /\ charged.off \in Nat

\* Two orders that charge the same: they differ in what was sent or paid.
SameBill(s, o) ==
    /\ s.mode = o.mode /\ s.disc = o.disc /\ Accounts(s) = Accounts(o)
    /\ \A a \in AcctIds : s.accts[a].fixed = o.accts[a].fixed
    /\ \A i \in ItemIds : /\ s.items[i].qty = o.items[i].qty
                          /\ s.items[i].acct = o.items[i].acct

\* A request about the bill, as it was asked.
BillAsked(o, q) ==
    /\ q.kind \in Edits => Paid(o) = {}
    /\ q.kind \in Edits \ {"grow", "merge"} => o.mode # "EQUAL"
    /\ q.kind \in {"add", "update", "move"} => Free(o) # {}
    /\ q.n \in Nat
    /\ q.kind = "split" => q.n \in {0} \cup (AcctIds \ {1})

BillSeen(w) ==
    w.kind = "commit" /\ w.q.kind # "send" =>
        /\ BillAsked(order, w.q) /\ Can(order, w.q)
        /\ IF w.q.kind = "checkout" THEN SameBill(w.seen, order) ELSE w.seen = order

BillAlone ==
    \A r, s \in Working :
        /\ work[r].q.kind \notin {"checkout", "send"} => r = s
        /\ work[r].q.kind = "checkout" /\ work[s].q.kind = "checkout" => r = s

BillHolds ==
    /\ BillTyped(order) /\ BillDivided(order) /\ BillCharged
    /\ WorkTyped /\ (\A r \in Working : BillSeen(work[r])) /\ BillAlone

BillInv == setting \in Settings /\ (BillCalm(setting) => BillHolds)

-----------------------------------------------------------------------------
(* The parts of a bill add up.                                              *)

LEMMA ShareInt ==
    ASSUME NEW whole \in Int, NEW part \in Int, NEW all \in Nat, all > 0
    PROVE  Share(whole, part, all) \in Int
<1>1. 2 * whole * part + all \in Int /\ 2 * all \in Int /\ 2 * all > 0
  OBVIOUS
<1> QED
  BY <1>1 DEF Share

\* The shares of all accounts, the last of which takes the rest, make the whole.
LEMMA ResidualSum ==
    ASSUME NEW o, NEW whole \in Int, NEW weight, \A a \in AcctIds : weight[a] \in Int,
           NEW all \in Nat, all > 0 \/ \E a \in AcctIds : Accounts(o) = {a}, Accounts(o) # {}
    PROVE  /\ \A a \in Accounts(o) : Residual(o, a, whole, weight, all) \in Int
           /\ \A g : (\A a \in Accounts(o) : g[a] = Residual(o, a, whole, weight, all))
                        => SumFunctionOnSet(g, Accounts(o)) = whole
<1> DEFINE A == Accounts(o)
           last == Greatest(A)
           first == A \ {last}
           share == [b \in first |-> Share(whole, weight[b], all)]
<1>1. A \in SUBSET Nat /\ A \in SUBSET AcctIds /\ IsFiniteSet(A) /\ A # {}
  BY TableAssumption, FS_Subset DEF Accounts
<1>2. last \in A
  <2> HIDE DEF A
  <2> QED BY <1>1, GreatestIn
<1>3. IsFiniteSet(first) /\ \A a \in first : share[a] \in Int
  <2>1. first # {} => all > 0
    BY <1>2
  <2>2. ASSUME NEW a \in first PROVE Share(whole, weight[a], all) \in Int
    <3>1. weight[a] \in Int /\ all > 0
      BY <1>1, <2>1
    <3> QED BY <3>1, ShareInt
  <2> QED
    BY <1>1, <2>2, FS_Subset
<1>4. SumFunctionOnSet(share, first) \in Int
  <2> HIDE DEF share, first
  <2> QED BY <1>3, SumInt
<1>5. \A a \in A : Residual(o, a, whole, weight, all)
                      = IF a \in first THEN share[a] ELSE whole - SumFunctionOnSet(share, first)
  BY DEF Residual
<1>6. ASSUME NEW g, \A a \in A : g[a] = Residual(o, a, whole, weight, all)
      PROVE  SumFunctionOnSet(g, A) = whole
  <2>1. /\ \A a \in first : g[a] = share[a] /\ share[a] \in Int
        /\ g[last] = whole - SumFunctionOnSet(share, first) /\ g[last] \in Int
    BY <1>2, <1>3, <1>4, <1>5, <1>6
  <2>2. \A a \in A : g[a] \in Int
    BY <2>1
  <2>a. first = A \ {last} /\ IsFiniteSet(A) /\ last \in A
    BY <1>1, <1>2
  <2> HIDE DEF A, last, share, first
  <2>3. SumFunctionOnSet(g, A) = g[last] + SumFunctionOnSet(g, first)
    <3>1. SumFunctionOnSet(g, A) = g[last] + SumFunctionOnSet(g, A \ {last})
      BY <2>2, <2>a, SumRemove
    <3> QED BY <2>a, <3>1
  <2>4. SumFunctionOnSet(g, first) = SumFunctionOnSet(share, first)
    BY <1>3, <2>1, SumSame
  <2> QED
    BY <1>4, <2>1, <2>3, <2>4
<1> HIDE DEF share, first, last
<1> QED
  BY <1>3, <1>4, <1>5, <1>6

\* What an order adds up to.
LEMMA BillSums ==
    ASSUME NEW o, BillTyped(o)
    PROVE  /\ IsFiniteSet(Rows(o)) /\ Rows(o) \in SUBSET ItemIds
           /\ IsFiniteSet(Accounts(o)) /\ Accounts(o) \in SUBSET AcctIds
           /\ \A R \in SUBSET ItemIds : Dishes(o, R) \in Nat /\ Subtotal(o, R) \in Nat
           /\ Rows(o) # {} => Subtotal(o, Rows(o)) > 0
           /\ \A S \in SUBSET AcctIds : Fixed(o, S) \in Nat
           /\ Discount(o) \in Nat /\ Discount(o) <= Subtotal(o, Rows(o)) /\ Due(o) \in Nat
<1> DEFINE q == [i \in ItemIds |-> o.items[i].qty]
           f == [a \in AcctIds |-> o.accts[a].fixed]
<1>1. /\ IsFiniteSet(ItemIds) /\ IsFiniteSet(AcctIds) /\ Price \in Nat /\ Price > 0
      /\ Rows(o) \in SUBSET ItemIds /\ Accounts(o) \in SUBSET AcctIds
  BY TableAssumption DEF Rows, Accounts
<1>2. /\ \A i \in ItemIds : q[i] \in Nat
      /\ \A i \in Rows(o) : q[i] > 0
      /\ \A a \in AcctIds : f[a] \in Nat
  BY DEF BillTyped, OrderTyped, Rows
<1>3. \A R \in SUBSET ItemIds : Dishes(o, R) = SumFunctionOnSet(q, R)
  BY DEF Dishes
<1>4. \A S \in SUBSET AcctIds : Fixed(o, S) = SumFunctionOnSet(f, S)
  BY DEF Fixed
<1> HIDE DEF q, f
<1>5. \A R \in SUBSET ItemIds : Dishes(o, R) \in Nat /\ \A i \in R : q[i] <= Dishes(o, R)
  <2> TAKE R \in SUBSET ItemIds
  <2>1. IsFiniteSet(R) /\ \A i \in R : q[i] \in Nat
    BY <1>1, <1>2, FS_Subset
  <2> QED BY <1>3, <2>1, SumNat
<1>6. \A S \in SUBSET AcctIds : Fixed(o, S) \in Nat
  <2> TAKE S \in SUBSET AcctIds
  <2>1. IsFiniteSet(S) /\ \A a \in S : f[a] \in Nat
    BY <1>1, <1>2, FS_Subset
  <2> QED BY <1>4, <2>1, SumNat
<1>7. \A R \in SUBSET ItemIds : Subtotal(o, R) \in Nat
  BY <1>1, <1>5 DEF Subtotal
<1>8. Rows(o) # {} => Subtotal(o, Rows(o)) > 0
  <2> SUFFICES ASSUME Rows(o) # {} PROVE Subtotal(o, Rows(o)) > 0
    OBVIOUS
  <2>1. PICK i \in Rows(o) : TRUE
    OBVIOUS
  <2>2. Dishes(o, Rows(o)) \in Nat /\ Dishes(o, Rows(o)) > 0
    BY <1>1, <1>2, <1>5, <2>1
  <2> QED
    BY <1>1, <2>2 DEF Subtotal
<1>9. Discount(o) \in Nat /\ Discount(o) <= Subtotal(o, Rows(o)) /\ Due(o) \in Nat
  <2>1. o.disc \in Nat /\ Subtotal(o, Rows(o)) \in Nat
    BY <1>1, <1>7 DEF BillTyped
  <2> QED BY <2>1 DEF Discount, Lower, Due
<1> QED
  BY <1>1, <1>5, <1>6, <1>7, <1>8, <1>9, FS_Subset

\* What the accounts of an order charge, one by one and together.
Amount(o) == [a \in AcctIds |-> Charge(o, a).cents]
Parts(o)  == [a \in AcctIds |-> Charge(o, a).units]

Divided(o) == BillTyped(o) /\ BillDivided(o) /\ Accounts(o) # {} /\ o.status # "CANCELLED"

LEMMA ChargeIs ==
    ASSUME NEW o, Divided(o), NEW a \in AcctIds
    PROVE  /\ o.mode \in {"ITEMS", "EQUAL"}
           /\ Charge(o, a) = IF o.mode = "ITEMS" THEN ItemsCharge(o, a) ELSE EqualCharge(o, a)
  BY TableAssumption DEF Charge, Divided, BillTyped, BillDivided

\* A total, where the discount is neither negative nor too large.
LEMMA NetIs ==
    ASSUME NEW sub \in Int, NEW part \in Int
    PROVE  /\ Net(sub, part) \in Int
           /\ part \in 0 .. sub => Net(sub, part) = sub - part
           /\ \A fixed \in Nat : sub = fixed + part /\ part >= 0 => Net(sub, part) = fixed
<1>1. Positive(part) = IF part > 0 THEN part ELSE 0
  BY DEF Positive
<1>2. Net(sub, part) = IF sub - Positive(part) > 0 THEN sub - Positive(part) ELSE 0
  BY DEF Net, Positive
<1> HIDE DEF Net, Positive
<1> QED
  BY <1>1, <1>2

\* By items, every dish is of one account, and every cent of the discount.
LEMMA ItemsSums ==
    ASSUME NEW o, Divided(o), Chargeable(o), o.mode = "ITEMS"
    PROVE  /\ \A a \in Accounts(o) : Parts(o)[a] \in Int /\ Amount(o)[a] \in Int
           /\ \A a \in Accounts(o) : ItemsPart(o, a) \in Int
           /\ SumFunctionOnSet(Parts(o), Accounts(o)) = Unit * Dishes(o, Rows(o))
           /\ PartsFit(o) /\ NoEmptyAccount(o) =>
                 /\ SumFunctionOnSet(Amount(o), Accounts(o)) = Due(o)
                 /\ \A a \in Accounts(o) :
                       Amount(o)[a] = Subtotal(o, OfAcct(o, a)) - ItemsPart(o, a)
<1> DEFINE A == Accounts(o)
           q == [i \in ItemIds |-> o.items[i].qty]
           of == [i \in ItemIds |-> o.items[i].acct]
           dishes == [a \in AcctIds |-> Dishes(o, OfAcct(o, a))]
           subs == [a \in AcctIds |-> Subtotal(o, OfAcct(o, a))]
           disc == [a \in AcctIds |-> ItemsPart(o, a)]
<1>1. /\ IsFiniteSet(Rows(o)) /\ Rows(o) \in SUBSET ItemIds
      /\ IsFiniteSet(A) /\ A \in SUBSET AcctIds /\ A # {}
      /\ Subtotal(o, Rows(o)) \in Nat /\ Subtotal(o, Rows(o)) > 0 /\ Dishes(o, Rows(o)) \in Nat
      /\ Discount(o) \in Nat /\ Price \in Nat /\ Unit \in Nat
  BY BillSums, TableAssumption DEF Divided, Chargeable
<1>2. ASSUME NEW a \in AcctIds
      PROVE  /\ dishes[a] \in Nat /\ subs[a] \in Nat /\ subs[a] = Price * dishes[a]
             /\ Charge(o, a) = ItemsCharge(o, a)
  <2>1. OfAcct(o, a) \in SUBSET ItemIds
    BY DEF OfAcct, Rows
  <2>2. Dishes(o, OfAcct(o, a)) \in Nat /\ Subtotal(o, OfAcct(o, a)) \in Nat
    BY <2>1, BillSums DEF Divided
  <2>3. Charge(o, a) = ItemsCharge(o, a)
    BY ChargeIs
  <2> QED
    BY <2>2, <2>3 DEF Subtotal
<1>3. SumFunctionOnSet(dishes, A) = Dishes(o, Rows(o))
  <2>1. \A i \in Rows(o) : q[i] \in Int /\ of[i] \in A
    <3> SUFFICES ASSUME NEW i \in Rows(o) PROVE q[i] \in Int /\ of[i] \in A
      OBVIOUS
    <3>1. i \in ItemIds /\ o.items[i].qty \in Nat
      BY <1>1 DEF Divided, BillTyped, OrderTyped
    <3>2. o.items[i].acct \in Accounts(o)
      BY DEF Divided, BillDivided
    <3> QED BY <3>1, <3>2
  <2> DEFINE F == [a \in AcctIds |-> OfAcct(o, a)]
  <2>2. \A a \in A : dishes[a] = SumFunctionOnSet(q, F[a])
    BY <1>1 DEF Dishes
  <2>7. \A a \in A : \A i : i \in F[a] <=> i \in Rows(o) /\ of[i] = a
    BY <1>1 DEF OfAcct
  <2>3. Dishes(o, Rows(o)) = SumFunctionOnSet(q, Rows(o))
    BY DEF Dishes
  <2>4. IsFiniteSet(Rows(o)) /\ IsFiniteSet(A) /\ \A i \in Rows(o) : q[i] \in Int
    BY <1>1, <2>1
  <2>5. \A i \in Rows(o) : of[i] \in A
    BY <2>1
  <2> HIDE DEF A, q, of, dishes, F
  <2>6. SumFunctionOnSet(dishes, A) = SumFunctionOnSet(q, Rows(o))
    BY <2>2, <2>4, <2>5, <2>7, SumParts
  <2> QED
    BY <2>3, <2>6
<1>4. SumFunctionOnSet(subs, A) = Subtotal(o, Rows(o))
  <2>1. \A a \in A : dishes[a] \in Int /\ subs[a] = Price * dishes[a]
    BY <1>1, <1>2
  <2> HIDE DEF A, dishes, subs
  <2>2. SumFunctionOnSet(subs, A) = Price * SumFunctionOnSet(dishes, A)
    BY <1>1, <2>1, SumScale
  <2> QED
    BY <1>3, <2>2 DEF Subtotal
<1>5. SumFunctionOnSet(disc, A) = Discount(o) /\ \A a \in A : disc[a] \in Int
  <2>1. CASE Discount(o) = 0
    <3>1. \A a \in A : disc[a] = 0
      BY <1>1, <2>1 DEF ItemsPart
    <3> HIDE DEF A, disc
    <3> QED BY <1>1, <2>1, <3>1, SumZero
  <2>2. CASE Discount(o) # 0
    <3>1. \A a \in A : disc[a] = Residual(o, a, Discount(o), subs, Subtotal(o, Rows(o)))
      BY <1>1, <2>2 DEF ItemsPart
    <3>2. \A a \in AcctIds : subs[a] \in Int
      BY <1>2
    <3>3. Discount(o) \in Int /\ A # {}
      BY <1>1
    <3>4. Subtotal(o, Rows(o)) \in Nat /\ Subtotal(o, Rows(o)) > 0
      BY <1>1
    <3> HIDE DEF disc, subs
    <3>5. /\ \A a \in A : Residual(o, a, Discount(o), subs, Subtotal(o, Rows(o))) \in Int
          /\ \A g : (\A a \in A : g[a] = Residual(o, a, Discount(o), subs, Subtotal(o, Rows(o))))
                       => SumFunctionOnSet(g, A) = Discount(o)
      BY <3>2, <3>3, <3>4, ResidualSum
    <3> HIDE DEF A
    <3> QED
      BY <3>1, <3>5
  <2> QED BY <2>1, <2>2
<1>6. \A a \in A : /\ Parts(o)[a] = Unit * dishes[a] /\ Amount(o)[a] = Net(subs[a], disc[a])
                   /\ disc[a] = ItemsPart(o, a) /\ subs[a] = Subtotal(o, OfAcct(o, a))
  BY <1>1, <1>2 DEF Parts, Amount, ItemsCharge
<1>7. \A a \in A : dishes[a] \in Int /\ subs[a] \in Int /\ disc[a] \in Int
  <2> SUFFICES ASSUME NEW a \in A PROVE dishes[a] \in Int /\ subs[a] \in Int /\ disc[a] \in Int
    OBVIOUS
  <2>1. a \in AcctIds
    BY <1>1
  <2>2. disc[a] \in Int
    BY <1>5
  <2>3. dishes[a] \in Nat /\ subs[a] \in Nat
    BY <1>2, <2>1
  <2> HIDE DEF dishes, subs, disc
  <2> QED BY <2>2, <2>3
<1>8. \A a \in A : Parts(o)[a] \in Int /\ Amount(o)[a] \in Int
  <2> HIDE DEF A, dishes, subs, disc
  <2> SUFFICES ASSUME NEW a \in A PROVE Parts(o)[a] \in Int /\ Amount(o)[a] \in Int
    OBVIOUS
  <2>1. Unit * dishes[a] \in Int /\ Net(subs[a], disc[a]) \in Int
    <3>1. Unit \in Int /\ dishes[a] \in Int /\ subs[a] \in Int /\ disc[a] \in Int
      BY <1>1, <1>7
    <3>2. Net(subs[a], disc[a]) \in Int
      BY <3>1, NetIs
    <3> QED BY <3>1, <3>2
  <2> QED BY <1>6, <2>1
<1>9. SumFunctionOnSet(Parts(o), A) = Unit * Dishes(o, Rows(o))
  <2> HIDE DEF A, dishes, Parts
  <2>a. IsFiniteSet(A) /\ Unit \in Int
    BY <1>1
  <2>b. \A a \in A : dishes[a] \in Int /\ Parts(o)[a] = Unit * dishes[a]
    BY <1>6, <1>7
  <2>1. SumFunctionOnSet(Parts(o), A) = Unit * SumFunctionOnSet(dishes, A)
    BY <2>a, <2>b, SumScale
  <2> QED BY <1>3, <2>1
<1>10. ASSUME PartsFit(o), NoEmptyAccount(o)
       PROVE  /\ SumFunctionOnSet(Amount(o), A) = Due(o)
              /\ \A a \in A : Amount(o)[a] = subs[a] - disc[a]
  <2>1. \A a \in A : disc[a] \in 0 .. subs[a]
    BY <1>1, <1>10 DEF PartsFit
  <2> HIDE DEF A, subs, disc, Amount
  <2>2. \A a \in A : Amount(o)[a] = subs[a] - disc[a]
    <3> SUFFICES ASSUME NEW a \in A PROVE Amount(o)[a] = subs[a] - disc[a]
      OBVIOUS
    <3>1. Net(subs[a], disc[a]) = subs[a] - disc[a]
      BY <1>7, <2>1, NetIs
    <3> QED BY <1>6, <3>1
  <2>3. \A a \in A : /\ Amount(o)[a] \in Int /\ disc[a] \in Int
                     /\ subs[a] = Amount(o)[a] + disc[a]
    <3> SUFFICES ASSUME NEW a \in A
                 PROVE  /\ Amount(o)[a] \in Int /\ disc[a] \in Int
                        /\ subs[a] = Amount(o)[a] + disc[a]
      OBVIOUS
    <3>1. Amount(o)[a] = subs[a] - disc[a] /\ subs[a] \in Int /\ disc[a] \in Int
      BY <1>7, <2>2
    <3> QED BY <3>1
  <2>4. SumFunctionOnSet(subs, A) = SumFunctionOnSet(Amount(o), A) + SumFunctionOnSet(disc, A)
    BY <1>1, <2>3, SumPlus
  <2>5. SumFunctionOnSet(Amount(o), A) \in Int
    BY <1>1, <2>3, SumInt
  <2> QED
    BY <1>1, <1>4, <1>5, <2>2, <2>4, <2>5 DEF Due
<1> QED
  BY <1>1, <1>5, <1>6, <1>8, <1>9, <1>10

\* In equal parts, every part of a dish is charged once, and every account pays its
\* amount.
LEMMA EqualSums ==
    ASSUME NEW o, Divided(o), Chargeable(o), o.mode = "EQUAL"
    PROVE  /\ \A a \in Accounts(o) : Parts(o)[a] \in Int /\ Amount(o)[a] \in Int
           /\ SumFunctionOnSet(Parts(o), Accounts(o)) = Unit * Dishes(o, Rows(o))
           /\ PartsFit(o) =>
                 /\ SumFunctionOnSet(Amount(o), Accounts(o)) = Due(o)
                 /\ \A a \in Accounts(o) : Amount(o)[a] = o.accts[a].fixed
<1> DEFINE A == Accounts(o)
           R == Rows(o)
           all == Fixed(o, A)
           q == [i \in ItemIds |-> o.items[i].qty]
           fixed == [a \in AcctIds |-> o.accts[a].fixed]
           m == [a \in A |-> [i \in R |-> Residual(o, a, Unit * o.items[i].qty, fixed, all)]]
           c == [i \in R |-> [a \in A |-> m[a][i]]]
           down == [i \in R |-> Unit * o.items[i].qty]
<1>1. /\ IsFiniteSet(R) /\ R \in SUBSET ItemIds
      /\ IsFiniteSet(A) /\ A \in SUBSET AcctIds /\ A # {}
      /\ all \in Nat /\ Discount(o) \in Nat /\ Unit \in Nat
  BY BillSums, TableAssumption DEF Divided, Chargeable
<1>2. \A i \in R : o.items[i].qty \in Nat /\ q[i] = o.items[i].qty /\ down[i] = Unit * q[i]
  BY <1>1 DEF Divided, BillTyped, OrderTyped
<1>3. \A a \in AcctIds : fixed[a] \in Nat /\ fixed[a] = o.accts[a].fixed
  BY DEF Divided, BillTyped
<1>4. all > 0 \/ \E a \in AcctIds : A = {a}
  BY DEF Chargeable
<1>5. \A a \in A : Charge(o, a) = EqualCharge(o, a)
  BY <1>1, ChargeIs
<1>6. ASSUME NEW a \in A
      PROVE  /\ Parts(o)[a] = SumFunctionOnSet(m[a], R)
             /\ Amount(o)[a] = Net(fixed[a] + EqualPart(o, a), EqualPart(o, a))
  <2>1. a \in AcctIds
    BY <1>1
  <2>2. Parts(o)[a] = EqualCharge(o, a).units /\ Amount(o)[a] = EqualCharge(o, a).cents
    BY <1>5, <2>1 DEF Parts, Amount
  <2>3. EqualCharge(o, a).units = SumFunctionOnSet(m[a], R)
    BY DEF EqualCharge
  <2>4. EqualCharge(o, a).cents = Net(fixed[a] + EqualPart(o, a), EqualPart(o, a))
    BY <2>1 DEF EqualCharge
  <2> QED BY <2>2, <2>3, <2>4
<1>7. ASSUME NEW i \in R
      PROVE  /\ \A a \in A : m[a][i] \in Int
             /\ down[i] = SumFunctionOnSet(c[i], A)
  <2>1. Unit * o.items[i].qty \in Int
    <3>1. Unit \in Int
      BY <1>1
    <3>2. i \in ItemIds
      BY <1>1
    <3>3. o.items[i].qty \in Nat
      BY <3>2 DEF Divided, BillTyped, OrderTyped
    <3> QED BY <3>1, <3>3
  <2>2. PICK whole : whole = Unit * o.items[i].qty
    OBVIOUS
  <2>3. whole \in Int /\ down[i] = whole
    BY <2>1, <2>2
  <2>4. \A a \in AcctIds : fixed[a] \in Int
    BY <1>3
  <2> DEFINE g == c[i]
  <2>5. \A a \in A : g[a] = Residual(o, a, whole, fixed, all) /\ m[a][i] = g[a]
    BY <2>2
  <2> HIDE DEF fixed, all, m, down, c
  <2>6. A # {} /\ all \in Nat
    BY <1>1
  <2>7. /\ \A a \in A : Residual(o, a, whole, fixed, all) \in Int
        /\ \A h : (\A a \in A : h[a] = Residual(o, a, whole, fixed, all))
                      => SumFunctionOnSet(h, A) = whole
    BY <1>4, <2>3, <2>4, <2>6, ResidualSum
  <2> HIDE DEF A
  <2>9. SumFunctionOnSet(g, A) = whole /\ \A a \in A : m[a][i] \in Int
    BY <2>5, <2>7
  <2> QED
    BY <2>3, <2>9
<1>8. SumFunctionOnSet(Parts(o), A) = Unit * Dishes(o, R)
  <2>1. \A a \in A : \A i \in R : m[a][i] \in Int
    BY <1>7
  <2>2. \A a \in A : Parts(o)[a] = SumFunctionOnSet(m[a], R)
    BY <1>6
  <2>3. \A i \in R : down[i] = SumFunctionOnSet(c[i], A)
    BY <1>7
  <2>9. \A i \in R : \A a \in A : c[i][a] = m[a][i]
    OBVIOUS
  <2>4. IsFiniteSet(A) /\ IsFiniteSet(R) /\ Unit \in Int
    BY <1>1
  <2>5. \A i \in R : q[i] \in Int /\ down[i] = Unit * q[i]
    BY <1>2
  <2>6. Dishes(o, R) = SumFunctionOnSet(q, R)
    BY DEF Dishes
  <2> HIDE DEF A, R, m, down, q, c
  <2>a. PICK across : across = Parts(o)
    OBVIOUS
  <2>b. \A a \in A : across[a] = SumFunctionOnSet(m[a], R)
    BY <2>2, <2>a
  <2>c. SumFunctionOnSet(across, A) = SumFunctionOnSet(down, R)
    <3>1. TwoWays(A, R, m, across, c, down)
      BY <2>1, <2>b, <2>3, <2>4, <2>9 DEF TwoWays
    <3> QED BY <3>1, SumSwap
  <2>7. SumFunctionOnSet(Parts(o), A) = SumFunctionOnSet(down, R)
    BY <2>a, <2>c
  <2>8. SumFunctionOnSet(down, R) = Unit * SumFunctionOnSet(q, R)
    BY <2>4, <2>5, SumScale
  <2> QED
    BY <2>6, <2>7, <2>8
<1>9. \A a \in A : Parts(o)[a] \in Int
  <2>1. \A a \in A : \A i \in R : m[a][i] \in Int
    BY <1>7
  <2>2. IsFiniteSet(R) /\ \A a \in A : Parts(o)[a] = SumFunctionOnSet(m[a], R)
    BY <1>1, <1>6
  <2> HIDE DEF A, R, m
  <2> QED BY <2>1, <2>2, SumInt
<1>10. \A a \in A : EqualPart(o, a) \in Int
  <2>1. CASE Discount(o) = 0 \/ all = 0
    BY <2>1 DEF EqualPart
  <2>2. CASE Discount(o) # 0 /\ all # 0
    <3>1. \A a \in A : EqualPart(o, a) = Residual(o, a, Discount(o), fixed, all)
      BY <2>2 DEF EqualPart
    <3>2. /\ \A a \in AcctIds : fixed[a] \in Int
          /\ Discount(o) \in Int /\ A # {} /\ all \in Nat /\ all > 0
      BY <1>1, <1>3, <2>2
    <3> HIDE DEF fixed, all
    <3>3. \A a \in A : Residual(o, a, Discount(o), fixed, all) \in Int
      BY <3>2, ResidualSum
    <3> QED BY <3>1, <3>3
  <2> QED BY <2>1, <2>2
<1>11. ASSUME NEW a \in A
       PROVE  /\ Amount(o)[a] \in Int
              /\ EqualPart(o, a) >= 0 => Amount(o)[a] = fixed[a]
  <2>1. PICK part, sub : part = EqualPart(o, a) /\ sub = fixed[a] + part
    OBVIOUS
  <2>2. part \in Int /\ fixed[a] \in Nat
    BY <1>1, <1>3, <1>10, <2>1
  <2>3. sub \in Int
    BY <2>1, <2>2
  <2>4. Amount(o)[a] = Net(sub, part)
    BY <1>6, <2>1
  <2> HIDE DEF fixed
  <2>5. Net(sub, part) \in Int /\ (part >= 0 => Net(sub, part) = fixed[a])
    BY <2>1, <2>2, <2>3, NetIs
  <2> QED BY <2>1, <2>4, <2>5
<1>12. ASSUME PartsFit(o)
       PROVE  /\ SumFunctionOnSet(Amount(o), A) = Due(o)
              /\ \A a \in A : Amount(o)[a] = o.accts[a].fixed
  <2>1. \A a \in A : EqualPart(o, a) >= 0
    BY <1>12 DEF PartsFit
  <2>2. \A a \in A : Amount(o)[a] = fixed[a]
    BY <1>11, <2>1
  <2>3. SumFunctionOnSet(fixed, A) = Due(o)
    BY DEF Fixed, Divided, BillDivided
  <2>4. \A a \in A : fixed[a] = o.accts[a].fixed
    BY <1>1, <1>3
  <2>5. IsFiniteSet(A)
    BY <1>1
  <2> HIDE DEF A, fixed
  <2> QED
    BY <2>2, <2>3, <2>4, <2>5, SumSame
<1> QED
  BY <1>8, <1>9, <1>11, <1>12

-----------------------------------------------------------------------------
(* What an order charges depends on its rows, their owners, the discount    *)
(* and the amounts of its accounts only.                                    *)
LEMMA SameBillIs ==
    ASSUME NEW s, NEW o, SameBill(s, o)
    PROVE  /\ Rows(s) = Rows(o) /\ (\A a : OfAcct(s, a) = OfAcct(o, a))
           /\ (\A R : Subtotal(s, R) = Subtotal(o, R) /\ Dishes(s, R) = Dishes(o, R))
           /\ (\A A : Fixed(s, A) = Fixed(o, A))
           /\ Discount(s) = Discount(o) /\ Due(s) = Due(o)
<1>1. Rows(s) = Rows(o)
  BY DEF SameBill, Rows
<1>2. \A a : OfAcct(s, a) = OfAcct(o, a)
  <2> TAKE a
  <2>1. \A i \in Rows(o) : i \in ItemIds
    BY DEF Rows
  <2> QED BY <1>1, <2>1 DEF SameBill, OfAcct
<1>3. [i \in ItemIds |-> s.items[i].qty] = [i \in ItemIds |-> o.items[i].qty]
  BY DEF SameBill
<1>4. \A R : Dishes(s, R) = Dishes(o, R)
  BY <1>3 DEF Dishes
<1>5. [a \in AcctIds |-> s.accts[a].fixed] = [a \in AcctIds |-> o.accts[a].fixed]
  BY DEF SameBill
<1>6. \A A : Fixed(s, A) = Fixed(o, A)
  BY <1>5 DEF Fixed
<1>7. \A R : Subtotal(s, R) = Subtotal(o, R)
  BY <1>4 DEF Subtotal
<1>8. Discount(s) = Discount(o)
  <2>1. s.disc = o.disc /\ Subtotal(s, Rows(s)) = Subtotal(o, Rows(o))
    BY <1>1, <1>7 DEF SameBill
  <2> QED BY <2>1 DEF Discount
<1>9. Due(s) = Due(o)
  BY <1>1, <1>7, <1>8 DEF Due
<1> QED
  BY <1>1, <1>2, <1>4, <1>6, <1>7, <1>8, <1>9

\* Orders that charge the same charge every account the same.
LEMMA SameCharges ==
    ASSUME NEW s, NEW o, SameBill(s, o)
    PROVE  /\ \A a \in AcctIds : Charge(s, a) = Charge(o, a)
           /\ \A off : WholeCharge(s, off) = WholeCharge(o, off)
<1>1. /\ Rows(s) = Rows(o) /\ (\A a : OfAcct(s, a) = OfAcct(o, a))
      /\ (\A R : Subtotal(s, R) = Subtotal(o, R) /\ Dishes(s, R) = Dishes(o, R))
      /\ (\A A : Fixed(s, A) = Fixed(o, A))
      /\ Discount(s) = Discount(o) /\ Due(s) = Due(o)
  BY SameBillIs
<1>2. s.mode = o.mode /\ Accounts(s) = Accounts(o)
  BY DEF SameBill
<1>3. \A a \in AcctIds : s.accts[a].fixed = o.accts[a].fixed
  BY DEF SameBill
<1>4. \A i \in Rows(o) : s.items[i].qty = o.items[i].qty
  BY DEF SameBill, Rows
<1>5. \A a, whole, weight, all :
         Residual(s, a, whole, weight, all) = Residual(o, a, whole, weight, all)
  BY <1>2 DEF Residual
<1>6. \A off : WholeCharge(s, off) = WholeCharge(o, off)
  BY <1>1 DEF WholeCharge
<1>7. ASSUME NEW a \in AcctIds
      PROVE  ItemsCharge(s, a) = ItemsCharge(o, a) /\ EqualCharge(s, a) = EqualCharge(o, a)
  <2>1. [b \in AcctIds |-> Subtotal(s, OfAcct(s, b))] = [b \in AcctIds |-> Subtotal(o, OfAcct(o, b))]
    BY <1>1
  <2>2. [b \in AcctIds |-> s.accts[b].fixed] = [b \in AcctIds |-> o.accts[b].fixed]
    BY <1>3
  <2>3. ItemsPart(s, a) = ItemsPart(o, a)
    BY <1>1, <1>5, <2>1 DEF ItemsPart
  <2>4. EqualPart(s, a) = EqualPart(o, a)
    BY <1>1, <1>2, <1>5, <2>2 DEF EqualPart
  <2>5. ItemsCharge(s, a) = ItemsCharge(o, a)
    BY <1>1, <2>3 DEF ItemsCharge
  <2>6. EqualCharge(s, a) = EqualCharge(o, a)
    <3> DEFINE f == [b \in AcctIds |-> o.accts[b].fixed]
               all == Fixed(o, Accounts(o))
               gs == [i \in Rows(s) |-> Residual(s, a, Unit * s.items[i].qty,
                                                 [b \in AcctIds |-> s.accts[b].fixed],
                                                 Fixed(s, Accounts(s)))]
               go == [i \in Rows(o) |-> Residual(o, a, Unit * o.items[i].qty, f, all)]
    <3>1. gs = go
      BY <1>1, <1>2, <1>4, <1>5, <2>2
    <3>2. /\ EqualCharge(s, a) = [units |-> SumFunctionOnSet(gs, Rows(s)),
                                  cents |-> Net(s.accts[a].fixed + EqualPart(s, a), EqualPart(s, a))]
          /\ EqualCharge(o, a) = [units |-> SumFunctionOnSet(go, Rows(o)),
                                  cents |-> Net(o.accts[a].fixed + EqualPart(o, a), EqualPart(o, a))]
      BY DEF EqualCharge
    <3> HIDE DEF gs, go
    <3> QED BY <1>1, <1>3, <2>4, <3>1, <3>2
  <2> QED BY <2>5, <2>6
<1> QED
  BY <1>2, <1>6, <1>7 DEF Charge

LEMMA SameBillTrans ==
    ASSUME NEW s, NEW o, NEW p, SameBill(s, o), SameBill(o, p)
    PROVE  SameBill(s, p)
  BY DEF SameBill

\* What an order charges that differs in what was sent, or paid.
LEMMA SameBillDivided ==
    ASSUME NEW s, NEW o, SameBill(s, o), BillTyped(s), BillTyped(o)
    PROVE  /\ Chargeable(s) => Chargeable(o)
           /\ (o.mode = "ITEMS" /\ \A i \in Rows(s) : s.items[i].acct \in Accounts(s))
                 => \A i \in Rows(o) : o.items[i].acct \in Accounts(o)
           /\ Amount(s) = Amount(o) /\ Parts(s) = Parts(o)
           /\ \A off : WholeCharge(s, off) = WholeCharge(o, off)
<1>1. /\ Rows(s) = Rows(o) /\ (\A A : Fixed(s, A) = Fixed(o, A)) /\ Due(s) = Due(o)
      /\ (\A R : Dishes(s, R) = Dishes(o, R) /\ Subtotal(s, R) = Subtotal(o, R))
  BY SameBillIs
<1>2. s.mode = o.mode /\ Accounts(s) = Accounts(o)
  BY DEF SameBill
<1>3. \A i \in Rows(o) : s.items[i].acct = o.items[i].acct
  BY DEF SameBill, Rows
<1>4. \A a \in AcctIds : Charge(s, a) = Charge(o, a)
  BY SameCharges
<1>5. Amount(s) = Amount(o) /\ Parts(s) = Parts(o)
  BY <1>4 DEF Amount, Parts
<1>6. \A off : WholeCharge(s, off) = WholeCharge(o, off)
  BY <1>1 DEF WholeCharge
<1>7. Chargeable(s) => Chargeable(o)
  BY <1>1, <1>2 DEF Chargeable
<1> QED
  BY <1>1, <1>2, <1>3, <1>5, <1>6, <1>7

-----------------------------------------------------------------------------
(* What a request makes of the bill, before any of it is paid.              *)
Owned(o) == o.mode = "ITEMS" => \A i \in Rows(o) : o.items[i].acct \in Accounts(o)

Unpaid0(o) == BillTyped(o) /\ BillDivided(o) /\ o.status = "OPEN" /\ Paid(o) = {}

\* The order after it is neither paid nor closed either.
Uncharged(o) == BillTyped(o) /\ BillDivided(o) /\ o.status # "CLOSED" /\ Paid(o) = {}

SameHead(o, p) == /\ p.status = o.status /\ p.mode = o.mode /\ p.disc = o.disc
                  /\ p.accts = o.accts

\* A bill of which nothing is paid: all its accounts are open.
LEMMA NotPaid ==
    ASSUME NEW o, Unpaid0(o)
    PROVE  /\ Owned(o) /\ OpenAccts(o) = Accounts(o)
           /\ o.mode # "NONE" => Accounts(o) # {}
<1>1. \A a \in AcctIds : o.accts[a].status \in {"NONE", "OPEN", "PAID"}
  BY DEF Unpaid0, BillTyped
<1>2. OpenAccts(o) = Accounts(o)
  BY <1>1 DEF Unpaid0, OpenAccts, Accounts, Paid
<1> QED
  BY <1>2 DEF Unpaid0, BillDivided, Owned

\* A row written keeps every row with an account.
LEMMA RowOwned ==
    ASSUME NEW o, OrderTyped(o), Owned(o), NEW i, NEW row, RowTyped(row),
           o.mode = "ITEMS" => row.acct \in Accounts(o)
    PROVE  LET p == SetRow(o, i, row) IN SameHead(o, p) /\ Owned(p)
<1> DEFINE p == SetRow(o, i, row)
<1>1. /\ SameHead(o, p) /\ \A j \in ItemIds : p.items[j] = IF j = i THEN row ELSE o.items[j]
  BY DEF OrderTyped, SetRow, SameHead
<1> HIDE DEF p
<1>2. Accounts(p) = Accounts(o)
  BY <1>1 DEF SameHead, Accounts
<1>3. Owned(p)
  <2> SUFFICES ASSUME p.mode = "ITEMS", NEW j \in Rows(p)
               PROVE  p.items[j].acct \in Accounts(o)
    BY <1>2 DEF Owned
  <2>1. j \in ItemIds /\ p.items[j].qty > 0 /\ o.mode = "ITEMS"
    BY <1>1 DEF Rows, SameHead
  <2>2. CASE j = i
    BY <1>1, <2>1, <2>2
  <2>3. CASE j # i
    <3>1. p.items[j] = o.items[j]
      BY <1>1, <2>1, <2>3
    <3>2. j \in Rows(o)
      BY <2>1, <3>1 DEF Rows
    <3> QED BY <2>1, <3>1, <3>2 DEF Owned
  <2> QED BY <2>2, <2>3
<1> QED
  BY <1>1, <1>3 DEF p

\* A change of the dishes of an order that nobody paid, not divided in equal parts.
LEMMA RowsUncharged ==
    ASSUME NEW o, Unpaid0(o), o.mode # "EQUAL", NEW p, OrderTyped(p), SameHead(o, p), Owned(p)
    PROVE  Uncharged(p)
<1>1. Accounts(p) = Accounts(o) /\ Paid(p) = Paid(o) /\ OpenAccts(p) = OpenAccts(o)
  BY DEF SameHead, Accounts, Paid, OpenAccts
<1>2. BillTyped(p)
  BY DEF BillTyped, Unpaid0, SameHead
<1>3. BillDivided(p)
  <2>1. Accounts(p) = {} <=> p.mode = "NONE" \/ p.status = "CANCELLED"
    BY <1>1 DEF BillDivided, Unpaid0, SameHead
  <2>2. p.mode = "ITEMS" => \A i \in Rows(p) : p.items[i].acct \in Accounts(p)
    BY DEF Owned
  <2>3. p.mode # "EQUAL" /\ p.status = "OPEN" /\ Paid(p) = {}
    BY <1>1 DEF SameHead, Unpaid0
  <2>4. Accounts(p) # {} => OpenAccts(p) # {}
    BY <1>1, NotPaid
  <2> QED BY <2>1, <2>2, <2>3, <2>4 DEF BillDivided
<1> QED
  BY <1>1, <1>2, <1>3 DEF Uncharged, Unpaid0, SameHead

\* The account of a row of the order; and the first of those that are open.
LEMMA OwnerIs ==
    ASSUME NEW o, Unpaid0(o)
    PROVE  /\ o.mode = "ITEMS" => \A i \in Rows(o) : o.items[i].acct \in Accounts(o)
           /\ o.mode = "ITEMS" => OpenAccts(o) # {} /\ Least(OpenAccts(o)) \in Accounts(o)
<1>1. OpenAccts(o) = Accounts(o) /\ (o.mode # "NONE" => Accounts(o) # {}) /\ Owned(o)
  BY NotPaid
<1>2. Accounts(o) \in SUBSET Nat /\ IsFiniteSet(Accounts(o))
  BY TableAssumption, FS_Subset DEF Accounts
<1> QED
  BY <1>1, <1>2, LeastIn DEF Owned

Edited(o, q) ==
    /\ Unpaid0(o) /\ o.mode # "EQUAL" /\ Can(o, q) /\ q.n \in Nat
    /\ q.kind \in {"add", "update", "move"} => Free(o) # {}

LEMMA EditCounts ==
    ASSUME NEW o, NEW q, Edited(o, q)
    PROVE  Counts(o, o, q) /\ OrderTyped(o) /\ Owned(o)
  BY NotPaid DEF Edited, Unpaid0, BillTyped, Counts, SameCount

\* A dish added, to an open account if the bill is by items.
LEMMA AddBill ==
    ASSUME NEW o, NEW q, Edited(o, q), q.kind = "add"
    PROVE  Uncharged(Effect(o, o, q))
<1>1. Effect(o, o, q) = Adding(o, o, 1)
  BY DEF Effect
<1>2. Counts(o, o, q) /\ OrderTyped(o) /\ Owned(o) /\ Unpaid0(o) /\ o.mode # "EQUAL"
  BY EditCounts DEF Edited
<1>3. OrderTyped(Adding(o, o, 1))
  BY <1>1, <1>2, AddCounts
<1>4. SameHead(o, Adding(o, o, 1)) /\ Owned(Adding(o, o, 1))
  <2>1. CASE Unsent(o) # {}
    <3> DEFINE i == Least(Unsent(o))
               row == [o.items[i] EXCEPT !.qty = o.items[i].qty + 1]
    <3>1. Adding(o, o, 1) = SetRow(o, i, row)
      BY <2>1 DEF Adding
    <3>2. i \in Unsent(o)
      <4>1. SameCount(o, o)
        BY DEF SameCount
      <4>2. Unsent(o) \in SUBSET Unsent(o)
        OBVIOUS
      <4> QED BY <2>1, <4>1, <4>2, LeastUnsent
    <3> HIDE DEF i
    <3>3. i \in Rows(o) /\ i \in ItemIds
      BY <3>2 DEF Unsent, Rows
    <3>4. RowTyped(row) /\ row.acct = o.items[i].acct
      BY <1>2, <3>3 DEF OrderTyped, RowTyped
    <3>5. o.mode = "ITEMS" => row.acct \in Accounts(o)
      BY <1>2, <3>3, <3>4, OwnerIs
    <3> HIDE DEF row
    <3> QED BY <1>2, <3>1, <3>4, <3>5, RowOwned
  <2>2. CASE Unsent(o) = {}
    <3> DEFINE row == [qty |-> 1, round |-> 0, acct |-> IF o.mode = "ITEMS" /\ OpenAccts(o) # {}
                                                        THEN Least(OpenAccts(o)) ELSE 0]
    <3>1. Adding(o, o, 1) = NewRow(o, row)
      BY <2>2 DEF Adding
    <3>2. RowTyped(row)
      BY DEF RowTyped
    <3>3. o.mode = "ITEMS" => row.acct \in Accounts(o)
      BY <1>2, OwnerIs
    <3> HIDE DEF row
    <3> QED BY <1>2, <3>1, <3>2, <3>3, RowOwned DEF NewRow
  <2> QED BY <2>1, <2>2
<1> QED
  BY <1>1, <1>2, <1>3, <1>4, RowsUncharged

\* A row's quantity changed, or a row of the difference.
LEMMA UpdateBill ==
    ASSUME NEW o, NEW q, Edited(o, q), q.kind = "update"
    PROVE  Uncharged(Effect(o, o, q))
<1> DEFINE old == o.items[q.item]
           kin == {i \in Unsent(o) : o.items[i].acct = old.acct}
           p == Updating(o, o, q)
<1>1. Effect(o, o, q) = p
  BY DEF Effect
<1>2. Counts(o, o, q) /\ OrderTyped(o) /\ Owned(o) /\ Unpaid0(o) /\ o.mode # "EQUAL"
  BY EditCounts DEF Edited
<1>3. OrderTyped(p)
  BY <1>1, <1>2, UpdateCounts
<1>4. /\ q.item \in Rows(o) /\ q.item \in ItemIds /\ q.n \in Nat /\ RowTyped(old)
      /\ old.round # 0 => q.n > old.qty
  BY <1>2 DEF Edited, Can, CanUpdate, Rows, OrderTyped, RowTyped
<1>5. \A i \in Rows(o) : o.mode = "ITEMS" => o.items[i].acct \in Accounts(o)
  BY <1>2, OwnerIs
<1>6. SameHead(o, p) /\ Owned(p)
  <2>1. CASE old.round = 0
    <3> DEFINE row == [o.items[q.item] EXCEPT !.qty = q.n]
    <3>1. p = SetRow(o, q.item, row)
      BY <2>1 DEF Updating
    <3>2. RowTyped(row) /\ row.acct = old.acct
      BY <1>4 DEF RowTyped
    <3>3. o.mode = "ITEMS" => row.acct \in Accounts(o)
      BY <1>4, <1>5, <3>2
    <3> HIDE DEF row, p, old
    <3> QED BY <1>2, <3>1, <3>2, <3>3, RowOwned
  <2>2. CASE old.round # 0 /\ kin # {}
    <3> DEFINE i == Least(kin)
               row == [o.items[i] EXCEPT !.qty = o.items[i].qty + q.n - old.qty]
    <3>1. p = SetRow(o, i, row)
      BY <2>2 DEF Updating
    <3>2. i \in kin
      <4>1. SameCount(o, o)
        BY DEF SameCount
      <4>2. kin \in SUBSET Unsent(o) /\ kin # {}
        BY <2>2
      <4> HIDE DEF kin
      <4> QED BY <4>1, <4>2, LeastUnsent
    <3> HIDE DEF i
    <3>3. i \in Rows(o) /\ i \in ItemIds
      BY <3>2 DEF Unsent, Rows
    <3>a. RowTyped(o.items[i])
      BY <1>2, <3>3 DEF OrderTyped, RowTyped
    <3>b. old.qty \in Nat /\ q.n > old.qty
      BY <1>4, <2>2 DEF RowTyped
    <3>c. q.n - old.qty \in Nat
      <4> HIDE DEF old
      <4> QED BY <1>4, <3>b
    <3>4. RowTyped(o.items[i]) /\ q.n - old.qty \in Nat
      BY <3>a, <3>c
    <3>5. RowTyped(row) /\ row.acct = o.items[i].acct
      BY <1>4, <3>4 DEF RowTyped
    <3>6. o.mode = "ITEMS" => row.acct \in Accounts(o)
      BY <1>5, <3>3, <3>5
    <3> HIDE DEF row, p, old
    <3> QED BY <1>2, <3>1, <3>5, <3>6, RowOwned
  <2>3. CASE old.round # 0 /\ kin = {}
    <3> DEFINE row == [qty |-> q.n - old.qty, round |-> 0, acct |-> old.acct]
    <3>1. p = NewRow(o, row)
      BY <2>3 DEF Updating
    <3>2. RowTyped(row) /\ row.acct = old.acct
      BY <1>4, <2>3 DEF RowTyped
    <3>3. o.mode = "ITEMS" => row.acct \in Accounts(o)
      BY <1>4, <1>5, <3>2
    <3> HIDE DEF row, p, old
    <3> QED BY <1>2, <3>1, <3>2, <3>3, RowOwned DEF NewRow
  <2> QED BY <2>1, <2>2, <2>3
<1> HIDE DEF p
<1> QED
  BY <1>1, <1>2, <1>3, <1>6, RowsUncharged

\* Dishes taken off the order.
LEMMA VoidBill ==
    ASSUME NEW o, NEW q, Edited(o, q), q.kind = "void"
    PROVE  Uncharged(Effect(o, o, q))
<1> DEFINE row == [o.items[q.item] EXCEPT !.qty = o.items[q.item].qty - q.n]
           p == Effect(o, o, q)
<1>1. p = SetRow(o, q.item, row)
  BY DEF Effect, Voiding
<1>2. Counts(o, o, q) /\ OrderTyped(o) /\ Owned(o) /\ Unpaid0(o) /\ o.mode # "EQUAL"
  BY EditCounts DEF Edited
<1>3. OrderTyped(p)
  BY <1>2, VoidCounts
<1>4. q.item \in Rows(o) /\ q.item \in ItemIds /\ q.n \in Nat /\ q.n <= o.items[q.item].qty
  BY DEF Edited, Can, CanVoid, Rows
<1>5. RowTyped(o.items[q.item])
  BY <1>2, <1>4 DEF OrderTyped, RowTyped
<1>6. RowTyped(row) /\ row.acct = o.items[q.item].acct
  BY <1>4, <1>5 DEF RowTyped
<1>7. o.mode = "ITEMS" => row.acct \in Accounts(o)
  BY <1>2, <1>4, <1>6, OwnerIs
<1> HIDE DEF row, p
<1>8. SameHead(o, p) /\ Owned(p)
  BY <1>1, <1>2, <1>6, <1>7, RowOwned
<1> QED
  BY <1>2, <1>3, <1>8, RowsUncharged DEF p

\* Dishes moved to another open account.
LEMMA MoveBill ==
    ASSUME NEW o, NEW q, Edited(o, q), q.kind = "move"
    PROVE  Uncharged(Effect(o, o, q))
<1> DEFINE old == o.items[q.item]
           p == MoveDishes(o, o, q)
<1>1. Effect(o, o, q) = p
  BY DEF Effect
<1>2. Counts(o, o, q) /\ OrderTyped(o) /\ Owned(o) /\ Unpaid0(o) /\ o.mode # "EQUAL"
  BY EditCounts DEF Edited
<1>3. OrderTyped(p)
  BY <1>1, <1>2, MoveCounts
<1>4. /\ q.item \in Rows(o) /\ q.item \in ItemIds /\ q.n \in Nat /\ q.n <= old.qty
      /\ q.acct \in OpenAccts(o)
  BY DEF Edited, Can, CanMove, Rows
<1>5. RowTyped(old) /\ q.acct \in Accounts(o)
  BY <1>2, <1>4, NotPaid DEF OrderTyped, RowTyped
<1>6. SameHead(o, p) /\ Owned(p)
  <2>1. CASE q.n = old.qty
    <3> DEFINE row == [o.items[q.item] EXCEPT !.acct = q.acct]
    <3>1. p = SetRow(o, q.item, row)
      BY <2>1 DEF MoveDishes
    <3>2. RowTyped(row) /\ row.acct = q.acct
      BY <1>5 DEF RowTyped
    <3> HIDE DEF row, p, old
    <3> QED BY <1>2, <1>5, <3>1, <3>2, RowOwned
  <2>2. CASE q.n # old.qty
    <3> DEFINE rest == [o.items[q.item] EXCEPT !.qty = old.qty - q.n]
               row == [old EXCEPT !.qty = q.n, !.acct = q.acct]
               m == SetRow(o, q.item, rest)
    <3>1. p = NewRow(m, row)
      BY <2>2 DEF MoveDishes
    <3>a. old.qty \in Nat
      BY <1>5 DEF RowTyped
    <3>b. old.qty - q.n \in Nat
      <4> HIDE DEF old
      <4> QED BY <1>4, <3>a
    <3>c. RowTyped(rest) /\ rest.acct = old.acct
      <4> HIDE DEF old
      <4>1. RowTyped(o.items[q.item]) /\ o.items[q.item].acct = old.acct
        BY <1>5 DEF old
      <4> QED BY <3>b, <4>1 DEF RowTyped
    <3>d. RowTyped(row) /\ row.acct = q.acct
      <4> HIDE DEF old
      <4>1. old = [qty |-> old.qty, round |-> old.round, acct |-> old.acct]
        BY <1>5 DEF RowTyped
      <4>2. row = [old EXCEPT !.qty = q.n, !.acct = q.acct]
        OBVIOUS
      <4> HIDE DEF row
      <4>3. row = [qty |-> row.qty, round |-> row.round, acct |-> row.acct]
        BY <4>1, <4>2
      <4>4. row.qty = q.n /\ row.acct = q.acct
        BY <4>1, <4>2
      <4> QED BY <1>4, <4>3, <4>4 DEF RowTyped
    <3>2. RowTyped(rest) /\ rest.acct = old.acct /\ RowTyped(row) /\ row.acct = q.acct
      BY <3>c, <3>d
    <3>3. o.mode = "ITEMS" => rest.acct \in Accounts(o)
      BY <1>2, <1>4, <3>2, OwnerIs
    <3> HIDE DEF row, rest, p, old
    <3>4. SameHead(o, m) /\ Owned(m)
      BY <1>2, <3>2, <3>3, RowOwned
    <3>5. OrderTyped(m)
      BY <1>2, <1>4, <3>2, RowChange
    <3> HIDE DEF m
    <3>6. Accounts(m) = Accounts(o)
      BY <3>4 DEF SameHead, Accounts
    <3>7. SameHead(m, p) /\ Owned(p)
      BY <1>5, <3>1, <3>2, <3>4, <3>5, <3>6, RowOwned DEF NewRow
    <3> QED BY <3>4, <3>7 DEF SameHead
  <2> QED BY <2>1, <2>2
<1> HIDE DEF p
<1> QED
  BY <1>1, <1>2, <1>3, <1>6, RowsUncharged

\* What is due depends on the dishes and the discount.
LEMMA SameDue ==
    ASSUME NEW o, NEW p, p.disc = o.disc, SameCount(o, p)
    PROVE  Rows(p) = Rows(o) /\ Due(p) = Due(o)
<1>1. Rows(p) = Rows(o)
  BY DEF SameCount, Rows
<1>2. [i \in ItemIds |-> p.items[i].qty] = [i \in ItemIds |-> o.items[i].qty]
  BY DEF SameCount
<1>3. Subtotal(p, Rows(p)) = Subtotal(o, Rows(o))
  BY <1>1, <1>2 DEF Subtotal, Dishes
<1>4. Discount(p) = Discount(o)
  BY <1>3 DEF Discount
<1> QED
  BY <1>1, <1>3, <1>4 DEF Due

\* A request about the accounts of an order that nobody paid.
Divides(o, q) ==
    Unpaid0(o) /\ Can(o, q) /\ q.n \in Nat /\ q.kind \in OrderKinds \ (Counted \cup {"send"})

\* Enough for the bill to be divided.
LEMMA AcctsUncharged ==
    ASSUME NEW p, OrderTyped(p), p.status \in {"OPEN", "CANCELLED"},
           p.mode \in {"NONE", "ITEMS", "EQUAL"}, p.disc \in Nat,
           p.accts = [a \in AcctIds |-> [status |-> p.accts[a].status, fixed |-> p.accts[a].fixed]],
           \A a \in AcctIds : p.accts[a].status \in {"NONE", "OPEN"} /\ p.accts[a].fixed \in Nat,
           Accounts(p) = {} <=> p.mode = "NONE" \/ p.status = "CANCELLED",
           p.status = "OPEN" => Owned(p),
           p.status = "OPEN" /\ p.mode = "EQUAL" => Fixed(p, Accounts(p)) = Due(p)
    PROVE  Uncharged(p)
<1>1. BillTyped(p)
  <2>1. p.accts \in [AcctIds -> [status : {"NONE", "OPEN", "PAID"}, fixed : Nat]]
    OBVIOUS
  <2> QED BY <2>1 DEF BillTyped
<1>2. Paid(p) = {} /\ OpenAccts(p) = Accounts(p)
  BY DEF Paid, OpenAccts, Accounts
<1>3. BillDivided(p)
  BY <1>2 DEF BillDivided, Owned
<1> QED
  BY <1>1, <1>2, <1>3 DEF Uncharged

LEMMA DivideTyped ==
    ASSUME NEW o, NEW q, Divides(o, q)
    PROVE  /\ OrderTyped(o) /\ OrderTyped(Effect(o, o, q)) /\ SameCount(o, Effect(o, o, q))
           /\ o.disc \in Nat /\ o.status = "OPEN" /\ o.mode \in {"NONE", "ITEMS", "EQUAL"}
           /\ \A a \in AcctIds : /\ o.accts[a] = [status |-> o.accts[a].status,
                                                  fixed |-> o.accts[a].fixed]
                                 /\ o.accts[a].status \in {"NONE", "OPEN"}
                                 /\ o.accts[a].fixed \in Nat
<1>1. OrderTyped(o)
  BY DEF Divides, Unpaid0, BillTyped
<1>2. OrderTyped(Effect(o, o, q)) /\ SameCount(o, Effect(o, o, q))
  BY <1>1, OtherCounts DEF Divides
<1>3. \A a \in AcctIds : o.accts[a] \in [status : {"NONE", "OPEN", "PAID"}, fixed : Nat]
  BY DEF Divides, Unpaid0, BillTyped
<1>4. \A a \in AcctIds : o.accts[a].status # "PAID"
  BY DEF Divides, Unpaid0, Paid
<1> QED
  BY <1>1, <1>2, <1>3, <1>4 DEF Divides, Unpaid0, BillTyped

\* The division undone, or the order cancelled.
LEMMA UndoBill ==
    ASSUME NEW o, NEW q, Divides(o, q), q.kind \in {"undo", "cancel"}
    PROVE  Uncharged(Effect(o, o, q))
<1> DEFINE p == Effect(o, o, q)
           u == Undoing(o)
<1>1. OrderTyped(o) /\ OrderTyped(p) /\ o.disc \in Nat /\ o.mode \in {"NONE", "ITEMS", "EQUAL"}
      /\ o.status = "OPEN"
  BY DivideTyped
<1>2. /\ u.accts = [a \in AcctIds |-> NoAcct] /\ u.disc = o.disc /\ u.status = o.status
      /\ u.mode = "NONE"
      /\ u = [status |-> u.status, mode |-> u.mode, disc |-> u.disc, items |-> u.items,
              accts |-> u.accts]
  <2>1. PICK items, accts : /\ u = [o EXCEPT !.mode = "NONE", !.items = items, !.accts = accts]
                            /\ accts = [a \in AcctIds |-> NoAcct]
    BY DEF Undoing
  <2>2. Fields(o)
    BY <1>1 DEF OrderTyped, Fields
  <2> HIDE DEF u
  <2>3. u.accts = accts /\ u.disc = o.disc /\ u.status = o.status /\ u.mode = "NONE"
    BY <2>1, <2>2 DEF Fields
  <2>4. u = [status |-> u.status, mode |-> u.mode, disc |-> u.disc, items |-> u.items,
             accts |-> u.accts]
    BY <2>1, <2>2 DEF Fields
  <2> QED BY <2>1, <2>3, <2>4
<1>3. p = IF q.kind = "undo" THEN u ELSE [u EXCEPT !.mode = o.mode, !.status = "CANCELLED"]
  BY DEF Effect
<1> HIDE DEF u, p
<1>4. /\ p.accts = u.accts /\ p.disc = o.disc
      /\ IF q.kind = "undo" THEN p.mode = "NONE" /\ p.status = "OPEN"
         ELSE p.mode = o.mode /\ p.status = "CANCELLED"
  BY <1>1, <1>2, <1>3
<1>5. \A a \in AcctIds : p.accts[a] = NoAcct
  BY <1>2, <1>4
<1>6. p.accts = [a \in AcctIds |-> [status |-> p.accts[a].status, fixed |-> p.accts[a].fixed]]
      /\ Accounts(p) = {}
      /\ \A a \in AcctIds : p.accts[a].status = "NONE" /\ p.accts[a].fixed = 0
  BY <1>2, <1>4, <1>5 DEF NoAcct, Accounts
<1>7. Owned(p) \/ p.status = "CANCELLED"
  BY <1>4 DEF Owned
<1>8. p.status = "OPEN" => p.mode = "NONE"
  BY <1>4
<1>9. p.status \in {"OPEN", "CANCELLED"} /\ p.mode \in {"NONE", "ITEMS", "EQUAL"} /\ p.disc \in Nat
  BY <1>1, <1>4
<1>10. Accounts(p) = {} <=> p.mode = "NONE" \/ p.status = "CANCELLED"
  BY <1>4, <1>6
<1>11. \A a \in AcctIds : p.accts[a].status \in {"NONE", "OPEN"} /\ p.accts[a].fixed \in Nat
  BY <1>6
<1>12. Uncharged(p)
  BY <1>1, <1>6, <1>7, <1>8, <1>9, <1>10, <1>11, AcctsUncharged
<1> QED
  BY <1>12 DEF p

\* A discount, of a bill not divided in equal parts.
LEMMA DiscountBill ==
    ASSUME NEW o, NEW q, Divides(o, q), q.kind = "discount", o.mode # "EQUAL"
    PROVE  Uncharged(Effect(o, o, q))
<1> DEFINE p == Effect(o, o, q)
<1>1. /\ OrderTyped(o) /\ OrderTyped(p) /\ o.mode \in {"NONE", "ITEMS"} /\ o.status = "OPEN"
      /\ q.n \in Nat
  BY DivideTyped DEF Divides
<1>2. p = [o EXCEPT !.disc = q.n]
  BY DEF Effect
<1> HIDE DEF p
<1>3. /\ p.disc = q.n /\ p.status = o.status /\ p.mode = o.mode /\ p.items = o.items
      /\ p.accts = o.accts
  BY <1>1, <1>2 DEF OrderTyped
<1>4. \A a \in AcctIds : p.accts[a].status \in {"NONE", "OPEN"} /\ p.accts[a].fixed \in Nat
  BY <1>3, DivideTyped
<1>5. p.accts = [a \in AcctIds |-> [status |-> p.accts[a].status, fixed |-> p.accts[a].fixed]]
  BY <1>3 DEF Divides, Unpaid0, BillTyped
<1>6. Accounts(p) = Accounts(o) /\ Rows(p) = Rows(o)
  BY <1>3 DEF Accounts, Rows
<1>7. Owned(p)
  BY <1>3, <1>6, NotPaid DEF Owned, Divides
<1>8. Accounts(p) = {} <=> p.mode = "NONE" \/ p.status = "CANCELLED"
  BY <1>3, <1>6 DEF Divides, Unpaid0, BillDivided
<1>9. Uncharged(p)
  BY <1>1, <1>3, <1>4, <1>5, <1>7, <1>8, AcctsUncharged
<1> QED
  BY <1>9 DEF p

\* Two accounts made one, which has the dishes and the amounts of both.
LEMMA MergeBill ==
    ASSUME NEW o, NEW q, Divides(o, q), q.kind = "merge"
    PROVE  Uncharged(Effect(o, o, q))
<1> DEFINE p == Effect(o, o, q)
           a == q.acct
           b == q.item
           A == Accounts(o)
           f == [x \in AcctIds |-> o.accts[x].fixed]
           g == [x \in AcctIds |-> p.accts[x].fixed]
<1>1. /\ OrderTyped(o) /\ OrderTyped(p) /\ SameCount(o, p)
      /\ o.mode \in {"NONE", "ITEMS", "EQUAL"} /\ o.status = "OPEN" /\ o.disc \in Nat
      /\ \A x \in AcctIds : /\ o.accts[x] = [status |-> o.accts[x].status,
                                             fixed |-> o.accts[x].fixed]
                            /\ o.accts[x].status \in {"NONE", "OPEN"}
                            /\ o.accts[x].fixed \in Nat
  BY DivideTyped
<1>2. a # b /\ a \in OpenAccts(o) /\ b \in OpenAccts(o)
  BY DEF Divides, Can, CanMerge
<1>3. a \in AcctIds /\ b \in AcctIds /\ a \in A /\ b \in A /\ o.accts[a].status = "OPEN"
  BY <1>2 DEF OpenAccts, Accounts
<1>4. p = Merging(o, o, q)
  BY DEF Effect
<1>5. /\ p.status = o.status /\ p.mode = o.mode /\ p.disc = o.disc
      /\ p.accts = [o.accts EXCEPT ![b] = NoAcct, ![a].fixed = o.accts[a].fixed + o.accts[b].fixed]
      /\ p.items = [i \in ItemIds |-> IF o.items[i].qty > 0 /\ o.items[i].acct = b
                                      THEN [o.items[i] EXCEPT !.acct = a] ELSE o.items[i]]
  <2>1. PICK items, accts :
           /\ p = [o EXCEPT !.accts = accts, !.items = items]
           /\ accts = [o.accts EXCEPT ![b] = NoAcct,
                                      ![a].fixed = o.accts[a].fixed + o.accts[b].fixed]
           /\ items = [i \in ItemIds |-> IF o.items[i].qty > 0 /\ o.items[i].acct = b
                                         THEN [o.items[i] EXCEPT !.acct = a] ELSE o.items[i]]
    BY <1>1, <1>4 DEF Merging, OrderTyped
  <2>2. Fields(o)
    BY <1>1 DEF OrderTyped, Fields
  <2> HIDE DEF p, a, b
  <2> QED BY <2>1, <2>2 DEF Fields
<1>6. o.accts = [x \in AcctIds |-> o.accts[x]]
  BY DEF Divides, Unpaid0, BillTyped
<1> HIDE DEF p, a, b
<1>7. /\ p.accts = [x \in AcctIds |-> p.accts[x]]
      /\ p.accts[b] = NoAcct
      /\ p.accts[a] = [o.accts[a] EXCEPT !.fixed = o.accts[a].fixed + o.accts[b].fixed]
      /\ \A x \in AcctIds \ {a, b} : p.accts[x] = o.accts[x]
  BY <1>2, <1>3, <1>5, <1>6
<1>8. p.accts[a] = [status |-> "OPEN", fixed |-> o.accts[a].fixed + o.accts[b].fixed]
  BY <1>1, <1>3, <1>7
<1>9. /\ p.accts = [x \in AcctIds |-> [status |-> p.accts[x].status, fixed |-> p.accts[x].fixed]]
      /\ \A x \in AcctIds : p.accts[x].status \in {"NONE", "OPEN"} /\ p.accts[x].fixed \in Nat
  <2>1. ASSUME NEW x \in AcctIds
        PROVE  /\ p.accts[x] = [status |-> p.accts[x].status, fixed |-> p.accts[x].fixed]
               /\ p.accts[x].status \in {"NONE", "OPEN"} /\ p.accts[x].fixed \in Nat
    <3>1. CASE x = a
      <4>1. PICK m, n : m = o.accts[a].fixed /\ n = o.accts[b].fixed
        OBVIOUS
      <4>2. m \in Nat /\ n \in Nat
        BY <1>1, <1>3, <4>1
      <4>3. p.accts[x] = [status |-> "OPEN", fixed |-> m + n] /\ m + n \in Nat
        BY <1>8, <3>1, <4>1, <4>2
      <4> QED BY <4>3
    <3>2. CASE x = b
      BY <1>7, <3>2 DEF NoAcct
    <3>3. CASE x # a /\ x # b
      <4>1. p.accts[x] = o.accts[x]
        BY <1>7, <3>3
      <4> QED BY <1>1, <4>1
    <3> QED BY <3>1, <3>2, <3>3
  <2> QED BY <1>7, <2>1
<1>10. Accounts(p) = A \ {b} /\ a \in Accounts(p)
  <2>1. p.accts[b].status = "NONE" /\ p.accts[a].status = "OPEN"
    BY <1>7, <1>8 DEF NoAcct
  <2> QED
    BY <1>2, <1>3, <1>7, <2>1 DEF Accounts
<1>11. Owned(p)
  <2> SUFFICES ASSUME p.mode = "ITEMS", NEW i \in Rows(p) PROVE p.items[i].acct \in Accounts(p)
    BY DEF Owned
  <2>1. i \in ItemIds /\ i \in Rows(o)
    BY <1>1, SameDue, <1>5 DEF Rows
  <2>2. o.items[i].acct \in A
    BY <1>5, <2>1, NotPaid DEF Owned, Divides
  <2>3. o.items[i].qty > 0
    BY <2>1 DEF Rows
  <2>4. p.items[i].acct = IF o.items[i].acct = b THEN a ELSE o.items[i].acct
    <3>1. o.items[i] = [qty |-> o.items[i].qty, round |-> o.items[i].round,
                        acct |-> o.items[i].acct]
      BY <1>1, <2>1 DEF OrderTyped
    <3>2. p.items[i] = IF o.items[i].acct = b THEN [o.items[i] EXCEPT !.acct = a] ELSE o.items[i]
      BY <1>5, <2>1, <2>3
    <3> QED BY <3>1, <3>2
  <2> QED
    BY <1>10, <2>2, <2>4
<1>12. o.mode # "NONE"
  BY <1>3 DEF Divides, Unpaid0, BillDivided
<1>13. ASSUME o.mode = "EQUAL" PROVE Fixed(p, Accounts(p)) = Due(p)
  <2>1. Fixed(o, A) = Due(o) /\ Due(p) = Due(o)
    BY <1>1, <1>5, <1>13, SameDue DEF Divides, Unpaid0, BillDivided
  <2>2. Fixed(o, A) = SumFunctionOnSet(f, A) /\ Fixed(p, Accounts(p)) = SumFunctionOnSet(g, A \ {b})
    BY <1>10 DEF Fixed
  <2>3. IsFiniteSet(A) /\ A \in SUBSET AcctIds /\ IsFiniteSet(A \ {b})
    BY TableAssumption, FS_Subset DEF Accounts
  <2>4. \A x \in A : f[x] \in Int /\ g[x] \in Int
    <3> SUFFICES ASSUME NEW x \in A PROVE f[x] \in Int /\ g[x] \in Int
      OBVIOUS
    <3>1. x \in AcctIds
      BY <2>3
    <3>2. o.accts[x].fixed \in Nat /\ p.accts[x].fixed \in Nat
      BY <1>1, <1>9, <3>1
    <3> QED BY <3>1, <3>2
  <2>5. /\ f[a] = o.accts[a].fixed /\ f[b] = o.accts[b].fixed
        /\ g[a] = o.accts[a].fixed + o.accts[b].fixed
        /\ \A x \in A \ {a, b} : g[x] = f[x]
    BY <1>3, <1>7, <1>8, <2>3
  <2>6. g[a] = f[a] + f[b]
    BY <2>5
  <2> HIDE DEF f, g, A
  <2>7. SumFunctionOnSet(f, A) = f[b] + SumFunctionOnSet(f, A \ {b})
    BY <1>3, <2>3, <2>4, SumRemove
  <2> DEFINE B == A \ {b}
  <2>8. IsFiniteSet(B) /\ a \in B /\ (\A x \in B : f[x] \in Int /\ g[x] \in Int)
        /\ \A x \in B \ {a} : g[x] = f[x]
    BY <1>2, <1>3, <2>3, <2>4, <2>5
  <2> HIDE DEF B
  <2>9. SumFunctionOnSet(g, B) = SumFunctionOnSet(f, B) - f[a] + g[a]
    BY <2>8, SumChange
  <2>10. SumFunctionOnSet(f, B) \in Int
    BY <2>8, SumInt
  <2>11. SumFunctionOnSet(g, B) = SumFunctionOnSet(f, A)
    BY <1>3, <2>4, <2>6, <2>7, <2>9, <2>10 DEF B
  <2> QED
    BY <2>1, <2>2, <2>11 DEF B
<1>14. Accounts(p) = {} <=> p.mode = "NONE" \/ p.status = "CANCELLED"
  BY <1>1, <1>5, <1>10, <1>12
<1>15. p.status = "OPEN" /\ p.disc \in Nat /\ p.mode \in {"NONE", "ITEMS", "EQUAL"}
  BY <1>1, <1>5
<1>16. p.mode = "EQUAL" => Fixed(p, Accounts(p)) = Due(p)
  BY <1>5, <1>13
<1>17. Uncharged(p)
  BY <1>1, <1>9, <1>11, <1>14, <1>15, <1>16, AcctsUncharged
<1> QED
  BY <1>17 DEF p

\* The parts of a total that is divided, the last of which takes what is left.
LEMMA PartIs ==
    ASSUME NEW total \in Nat, NEW n \in Nat, n > 0
    PROVE  /\ total \div n \in Nat /\ total % n \in Nat
           /\ total = n * (total \div n) + (total % n)
           /\ \A k : /\ PartOf(total, k, n) \in Nat
                     /\ PartOf(total, k, n) = total \div n + IF k = n THEN total % n ELSE 0
<1>1. total \div n \in Nat /\ total % n \in Nat
  OBVIOUS
<1>2. total = n * (total \div n) + (total % n)
  OBVIOUS
<1>3. ASSUME NEW k
      PROVE  PartOf(total, k, n) = total \div n + IF k = n THEN total % n ELSE 0
  BY DEF PartOf
<1>4. ASSUME NEW k PROVE PartOf(total, k, n) \in Nat
  BY <1>1, <1>3
<1> QED
  BY <1>1, <1>2, <1>3, <1>4

\* A base for each of some, and what is left for one of them.
LEMMA SumBases ==
    ASSUME NEW S, IsFiniteSet(S), NEW x \in S, NEW base \in Int, NEW rest \in Int,
           NEW f, \A y \in S : f[y] = base + IF y = x THEN rest ELSE 0
    PROVE  SumFunctionOnSet(f, S) = base * Cardinality(S) + rest
<1> DEFINE one == [y \in S |-> 1]
           even == [y \in S |-> base]
<1>1. \A y \in S : one[y] = 1 /\ one[y] \in Int /\ even[y] = base * one[y] /\ even[y] = base
  OBVIOUS
<1> HIDE DEF one, even
<1>2. SumFunctionOnSet(one, S) = Cardinality(S)
  BY <1>1, SumOnes
<1>3. SumFunctionOnSet(even, S) = base * SumFunctionOnSet(one, S)
  BY <1>1, SumScale
<1>4. \A y \in S : even[y] \in Int /\ f[y] \in Int
  BY <1>1
<1>5. \A y \in S \ {x} : f[y] = even[y]
  BY <1>1
<1>6. SumFunctionOnSet(f, S) = SumFunctionOnSet(even, S) - even[x] + f[x]
  BY <1>4, <1>5, SumChange
<1>7. SumFunctionOnSet(even, S) \in Int
  BY <1>4, SumInt
<1>8. f[x] = base + rest /\ even[x] = base
  BY <1>1
<1>9. SumFunctionOnSet(f, S) = SumFunctionOnSet(even, S) + rest
  BY <1>6, <1>7, <1>8
<1> QED
  BY <1>2, <1>3, <1>9

\* A division: every dish to the first account, or the amount due in parts.
LEMMA SplitBill ==
    ASSUME NEW o, NEW q, Divides(o, q), q.kind = "split", q.n \in {0} \cup (AcctIds \ {1})
    PROVE  Uncharged(Effect(o, o, q))
<1> DEFINE p == Effect(o, o, q)
           n == q.n
<1>1. /\ OrderTyped(o) /\ OrderTyped(p) /\ SameCount(o, p)
      /\ o.mode \in {"NONE", "ITEMS", "EQUAL"} /\ o.status = "OPEN" /\ o.disc \in Nat
  BY DivideTyped
<1>2. p = Splitting(o, o, q)
  BY DEF Effect
<1>3. /\ 1 \in AcctIds /\ 2 \in AcctIds /\ AcctIds \in SUBSET Nat
      /\ \A m \in AcctIds : {a \in AcctIds : a <= m} = 1 .. m
  <2>1. PICK size : size = Cardinality(AcctIds) /\ AcctIds = 1 .. size /\ size \in Nat
    BY TableAssumption, FS_CardinalityType
  <2>2. 2 \in AcctIds
    BY TableAssumption
  <2>a. size \in Nat /\ \A a : a \in AcctIds <=> a \in Int /\ 1 <= a /\ a <= size
    <3>1. AcctIds = 1 .. size /\ size \in Nat
      BY <2>1
    <3> QED BY <3>1
  <2>3. 1 \in AcctIds /\ 2 \in AcctIds /\ AcctIds \in SUBSET Nat
    <3>1. 1 <= size
      BY <2>2, <2>a
    <3> QED BY <2>2, <2>a, <3>1
  <2>4. ASSUME NEW m \in AcctIds PROVE {a \in AcctIds : a <= m} = 1 .. m
    <3>1. m \in Int /\ m <= size
      BY <2>a
    <3>2. \A a : a \in {b \in AcctIds : b <= m} <=> a \in 1 .. m
      BY <2>a, <3>1
    <3> QED BY <3>2
  <2> QED BY <2>3, <2>4
<1>4. CASE n = 0
  <2>1. /\ p.status = o.status /\ p.mode = "ITEMS" /\ p.disc = o.disc /\ p.items = Detached(o, 1)
        /\ p.accts = [a \in AcctIds |-> IF a <= 2 THEN [NoAcct EXCEPT !.status = "OPEN"] ELSE NoAcct]
    <3>1. PICK items, accts :
             /\ p = [o EXCEPT !.mode = "ITEMS", !.items = items, !.accts = accts]
             /\ items = Detached(o, 1)
             /\ accts = [a \in AcctIds |-> IF a <= 2 THEN [NoAcct EXCEPT !.status = "OPEN"]
                                           ELSE NoAcct]
      BY <1>2, <1>4 DEF Splitting
    <3>2. Fields(o)
      BY <1>1 DEF OrderTyped, Fields
    <3> HIDE DEF p
    <3> QED BY <3>1, <3>2 DEF Fields
  <2> HIDE DEF p
  <2>2. \A a \in AcctIds : IF a <= 2 THEN p.accts[a] = [status |-> "OPEN", fixed |-> 0]
                             ELSE p.accts[a] = [status |-> "NONE", fixed |-> 0]
    <3> SUFFICES ASSUME NEW a \in AcctIds
                 PROVE  IF a <= 2 THEN p.accts[a] = [status |-> "OPEN", fixed |-> 0]
                        ELSE p.accts[a] = [status |-> "NONE", fixed |-> 0]
      OBVIOUS
    <3>1. p.accts[a] = IF a <= 2 THEN [NoAcct EXCEPT !.status = "OPEN"] ELSE NoAcct
      BY <2>1
    <3> QED BY <3>1 DEF NoAcct
  <2>3. /\ p.accts = [a \in AcctIds |-> [status |-> p.accts[a].status,
                                         fixed |-> p.accts[a].fixed]]
        /\ \A a \in AcctIds : p.accts[a].status \in {"NONE", "OPEN"} /\ p.accts[a].fixed \in Nat
    <3>1. p.accts = [a \in AcctIds |-> p.accts[a]]
      BY <2>1
    <3>2. ASSUME NEW a \in AcctIds
          PROVE  /\ p.accts[a] = [status |-> p.accts[a].status, fixed |-> p.accts[a].fixed]
                 /\ p.accts[a].status \in {"NONE", "OPEN"} /\ p.accts[a].fixed \in Nat
      <4>1. CASE p.accts[a] = [status |-> "OPEN", fixed |-> 0]
        BY <4>1
      <4>2. CASE p.accts[a] = [status |-> "NONE", fixed |-> 0]
        BY <4>2
      <4> QED BY <2>2, <4>1, <4>2
    <3> QED BY <3>1, <3>2
  <2>4. 1 \in Accounts(p)
    <3>1. p.accts[1] = [status |-> "OPEN", fixed |-> 0]
      <4>1. 1 <= 2 /\ 1 \in AcctIds
        BY <1>3
      <4> QED BY <2>2, <4>1
    <3> QED BY <1>3, <3>1 DEF Accounts
  <2>5. Owned(p)
    <3> SUFFICES ASSUME NEW i \in Rows(p) PROVE p.items[i].acct = 1
      BY <2>4 DEF Owned
    <3>1. i \in ItemIds /\ o.items[i].qty > 0
      BY <1>1 DEF Rows, SameCount
    <3>2. p.items[i] = [o.items[i] EXCEPT !.acct = 1]
      <4>1. o.items[i].qty # 0
        BY <1>1, <3>1 DEF OrderTyped
      <4> QED BY <2>1, <3>1, <4>1 DEF Detached
    <3>3. o.items[i] = [qty |-> o.items[i].qty, round |-> o.items[i].round,
                        acct |-> o.items[i].acct]
      BY <1>1, <3>1 DEF OrderTyped
    <3> QED BY <3>2, <3>3
  <2>6. /\ p.status = "OPEN" /\ p.mode = "ITEMS" /\ p.disc \in Nat
        /\ (Accounts(p) = {} <=> p.mode = "NONE" \/ p.status = "CANCELLED")
    BY <1>1, <2>1, <2>4
  <2>7. Uncharged(p)
    BY <1>1, <2>3, <2>5, <2>6, AcctsUncharged
  <2> QED BY <2>7 DEF p
<1>5. CASE n # 0
  <2>0. n \in AcctIds /\ n \in Nat /\ n > 0
    BY <1>3, <1>5, TableAssumption
  <2>1. /\ p.status = o.status /\ p.mode = "EQUAL" /\ p.disc = o.disc
        /\ p.accts = [a \in AcctIds |->
                         IF a <= n THEN [status |-> "OPEN", fixed |-> PartOf(Due(o), a, n)]
                         ELSE NoAcct]
    <3>1. PICK items, accts :
             /\ p = [o EXCEPT !.mode = "EQUAL", !.items = items, !.accts = accts]
             /\ accts = [a \in AcctIds |->
                            IF a <= n THEN [status |-> "OPEN", fixed |-> PartOf(Due(o), a, n)]
                            ELSE NoAcct]
      BY <1>2, <1>5 DEF Splitting
    <3>2. Fields(o)
      BY <1>1 DEF OrderTyped, Fields
    <3> HIDE DEF p, n
    <3> QED BY <3>1, <3>2 DEF Fields
  <2>2. Due(o) \in Nat
    BY BillSums DEF Divides, Unpaid0
  <2> HIDE DEF p, n
  <2>3. /\ Due(o) \div n \in Nat /\ Due(o) % n \in Nat
        /\ Due(o) = n * (Due(o) \div n) + (Due(o) % n)
        /\ \A k : /\ PartOf(Due(o), k, n) \in Nat
                  /\ PartOf(Due(o), k, n) = Due(o) \div n + IF k = n THEN Due(o) % n ELSE 0
    BY <2>0, <2>2, PartIs
  <2>4. PICK base, rest, part :
           /\ base = Due(o) \div n /\ rest = Due(o) % n
           /\ part = [a \in AcctIds |-> PartOf(Due(o), a, n)]
    OBVIOUS
  <2>5. /\ base \in Nat /\ rest \in Nat /\ Due(o) = n * base + rest
        /\ \A a \in AcctIds : part[a] \in Nat /\ part[a] = base + IF a = n THEN rest ELSE 0
    BY <2>3, <2>4
  <2>6. \A a \in AcctIds : IF a <= n THEN p.accts[a] = [status |-> "OPEN", fixed |-> part[a]]
                             ELSE p.accts[a] = [status |-> "NONE", fixed |-> 0]
    <3> SUFFICES ASSUME NEW a \in AcctIds
                 PROVE  IF a <= n THEN p.accts[a] = [status |-> "OPEN", fixed |-> part[a]]
                        ELSE p.accts[a] = [status |-> "NONE", fixed |-> 0]
      OBVIOUS
    <3>1. part[a] = PartOf(Due(o), a, n)
      BY <2>4
    <3> QED BY <2>1, <3>1 DEF NoAcct
  <2>7. /\ p.accts = [a \in AcctIds |-> [status |-> p.accts[a].status,
                                         fixed |-> p.accts[a].fixed]]
        /\ \A a \in AcctIds : p.accts[a].status \in {"NONE", "OPEN"} /\ p.accts[a].fixed \in Nat
    <3>1. p.accts = [a \in AcctIds |-> p.accts[a]]
      BY <2>1
    <3>2. ASSUME NEW a \in AcctIds
          PROVE  /\ p.accts[a] = [status |-> p.accts[a].status, fixed |-> p.accts[a].fixed]
                 /\ p.accts[a].status \in {"NONE", "OPEN"} /\ p.accts[a].fixed \in Nat
      <4>1. part[a] \in Nat
        BY <2>5
      <4>2. CASE p.accts[a] = [status |-> "OPEN", fixed |-> part[a]]
        BY <4>1, <4>2
      <4>3. CASE p.accts[a] = [status |-> "NONE", fixed |-> 0]
        BY <4>3
      <4> QED BY <2>6, <4>2, <4>3
    <3> QED BY <3>1, <3>2
  <2>8. Accounts(p) = 1 .. n
    <3>1. Accounts(p) = {a \in AcctIds : a <= n}
      <4>1. ASSUME NEW a \in AcctIds PROVE p.accts[a].status # "NONE" <=> a <= n
        <5>1. CASE a <= n
          <6>1. p.accts[a] = [status |-> "OPEN", fixed |-> part[a]]
            BY <2>6, <5>1
          <6> QED BY <5>1, <6>1
        <5>2. CASE ~(a <= n)
          <6>1. p.accts[a] = [status |-> "NONE", fixed |-> 0]
            BY <2>6, <5>2
          <6> QED BY <5>2, <6>1
        <5> QED BY <5>1, <5>2
      <4> QED BY <4>1 DEF Accounts
    <3> QED BY <1>3, <2>0, <3>1
  <2>9. Fixed(p, Accounts(p)) = Due(p)
    <3> DEFINE f == [a \in AcctIds |-> p.accts[a].fixed]
    <3>1. Fixed(p, Accounts(p)) = SumFunctionOnSet(f, 1 .. n)
      BY <2>8 DEF Fixed
    <3>2. ASSUME NEW a \in 1 .. n PROVE f[a] = base + IF a = n THEN rest ELSE 0
      <4>1. a \in AcctIds /\ a <= n
        BY <1>3, <2>0
      <4>3. p.accts[a] = [status |-> "OPEN", fixed |-> part[a]]
        BY <2>6, <4>1
      <4>2. p.accts[a].fixed = part[a]
        BY <4>3
      <4> QED BY <2>5, <4>1, <4>2
    <3>3. IsFiniteSet(1 .. n) /\ Cardinality(1 .. n) = n /\ n \in 1 .. n
      BY <2>0, FS_Interval
    <3> HIDE DEF f
    <3>4. SumFunctionOnSet(f, 1 .. n) = base * Cardinality(1 .. n) + rest
      <4>1. base \in Int /\ rest \in Int
        BY <2>5
      <4> QED BY <3>2, <3>3, <4>1, SumBases
    <3>5. base * n + rest = Due(o)
      BY <2>0, <2>5
    <3>6. Due(p) = Due(o)
      BY <1>1, <2>1, SameDue
    <3> QED BY <3>1, <3>3, <3>4, <3>5, <3>6
  <2>10. Accounts(p) # {} /\ Owned(p)
    <3>1. n \in 1 .. n
      BY <2>0
    <3>2. Owned(p)
      BY <2>1 DEF Owned
    <3> QED BY <2>8, <3>1, <3>2
  <2>11. p.status = "OPEN" /\ p.mode = "EQUAL" /\ p.disc \in Nat
    BY <1>1, <2>1
  <2>12. Accounts(p) = {} <=> p.mode = "NONE" \/ p.status = "CANCELLED"
    BY <2>10, <2>11
  <2>13. Uncharged(p)
    BY <1>1, <2>7, <2>9, <2>10, <2>11, <2>12, AcctsUncharged
  <2> QED BY <2>13 DEF p
<1> QED
  BY <1>4, <1>5

\* An account more: what the open ones had left is divided again.
LEMMA GrowBill ==
    ASSUME NEW o, NEW q, Divides(o, q), q.kind = "grow"
    PROVE  Uncharged(Effect(o, o, q))
<1> DEFINE p == Effect(o, o, q)
           A == Accounts(o)
           new == Greatest(A) + 1
           left == Fixed(o, A)
           n == Cardinality(A) + 1
<1>1. /\ OrderTyped(o) /\ OrderTyped(p) /\ SameCount(o, p)
      /\ o.mode \in {"NONE", "ITEMS", "EQUAL"} /\ o.status = "OPEN" /\ o.disc \in Nat
      /\ \A a \in AcctIds : /\ o.accts[a] = [status |-> o.accts[a].status,
                                             fixed |-> o.accts[a].fixed]
                            /\ o.accts[a].status \in {"NONE", "OPEN"}
                            /\ o.accts[a].fixed \in Nat
  BY DivideTyped
<1>2. /\ o.mode # "NONE" /\ A # {} /\ OpenAccts(o) = A /\ Owned(o)
      /\ Greatest(A) < Greatest(AcctIds)
  <2>1. o.mode # "NONE" /\ (A # {} => Greatest(A) < Greatest(AcctIds)) /\ Unpaid0(o)
    BY DEF Divides, Can, CanGrow
  <2> QED BY <2>1, NotPaid
<1>3. new \in AcctIds /\ new \notin A
  <2>1. PICK size : size = Cardinality(AcctIds) /\ AcctIds = 1 .. size /\ size \in Nat
    BY TableAssumption, FS_CardinalityType
  <2>2. \A a : a \in AcctIds <=> a \in Int /\ 1 <= a /\ a <= size
    <3>1. AcctIds = 1 .. size /\ size \in Nat
      BY <2>1
    <3> QED BY <3>1
  <2>3. A \in SUBSET AcctIds /\ A \in SUBSET Nat /\ AcctIds \in SUBSET Nat /\ AcctIds # {}
        /\ IsFiniteSet(A) /\ IsFiniteSet(AcctIds)
    BY <1>2, TableAssumption, FS_Subset DEF Accounts
  <2> HIDE DEF A
  <2>4. Greatest(A) \in A /\ \A a \in A : a <= Greatest(A)
    BY <1>2, <2>3, GreatestIn
  <2>5. Greatest(AcctIds) \in AcctIds
    BY <2>3, GreatestIn
  <2>6. PICK g, h : g = Greatest(A) /\ h = Greatest(AcctIds)
    OBVIOUS
  <2>7. g \in Int /\ h \in Int /\ 1 <= g /\ h <= size /\ g < h
    BY <1>2, <2>2, <2>3, <2>4, <2>5, <2>6
  <2>8. g + 1 \in AcctIds
    BY <2>1, <2>2, <2>7
  <2>9. g + 1 \notin A
    BY <2>3, <2>4, <2>6, <2>7
  <2> QED BY <2>6, <2>8, <2>9
<1>4. IsFiniteSet(A) /\ A \in SUBSET AcctIds /\ left \in Nat /\ n \in Nat /\ n > 1
  <2>1. IsFiniteSet(A) /\ A \in SUBSET AcctIds /\ left \in Nat
    BY BillSums DEF Divides, Unpaid0
  <2>2. Cardinality(A) \in Nat /\ Cardinality(A) # 0
    BY <1>2, <2>1, FS_CardinalityType, FS_EmptySet
  <2> QED BY <2>1, <2>2
<1>5. PICK base, rest : base = left \div n /\ rest = left % n
  OBVIOUS
<1>6. /\ base \in Nat /\ rest \in Nat /\ left = n * base + rest
      /\ PartOf(left, n, n) = base + rest /\ PartOf(left, 1, n) = base
  <2> HIDE DEF left, n
  <2>1. /\ left \div n \in Nat /\ left % n \in Nat
        /\ left = n * (left \div n) + (left % n)
        /\ PartOf(left, n, n) = left \div n + IF n = n THEN left % n ELSE 0
        /\ PartOf(left, 1, n) = left \div n + IF 1 = n THEN left % n ELSE 0
    BY <1>4, PartIs
  <2>2. n # 1
    BY <1>4
  <2> QED BY <1>5, <2>1, <2>2
<1>7. /\ p.status = o.status /\ p.mode = o.mode /\ p.disc = o.disc /\ p.items = o.items
      /\ p.accts = [a \in AcctIds |-> p.accts[a]]
      /\ p.accts[new] = [status |-> "OPEN", fixed |-> base + rest]
      /\ \A a \in A : p.accts[a] = IF o.mode = "EQUAL" THEN [o.accts[a] EXCEPT !.fixed = base]
                                   ELSE o.accts[a]
      /\ \A a \in AcctIds \ (A \cup {new}) : p.accts[a] = o.accts[a]
  <2>1. p = Growing(o, o)
    BY DEF Effect
  <2>a. PICK nw, lf, m, opn :
           /\ nw = IF Accounts(o) = {} THEN 1 ELSE Greatest(Accounts(o)) + 1
           /\ opn = OpenAccts(o) /\ lf = Fixed(o, opn) /\ m = Cardinality(opn) + 1
    OBVIOUS
  <2>b. nw = new /\ opn = A /\ lf = left /\ m = n
    BY <1>2, <2>a
  <2>c. p = [o EXCEPT !.accts = [a \in AcctIds |->
                 CASE a = nw -> [status |-> "OPEN", fixed |-> PartOf(lf, m, m)]
                   [] o.mode = "EQUAL" /\ a \in opn -> [o.accts[a] EXCEPT !.fixed = PartOf(lf, 1, m)]
                   [] OTHER -> o.accts[a]]]
    <3> HIDE DEF p
    <3> QED BY <2>1, <2>a DEF Growing
  <2>2. PICK accts :
           /\ p = [o EXCEPT !.accts = accts]
           /\ accts = [a \in AcctIds |->
                 CASE a = nw -> [status |-> "OPEN", fixed |-> PartOf(lf, m, m)]
                   [] o.mode = "EQUAL" /\ a \in opn -> [o.accts[a] EXCEPT !.fixed = PartOf(lf, 1, m)]
                   [] OTHER -> o.accts[a]]
    BY <2>c
  <2>3. Fields(o)
    BY <1>1 DEF OrderTyped, Fields
  <2> HIDE DEF p
  <2>4. /\ p.status = o.status /\ p.mode = o.mode /\ p.disc = o.disc /\ p.items = o.items
        /\ p.accts = accts
    BY <2>2, <2>3 DEF Fields
  <2> HIDE DEF A, new, left, n
  <2>5. accts[new] = [status |-> "OPEN", fixed |-> base + rest]
    BY <1>3, <1>6, <2>2, <2>b
  <2>6. ASSUME NEW a \in A
        PROVE  accts[a] = IF o.mode = "EQUAL" THEN [o.accts[a] EXCEPT !.fixed = base]
                          ELSE o.accts[a]
    <3>1. a \in AcctIds /\ a # new
      BY <1>3, <1>4
    <3> QED BY <1>6, <2>2, <2>b, <3>1
  <2>7. ASSUME NEW a \in AcctIds \ (A \cup {new}) PROVE accts[a] = o.accts[a]
    BY <2>2, <2>b
  <2>8. accts = [a \in AcctIds |-> accts[a]]
    BY <2>2
  <2> QED BY <2>4, <2>5, <2>6, <2>7, <2>8
<1> HIDE DEF p, left, n, new
<1>8. ASSUME NEW a \in A
      PROVE  p.accts[a] = [status |-> "OPEN",
                           fixed |-> IF o.mode = "EQUAL" THEN base ELSE o.accts[a].fixed]
  <2>1. a \in AcctIds /\ o.accts[a].status = "OPEN"
    BY <1>1, <1>4 DEF Accounts
  <2>2. o.accts[a] = [status |-> "OPEN", fixed |-> o.accts[a].fixed]
    BY <1>1, <2>1
  <2>3. CASE o.mode = "EQUAL"
    BY <1>7, <2>2, <2>3
  <2>4. CASE o.mode # "EQUAL"
    BY <1>7, <2>2, <2>4
  <2> QED BY <2>3, <2>4
<1>9. ASSUME NEW a \in AcctIds
      PROVE  /\ p.accts[a] = [status |-> p.accts[a].status, fixed |-> p.accts[a].fixed]
             /\ p.accts[a].status \in {"NONE", "OPEN"} /\ p.accts[a].fixed \in Nat
  <2>1. CASE a = new
    <3>1. base + rest \in Nat
      BY <1>6
    <3> QED BY <1>7, <2>1, <3>1
  <2>2. CASE a \in A
    <3>1. PICK m : m = IF o.mode = "EQUAL" THEN base ELSE o.accts[a].fixed
      OBVIOUS
    <3>2. m \in Nat
      BY <1>1, <1>6, <3>1
    <3>3. p.accts[a] = [status |-> "OPEN", fixed |-> m]
      BY <1>8, <2>2, <3>1
    <3> QED BY <3>2, <3>3
  <2>3. CASE a # new /\ a \notin A
    <3>1. p.accts[a] = o.accts[a]
      BY <1>7, <2>3
    <3> QED BY <1>1, <3>1
  <2> QED BY <2>1, <2>2, <2>3
<1>10. Accounts(p) = A \cup {new}
  <2>1. ASSUME NEW a \in AcctIds PROVE p.accts[a].status # "NONE" <=> a \in A \cup {new}
    <3>1. CASE a = new
      BY <1>7, <3>1
    <3>2. CASE a \in A
      <4> HIDE DEF A
      <4>a. PICK m : p.accts[a] = [status |-> "OPEN", fixed |-> m]
        BY <1>8, <3>2
      <4>1. p.accts[a].status = "OPEN"
        BY <4>a
      <4> QED BY <3>2, <4>1
    <3>3. CASE a # new /\ a \notin A
      <4>1. p.accts[a] = o.accts[a]
        BY <1>7, <3>3
      <4>2. o.accts[a].status = "NONE"
        BY <3>3 DEF Accounts
      <4>3. p.accts[a].status = "NONE"
        BY <4>1, <4>2
      <4> HIDE DEF A
      <4> QED BY <3>3, <4>3
    <3> QED BY <3>1, <3>2, <3>3
  <2>2. A \cup {new} \in SUBSET AcctIds
    BY <1>3, <1>4
  <2> QED BY <2>1, <2>2 DEF Accounts
<1>11. Owned(p)
  <2>1. Rows(p) = Rows(o)
    BY <1>7 DEF Rows
  <2> QED BY <1>2, <1>7, <1>10, <2>1 DEF Owned
<1>12. ASSUME o.mode = "EQUAL" PROVE Fixed(p, Accounts(p)) = Due(p)
  <2> DEFINE f == [a \in AcctIds |-> p.accts[a].fixed]
  <2>1. left = Due(o) /\ Due(p) = Due(o)
    BY <1>1, <1>7, <1>12, SameDue DEF left, Divides, Unpaid0, BillDivided
  <2>2. Fixed(p, Accounts(p)) = SumFunctionOnSet(f, A \cup {new})
    BY <1>10 DEF Fixed
  <2>3. \A a \in A \cup {new} : f[a] = base + IF a = new THEN rest ELSE 0
    <3> SUFFICES ASSUME NEW a \in A \cup {new} PROVE f[a] = base + IF a = new THEN rest ELSE 0
      OBVIOUS
    <3>1. a \in AcctIds
      BY <1>3, <1>4
    <3>2. CASE a = new
      BY <1>7, <3>1, <3>2
    <3>3. CASE a \in A
      <4>1. p.accts[a].fixed = base /\ a # new
        BY <1>3, <1>8, <1>12, <3>3
      <4>2. base + 0 = base
        BY <1>6
      <4> QED BY <3>1, <4>1, <4>2
    <3> QED BY <3>2, <3>3
  <2>4. IsFiniteSet(A \cup {new}) /\ Cardinality(A \cup {new}) = n /\ new \in A \cup {new}
    BY <1>3, <1>4, FS_AddElement DEF n
  <2>5. base \in Int /\ rest \in Int
    BY <1>6
  <2> HIDE DEF f, A
  <2>6. PICK S : S = A \cup {new}
    OBVIOUS
  <2>7. SumFunctionOnSet(f, S) = base * Cardinality(S) + rest
    <3>1. IsFiniteSet(S) /\ new \in S /\ \A a \in S : f[a] = base + IF a = new THEN rest ELSE 0
      BY <2>3, <2>4, <2>6
    <3> QED BY <2>5, <3>1, SumBases
  <2>8. base * n + rest = left
    BY <1>4, <1>6
  <2> QED BY <2>1, <2>2, <2>4, <2>6, <2>7, <2>8
<1>13. p.status = "OPEN" /\ p.mode = o.mode /\ p.disc \in Nat /\ p.mode \in {"ITEMS", "EQUAL"}
  BY <1>1, <1>2, <1>7
<1>14. Accounts(p) = {} <=> p.mode = "NONE" \/ p.status = "CANCELLED"
  BY <1>2, <1>10, <1>13
<1>15. p.accts = [a \in AcctIds |-> [status |-> p.accts[a].status, fixed |-> p.accts[a].fixed]]
  BY <1>7, <1>9
<1>16. Uncharged(p)
  BY <1>1, <1>9, <1>11, <1>12, <1>13, <1>14, <1>15, AcctsUncharged
<1> QED
  BY <1>16 DEF p

\* Whatever is asked of a bill before it is paid.
LEMMA EditBill ==
    ASSUME NEW o, NEW q, BillTyped(o), BillDivided(o), BillAsked(o, q), Can(o, q),
           q.kind \in OrderKinds \ {"send", "checkout"}
    PROVE  Unpaid0(o) /\ Uncharged(Effect(o, o, q))
<1>1. Paid(o) = {}
  BY DEF BillAsked, Can, CanSplit, CanUndo, CanCancel, OrderKinds, Counted, Edits
<1>2. o.status = "OPEN"
  BY DEF Can, OrderKinds, Counted, CanAdd, CanUpdate, CanVoid, CanSplit, CanMove, CanGrow,
         CanMerge, CanUndo, CanDiscount, CanCancel
<1>3. Unpaid0(o)
  BY <1>1, <1>2 DEF Unpaid0
<1>4. q.n \in Nat
  BY DEF BillAsked
<1>5. CASE q.kind \in Counted
  <2>1. Edited(o, q)
    BY <1>3, <1>4, <1>5 DEF Edited, BillAsked, Edits, Counted
  <2> QED
    BY <1>3, <1>5, <2>1, AddBill, UpdateBill, VoidBill, MoveBill DEF Counted
<1>6. CASE q.kind \notin Counted
  <2>1. Divides(o, q)
    BY <1>3, <1>4, <1>6 DEF Divides
  <2>2. q.kind = "discount" => o.mode # "EQUAL"
    BY DEF BillAsked, Edits
  <2>3. q.kind = "split" => q.n \in {0} \cup (AcctIds \ {1})
    BY DEF BillAsked
  <2>4. q.kind \in {"split", "undo", "cancel", "discount", "merge", "grow"}
    BY <1>6 DEF OrderKinds
  <2> QED
    BY <1>3, <2>1, <2>2, <2>3, <2>4, SplitBill, UndoBill, DiscountBill, MergeBill, GrowBill
<1> QED
  BY <1>5, <1>6

\* Nothing is charged before it is paid.
LEMMA NothingCharged ==
    ASSUME NEW o, Uncharged(o)
    PROVE  BillUnits(o) = 0 /\ (\A off : BillCents(o, off) = 0) /\ BillSales(o) = 0
<1>1. Paid(o) = {} /\ o.status # "CLOSED"
  BY DEF Uncharged
<1> QED
  BY <1>1, SumEmpty, FS_EmptySet DEF BillUnits, BillCents, BillSales

-----------------------------------------------------------------------------
(* A checkout, of the order or of an account.                               *)
LEMMA WholeBill ==
    ASSUME NEW o, NEW q, BillTyped(o), BillDivided(o), CanCharge(o, q), q.kind = "checkout",
           o.mode = "NONE", q.n \in Nat, NEW off
    PROVE  LET p == Effect(o, o, q)
               c == CheckoutCharge(o, q)
           IN  /\ BillTyped(p) /\ BillDivided(p) /\ SameBill(o, p)
               /\ BillUnits(p) = BillUnits(o) + c.units
               /\ q.acct = 0 /\ BillCents(p, q.n) = BillCents(o, off) + c.cents
               /\ BillSales(p) = BillSales(o) + 1
<1> DEFINE p == Effect(o, o, q)
<1>1. /\ Accounts(o) = {} /\ q.acct = 0 /\ o.status = "OPEN" /\ Rows(o) # {}
  BY DEF BillDivided, CanCharge
<1>2. OpenAccts(o) = {} /\ Paid(o) = {}
  BY <1>1 DEF Accounts, OpenAccts, Paid
<1>3. p = [o EXCEPT !.status = "CLOSED"]
  BY <1>1, <1>2 DEF Effect, Charging
<1> HIDE DEF p
<1>4. /\ p.status = "CLOSED" /\ p.mode = "NONE" /\ p.disc = o.disc /\ p.items = o.items
      /\ p.accts = o.accts /\ OrderTyped(p)
  BY <1>3 DEF BillTyped, OrderTyped
<1>5. BillTyped(p)
  BY <1>4 DEF BillTyped
<1>6. Accounts(p) = {} /\ Paid(p) = {} /\ Rows(p) = Rows(o)
  BY <1>1, <1>2, <1>4 DEF Accounts, Paid, Rows
<1>7. SameBill(o, p)
  BY <1>1, <1>4, <1>6 DEF SameBill
<1>8. BillDivided(p)
  BY <1>1, <1>4, <1>6 DEF BillDivided, Chargeable
<1>9. /\ CheckoutCharge(o, q) = WholeCharge(o, q.n)
      /\ \A d : WholeCharge(p, d) = WholeCharge(o, d)
  BY <1>1, <1>5, <1>7, SameBillDivided DEF CheckoutCharge
<1>10. /\ WholeCharge(o, q.n).units \in Int /\ WholeCharge(o, q.n).cents \in Int
       /\ WholeCharge(o, 0).units = WholeCharge(o, q.n).units
  <2>1. Dishes(o, Rows(o)) \in Nat /\ Subtotal(o, Rows(o)) \in Nat /\ Unit \in Nat
    <3>1. Rows(o) \in SUBSET ItemIds
      BY DEF Rows
    <3> QED BY <3>1, BillSums, TableAssumption
  <2>2. Unit * Dishes(o, Rows(o)) \in Int
    BY <2>1
  <2>3. Net(Subtotal(o, Rows(o)), q.n) \in Int
    BY <2>1 DEF Net, Positive
  <2> QED BY <2>2, <2>3 DEF WholeCharge
<1>11. BillUnits(o) = 0 /\ BillCents(o, off) = 0 /\ BillSales(o) = 0
  BY <1>1 DEF BillUnits, BillCents, BillSales
<1>12. /\ BillUnits(p) = WholeCharge(o, q.n).units
       /\ BillCents(p, q.n) = WholeCharge(o, q.n).cents
       /\ BillSales(p) = 1
  BY <1>4, <1>9, <1>10 DEF BillUnits, BillCents, BillSales
<1>13. /\ BillUnits(p) = BillUnits(o) + CheckoutCharge(o, q).units
       /\ q.acct = 0 /\ BillCents(p, q.n) = BillCents(o, off) + CheckoutCharge(o, q).cents
       /\ BillSales(p) = BillSales(o) + 1
  BY <1>1, <1>9, <1>10, <1>11, <1>12
<1> QED
  BY <1>5, <1>7, <1>8, <1>13 DEF p

\* What the paid accounts of an order add up to.
LEMMA PaidSums ==
    ASSUME NEW o, Divided(o), Chargeable(o)
    PROVE  /\ \A a \in Accounts(o) : Parts(o)[a] \in Int /\ Amount(o)[a] \in Int
           /\ IsFiniteSet(Paid(o)) /\ Paid(o) \in SUBSET Accounts(o) /\ IsFiniteSet(Accounts(o))
           /\ o.mode # "NONE"
<1>1. o.mode \in {"ITEMS", "EQUAL"}
  BY DEF Divided, BillDivided, BillTyped
<1>2. \A a \in Accounts(o) : Parts(o)[a] \in Int /\ Amount(o)[a] \in Int
  BY <1>1, ItemsSums, EqualSums
<1>3. Paid(o) \in SUBSET Accounts(o)
  BY DEF Paid, Accounts
<1>4. IsFiniteSet(Accounts(o))
  BY BillSums DEF Divided
<1> QED
  BY <1>1, <1>2, <1>3, <1>4, FS_Subset

\* One account is paid; the order closes with the last.
LEMMA AcctBill ==
    ASSUME NEW o, NEW q, BillTyped(o), BillDivided(o), CanCharge(o, q), q.kind = "checkout",
           o.mode # "NONE", NEW off
    PROVE  LET p == Effect(o, o, q)
               c == CheckoutCharge(o, q)
           IN  /\ BillTyped(p) /\ BillDivided(p) /\ SameBill(o, p)
               /\ BillUnits(p) = BillUnits(o) + c.units
               /\ q.acct # 0 /\ BillCents(p, off) = BillCents(o, off) + c.cents
               /\ BillSales(p) = BillSales(o) + 1
<1> DEFINE p == Effect(o, o, q)
           a == q.acct
           paid == [o EXCEPT !.accts[a].status = "PAID"]
<1>1. /\ o.status = "OPEN" /\ Rows(o) # {} /\ Accounts(o) # {} /\ a \in OpenAccts(o)
      /\ o.mode = "EQUAL" => Fixed(o, Accounts(o)) > 0 \/ Accounts(o) = {a}
  BY DEF BillDivided, CanCharge, Unpaid
<1>2. a \in AcctIds /\ a # 0 /\ o.accts[a].status = "OPEN"
  BY <1>1, TableAssumption DEF OpenAccts
<1>3. Divided(o) /\ Chargeable(o)
  BY <1>1, <1>2 DEF Divided, Chargeable
<1>4. p = IF OpenAccts(paid) = {} THEN [paid EXCEPT !.status = "CLOSED"] ELSE paid
  BY <1>2 DEF Effect, Charging
<1>5. /\ paid.status = "OPEN" /\ paid.mode = o.mode /\ paid.disc = o.disc /\ paid.items = o.items
      /\ paid.accts = [o.accts EXCEPT ![a].status = "PAID"] /\ Fields(paid)
  <2>1. PICK accts : paid = [o EXCEPT !.accts = accts]
                     /\ accts = [o.accts EXCEPT ![a].status = "PAID"]
    OBVIOUS
  <2>2. Fields(o)
    BY DEF BillTyped, OrderTyped, Fields
  <2> HIDE DEF paid
  <2> QED BY <1>1, <2>1, <2>2 DEF Fields
<1> HIDE DEF paid, p, a
<1>6. /\ p.mode = o.mode /\ p.disc = o.disc /\ p.items = o.items /\ p.accts = paid.accts
      /\ p.status = IF OpenAccts(paid) = {} THEN "CLOSED" ELSE "OPEN"
      /\ Fields(p)
  BY <1>4, <1>5 DEF Fields
<1>7. /\ o.accts = [x \in AcctIds |-> o.accts[x]]
      /\ \A x \in AcctIds : /\ o.accts[x] = [status |-> o.accts[x].status,
                                             fixed |-> o.accts[x].fixed]
                            /\ o.accts[x].status \in {"NONE", "OPEN", "PAID"}
                            /\ o.accts[x].fixed \in Nat
  BY DEF BillTyped
<1>8. /\ p.accts = [x \in AcctIds |-> p.accts[x]]
      /\ p.accts[a] = [status |-> "PAID", fixed |-> o.accts[a].fixed]
      /\ \A x \in AcctIds \ {a} : p.accts[x] = o.accts[x]
  <2>1. /\ p.accts = [x \in AcctIds |-> p.accts[x]]
        /\ p.accts[a] = [o.accts[a] EXCEPT !.status = "PAID"]
        /\ \A x \in AcctIds \ {a} : p.accts[x] = o.accts[x]
    BY <1>2, <1>5, <1>6, <1>7
  <2>2. o.accts[a] = [status |-> o.accts[a].status, fixed |-> o.accts[a].fixed]
    BY <1>2, <1>7
  <2> QED BY <2>1, <2>2
<1>9. \A x \in AcctIds : /\ p.accts[x].fixed = o.accts[x].fixed
                         /\ p.accts[x].status = IF x = a THEN "PAID" ELSE o.accts[x].status
  <2>1. PICK f : f = o.accts[a].fixed
    OBVIOUS
  <2>2. p.accts[a] = [status |-> "PAID", fixed |-> f]
    BY <1>8, <2>1
  <2>3. p.accts[a].status = "PAID" /\ p.accts[a].fixed = f
    BY <2>2
  <2>4. \A x \in AcctIds \ {a} : p.accts[x] = o.accts[x]
    BY <1>8
  <2> QED BY <2>1, <2>3, <2>4
<1>9a. \A x \in AcctIds : p.accts[x] \in [status : {"NONE", "OPEN", "PAID"}, fixed : Nat]
  <2>1. PICK f : f = o.accts[a].fixed
    OBVIOUS
  <2>2. p.accts[a] = [status |-> "PAID", fixed |-> f] /\ f \in Nat
    BY <1>2, <1>7, <1>8, <2>1
  <2>3. p.accts[a] \in [status : {"NONE", "OPEN", "PAID"}, fixed : Nat]
    BY <2>2
  <2>4. \A x \in AcctIds \ {a} : p.accts[x] = o.accts[x]
    BY <1>8
  <2>5. \A x \in AcctIds : o.accts[x] \in [status : {"NONE", "OPEN", "PAID"}, fixed : Nat]
    BY DEF BillTyped
  <2> QED BY <2>3, <2>4, <2>5
<1>10. /\ OpenAccts(p) = OpenAccts(o) \ {a} /\ Paid(p) = Paid(o) \cup {a}
       /\ Accounts(p) = Accounts(o) /\ a \notin Paid(o) /\ a \in Accounts(o)
       /\ OpenAccts(paid) = OpenAccts(p)
  BY <1>2, <1>6, <1>9 DEF OpenAccts, Paid, Accounts
<1>11. OrderTyped(p)
  BY <1>6 DEF Fields, OrderTyped, BillTyped
<1>12. p.status \in {"OPEN", "CLOSED"} /\ (OpenAccts(p) = {} <=> p.status = "CLOSED")
  BY <1>6, <1>10
<1>13. BillTyped(p)
  <2>1. p.accts \in [AcctIds -> [status : {"NONE", "OPEN", "PAID"}, fixed : Nat]]
    BY <1>8, <1>9a
  <2> QED BY <1>6, <1>11, <1>12, <2>1 DEF BillTyped
<1>14. SameBill(o, p)
  BY <1>6, <1>9, <1>10 DEF SameBill
<1>15. Chargeable(p) /\ Amount(p) = Amount(o) /\ Parts(p) = Parts(o)
  BY <1>3, <1>13, <1>14, SameBillDivided
<1>16. BillDivided(p)
  <2>1. p.mode = "ITEMS" => \A i \in Rows(p) : p.items[i].acct \in Accounts(p)
    <3>1. Rows(p) = Rows(o)
      BY <1>6 DEF Rows
    <3> QED BY <1>1, <1>6, <1>10, <3>1 DEF BillDivided
  <2>2. p.mode = "EQUAL" => Fixed(p, Accounts(p)) = Due(p)
    <3>1. Fixed(p, Accounts(p)) = Fixed(o, Accounts(o)) /\ Due(p) = Due(o)
      BY <1>10, <1>14, SameBillIs
    <3> QED BY <1>1, <1>6, <3>1 DEF BillDivided
  <2>3. p.mode # "NONE" /\ p.status # "CANCELLED" /\ Accounts(p) # {}
    BY <1>1, <1>6, <1>10, <1>12
  <2>4. p.mode = "ITEMS" => \A x \in Paid(p) : OfAcct(p, x) # {}
    <3>1. \A x : OfAcct(p, x) = OfAcct(o, x)
      BY <1>14, SameBillIs
    <3>2. o.mode = "ITEMS" => OfAcct(o, a) # {}
      BY DEF CanCharge, a
    <3> QED BY <1>6, <1>10, <3>1, <3>2 DEF BillDivided
  <2> QED BY <1>12, <1>15, <2>1, <2>2, <2>3, <2>4 DEF BillDivided
<1>17. \A x \in Paid(o) \cup {a} : Parts(o)[x] \in Int /\ Amount(o)[x] \in Int
  BY <1>3, <1>10, PaidSums
<1>18. IsFiniteSet(Paid(o))
  BY <1>3, PaidSums
<1>19. /\ SumFunctionOnSet(Parts(o), Paid(o) \cup {a}) =
              Parts(o)[a] + SumFunctionOnSet(Parts(o), Paid(o))
       /\ SumFunctionOnSet(Amount(o), Paid(o) \cup {a}) =
              Amount(o)[a] + SumFunctionOnSet(Amount(o), Paid(o))
       /\ SumFunctionOnSet(Parts(o), Paid(o)) \in Int
       /\ SumFunctionOnSet(Amount(o), Paid(o)) \in Int
  <2>1. a \notin Paid(o)
    BY <1>10
  <2> QED BY <1>17, <1>18, <2>1, SumAdd, SumInt
<1>20. Cardinality(Paid(o) \cup {a}) = Cardinality(Paid(o)) + 1
  BY <1>10, <1>18, FS_AddElement
<1>21. Parts(o)[a] = Charge(o, a).units /\ Amount(o)[a] = Charge(o, a).cents
  BY <1>2 DEF Parts, Amount
<1>22. /\ BillUnits(o) = SumFunctionOnSet(Parts(o), Paid(o))
       /\ BillCents(o, off) = SumFunctionOnSet(Amount(o), Paid(o))
       /\ BillSales(o) = Cardinality(Paid(o))
  BY DEF BillUnits, BillCents, BillSales, Parts, Amount
<1>23. /\ BillUnits(p) = SumFunctionOnSet(Parts(p), Paid(p))
       /\ BillCents(p, off) = SumFunctionOnSet(Amount(p), Paid(p))
       /\ BillSales(p) = Cardinality(Paid(p))
  BY <1>6 DEF BillUnits, BillCents, BillSales, Parts, Amount
<1>24. Parts(o)[a] \in Int /\ Amount(o)[a] \in Int
  BY <1>17
<1> HIDE DEF Parts, Amount
<1>25. /\ BillUnits(p) = BillUnits(o) + Charge(o, a).units
       /\ BillCents(p, off) = BillCents(o, off) + Charge(o, a).cents
       /\ BillSales(p) = BillSales(o) + 1
  BY <1>10, <1>15, <1>19, <1>20, <1>21, <1>22, <1>23, <1>24
<1> QED
  BY <1>2, <1>13, <1>14, <1>16, <1>25 DEF p, a, CheckoutCharge

-----------------------------------------------------------------------------
(* The steps of the order's bill.                                           *)

BillStep == /\ setting' = setting /\ setting \in Settings /\ BillCalm(setting) /\ BillHolds

\* A request that ends leaves the others.
LEMMA BillEnds ==
    ASSUME WorkTyped, BillAlone, setting' = setting, NEW r \in Handlers,
           work' = [work EXCEPT ![r] = Idle]
    PROVE  /\ WorkTyped' /\ BillAlone' /\ Working' = Working \ {r}
           /\ \A s \in Working \ {r} : work'[s] = work[s]
<1>1. /\ WorkTyped' /\ Working' = Working \ {r}
      /\ \A s \in Working \ {r} : work'[s] = work[s]
  BY Ended
<1> QED
  BY <1>1 DEF BillAlone

\* A change of a bill of which nothing is paid, alone.
LEMMA EditHolds ==
    ASSUME BillStep, NEW r \in Handlers, Commit(r), work[r].q.kind # "checkout"
    PROVE  BillHolds'
<1>1. PICK w : w = work[r]
  OBVIOUS
<1>2. /\ r \in Working /\ w.kind = "commit" /\ w.q.kind \notin {"send", "checkout"}
      /\ order' = Effect(w.seen, order, w.q) /\ charged' = charged
  BY <1>1 DEF Commit, Working, Idle
<1>3. WorkTyped /\ BillAlone /\ setting' = setting
  BY DEF BillStep, BillHolds
<1>4. /\ w = [kind |-> w.kind, q |-> w.q, seen |-> w.seen]
      /\ w.q.kind \in OrderKinds \cap setting.kinds
  BY <1>1, <1>2, <1>3 DEF WorkTyped
<1>5. BillAsked(order, w.q) /\ Can(order, w.q) /\ w.seen = order
  BY <1>1, <1>2 DEF BillStep, BillHolds, BillSeen
<1>6. BillTyped(order) /\ BillDivided(order)
  BY DEF BillStep, BillHolds
<1>7. Unpaid0(order) /\ Uncharged(order')
  BY <1>2, <1>4, <1>5, <1>6, EditBill
<1>8. Uncharged(order)
  BY <1>7 DEF Unpaid0, Uncharged
<1>9. BillCharged'
  <2>1. /\ BillUnits(order) = 0 /\ (\A off : BillCents(order, off) = 0) /\ BillSales(order) = 0
        /\ BillUnits(order') = 0 /\ (\A off : BillCents(order', off) = 0)
        /\ BillSales(order') = 0
    BY <1>7, <1>8, NothingCharged
  <2> QED BY <1>2, <2>1 DEF BillCharged, BillStep, BillHolds
<1>10. Working = {r}
  BY <1>1, <1>2, <1>3 DEF BillAlone
<1>11. /\ WorkTyped' /\ Working' \subseteq {r}
       /\ \A s \in Working' : work'[s].kind = "tell"
  <2>1. CASE Told(w)
    <3> DEFINE v == [w EXCEPT !.kind = "tell"]
    <3>1. work' = [work EXCEPT ![r] = v]
      BY <1>1, <2>1 DEF Commit
    <3>2. /\ v.kind = "tell" /\ v.q = w.q /\ v.seen = w.seen
          /\ v = [kind |-> v.kind, q |-> v.q, seen |-> v.seen]
      BY <1>4
    <3> HIDE DEF v
    <3>3. v.q.kind = "void"
      BY <2>1, <3>2 DEF Told
    <3>4. WorkTyped' /\ Working' = Working \cup {r} /\ work'[r] = v
      BY <1>3, <1>4, <3>1, <3>2, <3>3, Goes
    <3> QED BY <1>10, <3>2, <3>4
  <2>2. CASE ~Told(w)
    <3>1. work' = [work EXCEPT ![r] = Idle]
      BY <1>1, <2>2 DEF Commit
    <3>2. WorkTyped' /\ Working' = {}
      BY <1>3, <1>10, <3>1, Ended
    <3> QED BY <3>2
  <2> QED BY <2>1, <2>2
<1>12. BillAlone' /\ (\A s \in Working : BillSeen(work[s]))'
  BY <1>11 DEF BillAlone, BillSeen
<1> QED
  BY <1>7, <1>9, <1>11, <1>12 DEF BillHolds, Uncharged

\* A checkout charges what the order it read charged: the order is the same.
LEMMA ChargeHolds ==
    ASSUME BillStep, NEW r \in Handlers, Commit(r), work[r].q.kind = "checkout"
    PROVE  BillHolds'
<1>1. PICK w : w = work[r]
  OBVIOUS
<1> DEFINE q == w.q
           p == Effect(order, order, q)
<1>2. r \in Working /\ w.kind = "commit" /\ q.kind = "checkout"
  BY <1>1 DEF Commit, Working, Idle
<1>3. CanCharge(order, q) /\ SameBill(w.seen, order)
  BY <1>1, <1>2 DEF BillStep, BillHolds, BillSeen, Can
<1>4. q.acct \in {0} \cup AcctIds
  BY <1>3 DEF CanCharge, Unpaid, OpenAccts
<1>5. CheckoutCharge(w.seen, q) = CheckoutCharge(order, q)
  BY <1>3, <1>4, SameCharges DEF CheckoutCharge
<1>6. order' = p
  BY <1>1, <1>2 DEF Commit, Effect
<1>7. PICK off : /\ off = IF q.acct = 0 THEN q.n ELSE charged.off
                 /\ charged' = [units |-> charged.units + CheckoutCharge(order, q).units,
                                cents |-> charged.cents + CheckoutCharge(order, q).cents,
                                sales |-> charged.sales + 1, off |-> off]
  BY <1>1, <1>2, <1>5 DEF Commit
<1>14. q.n \in Nat /\ charged.off \in Nat
  BY <1>1, <1>2 DEF BillStep, BillHolds, BillSeen, BillAsked, BillCharged
<1>8. work' = [work EXCEPT ![r] = Idle]
  BY <1>1, <1>2 DEF Commit, Told
<1>9. /\ WorkTyped' /\ BillAlone' /\ Working' = Working \ {r}
      /\ \A s \in Working \ {r} : work'[s] = work[s]
  BY <1>8, BillEnds DEF BillStep, BillHolds
<1>10. BillTyped(order) /\ BillDivided(order)
  BY DEF BillStep, BillHolds
<1>11. /\ BillTyped(p) /\ BillDivided(p)
       /\ BillUnits(p) = BillUnits(order) + CheckoutCharge(order, q).units
       /\ BillCents(p, off) = BillCents(order, charged.off) + CheckoutCharge(order, q).cents
       /\ BillSales(p) = BillSales(order) + 1
  <2> HIDE DEF q
  <2>1. CASE order.mode = "NONE"
    <3>1. /\ BillTyped(p) /\ BillDivided(p) /\ q.acct = 0
          /\ BillUnits(p) = BillUnits(order) + CheckoutCharge(order, q).units
          /\ BillCents(p, q.n) = BillCents(order, charged.off) + CheckoutCharge(order, q).cents
          /\ BillSales(p) = BillSales(order) + 1
      BY <1>2, <1>3, <1>10, <1>14, <2>1, WholeBill
    <3> QED BY <1>7, <3>1
  <2>2. CASE order.mode # "NONE"
    <3>1. /\ BillTyped(p) /\ BillDivided(p) /\ q.acct # 0
          /\ BillUnits(p) = BillUnits(order) + CheckoutCharge(order, q).units
          /\ BillCents(p, charged.off) =
                BillCents(order, charged.off) + CheckoutCharge(order, q).cents
          /\ BillSales(p) = BillSales(order) + 1
      BY <1>2, <1>3, <1>10, <2>2, AcctBill
    <3> QED BY <1>7, <3>1
  <2> QED BY <2>1, <2>2
<1>12. BillCharged'
  <2>1. /\ charged.units = BillUnits(order) /\ charged.cents = BillCents(order, charged.off)
        /\ charged.sales = BillSales(order)
    BY DEF BillStep, BillHolds, BillCharged
  <2>2. off \in Nat
    BY <1>7, <1>14
  <2> HIDE DEF p, q
  <2> QED BY <1>6, <1>7, <1>11, <2>1, <2>2 DEF BillCharged
<1>13. (\A s \in Working : BillSeen(work[s]))'
  <2>1. ASSUME NEW s \in Working \ {r} PROVE work[s].q.kind = "send"
    <3>1. work[s].q.kind \in {"checkout", "send"}
      BY <1>2 DEF BillStep, BillHolds, BillAlone
    <3>2. work[s].q.kind # "checkout"
      BY <1>1, <1>2 DEF BillStep, BillHolds, BillAlone
    <3> QED BY <3>1, <3>2
  <2> QED BY <1>9, <2>1 DEF BillSeen
<1> QED
  BY <1>6, <1>9, <1>11, <1>12, <1>13 DEF BillHolds

\* A checkout under way reads an order that still charges the same.
LEMMA StillSeen ==
    ASSUME NEW w, BillSeen(w), w.q.kind \in {"checkout", "send"}, SameBill(order, order'),
           order'.status = order.status, order'.accts = order.accts
    PROVE  BillSeen(w)'
<1>1. CASE w.kind = "commit" /\ w.q.kind = "checkout"
  <2>1. BillAsked(order, w.q) /\ CanCharge(order, w.q) /\ SameBill(w.seen, order)
    BY <1>1 DEF BillSeen, Can
  <2>2. SameBill(w.seen, order')
    BY <2>1, SameBillTrans
  <2>3. /\ Rows(order') = Rows(order) /\ (\A a : OfAcct(order', a) = OfAcct(order, a))
        /\ Fixed(order', Accounts(order')) = Fixed(order, Accounts(order))
        /\ order'.mode = order.mode /\ Accounts(order') = Accounts(order)
    <3>1. /\ Rows(order) = Rows(order') /\ (\A a : OfAcct(order, a) = OfAcct(order', a))
          /\ \A A : Fixed(order, A) = Fixed(order', A)
      BY SameBillIs
    <3>2. order'.mode = order.mode /\ Accounts(order') = Accounts(order)
      BY DEF SameBill
    <3> QED BY <3>1, <3>2
  <2>4. OpenAccts(order') = OpenAccts(order)
    BY DEF OpenAccts
  <2>5. CanCharge(order', w.q)
    BY <2>1, <2>3, <2>4 DEF CanCharge, Unpaid
  <2>6. BillAsked(order', w.q)
    BY <1>1, <2>1 DEF BillAsked, Edits
  <2> QED BY <1>1, <2>2, <2>5, <2>6 DEF BillSeen, Can
<1>2. CASE ~(w.kind = "commit" /\ w.q.kind = "checkout")
  BY <1>2 DEF BillSeen
<1> QED BY <1>1, <1>2

\* A round sent marks dishes, and nothing of the bill.
LEMMA SendBill ==
    ASSUME BillStep, NEW r \in Handlers, SendCommit(r)
    PROVE  BillHolds'
<1>1. PICK w : w = work[r]
  OBVIOUS
<1>2. /\ r \in Working /\ w.q.kind = "send" /\ charged' = charged
      /\ work' = [work EXCEPT ![r] = Idle]
  BY <1>1 DEF SendCommit, Working, Idle
<1>3. PICK items : /\ order' = [order EXCEPT !.items = items]
                   /\ items = [i \in ItemIds |->
                        IF i \in Unsent(w.seen) /\ order.items[i].qty > 0
                        THEN [order.items[i] EXCEPT !.round = 1] ELSE order.items[i]]
  BY <1>1 DEF SendCommit
<1>4. BillTyped(order) /\ OrderTyped(order) /\ BillDivided(order)
  BY DEF BillStep, BillHolds, BillTyped
<1>5. ASSUME NEW i \in ItemIds
      PROVE  /\ RowTyped(items[i]) /\ items[i].qty = order.items[i].qty
             /\ items[i].acct = order.items[i].acct
  <2>1. RowTyped(order.items[i])
    BY <1>4 DEF OrderTyped, RowTyped
  <2>2. PICK row : row = order.items[i]
    OBVIOUS
  <2>3. items[i] = IF i \in Unsent(w.seen) /\ row.qty > 0 THEN [row EXCEPT !.round = 1] ELSE row
    BY <1>3, <2>2
  <2> QED BY <2>1, <2>2, <2>3 DEF RowTyped
<1>6. items = [i \in ItemIds |-> items[i]]
  BY <1>3
<1>7. PICK p : p = order'
  OBVIOUS
<1>8. Fields(p) /\ p.items = items /\ p.status = order.status /\ p.mode = order.mode
      /\ p.disc = order.disc /\ p.accts = order.accts
  <2>1. Fields(order)
    BY <1>4 DEF OrderTyped, Fields
  <2> QED BY <1>3, <1>7, <2>1 DEF Fields
<1>9. OrderTyped(p)
  BY <1>5, <1>6, <1>8 DEF OrderTyped, Fields, RowTyped
<1>10. BillTyped(p)
  BY <1>4, <1>8, <1>9 DEF BillTyped
<1>11. SameBill(order, p)
  BY <1>5, <1>8 DEF SameBill, Accounts
<1>12. /\ Paid(p) = Paid(order) /\ OpenAccts(p) = OpenAccts(order)
       /\ Accounts(p) = Accounts(order)
  BY <1>8 DEF Paid, OpenAccts, Accounts
<1>13. /\ Rows(p) = Rows(order) /\ Fixed(p, Accounts(p)) = Fixed(order, Accounts(order))
       /\ Due(p) = Due(order)
  BY <1>11, <1>12, SameBillIs
<1>14. BillDivided(p)
  <2>1. Chargeable(order) => Chargeable(p)
    BY <1>8, <1>12, <1>13 DEF Chargeable
  <2>2. order.mode = "ITEMS" /\ (\A i \in Rows(order) : order.items[i].acct \in Accounts(order))
          => \A i \in Rows(p) : p.items[i].acct \in Accounts(p)
    BY <1>5, <1>8, <1>12, <1>13 DEF Rows
  <2>3. \A a : OfAcct(order, a) = OfAcct(p, a)
    BY <1>11, SameBillIs
  <2> QED BY <1>4, <1>8, <1>12, <1>13, <2>1, <2>2, <2>3 DEF BillDivided
<1>15. /\ BillUnits(p) = BillUnits(order)
       /\ (\A off : BillCents(p, off) = BillCents(order, off))
       /\ BillSales(p) = BillSales(order)
  <2>1. /\ Amount(order) = Amount(p) /\ Parts(order) = Parts(p)
        /\ \A off : WholeCharge(order, off) = WholeCharge(p, off)
    BY <1>4, <1>10, <1>11, SameBillDivided
  <2> QED BY <1>8, <1>12, <2>1 DEF BillUnits, BillCents, BillSales, Amount, Parts
<1>16. BillCharged'
  BY <1>2, <1>7, <1>15 DEF BillCharged, BillStep, BillHolds
<1>17. /\ WorkTyped' /\ BillAlone' /\ Working' = Working \ {r}
       /\ \A s \in Working \ {r} : work'[s] = work[s]
  BY <1>2, BillEnds DEF BillStep, BillHolds
<1>18. (\A s \in Working : BillSeen(work[s]))'
  <2>1. ASSUME NEW s \in Working \ {r} PROVE BillSeen(work[s])'
    <3>1. PICK v : v = work[s]
      OBVIOUS
    <3>2. v.q.kind \in {"checkout", "send"}
      BY <1>2, <3>1 DEF BillStep, BillHolds, BillAlone
    <3>3. BillSeen(v)
      BY <3>1 DEF BillStep, BillHolds
    <3>4. BillSeen(v)'
      BY <1>7, <1>8, <1>11, <3>2, <3>3, StillSeen
    <3>5. work'[s] = v
      BY <1>17, <3>1
    <3> QED BY <3>4, <3>5 DEF BillSeen
  <2> QED BY <1>17, <2>1
<1> QED
  BY <1>7, <1>10, <1>14, <1>16, <1>17, <1>18 DEF BillHolds

\* A request under way, while the order stays as it is.
LEMMA SeenStays ==
    ASSUME NEW w, BillSeen(w), w.q.kind \in OrderKinds, order' = order
    PROVE  BillSeen(w)'
<1>1. CASE w.kind = "commit" /\ w.q.kind # "send"
  <2>1. BillAsked(order, w.q) /\ Can(order, w.q)
    BY <1>1 DEF BillSeen
  <2>2. BillAsked(order', w.q)
    BY <2>1
  <2>3. Can(order, w.q)'
    BY <1>1, <2>1 DEF Can, OrderKinds, Counted
  <2> QED BY <1>1, <2>2, <2>3 DEF BillSeen
<1>2. CASE ~(w.kind = "commit" /\ w.q.kind # "send")
  BY <1>2 DEF BillSeen
<1> QED BY <1>1, <1>2

\* A request that ends and has changed nothing: given up, or its void told.
LEMMA GivenUp ==
    ASSUME BillStep, NEW r \in Handlers, order' = order, charged' = charged,
           work' = [work EXCEPT ![r] = Idle]
    PROVE  BillHolds'
<1>1. /\ WorkTyped' /\ BillAlone' /\ Working' = Working \ {r}
      /\ \A s \in Working \ {r} : work'[s] = work[s]
  BY BillEnds DEF BillStep, BillHolds
<1>2. (\A s \in Working : BillSeen(work[s]))'
  <2>1. ASSUME NEW s \in Working \ {r} PROVE BillSeen(work[s])'
    <3>1. PICK v : v = work[s]
      OBVIOUS
    <3>2. BillSeen(v) /\ v.q.kind \in OrderKinds
      BY <3>1 DEF BillStep, BillHolds, WorkTyped
    <3>3. BillSeen(v)'
      BY <3>2, SeenStays
    <3> QED BY <1>1, <3>1, <3>3 DEF BillSeen
  <2> QED BY <1>1, <2>1
<1> QED
  BY <1>1, <1>2 DEF BillHolds, BillStep, BillCharged

\* A step that leaves the bill alone: of the kitchen or of the floor.
LEMMA BillStays ==
    ASSUME BillStep, UNCHANGED <<order, charged, work>>
    PROVE  BillHolds'
<1>1. WorkTyped' /\ Working' = Working
  BY DEF BillStep, BillHolds, WorkTyped, Working
<1>2. (\A s \in Working : BillSeen(work[s]))'
  <2>1. ASSUME NEW s \in Working PROVE BillSeen(work[s])'
    <3>1. PICK v : v = work[s]
      OBVIOUS
    <3>2. BillSeen(v) /\ v.q.kind \in OrderKinds
      BY <3>1 DEF BillStep, BillHolds, WorkTyped
    <3>3. BillSeen(v)'
      BY <3>2, SeenStays
    <3> QED BY <3>1, <3>3 DEF BillSeen
  <2> QED BY <1>1, <2>1
<1> QED
  BY <1>1, <1>2 DEF BillHolds, BillStep, BillCharged, BillAlone

\* What a client may ask: a number, and of a division at least two parts.
LEMMA BeginAsked ==
    ASSUME NEW r, Begins(r)
    PROVE  \E kind, item, acct, n, token :
              /\ Begin(r, kind, item, acct, n, token) /\ kind \in OrderKinds /\ n \in Nat
              /\ kind = "split" => n \in {0} \cup (AcctIds \ {1})
<1> DEFINE Wanted == \E kind, item, acct, n, token :
                       /\ Begin(r, kind, item, acct, n, token) /\ kind \in OrderKinds /\ n \in Nat
                       /\ kind = "split" => n \in {0} \cup (AcctIds \ {1})
<1> HIDE DEF Begin
<1>1. \A n \in {0} \cup Amounts \cup Discounts \cup AcctIds : n \in Nat
  <2>1. Discounts \subseteq Nat /\ AcctIds \subseteq Nat
    BY TableAssumption
  <2>2. Amounts \subseteq Nat
    BY TableAssumption DEF Amounts
  <2> QED BY <2>1, <2>2
<1>2. ASSUME NEW kind \in OrderKinds, NEW item, NEW acct, NEW n \in Nat, NEW token,
             Begin(r, kind, item, acct, n, token),
             kind = "split" => n \in {0} \cup (AcctIds \ {1})
      PROVE  Wanted
  BY <1>2
<1> SUFFICES Wanted
  OBVIOUS
<1> HIDE DEF Wanted
<1>3. /\ "add" \in OrderKinds /\ "update" \in OrderKinds /\ "void" \in OrderKinds
      /\ "move" \in OrderKinds /\ "split" \in OrderKinds /\ "merge" \in OrderKinds
      /\ "discount" \in OrderKinds /\ "checkout" \in OrderKinds /\ "send" \in OrderKinds
      /\ "grow" \in OrderKinds /\ "undo" \in OrderKinds /\ "cancel" \in OrderKinds
  BY DEF OrderKinds, Counted
<1>4. 0 \in Nat /\ 1 \in Nat
  OBVIOUS
<1>5. CASE Begin(r, "add", 0, 0, 1, Nothing)
  BY <1>2, <1>3, <1>4, <1>5
<1>6. ASSUME NEW i, NEW a, NEW n \in Amounts,
             \/ Begin(r, "update", i, 0, n, Nothing)
             \/ Begin(r, "void", i, 0, n, Nothing)
             \/ Begin(r, "move", i, a, n, Nothing)
      PROVE  Wanted
  <2>1. n \in Nat
    BY <1>1
  <2> QED BY <1>2, <1>3, <1>6, <2>1
<1>7. ASSUME NEW n \in {0} \cup (AcctIds \ {1}), Begin(r, "split", 0, 0, n, Nothing)
      PROVE  Wanted
  <2>1. n \in Nat
    BY <1>1
  <2> QED BY <1>2, <1>3, <1>7, <2>1
<1>8. ASSUME NEW a, NEW b, Begin(r, "merge", a, b, 0, Nothing) PROVE Wanted
  BY <1>2, <1>3, <1>4, <1>8
<1>9. ASSUME NEW d \in Discounts, Begin(r, "discount", 0, 0, d, Nothing) PROVE Wanted
  <2>1. d \in Nat
    BY <1>1
  <2> QED BY <1>2, <1>3, <1>9, <2>1
<1>10. ASSUME NEW a, NEW off \in {0} \cup Discounts, Begin(r, "checkout", 0, a, off, Nothing)
       PROVE  Wanted
  <2>1. off \in Nat
    BY <1>1
  <2> QED BY <1>2, <1>3, <1>10, <2>1
<1>11. ASSUME NEW t, Begin(r, "send", 0, 0, 0, t) PROVE Wanted
  BY <1>2, <1>3, <1>4, <1>11
<1>12. ASSUME NEW kind \in {"grow", "undo", "cancel"}, Begin(r, kind, 0, 0, 0, Nothing)
       PROVE  Wanted
  BY <1>2, <1>3, <1>4, <1>12
<1>13. CASE \E i \in ItemIds, n \in Amounts :
               \/ Begin(r, "update", i, 0, n, Nothing)
               \/ n > 0 /\ Begin(r, "void", i, 0, n, Nothing)
               \/ \E a \in AcctIds : n > 0 /\ Begin(r, "move", i, a, n, Nothing)
  BY <1>6, <1>13
<1>14. CASE \E a \in AcctIds : Begin(r, "checkout", 0, a, 0, Nothing)
  BY <1>10, <1>14
<1> QED
  BY <1>5, <1>7, <1>8, <1>9, <1>10, <1>11, <1>12, <1>13, <1>14 DEF Begins

\* A request that begins is accepted of the order as it is, beside checkouts and
\* sends only, and no other checkout if it is one.
LEMMA BillBegins ==
    ASSUME BillStep, NEW r \in Handlers, NEW kind \in OrderKinds, NEW item, NEW acct,
           NEW n \in Nat, NEW token, Begin(r, kind, item, acct, n, token),
           kind = "split" => n \in {0} \cup (AcctIds \ {1})
    PROVE  BillHolds'
<1> DEFINE q == [kind |-> kind, item |-> item, acct |-> acct, n |-> n, token |-> token]
           w == [kind |-> "commit", q |-> q, seen |-> order]
<1>1. /\ work[r] = Idle /\ Asked(q) /\ LockFree(q) /\ RoomFor(q) /\ Can(order, q)
      /\ work' = [work EXCEPT ![r] = w]
  BY DEF Begin
<1>2. order' = order /\ charged' = charged
  BY DEF Begin
<1>3. /\ q.kind = kind /\ q.n = n
      /\ w.kind = "commit" /\ w.q = q /\ w.seen = order
      /\ w = [kind |-> w.kind, q |-> w.q, seen |-> w.seen]
  OBVIOUS
<1> HIDE DEF q, w
<1>4. kind \in setting.kinds /\ r \notin Working
  BY <1>1, <1>3 DEF Asked, Working
<1>5. /\ WorkTyped' /\ Working' = Working \cup {r} /\ work'[r] = w
      /\ \A s \in Handlers \ {r} : work'[s] = work[s]
  BY <1>1, <1>3, <1>4, Goes DEF BillStep, BillHolds
<1>6. \A s \in Working : work'[s] = work[s] /\ s # r
  BY <1>4, <1>5 DEF Working
<1>7. BillAsked(order, q)
  <2>1. setting.calm
    BY DEF BillStep, BillCalm
  <2> QED BY <1>1, <1>3, <2>1 DEF Asked, RoomFor, BillAsked
<1>8. PICK v : v = w
  OBVIOUS
<1>8a. BillSeen(v)'
  <2>1. SameBill(order, order)
    BY DEF SameBill
  <2>2. BillSeen(v)
    BY <1>1, <1>3, <1>7, <1>8, <2>1 DEF BillSeen
  <2>3. v.q.kind \in OrderKinds
    BY <1>3, <1>8
  <2> QED BY <1>2, <2>2, <2>3, SeenStays
<1>9. (\A s \in Working : BillSeen(work[s]))'
  <2>1. ASSUME NEW s \in Working PROVE BillSeen(work[s])'
    <3>1. PICK u : u = work[s]
      OBVIOUS
    <3>2. BillSeen(u) /\ u.q.kind \in OrderKinds
      BY <3>1 DEF BillStep, BillHolds, WorkTyped
    <3>3. BillSeen(u)'
      BY <1>2, <3>2, SeenStays
    <3> QED BY <1>6, <3>1, <3>3 DEF BillSeen
  <2>2. BillSeen(work[r])'
    BY <1>5, <1>8, <1>8a DEF BillSeen
  <2> QED BY <1>5, <2>1, <2>2
<1>10. BillAlone'
  <2>1. CASE Working = {}
    BY <1>5, <2>1 DEF BillAlone
  <2>2. CASE \A k \in {q.kind} \cup {work[s].q.kind : s \in Working} : k \in setting.together
    <3>1. q.kind \in {"checkout", "send"}
      BY <1>3, <2>2 DEF BillStep, BillCalm
    <3>2. \A s \in Working : work[s].q.kind \in {"checkout", "send"}
      BY <2>2 DEF BillStep, BillCalm, BillHolds, WorkTyped
    <3>3. q.kind = "checkout" => \A s \in Working : work[s].q.kind # "checkout"
      BY <1>1, <1>3 DEF LockFree, Working
    <3>4. \A s, t \in Working :
             work[s].q.kind = "checkout" /\ work[t].q.kind = "checkout" => s = t
      BY DEF BillStep, BillHolds, BillAlone
    <3> QED BY <1>3, <1>5, <1>6, <3>1, <3>2, <3>3, <3>4 DEF BillAlone
  <2> QED
    BY <1>1, <2>1, <2>2 DEF Asked
<1> QED
  BY <1>2, <1>5, <1>9, <1>10 DEF BillHolds, BillStep, BillCharged

\* Nothing is on a new order.
LEMMA BillInit == TableInit => BillHolds
<1> SUFFICES ASSUME TableInit PROVE BillHolds
  OBVIOUS
<1>1. Working = {}
  BY DEF TableInit, Working
<1>2. /\ order.status = "OPEN" /\ order.mode = "NONE" /\ order.disc = 0 /\ OrderTyped(order)
      /\ order.accts = [a \in AcctIds |-> NoAcct]
  BY DEF TableInit, NewOrder, NoItem, OrderTyped
<1>3. BillTyped(order)
  BY <1>2 DEF BillTyped, NoAcct
<1>4. Accounts(order) = {} /\ Paid(order) = {}
  BY <1>2 DEF Accounts, Paid, NoAcct
<1>5. BillDivided(order)
  BY <1>2, <1>4 DEF BillDivided
<1>6. BillCharged
  BY <1>2 DEF BillCharged, BillUnits, BillCents, BillSales, TableInit
<1>7. WorkTyped
  BY <1>1 DEF WorkTyped, TableInit
<1> QED
  BY <1>1, <1>3, <1>5, <1>6, <1>7 DEF BillHolds, BillAlone

\* Every step of the order.
LEMMA BillSteps ==
    ASSUME BillInv, [TableNext]_tableVars
    PROVE  BillInv'
<1>1. setting' = setting
  BY SettingStays DEF tableVars
<1>2. ASSUME BillCalm(setting)
      PROVE  BillHolds'
  <2>1. BillStep
    BY <1>1, <1>2 DEF BillInv, BillStep
  <2>2. CASE UNCHANGED tableVars
    <3>1. UNCHANGED <<order, charged, work>>
      BY <2>2 DEF tableVars
    <3> QED BY <2>1, <3>1, BillStays
  <2>3. ASSUME NEW r \in Handlers, Begins(r) PROVE BillHolds'
    <3>1. PICK kind, item, acct, n, token :
             /\ Begin(r, kind, item, acct, n, token) /\ kind \in OrderKinds /\ n \in Nat
             /\ kind = "split" => n \in {0} \cup (AcctIds \ {1})
      BY <2>3, BeginAsked
    <3> QED BY <2>1, <3>1, BillBegins
  <2>4. ASSUME NEW r \in Handlers, Commit(r) PROVE BillHolds'
    BY <2>1, <2>4, EditHolds, ChargeHolds
  <2>5. ASSUME NEW r \in Handlers, SendCommit(r) PROVE BillHolds'
    BY <2>1, <2>5, SendBill
  <2>6. ASSUME NEW r \in Handlers, VoidTell(r) \/ Abandon(r) PROVE BillHolds'
    <3>1. order' = order /\ charged' = charged /\ work' = [work EXCEPT ![r] = Idle]
      BY <2>6 DEF VoidTell, Abandon
    <3> QED BY <2>1, <3>1, GivenUp
  <2>7. ASSUME NEW st, NEW k \in RoundIds,
               ClaimPrint(st, k) \/ MarkPrint(st, k) \/ ClaimLapses(k) \/ Reprint(k)
        PROVE  BillHolds'
    <3>1. UNCHANGED <<order, charged, work>>
      BY <2>7 DEF ClaimPrint, MarkPrint, ClaimLapses, Reprint
    <3> QED BY <2>1, <3>1, BillStays
  <2>8. CASE \E st \in Stations, k \in RoundIds : ClaimPrint(st, k) \/ MarkPrint(st, k)
    BY <2>7, <2>8
  <2>9. CASE \E k \in RoundIds : ClaimLapses(k) \/ Reprint(k)
    BY <2>7, <2>9
  <2> QED
    BY <2>2, <2>3, <2>4, <2>5, <2>6, <2>8, <2>9 DEF TableNext
<1> QED
  BY <1>1, <1>2 DEF BillInv

\* The sales of an order are one for each account paid, and a closed order's are of
\* every dish on it; when no account's part of the discount exceeds it, they are of
\* what was due, and so is what an open order charged and its open accounts show.
LEMMA BillInFull ==
    ASSUME BillHolds
    PROVE  /\ order.status = "CLOSED" => charged.units = Unit * Dishes(order, Rows(order))
           /\ PartsFit(order) => ChargedInFull /\ ShownAddsUp
<1>1. PICK o : o = order
  OBVIOUS
<1>2. /\ BillTyped(o) /\ BillDivided(o)
      /\ charged.units = BillUnits(o) /\ charged.cents = BillCents(o, charged.off)
      /\ charged.sales = BillSales(o)
  BY <1>1 DEF BillHolds, BillCharged
<1>3. /\ IsFiniteSet(Accounts(o)) /\ IsFiniteSet(Paid(o)) /\ IsFiniteSet(OpenAccts(o))
      /\ Accounts(o) = Paid(o) \cup OpenAccts(o) /\ Paid(o) \cap OpenAccts(o) = {}
      /\ OpenAccts(o) \in SUBSET AcctIds
  <2>1. IsFiniteSet(Accounts(o))
    BY <1>2, BillSums
  <2>2. /\ Accounts(o) = Paid(o) \cup OpenAccts(o) /\ Paid(o) \cap OpenAccts(o) = {}
        /\ OpenAccts(o) \in SUBSET AcctIds
    BY <1>2 DEF Accounts, Paid, OpenAccts, BillTyped
  <2>3. Paid(o) \in SUBSET Accounts(o) /\ OpenAccts(o) \in SUBSET Accounts(o)
    BY <2>2
  <2> QED BY <2>1, <2>2, <2>3, FS_Subset
<1>4. charged.sales <= IF o.mode = "NONE" THEN 1 ELSE Cardinality(Paid(o))
  <2>1. Cardinality(Paid(o)) \in Nat
    BY <1>3, FS_CardinalityType
  <2> QED BY <1>2, <2>1 DEF BillSales
<1>5. o.status = "CANCELLED" => charged.sales = 0
  <2>1. o.status = "CANCELLED" => Paid(o) = {}
    BY <1>2, <1>3 DEF BillDivided
  <2> QED BY <1>2, <2>1, FS_EmptySet DEF BillSales
<1>6. o.mode # "NONE" =>
        /\ charged.units = SumFunctionOnSet(Parts(o), Paid(o))
        /\ charged.cents = SumFunctionOnSet(Amount(o), Paid(o))
  BY <1>2 DEF BillUnits, BillCents, Parts, Amount
<1>7. ASSUME o.mode # "NONE", o.status # "CANCELLED", Chargeable(o)
      PROVE  /\ Divided(o) /\ o.mode \in {"ITEMS", "EQUAL"}
             /\ \A a \in Accounts(o) : Amount(o)[a] \in Int
             /\ SumFunctionOnSet(Parts(o), Accounts(o)) = Unit * Dishes(o, Rows(o))
             /\ PartsFit(o) /\ NoEmptyAccount(o) =>
                   SumFunctionOnSet(Amount(o), Accounts(o)) = Due(o)
  <2>1. Divided(o) /\ o.mode \in {"ITEMS", "EQUAL"}
    BY <1>2, <1>7 DEF Divided, BillDivided, BillTyped
  <2>2. CASE o.mode = "ITEMS"
    BY <1>7, <2>1, <2>2, ItemsSums
  <2>3. CASE o.mode = "EQUAL"
    BY <1>7, <2>1, <2>3, EqualSums
  <2> QED BY <2>1, <2>2, <2>3
<1>8. ASSUME o.status = "CLOSED"
      PROVE  /\ charged.units = Unit * Dishes(o, Rows(o))
             /\ PartsFit(o) => charged.cents = Owed
  <2>1. CASE o.mode = "NONE"
    BY <1>1, <1>2, <1>8, <2>1 DEF BillUnits, BillCents, WholeCharge, Owed
  <2>2. CASE o.mode # "NONE"
    <3>1. Accounts(o) # {} /\ Chargeable(o)
      BY <1>2, <1>8, <2>2 DEF BillDivided
    <3>2. Paid(o) = Accounts(o)
      BY <1>2, <1>3, <1>8, <3>1 DEF BillDivided
    <3>3. NoEmptyAccount(o)
      BY <1>2, <3>2 DEF BillDivided, NoEmptyAccount
    <3>4. Owed = Due(o)
      BY <1>1, <2>2 DEF Owed
    <3> QED BY <1>6, <1>7, <1>8, <2>2, <3>1, <3>2, <3>3, <3>4
  <2> QED BY <2>1, <2>2
<1>9. ASSUME PartsFit(o), o.status = "OPEN", Accounts(o) # {}, NoEmptyAccount(o)
      PROVE  charged.cents + SumFunctionOnSet([a \in AcctIds |-> Shown(o, a)], OpenAccts(o))
                 = Due(o)
  <2> DEFINE shown == [a \in AcctIds |-> Shown(o, a)]
  <2>1. o.mode \in {"ITEMS", "EQUAL"}
    BY <1>2, <1>9 DEF BillDivided, BillTyped
  <2>2. CASE Chargeable(o)
    <3>1. /\ Divided(o) /\ \A a \in Accounts(o) : Amount(o)[a] \in Int
          /\ SumFunctionOnSet(Amount(o), Accounts(o)) = Due(o)
      BY <1>7, <1>9, <2>1, <2>2
    <3>2. ASSUME NEW a \in OpenAccts(o) PROVE shown[a] = Amount(o)[a]
      <4>1. a \in AcctIds /\ a \in Accounts(o)
        BY <1>3
      <4>2. CASE o.mode = "ITEMS"
        <5>1. Amount(o)[a] = Subtotal(o, OfAcct(o, a)) - ItemsPart(o, a)
          BY <1>9, <2>2, <3>1, <4>1, <4>2, ItemsSums
        <5>2. ItemsPart(o, a) \in 0 .. Subtotal(o, OfAcct(o, a))
          BY <1>9, <4>1, <4>2 DEF PartsFit
        <5>3. Subtotal(o, OfAcct(o, a)) \in Nat
          <6>1. OfAcct(o, a) \in SUBSET ItemIds
            BY DEF OfAcct, Rows
          <6> QED BY <1>2, <6>1, BillSums
        <5>4. Positive(Subtotal(o, OfAcct(o, a)) - ItemsPart(o, a))
                = Subtotal(o, OfAcct(o, a)) - ItemsPart(o, a)
          BY <5>2, <5>3 DEF Positive
        <5> QED BY <4>1, <4>2, <5>1, <5>4 DEF Shown, ShownItems
      <4>3. CASE o.mode = "EQUAL"
        <5>1. Amount(o)[a] = o.accts[a].fixed
          BY <1>9, <2>2, <3>1, <4>1, <4>3, EqualSums
        <5> QED BY <4>1, <4>3, <5>1 DEF Shown, ShownEqual
      <4> QED BY <2>1, <4>2, <4>3
    <3>3. SumFunctionOnSet(shown, OpenAccts(o)) = SumFunctionOnSet(Amount(o), OpenAccts(o))
      <4> HIDE DEF shown
      <4> QED BY <1>3, <3>2, SumSame
    <3>4. SumFunctionOnSet(Amount(o), Accounts(o)) =
             SumFunctionOnSet(Amount(o), Paid(o)) + SumFunctionOnSet(Amount(o), OpenAccts(o))
      <4>1. \A a \in Paid(o) \cup OpenAccts(o) : Amount(o)[a] \in Int
        BY <1>3, <3>1
      <4> QED BY <1>3, <4>1, SumUnion
    <3>5. charged.cents = SumFunctionOnSet(Amount(o), Paid(o))
      BY <1>6, <2>1
    <3> HIDE DEF shown
    <3>6. charged.cents + SumFunctionOnSet(shown, OpenAccts(o)) = Due(o)
      BY <3>1, <3>3, <3>4, <3>5
    <3> QED BY <3>6 DEF shown
  <2>3. CASE ~Chargeable(o)
    <3>1. Paid(o) = {} /\ OpenAccts(o) = Accounts(o)
      BY <1>2, <1>3, <2>3 DEF BillDivided
    <3>2. o.mode = "EQUAL"
      <4>1. ASSUME o.mode = "ITEMS" PROVE FALSE
        <5>1. Rows(o) # {}
          BY <1>9, <4>1 DEF NoEmptyAccount, OfAcct
        <5> QED BY <2>3, <4>1, <5>1 DEF Chargeable
      <4> QED BY <2>1, <4>1
    <3>3. charged.cents = 0
      BY <1>6, <3>1, <3>2, SumEmpty
    <3>4. Fixed(o, Accounts(o)) = Due(o)
      BY <1>2, <1>9, <3>2 DEF BillDivided
    <3>5. shown = [a \in AcctIds |-> o.accts[a].fixed]
      BY <3>2 DEF Shown, ShownEqual
    <3>6. SumFunctionOnSet(shown, OpenAccts(o)) = Due(o)
      BY <3>1, <3>4, <3>5 DEF Fixed
    <3>7. Due(o) \in Nat
      BY <1>2, BillSums
    <3> QED BY <3>3, <3>6, <3>7
  <2> QED BY <2>2, <2>3
<1>10. PartsFit(o) => ChargedInFull
  BY <1>1, <1>4, <1>5, <1>8 DEF ChargedInFull
<1>11. PartsFit(o) => ShownAddsUp
  BY <1>1, <1>9 DEF ShownAddsUp, ShownTotal
<1> QED
  BY <1>1, <1>8, <1>10, <1>11

\* The bill's invariant holds in every state.
LEMMA BillInvHolds == SalonSpec => []BillInv
<1>1. SalonInit => BillInv
  BY BillInit DEF SalonInit, TableInit, BillInv
<1>2. BillInv /\ [SalonNext]_salonVars => BillInv'
  BY SalonIsTable, BillSteps
<1> QED
  BY <1>1, <1>2, PTL DEF SalonSpec

\* Where what changes a bill comes one request at a time and before any of it is
\* paid (BillCalm), however checkouts and sends overlap and whichever fail: a closed
\* order has charged every dish on it, and unless the last account's part of the
\* discount is less than nothing or more than its dishes (PartsFit), exactly what was
\* due, in one sale for each account.
THEOREM BillPaidInFull ==
    SalonSpec => [](BillCalm(setting) =>
        /\ order.status = "CLOSED" => charged.units = Unit * Dishes(order, Rows(order))
        /\ PartsFit(order) => ChargedInFull)
<1>1. BillInv => (BillCalm(setting) =>
        /\ order.status = "CLOSED" => charged.units = Unit * Dishes(order, Rows(order))
        /\ PartsFit(order) => ChargedInFull)
  BY BillInFull DEF BillInv
<1> QED
  BY <1>1, BillInvHolds, PTL

\* Under the same conditions, what a divided order has charged and what its open
\* accounts show add up to the total it shows.
THEOREM BillShownInFull ==
    SalonSpec => [](BillCalm(setting) /\ PartsFit(order) => ShownAddsUp)
<1>1. BillInv => (BillCalm(setting) /\ PartsFit(order) => ShownAddsUp)
  BY BillInFull DEF BillInv
<1> QED
  BY <1>1, BillInvHolds, PTL

=============================================================================
