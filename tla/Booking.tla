------------------------------ MODULE Booking ------------------------------
(***************************************************************************)
(* Appointments (citas): temporary holds of a slot, their confirmation,    *)
(* the customer's own cancellation and rescheduling, and the decisions of  *)
(* the business, translated from                                           *)
(* src/src/modules/booking/booking.service.ts.                             *)
(*                                                                         *)
(* A handler is split at every statement whose answer may be stale when it *)
(* is used: transactions run READ COMMITTED, so inside one each query sees *)
(* what had committed by then.  Advisory locks are guards on the steps of  *)
(* the other handlers.  Stop is a refusal or a crash: what a handler had   *)
(* committed stays, its transaction in flight is rolled back.              *)
(*                                                                         *)
(* Restrictions: one business with one service, whose specialists are all  *)
(* assigned to it; with none active the service is generic.  Start times   *)
(* are the future slots of one day; that a hold's minutes run out is the   *)
(* action Lapse.                                                           *)
(***************************************************************************)
EXTENDS Integers, FiniteSets

CONSTANTS
    Specialists,   \* numbered in the order the service lists them
    Times,         \* starts of slots
    Duration,      \* of the service, in the unit of Times
    HoldIds, ApptIds,
    Customers,     \* telephones
    Requests,      \* handlers that may be in flight together
    None,
    Threshold,     \* noShowThreshold; a customer who reaches it is blocked
    Scenarios      \* requests of these kinds, at most width at once, at these
                   \* times; auto: holds that name no specialist; lapse: holds run
                   \* out; late: the business acts on settled appointments too

Generic == 0       \* the lane of appointments without a specialist
Anyone  == -1      \* "any specialist"

ASSUME BookingAssumption ==
    /\ Specialists \subseteq Nat \ {0} /\ IsFiniteSet(Specialists)
    /\ \A sc \in Scenarios : sc.width \in Nat /\ sc.times \subseteq Times
    /\ Times \subseteq Nat
    /\ HoldIds \cup ApptIds \cup {Duration, Threshold} \subseteq Nat \ {0}

VARIABLES
    scenario,  \* one of Scenarios, fixed from the start
    active,    \* specialists that are active
    hold,      \* AppointmentHold rows; "used" and "freed" ones are deleted
    appt,      \* Appointment rows; from is the hold it was made of
    sold,      \* sales made by checking out each appointment
    strikes,   \* consecutiveNoShows of each customer
    blocked,   \* customers with isBlocked
    pc, loc    \* where each handler stands, and what it has read

rows == <<hold, appt, sold, strikes, blocked, active>>
vars == <<scenario, rows, pc, loc>>

NoHold == [status |-> "none", lane |-> Generic, at |-> 0]
NoAppt == [status |-> "none", lane |-> Generic, at |-> 0, who |-> None,
           moves |-> 0, from |-> 0]
NoWork == [target |-> Anyone, lanes |-> {}, lane |-> Generic, at |-> 0, hold |-> 0,
           appt |-> 0, who |-> None, moves |-> 0, strikes |-> 0]

Init == /\ scenario \in Scenarios
        /\ active = Specialists
        /\ hold = [i \in HoldIds |-> NoHold]
        /\ appt = [a \in ApptIds |-> NoAppt]
        /\ sold = [a \in ApptIds |-> 0]
        /\ strikes = [c \in Customers |-> 0]
        /\ blocked = {}
        /\ pc = [r \in Requests |-> "idle"]
        /\ loc = [r \in Requests |-> NoWork]

-----------------------------------------------------------------------------
Busy == {r \in Requests : pc[r] # "idle"}

MayStart(kind) == kind \in scenario.kinds /\ Cardinality(Busy) < scenario.width

Start(r, kind) == pc[r] = "idle" /\ MayStart(kind)

Go(r, step, work) == /\ pc' = [pc EXCEPT ![r] = step]
                     /\ loc' = [loc EXCEPT ![r] = work]
                     /\ UNCHANGED scenario

Finish(r) == Go(r, "idle", NoWork)

Overlap(t, u) == t < u + Duration /\ u < t + Duration

Occupying == {"PENDING", "CONFIRMED", "COMPLETED", "NO_SHOW"}

OnlyAwaited(lane, t, but) ==
    \E a \in ApptIds \ {but} : /\ appt[a].status \in {"PENDING", "CONFIRMED"}
                               /\ appt[a].lane = lane
                               /\ Overlap(t, appt[a].at)

\* buildConflictWhereClause: the specialist's appointments, or the service's
\* appointments without specialist.
ApptConflict(lane, t, but) ==
    \E a \in ApptIds \ {but} : /\ appt[a].status \in Occupying
                               /\ appt[a].lane = lane
                               /\ Overlap(t, appt[a].at)

Live == {i \in HoldIds : hold[i].status = "live"}

\* Without a specialist every live hold of the service counts.
HoldConflict(lane, t) ==
    \E i \in Live : (lane = Generic \/ hold[i].lane = lane) /\ Overlap(t, hold[i].at)

First(lanes) == CHOOSE l \in lanes : \A m \in lanes : l <= m

OnlyBooked(l, t) == ~ApptConflict(l, t, 0)

\* getAvailability: may a customer be offered time t with this specialist,
\* with any (Anyone) or, when none is active, without one?
AvailableLane(l, t) ==
    /\ ~ApptConflict(l, t, 0)
    /\ ~\E i \in Live : (l = Generic \/ hold[i].lane = l) /\ Overlap(t, hold[i].at)

Targets == IF active = {} THEN {Generic} ELSE active \cup {Anyone}

Offered(target, t) ==
    IF target = Anyone THEN \E l \in active : AvailableLane(l, t)
                     ELSE AvailableLane(target, t)

-----------------------------------------------------------------------------
(* createHold *)

Lanes(target) == IF target = Anyone THEN active ELSE {target}

\* The advisory lock of createHold is per requested specialist: "auto" is a
\* name of its own.
LockName(target) == target

NoHoldLock(r, target) == TRUE

HoldLockFree(r, target) ==
    \A q \in Requests \ {r} :
        pc[q] \in {"holdHolds", "holdInsert"} => LockName(loc[q].target) # LockName(target)

\* What hasConflictingAppointment leaves, then what the holds leave.
Unbooked(target, t) == {l \in Lanes(target) : ~ApptConflict(l, t, 0)}
Unheld(lanes, t)    == {l \in lanes : ~HoldConflict(l, t)}

HoldAppts(r, target, t) ==
    /\ Start(r, "hold") /\ target \in Targets
    /\ target = Anyone => scenario.auto
    /\ HoldLockFree(r, target)
    /\ Unbooked(target, t) # {}
    /\ Go(r, "holdHolds", [NoWork EXCEPT !.target = target, !.at = t,
                                         !.lanes = Unbooked(target, t)])
    /\ UNCHANGED rows

HoldHolds(r) ==
    /\ pc[r] = "holdHolds"
    /\ LET free == Unheld(loc[r].lanes, loc[r].at)
       IN  /\ free # {}
           /\ Go(r, "holdInsert", [loc[r] EXCEPT !.lane = First(free)])
    /\ UNCHANGED rows

HoldInsert(r) ==
    /\ pc[r] = "holdInsert"
    /\ \E i \in HoldIds :
        /\ hold[i].status = "none"
        /\ \A j \in HoldIds : j < i => hold[j].status # "none"
        /\ hold' = [hold EXCEPT ![i] =
                        [status |-> "live", lane |-> loc[r].lane, at |-> loc[r].at]]
    /\ Finish(r)
    /\ UNCHANGED <<appt, sold, strikes, blocked, active>>

\* releaseHold: the holder's token is checked, the row deleted.
Release(i) ==
    /\ MayStart("release")
    /\ hold[i].status \in {"live", "expired"}
    /\ hold' = [hold EXCEPT ![i].status = "freed"]
    /\ UNCHANGED <<scenario, appt, sold, strikes, blocked, active, pc, loc>>

Lapse(i) ==
    /\ scenario.lapse /\ hold[i].status = "live"
    /\ hold' = [hold EXCEPT ![i].status = "expired"]
    /\ UNCHANGED <<scenario, appt, sold, strikes, blocked, active, pc, loc>>

-----------------------------------------------------------------------------
(* createAppointment *)

PendingOf(c) == \E a \in ApptIds : appt[a].status = "PENDING" /\ appt[a].who = c

\* Somebody with a request that waits for its answer, or blocked, is refused.
Barred(c) == PendingOf(c) \/ c \in blocked

Exists(i) == hold[i].status \in {"live", "expired"}

ConfirmRead(r, i, c) ==
    /\ Start(r, "confirm")
    /\ Exists(i) /\ ~Barred(c)
    /\ Go(r, "confirmCheck", [NoWork EXCEPT !.hold = i, !.who = c, !.lanes = active])
    /\ UNCHANGED rows

ConfirmLockFree(r) == \A q \in Requests \ {r} :
                          pc[q] = "confirmWrite" => loc[q].hold # loc[r].hold

\* A hold without specialist gets one when some were active meanwhile.
Resolved(r) == LET h == hold[loc[r].hold]
               IN  IF h.lane = Generic /\ loc[r].lanes # {} THEN loc[r].lanes ELSE {h.lane}

ConfirmCheck(r) ==
    /\ pc[r] = "confirmCheck" /\ ConfirmLockFree(r)
    /\ hold[loc[r].hold].status = "live"
    /\ ~PendingOf(loc[r].who)
    /\ LET t == hold[loc[r].hold].at
           free == {l \in Resolved(r) : ~ApptConflict(l, t, 0)}
       IN  /\ free # {}
           /\ Go(r, "confirmWrite", [loc[r] EXCEPT !.lane = First(free), !.at = t])
    /\ UNCHANGED rows

KeepsHold(r) ==
    /\ pc[r] = "confirmWrite"
    /\ \E a \in ApptIds :
        /\ appt[a].status = "none"
        /\ \A b \in ApptIds : b < a => appt[b].status # "none"
        /\ appt' = [appt EXCEPT ![a] =
                        [NoAppt EXCEPT !.status = "PENDING", !.lane = loc[r].lane,
                                       !.at = loc[r].at, !.who = loc[r].who,
                                       !.from = loc[r].hold]]
    /\ Finish(r)
    /\ UNCHANGED <<hold, sold, strikes, blocked, active>>

\* The hold is deleted in the same transaction, which fails when it is gone.
ConfirmWrite(r) ==
    /\ pc[r] = "confirmWrite" /\ Exists(loc[r].hold)
    /\ \E a \in ApptIds :
        /\ appt[a].status = "none"
        /\ \A b \in ApptIds : b < a => appt[b].status # "none"
        /\ appt' = [appt EXCEPT ![a] =
                        [NoAppt EXCEPT !.status = "PENDING", !.lane = loc[r].lane,
                                       !.at = loc[r].at, !.who = loc[r].who,
                                       !.from = loc[r].hold]]
    /\ hold' = [hold EXCEPT ![loc[r].hold].status = "used"]
    /\ Finish(r)
    /\ UNCHANGED <<sold, strikes, blocked, active>>

-----------------------------------------------------------------------------
(* What the customer and the business do with an appointment *)

Settled == {"CANCELLED", "COMPLETED"}

OpenTo(a, late) == appt[a].status # "none" /\ (late \/ appt[a].status \notin Settled)

SetStatus(a, s) == appt' = [appt EXCEPT ![a].status = s]

\* rescheduleAppointmentByToken, once; reassignAppointmentSpecialist.
RescheduleRead(r, a, t) ==
    /\ Start(r, "reschedule")
    /\ OpenTo(a, FALSE) /\ appt[a].moves < 1
    /\ Go(r, "moveCheck", [NoWork EXCEPT !.target = appt[a].lane, !.lane = appt[a].lane,
                               !.appt = a, !.at = t, !.moves = appt[a].moves + 1])
    /\ UNCHANGED rows

ReassignRead(r, a, s) ==
    /\ Start(r, "reassign")
    /\ OpenTo(a, FALSE) /\ s \in active /\ appt[a].lane # s
    /\ Go(r, "moveCheck", [NoWork EXCEPT !.target = appt[a].lane, !.lane = s,
                               !.appt = a, !.at = appt[a].at])
    /\ UNCHANGED rows

\* No lock: only what has committed is compared.
MoveFree(w) == ~ApptConflict(w.lane, w.at, w.appt) /\ ~HoldConflict(w.lane, w.at)

MoveCheck(r) ==
    /\ pc[r] = "moveCheck" /\ MoveFree(loc[r])
    /\ Go(r, "moveWrite", loc[r])
    /\ UNCHANGED rows

MoveWrite(r) ==
    /\ pc[r] = "moveWrite"
    /\ appt' = [appt EXCEPT ![loc[r].appt] =
                    IF loc[r].moves > 0
                    THEN [@ EXCEPT !.at = loc[r].at, !.moves = loc[r].moves,
                                   !.status = "PENDING"]
                    ELSE [@ EXCEPT !.lane = loc[r].lane]]
    /\ Finish(r)
    /\ UNCHANGED <<hold, sold, strikes, blocked, active>>

CancelRead(r, a) ==
    /\ Start(r, "cancel") /\ OpenTo(a, FALSE)
    /\ Go(r, "cancelWrite", [NoWork EXCEPT !.appt = a])
    /\ UNCHANGED rows

CancelWrite(r) ==
    /\ pc[r] = "cancelWrite"
    /\ SetStatus(loc[r].appt, "CANCELLED")
    /\ Finish(r)
    /\ UNCHANGED <<hold, sold, strikes, blocked, active>>

\* approveAppointment, declineAppointment and cancelAppointmentByBusiness look
\* at no status: what the panel offers is the scenario's.
Approve(a) ==
    /\ MayStart("decide") /\ OpenTo(a, scenario.late)
    /\ SetStatus(a, "CONFIRMED")
    /\ UNCHANGED <<scenario, hold, sold, strikes, blocked, active, pc, loc>>

Decline(a) ==
    /\ MayStart("decide") /\ OpenTo(a, scenario.late)
    /\ SetStatus(a, "CANCELLED")
    /\ UNCHANGED <<scenario, hold, sold, strikes, blocked, active, pc, loc>>

\* checkoutAppointment: the sale commits before the appointment is completed.
CheckoutRead(r, a) ==
    /\ Start(r, "checkout") /\ OpenTo(a, FALSE)
    /\ Go(r, "checkoutSale", [NoWork EXCEPT !.appt = a])
    /\ UNCHANGED rows

CheckoutSale(r) ==
    /\ pc[r] = "checkoutSale"
    /\ sold[loc[r].appt] < 2                     \* bound
    /\ sold' = [sold EXCEPT ![loc[r].appt] = @ + 1]
    /\ Go(r, "checkoutDone", loc[r])
    /\ UNCHANGED <<hold, appt, strikes, blocked, active>>

CheckoutDone(r) ==
    /\ pc[r] = "checkoutDone"
    /\ SetStatus(loc[r].appt, "COMPLETED")
    /\ strikes' = [strikes EXCEPT ![appt[loc[r].appt].who] = 0]
    /\ Finish(r)
    /\ UNCHANGED <<hold, sold, blocked, active>>

\* markNoShow: the counter is read with the appointment and written back after.
NoShow(r, a) ==
    /\ Start(r, "noShow") /\ OpenTo(a, scenario.late)
    /\ SetStatus(a, "NO_SHOW")
    /\ Go(r, "strike", [NoWork EXCEPT !.who = appt[a].who, !.strikes = strikes[appt[a].who]])
    /\ UNCHANGED <<hold, sold, strikes, blocked, active>>

Strike(r) ==
    /\ pc[r] = "strike"
    /\ LET n == loc[r].strikes + 1
       IN  /\ n <= Threshold                     \* bound
           /\ strikes' = [strikes EXCEPT ![loc[r].who] = n]
           /\ blocked' = IF n >= Threshold THEN blocked \cup {loc[r].who} ELSE blocked
    /\ Finish(r)
    /\ UNCHANGED <<hold, appt, sold, active>>

\* deleteSpecialist leaves one with services inactive; updateSpecialist.
Toggle(s) ==
    /\ MayStart("staff")
    /\ active' = IF s \in active THEN active \ {s} ELSE active \cup {s}
    /\ UNCHANGED <<scenario, hold, appt, sold, strikes, blocked, pc, loc>>

Stop(r) == /\ pc[r] # "idle"
           /\ Finish(r)
           /\ UNCHANGED rows

-----------------------------------------------------------------------------
Handle(r) ==
    \/ \E target \in Specialists \cup {Generic, Anyone}, t \in scenario.times : HoldAppts(r, target, t)
    \/ HoldHolds(r)
    \/ HoldInsert(r)
    \/ \E i \in HoldIds, c \in Customers : ConfirmRead(r, i, c)
    \/ ConfirmCheck(r)
    \/ ConfirmWrite(r)
    \/ \E a \in ApptIds, t \in scenario.times : RescheduleRead(r, a, t)
    \/ \E a \in ApptIds, s \in Specialists : ReassignRead(r, a, s)
    \/ MoveCheck(r)
    \/ MoveWrite(r)
    \/ \E a \in ApptIds : CancelRead(r, a)
    \/ CancelWrite(r)
    \/ \E a \in ApptIds : CheckoutRead(r, a)
    \/ CheckoutSale(r)
    \/ CheckoutDone(r)
    \/ \E a \in ApptIds : NoShow(r, a)
    \/ Strike(r)
    \/ Stop(r)

Next == \/ \E r \in Requests : Handle(r)
        \/ \E i \in HoldIds : Release(i) \/ Lapse(i)
        \/ \E a \in ApptIds : Approve(a) \/ Decline(a)
        \/ \E s \in Specialists : Toggle(s)

Spec == Init /\ [][Next]_vars

-----------------------------------------------------------------------------
(* Properties *)

\* createHold, createAppointment: two live holds of one specialist (or of the
\* service, when it has none) never overlap, and a hold becomes at most one
\* appointment, however often and however concurrently its holder confirms it.
OneAppointmentPerHold ==
    /\ \A i, j \in Live :
          i # j /\ hold[i].lane = hold[j].lane => ~Overlap(hold[i].at, hold[j].at)
    /\ \A a, b \in ApptIds :
          a # b /\ appt[a].status # "none" /\ appt[b].status # "none"
          => appt[a].from # appt[b].from

\* hasConflictingAppointment: nobody is booked for two appointments at a time.
NoDoubleBooking ==
    \A a, b \in ApptIds :
        /\ a # b /\ appt[a].lane = appt[b].lane
        /\ appt[a].status \in Occupying /\ appt[b].status \in Occupying
        => ~Overlap(appt[a].at, appt[b].at)

\* getAvailability and createHold agree: an offered slot can be held, by whoever
\* asks alone.
OfferedCanBeHeld ==
    \A target \in Targets, t \in Times :
        Offered(target, t) => Unheld(Unbooked(target, t), t) # {}
=============================================================================
