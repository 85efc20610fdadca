---------------------------- MODULE AccessProofs ----------------------------
(***************************************************************************)
(* Proofs about who may use the system.  About Access: for every set of    *)
(* users, branches, companies and devices, every length of a trial and of  *)
(* a token, and every order of logins, grants, moves and changes.  About   *)
(* Memberships: for every calendar, grace, set of products and sequence of *)
(* requests, edits, payments and runs of the nightly job.                  *)
(***************************************************************************)
EXTENDS Access, Memberships, SumTheorems, FiniteSetTheorems, TLAPS

(***************************************************************************)
(* The trial.  What is left of it is the hours of a clock that has not     *)
(* started and those of one that runs; a clock that was ended before it    *)
(* started may still start.                                                *)
(***************************************************************************)
LeftOn(t) == (IF t.hours # NoClock /\ ~t.started THEN t.hours ELSE 0)
             + (IF t.ends # NoClock /\ now < t.ends THEN t.ends - now ELSE 0)
HoursLeft == LeftOn(trial)

ClockRows == [hours : Nat \cup {NoClock}, started : BOOLEAN, ends : Int]

ClockTyped ==
    /\ trial \in ClockRows
    /\ now \in Nat /\ used \in Nat /\ granted \in Nat

TrialInv == ClockTyped /\ used + HoursLeft <= granted

LEMMA SetTrialStep ==
    ASSUME TrialInv, NEW t \in ClockRows, NEW given \in Nat, SetTrial(t, given),
           LeftOn(t) <= HoursLeft + given
    PROVE  TrialInv'
  BY DEF SetTrial, TrialInv, ClockTyped, ClockRows, HoursLeft, LeftOn, Running, NoClock

LEMMA TrialNext == ASSUME TrialInv, [Next]_vars PROVE TrialInv'
<1>0. /\ TrialHours \in Nat /\ NoClock \in Int /\ NoClock < 0
      /\ ClockTyped /\ used + HoursLeft <= granted /\ HoursLeft \in Nat
  BY LimitAssumption DEF NoClock, TrialInv, ClockTyped, ClockRows, HoursLeft, LeftOn, Running
<1>1. ASSUME UNCHANGED clock PROVE TrialInv'
  BY <1>1 DEF TrialInv, ClockTyped, ClockRows, HoursLeft, LeftOn, Running, clock
<1>2. ASSUME NEW desktop \in BOOLEAN, Login(desktop) PROVE TrialInv'
  <2>1. trial' = Clock(desktop) /\ UNCHANGED <<now, granted, used>>
    BY <1>2 DEF Login
  <2>2. CASE trial.hours # NoClock /\ Starts(desktop)
    <3> DEFINE e == now + trial.hours
               m == [trial EXCEPT !.started = TRUE]
    <3>3. e \in Int
      BY <1>0, <2>2 DEF ClockTyped, ClockRows
    <3>4. trial' = [m EXCEPT !.ends = e]
      BY <2>1, <2>2 DEF Clock
    <3>5. m \in ClockRows /\ m.hours = trial.hours /\ m.started
      BY <1>0 DEF ClockTyped, ClockRows
    <3> HIDE DEF e, m
    <3>6. trial' \in ClockRows /\ trial'.hours = m.hours /\ trial'.ends = e
      BY <3>3, <3>4, <3>5 DEF ClockRows
    <3>7. trial'.started = m.started
      BY <3>4, <3>5 DEF ClockRows
    <3>1. /\ trial' \in ClockRows /\ trial'.hours = trial.hours /\ trial'.started
          /\ trial'.ends = now + trial.hours
      BY <3>5, <3>6, <3>7 DEF e
    <3>2. ~trial.started /\ trial.hours \in Nat
      BY <1>0, <2>2 DEF Starts, ClockTyped, ClockRows
    <3> QED
      BY <1>0, <2>1, <2>2, <3>1, <3>2 DEF TrialInv, ClockTyped, ClockRows, HoursLeft, LeftOn, Running, NoClock
  <2>3. CASE ~(trial.hours # NoClock /\ Starts(desktop))
    BY <1>0, <2>1, <2>3 DEF Clock, TrialInv, ClockTyped, ClockRows, HoursLeft, LeftOn, Running
  <2> QED
    BY <2>2, <2>3
<1>3. CASE Tick
  <2>1. now' = now + 1 /\ UNCHANGED <<trial, granted>>
    BY <1>3 DEF Tick
  <2>2. used' = used \/ (used' = used + 1 /\ Running)
    BY <1>3 DEF Tick, Served
  <2> QED
    BY <1>0, <2>1, <2>2 DEF TrialInv, ClockTyped, ClockRows, HoursLeft, LeftOn, Running, NoClock
<1>4. CASE ResetClock
  <2> DEFINE t == [trial EXCEPT !.started = FALSE, !.ends = NoClock]
  <2>1. t \in ClockRows /\ t.hours = trial.hours /\ ~t.started /\ t.ends = NoClock
    BY <1>0 DEF ClockTyped, ClockRows
  <2>2. trial.hours \in Nat /\ SetTrial(t, trial.hours)
    BY <1>0, <1>4 DEF ResetClock, ClockTyped, ClockRows
  <2> HIDE DEF t
  <2>3. LeftOn(t) <= HoursLeft + trial.hours
    BY <1>0, <2>1, <2>2 DEF LeftOn
  <2> QED
    BY <2>1, <2>2, <2>3, SetTrialStep
<1>5. CASE TerminateTrial
  <2> DEFINE t == [trial EXCEPT !.ends = now]
  <2>1. t \in ClockRows /\ t.hours = trial.hours /\ t.started = trial.started /\ t.ends = now
    BY <1>0 DEF ClockTyped, ClockRows
  <2>2. SetTrial(t, 0)
    BY <1>5 DEF TerminateTrial
  <2> HIDE DEF t
  <2>3. /\ t.hours # NoClock /\ ~t.started <=> trial.hours # NoClock /\ ~trial.started
        /\ ~(t.ends # NoClock /\ now < t.ends)
    BY <1>0, <2>1 DEF ClockTyped
  <2>4. LeftOn(t) <= HoursLeft + 0
    BY <1>0, <2>1, <2>3 DEF ClockTyped, ClockRows, HoursLeft, LeftOn, Running
  <2> QED
    BY <2>1, <2>2, <2>4, SetTrialStep
<1>6. ASSUME NEW h \in {NoClock, 1, TrialHours}, SetHours(h) PROVE TrialInv'
  <2>1. CASE h = NoClock
    <3> DEFINE t == [hours |-> NoClock, started |-> FALSE, ends |-> NoClock]
    <3>1. SetTrial(t, 0)
      BY <1>6, <2>1 DEF SetHours
    <3>2. t \in ClockRows
      BY <1>0 DEF ClockRows
    <3>3. LeftOn(t) <= HoursLeft + 0
      BY <1>0 DEF LeftOn
    <3> HIDE DEF t
    <3> QED
      BY <3>1, <3>2, <3>3, SetTrialStep
  <2>2. CASE h # NoClock
    <3> DEFINE t == [trial EXCEPT !.hours = h]
    <3>1. /\ t \in ClockRows /\ t.hours = h /\ t.started = trial.started
          /\ t.ends = trial.ends
      BY <1>0, <1>6, <2>2 DEF ClockTyped, ClockRows
    <3>2. SetTrial(t, h) /\ h \in Nat
      BY <1>0, <1>6, <2>2 DEF SetHours
    <3> HIDE DEF t
    <3> QED
      <4>1. LeftOn(t) <= HoursLeft + h
        <5>1. t.hours # NoClock /\ ~t.started => t.hours = h
          BY <3>1
        <5>2. (IF t.ends # NoClock /\ now < t.ends THEN t.ends - now ELSE 0) <= HoursLeft
          BY <1>0, <3>1 DEF ClockTyped, ClockRows, HoursLeft, LeftOn, Running
        <5> QED
          BY <1>0, <3>1, <3>2, <5>1, <5>2 DEF LeftOn, ClockTyped, ClockRows
      <4> QED
        BY <3>1, <3>2, <4>1, SetTrialStep
  <2> QED
    BY <2>1, <2>2
<1>7. ASSUME NEW h \in {1, TrialHours}, ExtendClock(h) PROVE TrialInv'
  <2> DEFINE e == (IF Running THEN trial.ends ELSE now) + h
  <2>1. h \in Nat /\ e \in Nat /\ (IF now < e THEN e - now ELSE 0) <= HoursLeft + h
    BY <1>0 DEF ClockTyped, ClockRows, Running, HoursLeft, LeftOn, NoClock
  <2> HIDE DEF e
  <2> DEFINE t == [trial EXCEPT !.started = TRUE, !.ends = e]
  <2>2. t \in ClockRows /\ t.hours = trial.hours /\ t.started /\ t.ends = e
    <3> DEFINE m == [trial EXCEPT !.started = TRUE]
    <3>1. t = [m EXCEPT !.ends = e]
      OBVIOUS
    <3>2. m \in ClockRows /\ m.hours = trial.hours /\ m.started
      BY <1>0 DEF ClockTyped, ClockRows
    <3> HIDE DEF m, t
    <3>3. t \in ClockRows /\ t.hours = m.hours /\ t.ends = e
      BY <2>1, <3>1, <3>2 DEF ClockRows
    <3>4. t.started = m.started
      BY <3>1, <3>2 DEF ClockRows
    <3> QED
      BY <3>2, <3>3, <3>4
  <2>3. SetTrial(t, h)
    BY <1>7 DEF ExtendClock, e
  <2> HIDE DEF t
  <2>4. LeftOn(t) <= HoursLeft + h
    BY <1>0, <2>1, <2>2 DEF LeftOn, ClockTyped
  <2> QED
    BY <2>1, <2>2, <2>3, <2>4, SetTrialStep
<1>8. ASSUME NEW until, SetPaid(until) PROVE TrialInv'
  BY <1>8 DEF SetPaid, TrialInv, ClockTyped, ClockRows, HoursLeft, LeftOn, Running
<1>14. CASE Refresh \/ SocialLogin
  BY <1>14 DEF Refresh, SocialLogin, TrialInv, ClockTyped, ClockRows, HoursLeft, LeftOn, Running
<1>9. CASE BranchStep
  BY <1>1, <1>9 DEF BranchStep, SetIndustry, BeginMove, DropAccesses, MoveBusiness, Grant, Revoke, Enter, Refused
<1>10. CASE PeopleStep
  BY <1>1, <1>10 DEF PeopleStep, BeginUser, CommitUser, SetPin, SetRole, Deactivate, Activate,
                     AskMark, SetActive, Change, SetWaiter
<1>11. CASE DeviceStep
  BY <1>1, <1>11 DEF DeviceStep, LoginDevice, RegisterWeb, Ask, RevokeWeb, WriteDevice,
                     UpdateDevice, SetLimits
<1>12. CASE InviteStep
  BY <1>1, <1>12 DEF InviteStep, BeginJoin, LeaveRider, CommitJoin, ToggleCode
<1>13. CASE UNCHANGED vars
  BY <1>1, <1>13 DEF vars
<1> QED
  BY <1>2, <1>3, <1>4, <1>5, <1>6, <1>7, <1>8, <1>9, <1>10, <1>11, <1>12, <1>13,
     <1>14
  DEF Next, TrialStep

\* However logins, extensions, resets, terminations and lapses of the membership come,
\* a business never works more unpaid hours than its trial was given.
THEOREM TrialKept == Spec => []TrialBound
<1>1. Init => TrialInv
  BY LimitAssumption DEF Init, TrialInv, ClockTyped, ClockRows, HoursLeft, LeftOn, Running, NoClock
<1>2. TrialInv /\ [Next]_vars => TrialInv'
  BY TrialNext
<1>3. TrialInv => TrialBound
  BY DEF TrialInv, ClockTyped, ClockRows, HoursLeft, LeftOn, Running, NoClock, TrialBound
<1> QED
  BY <1>1, <1>2, <1>3, PTL DEF Spec

-----------------------------------------------------------------------------
(***************************************************************************)
(* Branches and devices.  An access is to a branch of some company: the    *)
(* accesses to a branch that leaves its company go with it, so that none   *)
(* waits for it to join another.                                           *)
(***************************************************************************)
DeviceRows == [status : {None, "ACTIVE", "REVOKED"}, web : BOOLEAN, held : BOOLEAN]

MoveRequests == [business : Businesses, from : Orgs \cup {None}, to : Orgs \cup {None},
                 clean : BOOLEAN]

BranchesTyped == /\ org \in [Businesses -> Orgs \cup {None}]
                 /\ access \subseteq Users \X Businesses
                 /\ Part("branches") => req \subseteq MoveRequests

\* With the superadmin's requests one at a time: a branch of no company has no accesses, nor
\* has one that is about to leave its company.
AccessHeld == \A u \in Users, b \in Businesses : <<u, b>> \in access => org[b] # None

MovesHeld ==
    /\ \A r, s \in req : r = s
    /\ \A r \in req : /\ org[r.business] = r.from
                      /\ r.clean /\ r.from # r.to =>
                            \A u \in Users : <<u, r.business>> \notin access

Serial == Part("branches") /\ scenario.open = 1
BranchesHeld == Serial => AccessHeld /\ MovesHeld

DevicesTyped == dev \in [Devices -> DeviceRows]

GrantInv == scenario \in Scenarios /\ BranchesTyped /\ BranchesHeld /\ DevicesTyped

\* What a step does to accesses and to revoked devices.
OpenedByGrant ==
    scenario.open = 1 => \A u \in Users : \A b \in Businesses \ Granted(u) :
       (CanAccess(u, b))' => <<u, b>> \notin access \/ org'[Home[u]] # org[Home[u]]

RevokedStays ==
    \A d \in Devices : dev[d].status = "REVOKED" /\ dev'[d].status # "REVOKED" =>
       UpdateDevice(d, "ACTIVE")

\* A step that changes neither companies nor accesses.
LEMMA SameBranches ==
    ASSUME GrantInv, UNCHANGED <<scenario, org, access>>,
           Part("branches") => req' = req
    PROVE  BranchesTyped' /\ BranchesHeld' /\ OpenedByGrant
<1>1. BranchesTyped' /\ BranchesHeld'
  BY DEF GrantInv, BranchesTyped, BranchesHeld, AccessHeld, MovesHeld, Serial, Part
<1>2. OpenedByGrant
  BY DEF OpenedByGrant, Granted, CanAccess, Together
<1> QED
  BY <1>1, <1>2

LEMMA SameDevices ==
    ASSUME GrantInv, dev' = dev PROVE DevicesTyped' /\ RevokedStays
  BY DEF GrantInv, DevicesTyped, RevokedStays

\* One request at a time: where one begins, none is open.
LEMMA NoneOpen ==
    ASSUME \A r, s \in req : r = s, Opening, scenario.open = 1 PROVE req = {}
<1> SUFFICES ASSUME NEW r \in req PROVE FALSE
  OBVIOUS
<1>1. req = {r}
  OBVIOUS
<1>2. Cardinality(req) = 1
  BY <1>1, FS_Singleton
<1> QED
  BY <1>2 DEF Opening

\* A request that moves a business is one more.
LEMMA MoveAsked ==
    ASSUME org \in [Businesses -> Orgs \cup {None}], NEW b \in Businesses,
           NEW o \in Orgs \cup {None}, BeginMove(b, o)
    PROVE  \E r \in MoveRequests :
              /\ req' = req \cup {r} /\ r.business = b /\ r.from = org[b] /\ r.to = o
              /\ r.clean <=> org[b] \in {None, o}
<1> DEFINE done == org[b] \in {None, o}
           r == [business |-> b, from |-> org[b], to |-> o, clean |-> done]
<1>1. done \in BOOLEAN /\ req' = req \cup {r}
  BY DEF BeginMove
<1> HIDE DEF done
<1>2. r \in MoveRequests /\ r.business = b /\ r.from = org[b] /\ r.to = o /\ r.clean = done
  BY <1>1 DEF MoveRequests
<1> QED
  BY <1>1, <1>2 DEF done

LEMMA BranchGrants ==
    ASSUME GrantInv, BranchStep, scenario' = scenario
    PROVE  BranchesTyped' /\ BranchesHeld' /\ OpenedByGrant
<1>0. /\ BranchesTyped /\ \A u \in Users : Home[u] \in Businesses
      /\ Serial => AccessHeld /\ MovesHeld
      /\ Serial' <=> Serial
      /\ Part("branches") /\ req \subseteq MoveRequests
      /\ (Serial <=> scenario.open = 1)
  BY HomeAssumption DEF GrantInv, BranchesTyped, BranchesHeld, Serial, Part, BranchStep,
                        SetIndustry, BeginMove, Grant, Revoke, Enter, Refused
<1>1. ASSUME NEW b \in Businesses, NEW i, SetIndustry(b, i)
      PROVE  UNCHANGED <<org, access, req>>
  BY <1>1 DEF SetIndustry
<1>2. ASSUME NEW b \in Businesses, NEW o \in Orgs \cup {None}, BeginMove(b, o)
      PROVE  BranchesTyped' /\ BranchesHeld' /\ OpenedByGrant
  <2>1. Opening /\ UNCHANGED <<org, access>>
    BY <1>2 DEF BeginMove, company
  <2>2. PICK r \in MoveRequests :
           /\ req' = req \cup {r} /\ r.business = b /\ r.from = org[b] /\ r.to = o
           /\ r.clean <=> org[b] \in {None, o}
    BY <1>0, <1>2, MoveAsked DEF BranchesTyped
  <2>3. BranchesTyped'
    BY <1>0, <2>1, <2>2 DEF BranchesTyped
  <2>5. OpenedByGrant
    BY <2>1 DEF OpenedByGrant, Granted, CanAccess, Together
  <2>4. ASSUME Serial PROVE AccessHeld' /\ MovesHeld'
    <3>1. AccessHeld /\ MovesHeld /\ AccessHeld'
      BY <1>0, <2>1, <2>4 DEF AccessHeld
    <3>4. req = {}
      BY <1>0, <2>1, <2>4, <3>1, NoneOpen DEF MovesHeld
    <3>2. req' = {r}
      BY <2>2, <3>4
    <3>3. r.clean /\ r.from # r.to => \A u \in Users : <<u, b>> \notin access
      BY <2>2, <3>1 DEF AccessHeld
    <3> QED
      BY <2>1, <2>2, <3>1, <3>2, <3>3 DEF MovesHeld
  <2> QED
    BY <1>0, <2>3, <2>4, <2>5 DEF BranchesHeld
<1>3. ASSUME NEW r \in req, DropAccesses(r)
      PROVE  BranchesTyped' /\ BranchesHeld' /\ OpenedByGrant
  <2> DEFINE t == [r EXCEPT !.clean = TRUE]
  <2>1. /\ access' = {a \in access : a[2] # r.business}
        /\ req' = (req \ {r}) \cup {t} /\ org' = org
    BY <1>3 DEF DropAccesses, AccessesAfter
  <2>2. access' \subseteq access /\ \A u : <<u, r.business>> \notin access'
    BY <2>1
  <2>3. r \in MoveRequests /\ t \in MoveRequests
        /\ t.business = r.business /\ t.from = r.from /\ t.to = r.to
    BY <1>0 DEF MoveRequests
  <2> HIDE DEF t
  <2>5. BranchesTyped'
    BY <1>0, <2>1, <2>2, <2>3 DEF BranchesTyped
  <2>6. OpenedByGrant
    BY <2>1, <2>2 DEF OpenedByGrant, Granted, CanAccess, Together
  <2>4. ASSUME Serial PROVE AccessHeld' /\ MovesHeld'
    <3>1. AccessHeld /\ MovesHeld
      BY <1>0, <2>4
    <3>2. AccessHeld'
      BY <2>1, <2>2, <3>1 DEF AccessHeld
    <3>5. req' = {t}
      BY <2>1, <3>1 DEF MovesHeld
    <3>6. ASSUME NEW q \in req'
          PROVE  /\ org'[q.business] = q.from
                 /\ q.clean /\ q.from # q.to =>
                       \A u \in Users : <<u, q.business>> \notin access'
      BY <2>1, <2>2, <2>3, <3>1, <3>5 DEF MovesHeld
    <3> QED
      BY <2>1, <3>2, <3>5, <3>6 DEF MovesHeld
  <2> QED
    BY <1>0, <2>4, <2>5, <2>6 DEF BranchesHeld
<1>4. ASSUME NEW r \in req, MoveBusiness(r)
      PROVE  BranchesTyped' /\ BranchesHeld' /\ OpenedByGrant
  <2>1. /\ r.clean /\ org' = [org EXCEPT ![r.business] = r.to] /\ access' = access
        /\ req' = req \ {r} /\ r \in MoveRequests
    BY <1>0, <1>4 DEF MoveBusiness
  <2>2. r.business \in Businesses /\ r.to \in Orgs \cup {None}
    BY <2>1 DEF MoveRequests
  <2>3. BranchesTyped'
    BY <1>0, <2>1, <2>2 DEF BranchesTyped
  <2>4. ASSUME Serial, NEW u \in Users, <<u, r.business>> \in access PROVE r.to = org[r.business]
    BY <1>0, <2>1, <2>4 DEF MovesHeld
  <2>5. ASSUME Serial PROVE AccessHeld' /\ MovesHeld'
    <3>1. AccessHeld /\ MovesHeld
      BY <1>0, <2>5
    <3>2. AccessHeld'
      BY <1>0, <2>1, <2>2, <2>4, <2>5, <3>1 DEF AccessHeld, BranchesTyped
    <3>3. req = {r}
      BY <3>1 DEF MovesHeld
    <3> QED
      BY <2>1, <3>2, <3>3 DEF MovesHeld
  <2>6. OpenedByGrant
    <3> SUFFICES ASSUME Serial, NEW u \in Users, NEW b \in Businesses, ~CanAccess(u, b),
                        (CanAccess(u, b))', org'[Home[u]] = org[Home[u]]
                 PROVE  FALSE
      BY <1>0 DEF OpenedByGrant, Granted
    <3>1. b # Home[u] /\ <<u, b>> \in access /\ org'[Home[u]] # None
          /\ org'[Home[u]] = org'[b]
      BY <2>1 DEF CanAccess, Together
    <3>2. org'[b] # org[b]
      BY <3>1 DEF CanAccess, Together
    <3>3. b = r.business
      BY <1>0, <2>1, <3>2 DEF BranchesTyped
    <3> QED
      BY <1>0, <2>1, <2>2, <2>4, <3>1, <3>2, <3>3 DEF BranchesTyped
  <2> QED
    BY <1>0, <2>3, <2>5, <2>6 DEF BranchesHeld
<1>5. ASSUME NEW u \in scenario.users, NEW b \in Businesses, Grant(u, b)
      PROVE  BranchesTyped' /\ BranchesHeld' /\ OpenedByGrant
  <2>0. u \in Users
    BY <1>5, ScenarioAssumption DEF GrantInv
  <2>1. /\ access' = access \cup {<<u, b>>} /\ UNCHANGED <<org, req>> /\ Opening
        /\ org[b] # None /\ <<u, b>> \notin access
    BY <1>5 DEF Grant, Together
  <2>2. BranchesTyped'
    BY <1>0, <2>0, <2>1 DEF BranchesTyped
  <2>3. ASSUME Serial PROVE AccessHeld' /\ MovesHeld'
    <3>1. AccessHeld'
      BY <1>0, <2>1, <2>3 DEF AccessHeld
    <3>2. req = {}
      BY <1>0, <2>1, <2>3, NoneOpen DEF MovesHeld
    <3> QED
      BY <2>1, <3>1, <3>2 DEF MovesHeld
  <2>4. OpenedByGrant
    BY <2>1 DEF OpenedByGrant, Granted, CanAccess, Together
  <2> QED
    BY <1>0, <2>2, <2>3, <2>4 DEF BranchesHeld
<1>6. ASSUME NEW u, NEW b, Revoke(u, b)
      PROVE  BranchesTyped' /\ BranchesHeld' /\ OpenedByGrant
  <2>1. access' \subseteq access /\ UNCHANGED <<org, req>>
    BY <1>6 DEF Revoke
  <2>2. BranchesTyped'
    BY <1>0, <2>1 DEF BranchesTyped
  <2>3. BranchesHeld'
    BY <1>0, <2>1 DEF BranchesHeld, AccessHeld, MovesHeld
  <2>4. OpenedByGrant
    BY <2>1 DEF OpenedByGrant, Granted, CanAccess, Together
  <2> QED
    BY <2>2, <2>3, <2>4
<1>7. ASSUME NEW u, NEW b, Enter(u, b) \/ Refused(u) PROVE UNCHANGED <<org, access, req>>
  BY <1>7 DEF Enter, Refused
<1>8. ASSUME UNCHANGED <<org, access, req>>
      PROVE  BranchesTyped' /\ BranchesHeld' /\ OpenedByGrant
  BY <1>8, SameBranches
<1> QED
  BY <1>1, <1>2, <1>3, <1>4, <1>5, <1>6, <1>7, <1>8 DEF BranchStep

LEMMA DevicesStay ==
    ASSUME GrantInv, DeviceStep PROVE DevicesTyped' /\ RevokedStays
<1>0. dev \in [Devices -> DeviceRows]
  BY DEF GrantInv, DevicesTyped
<1>1. ASSUME dev' = dev PROVE DevicesTyped' /\ RevokedStays
  BY <1>1, SameDevices
<1>2. ASSUME NEW r, WriteDevice(r) PROVE DevicesTyped' /\ RevokedStays
  <2>1. PICK held \in BOOLEAN :
           dev' = [dev EXCEPT ![r.dev] =
                     IF r.kind = "seen" THEN dev[r.dev]
                     ELSE IF dev[r.dev].status # None THEN dev[r.dev]
                     ELSE [status |-> "ACTIVE", web |-> r.kind = "web",
                           held |-> held /\ r.kind = "web"]]
    BY <1>2 DEF WriteDevice, Seen
  <2> DEFINE row == [status |-> "ACTIVE", web |-> r.kind = "web",
                     held |-> held /\ r.kind = "web"]
  <2>2. row \in DeviceRows
    BY DEF DeviceRows
  <2> HIDE DEF row
  <2>3. \/ dev' = dev
        \/ /\ r.dev \in Devices /\ dev[r.dev].status # "REVOKED"
           /\ dev' = [dev EXCEPT ![r.dev] = row]
    BY <1>0, <2>1 DEF row, None
  <2> QED
    BY <1>0, <1>1, <2>2, <2>3 DEF DevicesTyped, RevokedStays
<1>3. ASSUME NEW d \in Devices, NEW status \in {"ACTIVE", "REVOKED"},
             dev' = [dev EXCEPT ![d].status = status],
             UpdateDevice(d, status) \/ status = "REVOKED"
      PROVE  DevicesTyped' /\ RevokedStays
  <2>1. /\ [dev[d] EXCEPT !.status = status] \in DeviceRows
        /\ dev' = [dev EXCEPT ![d] = [dev[d] EXCEPT !.status = status]]
        /\ [dev[d] EXCEPT !.status = status].status = status
    BY <1>0, <1>3 DEF DeviceRows
  <2>2. DevicesTyped'
    BY <1>0, <2>1 DEF DevicesTyped
  <2>3. RevokedStays
    BY <1>0, <1>3, <2>1 DEF RevokedStays
  <2> QED
    BY <2>2, <2>3
<1>4. ASSUME NEW d \in Devices, NEW status \in {"ACTIVE", "REVOKED"}, UpdateDevice(d, status)
      PROVE  DevicesTyped' /\ RevokedStays
  BY <1>3, <1>4 DEF UpdateDevice
<1>5. ASSUME NEW d \in Devices, RevokeWeb(d) PROVE DevicesTyped' /\ RevokedStays
  BY <1>3, <1>5 DEF RevokeWeb
<1>6. ASSUME NEW d, LoginDevice(d) \/ RegisterWeb(d) PROVE dev' = dev
  BY <1>6 DEF LoginDevice, RegisterWeb, Ask, devices
<1>7. ASSUME NEW m, NEW w, NEW b, SetLimits(m, w, b) PROVE dev' = dev
  BY <1>7 DEF SetLimits
<1> QED
  BY <1>1, <1>2, <1>4, <1>5, <1>6, <1>7 DEF DeviceStep

LEMMA GrantNext ==
    ASSUME GrantInv, [Next]_vars
    PROVE  GrantInv' /\ OpenedByGrant /\ RevokedStays
<1>1. CASE BranchStep
  <2>1. UNCHANGED <<scenario, dev>>
    BY <1>1 DEF BranchStep, SetIndustry, BeginMove, DropAccesses, MoveBusiness, Grant, Revoke, Enter, Refused, devices
  <2> QED
    BY <1>1, <2>1, BranchGrants, SameDevices DEF GrantInv
<1>2. CASE DeviceStep
  <2>1. UNCHANGED <<scenario, org, access>> /\ ~Part("branches")
    BY <1>2 DEF Part, DeviceStep, LoginDevice, RegisterWeb, Ask, RevokeWeb, WriteDevice,
                UpdateDevice, SetLimits, company
  <2> QED
    BY <1>2, <2>1, DevicesStay, SameBranches DEF GrantInv
<1>3. ASSUME UNCHANGED <<scenario, org, access, dev>>, Part("branches") => req' = req
      PROVE  GrantInv' /\ OpenedByGrant /\ RevokedStays
  BY <1>3, SameBranches, SameDevices DEF GrantInv
<1>4. CASE PeopleStep
  BY <1>3, <1>4 DEF Part, PeopleStep, BeginUser, CommitUser, SetPin, SetRole, Deactivate,
                    Activate, AskMark, SetActive, Change, SetWaiter, company, devices
<1>5. CASE TrialStep
  BY <1>3, <1>5 DEF TrialStep, Login, Refresh, SocialLogin, Tick, SetHours, ExtendClock, ResetClock,
                    TerminateTrial, SetTrial, SetPaid, company, devices
<1>6. CASE InviteStep
  BY <1>3, <1>6 DEF Part, InviteStep, BeginJoin, LeaveRider, CommitJoin, ToggleCode, company,
                    devices
<1>7. CASE UNCHANGED vars
  BY <1>3, <1>7 DEF vars, company, devices
<1> QED
  BY <1>1, <1>2, <1>4, <1>5, <1>6, <1>7 DEF Next

\* However companies, accesses and devices change: a branch opens to a user only by a
\* grant of that moment, or as the user's main branch moves; a device that is revoked
\* works again only when an admin says so.
THEOREM GrantsOnly == Spec => OnlyByGrant
<1>1. Init => GrantInv
  BY DEF Init, GrantInv, BranchesTyped, BranchesHeld, AccessHeld, MovesHeld, DevicesTyped,
         DeviceRows, NoDevice
<1>2. GrantInv /\ [Next]_vars => GrantInv'
  BY GrantNext
<1>3. GrantInv /\ [Next]_vars => OpenedByGrant /\ RevokedStays
  BY GrantNext
<1>4. OpenedByGrant /\ RevokedStays =>
         [/\ scenario.open = 1 => \A u \in Users : \A b \in Businesses \ Granted(u) :
                (CanAccess(u, b))' => <<u, b>> \notin access \/ org'[Home[u]] # org[Home[u]]
          /\ \A d \in Devices : dev[d].status = "REVOKED" /\ dev'[d].status # "REVOKED" =>
                UpdateDevice(d, "ACTIVE")]_vars
  BY DEF OpenedByGrant, RevokedStays
<1> QED
  BY <1>1, <1>2, <1>3, <1>4, PTL DEF Spec, OnlyByGrant

-----------------------------------------------------------------------------
(***************************************************************************)
(* RulesKept of Access, for every set of users, waiters, devices, PINs,    *)
(* branches and companies and every limit: what handlers check before they *)
(* write, although up to scenario.open of them have checked and not        *)
(* written yet.                                                            *)
(***************************************************************************)

StaffRows == [role : Counted \cup {"REPARTIDOR", None}, active : BOOLEAN,
              pin : Pins \cup {None}]
WaiterRows == [active : BOOLEAN, pin : Pins \cup {None}]

UserRequests == [kind : {"create", "on", "off"}, user : Users, role : Roles, pin : Pins \cup {None}]
DeviceRequests == [kind : {"seen", "desktop", "web"}, dev : Devices]

\* What each part of the model leaves in req.
RequestsTyped ==
    /\ IsFiniteSet(req) /\ Cardinality(req) <= scenario.open
    /\ Part("branches") => req \subseteq MoveRequests
    /\ Part("people") => req \subseteq UserRequests
    /\ Part("devices") => req \subseteq DeviceRequests
    /\ Part("invites") => req \subseteq Users

TypeOK ==
    /\ scenario \in Scenarios
    /\ org \in [Businesses -> Orgs \cup {None}]
    /\ industry \in [Businesses -> Industries \cup {None}]
    /\ staff \in [Users -> StaffRows]
    /\ waiter \in [Waiters -> WaiterRows]
    /\ dev \in [Devices -> DeviceRows]
    /\ pos = [max |-> pos.max, maxWeb |-> pos.maxWeb, billing |-> pos.billing]
    /\ pos.max \in Nat /\ pos.maxWeb \in Nat
    /\ code = [used |-> code.used, active |-> code.active] /\ code.used \in Nat
    /\ RequestsTyped

\* The scenario is one of those the assumption describes.
LEMMA ScenarioTyped ==
    ASSUME TypeOK
    PROVE  /\ scenario.open \in Nat \ {0} /\ scenario.users \subseteq Users
           /\ scenario.waiters \subseteq Waiters
  BY ScenarioAssumption DEF TypeOK

(***************************************************************************)
(* Sizes.                                                                  *)
(***************************************************************************)
\* A set inside S and one more element.
LEMMA AtMostOneMore ==
    ASSUME NEW S, IsFiniteSet(S), NEW x, NEW T, T \subseteq S \cup {x}
    PROVE  /\ IsFiniteSet(T) /\ Cardinality(T) \in Nat /\ Cardinality(S) \in Nat
           /\ Cardinality(T) <= Cardinality(S) + 1
<1>1. /\ IsFiniteSet(S \cup {x}) /\ Cardinality(S \cup {x}) <= Cardinality(S) + 1
      /\ Cardinality(S) \in Nat
  BY FS_AddElement, FS_CardinalityType
<1>2. IsFiniteSet(T) /\ Cardinality(T) <= Cardinality(S \cup {x})
  BY <1>1, FS_Subset
<1>3. Cardinality(T) \in Nat /\ Cardinality(S \cup {x}) \in Nat
  BY <1>1, <1>2, FS_CardinalityType
<1> QED
  BY <1>1, <1>2, <1>3

\* A set inside S.
LEMMA AtMostAsMany ==
    ASSUME NEW S, IsFiniteSet(S), NEW T, T \subseteq S
    PROVE  /\ IsFiniteSet(T) /\ Cardinality(T) \in Nat /\ Cardinality(S) \in Nat
           /\ Cardinality(T) <= Cardinality(S)
<1>1. IsFiniteSet(T) /\ Cardinality(T) <= Cardinality(S)
  BY FS_Subset
<1> QED
  BY <1>1, FS_CardinalityType

\* A set inside S without an element of it.
LEMMA OneLess ==
    ASSUME NEW S, IsFiniteSet(S), NEW x \in S, NEW T, T \subseteq S \ {x}
    PROVE  /\ IsFiniteSet(T) /\ Cardinality(T) \in Nat /\ Cardinality(S) \in Nat
           /\ Cardinality(T) + 1 <= Cardinality(S)
<1>1. IsFiniteSet(S \ {x}) /\ Cardinality(S \ {x}) = Cardinality(S) - 1
      /\ Cardinality(S) \in Nat
  BY FS_RemoveElement, FS_CardinalityType
<1> QED
  BY <1>1, AtMostAsMany

\* Requests open before and after one more was opened, and after one was closed.
LEMMA RequestOpened ==
    ASSUME TypeOK, Opening, NEW r, req' = req \cup {r}
    PROVE  /\ IsFiniteSet(req') /\ Cardinality(req') <= scenario.open
           /\ Cardinality(req) <= scenario.open - 1
<1>1. /\ IsFiniteSet(req) /\ Cardinality(req) \in Nat /\ IsFiniteSet(req')
      /\ Cardinality(req') \in Nat /\ Cardinality(req') <= Cardinality(req) + 1
  BY AtMostOneMore DEF TypeOK, RequestsTyped
<1> QED
  BY <1>1, ScenarioTyped DEF Opening

\* A request goes on and takes the place it had.
LEMMA RequestReplaced ==
    ASSUME TypeOK, NEW r \in req, NEW t, req' = (req \ {r}) \cup {t}
    PROVE  IsFiniteSet(req') /\ Cardinality(req') <= scenario.open
<1> DEFINE rest == req \ {r}
<1>1. /\ IsFiniteSet(rest) /\ Cardinality(rest) \in Nat /\ Cardinality(req) \in Nat
      /\ Cardinality(rest) + 1 <= Cardinality(req) /\ Cardinality(req) <= scenario.open
  BY OneLess DEF TypeOK, RequestsTyped
<1>2. req' \subseteq rest \cup {t}
  OBVIOUS
<1> HIDE DEF rest
<1>3. IsFiniteSet(req') /\ Cardinality(req') \in Nat /\ Cardinality(req') <= Cardinality(rest) + 1
  BY <1>1, <1>2, AtMostOneMore
<1> QED
  BY <1>1, <1>3, ScenarioTyped

LEMMA RequestClosed ==
    ASSUME TypeOK, NEW r \in req, req' = req \ {r}
    PROVE  IsFiniteSet(req') /\ Cardinality(req') <= scenario.open
<1>1. /\ IsFiniteSet(req') /\ Cardinality(req') \in Nat /\ Cardinality(req) \in Nat
      /\ Cardinality(req') + 1 <= Cardinality(req) /\ Cardinality(req) <= scenario.open
  BY OneLess DEF TypeOK, RequestsTyped
<1> QED
  BY <1>1, ScenarioTyped

-----------------------------------------------------------------------------
(***************************************************************************)
(* The parts.                                                              *)
(***************************************************************************)
\* A step belongs to one part and leaves the rows of the others alone, with the
\* requests that are open in theirs.
LEMMA PartsApart ==
    ASSUME [Next]_vars
    PROVE  /\ scenario' = scenario
           /\ \/ BranchStep
              \/ UNCHANGED <<org, industry>> /\ (Part("branches") => req' = req)
           /\ PeopleStep \/ (UNCHANGED people /\ (Part("people") => req' = req))
           /\ DeviceStep \/ (UNCHANGED devices /\ (Part("devices") => req' = req))
           /\ InviteStep \/ (UNCHANGED invites /\ (Part("invites") => req' = req))
           /\ BranchStep \/ PeopleStep \/ DeviceStep \/ InviteStep \/ req' = req
<1>1. CASE BranchStep
  <2>1. UNCHANGED <<scenario, people, devices, invites>> /\ Part("branches")
    BY <1>1 DEF BranchStep, SetIndustry, BeginMove, DropAccesses, MoveBusiness, Grant, Revoke,
                Enter, Refused
  <2> QED
    BY <1>1, <2>1 DEF Part
<1>2. CASE PeopleStep
  <2>1. UNCHANGED <<scenario, company, devices, invites>> /\ Part("people")
    BY <1>2 DEF PeopleStep, BeginUser, CommitUser, SetPin, SetRole, Deactivate, Activate,
                AskMark, SetActive, Change, SetWaiter
  <2> QED
    BY <1>2, <2>1 DEF company, Part
<1>3. CASE DeviceStep
  <2>1. UNCHANGED <<scenario, company, people, invites>> /\ Part("devices")
    <3>1. ASSUME NEW d, LoginDevice(d) \/ RegisterWeb(d)
          PROVE  UNCHANGED <<scenario, company, people, invites>> /\ Part("devices")
      BY <3>1 DEF LoginDevice, RegisterWeb, Ask
    <3>2. ASSUME NEW d, NEW status, RevokeWeb(d) \/ UpdateDevice(d, status)
          PROVE  UNCHANGED <<scenario, company, people, invites>> /\ Part("devices")
      BY <3>2 DEF RevokeWeb, UpdateDevice
    <3>3. ASSUME NEW r, WriteDevice(r)
          PROVE  UNCHANGED <<scenario, company, people, invites>> /\ Part("devices")
      BY <3>3 DEF WriteDevice
    <3>4. ASSUME NEW m, NEW w, NEW b, SetLimits(m, w, b)
          PROVE  UNCHANGED <<scenario, company, people, invites>> /\ Part("devices")
      BY <3>4 DEF SetLimits
    <3> QED
      BY <1>3, <3>1, <3>2, <3>3, <3>4 DEF DeviceStep
  <2> QED
    BY <1>3, <2>1 DEF company, Part
<1>4. CASE TrialStep
  <2>1. UNCHANGED <<scenario, company, people, devices, invites, req>>
    BY <1>4 DEF TrialStep, Login, Refresh, SocialLogin, Tick, SetHours, ExtendClock, ResetClock,
                TerminateTrial, SetTrial, SetPaid
  <2> QED
    BY <2>1 DEF company
<1>5. CASE InviteStep
  <2>1. UNCHANGED <<scenario, company, people, devices>> /\ Part("invites")
    BY <1>5 DEF InviteStep, BeginJoin, LeaveRider, CommitJoin, ToggleCode
  <2> QED
    BY <1>5, <2>1 DEF company, Part
<1>6. CASE UNCHANGED vars
  BY <1>6 DEF vars, company
<1> QED
  BY <1>1, <1>2, <1>3, <1>4, <1>5, <1>6 DEF Next

-----------------------------------------------------------------------------
(***************************************************************************)
(* Types.                                                                  *)
(***************************************************************************)
BranchTypes == /\ org \in [Businesses -> Orgs \cup {None}]
               /\ industry \in [Businesses -> Industries \cup {None}]
PeopleTypes == staff \in [Users -> StaffRows] /\ waiter \in [Waiters -> WaiterRows]
DeviceTypes == /\ dev \in [Devices -> DeviceRows]
               /\ pos = [max |-> pos.max, maxWeb |-> pos.maxWeb, billing |-> pos.billing]
               /\ pos.max \in Nat /\ pos.maxWeb \in Nat
CodeTypes == code = [used |-> code.used, active |-> code.active] /\ code.used \in Nat

LEMMA BranchTyped == ASSUME TypeOK, BranchStep PROVE BranchTypes' /\ RequestsTyped'
<1>0. Part("branches") /\ scenario' = scenario /\ req \subseteq MoveRequests
  BY DEF TypeOK, RequestsTyped, BranchStep, SetIndustry, BeginMove, DropAccesses, MoveBusiness,
         Grant, Revoke, Enter, Refused
<1>same. ASSUME req' = req PROVE RequestsTyped'
  BY <1>0, <1>same DEF TypeOK, RequestsTyped, Part
<1>new. ASSUME IsFiniteSet(req'), Cardinality(req') <= scenario.open, req' \subseteq MoveRequests
        PROVE  RequestsTyped'
  BY <1>0, <1>new DEF RequestsTyped, Part
<1>1. ASSUME NEW b \in Businesses, NEW i \in Industries \cup {None}, SetIndustry(b, i)
      PROVE  BranchTypes' /\ RequestsTyped'
  BY <1>1, <1>same DEF SetIndustry, TypeOK, BranchTypes
<1>2. ASSUME NEW b \in Businesses, NEW o \in Orgs \cup {None}, BeginMove(b, o)
      PROVE  BranchTypes' /\ RequestsTyped'
  <2> DEFINE r == [business |-> b, from |-> org[b], to |-> o, clean |-> org[b] \in {None, o}]
  <2>1. Opening /\ req' = req \cup {r} /\ UNCHANGED <<org, industry>>
    BY <1>2 DEF BeginMove, company
  <2>2. r \in MoveRequests
    BY DEF MoveRequests, TypeOK
  <2> HIDE DEF r
  <2>3. IsFiniteSet(req') /\ Cardinality(req') <= scenario.open
    BY <2>1, RequestOpened
  <2> QED
    BY <1>0, <1>new, <2>1, <2>2, <2>3 DEF TypeOK, BranchTypes
<1>3. ASSUME NEW r \in req, DropAccesses(r) PROVE BranchTypes' /\ RequestsTyped'
  <2> DEFINE t == [r EXCEPT !.clean = TRUE]
  <2>1. req' = (req \ {r}) \cup {t} /\ UNCHANGED <<org, industry>>
    BY <1>3 DEF DropAccesses
  <2>2. t \in MoveRequests
    BY <1>0 DEF MoveRequests
  <2> HIDE DEF t
  <2>3. IsFiniteSet(req') /\ Cardinality(req') <= scenario.open
    BY <2>1, RequestReplaced
  <2> QED
    BY <1>0, <1>new, <2>1, <2>2, <2>3 DEF TypeOK, BranchTypes
<1>4. ASSUME NEW r \in req, MoveBusiness(r) PROVE BranchTypes' /\ RequestsTyped'
  <2>1. req' = req \ {r} /\ org' = [org EXCEPT ![r.business] = r.to] /\ industry' = industry
    BY <1>4 DEF MoveBusiness
  <2>2. r.to \in Orgs \cup {None}
    BY <1>0 DEF MoveRequests
  <2>3. IsFiniteSet(req') /\ Cardinality(req') <= scenario.open
    BY <2>1, RequestClosed
  <2> QED
    BY <1>0, <1>new, <2>1, <2>2, <2>3 DEF TypeOK, BranchTypes
<1>5. ASSUME NEW u, NEW b, Grant(u, b) \/ Revoke(u, b) \/ Enter(u, b) \/ Refused(u)
      PROVE  BranchTypes' /\ RequestsTyped'
  BY <1>5, <1>same DEF Grant, Revoke, Enter, Refused, TypeOK, BranchTypes
<1> QED
  BY <1>1, <1>2, <1>3, <1>4, <1>5 DEF BranchStep

\* What the write of a request leaves of a user's row.
RowOf(r, row) ==
    IF r.kind = "create" THEN [role |-> r.role, active |-> TRUE, pin |-> r.pin]
    ELSE [row EXCEPT !.active = (r.kind = "on")]

\* That row, field by field.
LEMMA RowTyped ==
    ASSUME NEW r \in UserRequests, NEW row \in StaffRows
    PROVE  /\ RowOf(r, row) \in StaffRows
           /\ r.kind = "create" => /\ RowOf(r, row).role = r.role /\ RowOf(r, row).active
                                   /\ RowOf(r, row).pin = r.pin
           /\ r.kind # "create" => /\ RowOf(r, row).role = row.role
                                   /\ RowOf(r, row).pin = row.pin
                                   /\ (RowOf(r, row).active <=> r.kind = "on")
<1>1. r.role \in Counted \cup {"REPARTIDOR", None} /\ r.pin \in Pins \cup {None}
  BY DEF UserRequests, Roles
<1>2. CASE r.kind = "create"
  BY <1>1, <1>2 DEF RowOf, StaffRows
<1>3. CASE r.kind # "create"
  <2> DEFINE on == r.kind = "on"
             x == [row EXCEPT !.active = on]
  <2>1. RowOf(r, row) = x /\ on \in BOOLEAN
    BY <1>3 DEF RowOf
  <2> HIDE DEF on
  <2>2. x \in StaffRows /\ x.role = row.role /\ x.pin = row.pin /\ x.active = on
    BY <2>1 DEF StaffRows
  <2> QED
    BY <1>3, <2>1, <2>2 DEF on
<1> QED
  BY <1>2, <1>3

\* A request is written into the row of its user.
LEMMA CommitFacts ==
    ASSUME TypeOK, NEW r \in req, CommitUser(r)
    PROVE  /\ r \in UserRequests /\ r.user \in Users /\ staff[r.user] \in StaffRows
           /\ staff' = [staff EXCEPT ![r.user] = RowOf(r, staff[r.user])]
           /\ req' = req \ {r} /\ waiter' = waiter
<1>1. r \in UserRequests
  BY DEF CommitUser, TypeOK, RequestsTyped
<1> QED
  BY <1>1 DEF CommitUser, RowOf, TypeOK, UserRequests

\* A request about the mark of a user is one more.
LEMMA MarkAsked ==
    ASSUME TypeOK, NEW u \in Users, NEW kind \in {"on", "off"}, AskMark(kind, u)
    PROVE  \E r \in UserRequests :
              /\ r.kind = kind /\ r.user = u /\ req' = req \cup {r} /\ Opening
              /\ staff[u].role # None /\ UNCHANGED people
<1> DEFINE r == [kind |-> kind, user |-> u, role |-> staff[u].role, pin |-> None]
<1>1. staff[u].role \in Roles
  BY DEF AskMark, TypeOK, StaffRows, Roles
<1>2. r \in UserRequests /\ r.kind = kind /\ r.user = u
  BY <1>1 DEF UserRequests
<1> QED
  BY <1>2 DEF AskMark

LEMMA PeopleTyped == ASSUME TypeOK, PeopleStep PROVE PeopleTypes' /\ RequestsTyped'
<1>0. /\ Part("people") /\ scenario' = scenario /\ req \subseteq UserRequests
      /\ scenario.users \subseteq Users /\ scenario.waiters \subseteq Waiters
      /\ Roles \subseteq Counted \cup {"REPARTIDOR", None}
  BY ScenarioTyped DEF PeopleStep, BeginUser, CommitUser, SetPin, SetRole, Deactivate, Activate,
     AskMark, SetActive, Change, SetWaiter, TypeOK, RequestsTyped, Roles
<1>same. ASSUME req' = req PROVE RequestsTyped'
  BY <1>0, <1>same DEF TypeOK, RequestsTyped, Part
<1>1. ASSUME NEW u \in Users, NEW role \in Roles, NEW pin \in SomePin,
             BeginUser(u, role, pin)
      PROVE  PeopleTypes' /\ RequestsTyped'
  <2> DEFINE r == [kind |-> "create", user |-> u, role |-> role, pin |-> pin]
  <2>1. r \in UserRequests
    BY DEF UserRequests, SomePin
  <2>2. Opening /\ req' = req \cup {r} /\ UNCHANGED people
    BY <1>1 DEF BeginUser, people
  <2> HIDE DEF r
  <2>3. IsFiniteSet(req') /\ Cardinality(req') <= scenario.open
    BY <2>2, RequestOpened
  <2> QED
    BY <1>0, <2>1, <2>2, <2>3 DEF people, TypeOK, PeopleTypes, RequestsTyped, Part
<1>2. ASSUME NEW r \in req, CommitUser(r) PROVE PeopleTypes' /\ RequestsTyped'
  <2>1. /\ staff' = [staff EXCEPT ![r.user] = RowOf(r, staff[r.user])]
        /\ req' = req \ {r} /\ waiter' = waiter
        /\ r \in UserRequests /\ staff[r.user] \in StaffRows
    BY <1>2, CommitFacts
  <2>2. RowOf(r, staff[r.user]) \in StaffRows
    BY <2>1, RowTyped
  <2>3. IsFiniteSet(req') /\ Cardinality(req') <= scenario.open
    BY <2>1, RequestClosed
  <2>4. PeopleTypes'
    BY <2>1, <2>2 DEF TypeOK, PeopleTypes
  <2> QED
    BY <1>0, <2>1, <2>3, <2>4 DEF RequestsTyped, Part
<1>mark. ASSUME NEW u \in Users, Deactivate(u) \/ Activate(u)
         PROVE  PeopleTypes' /\ RequestsTyped'
  <2>1. PICK r \in UserRequests : req' = req \cup {r} /\ Opening /\ UNCHANGED people
    BY <1>mark, MarkAsked DEF Deactivate, Activate
  <2>2. IsFiniteSet(req') /\ Cardinality(req') <= scenario.open
    BY <2>1, RequestOpened
  <2> QED
    BY <1>0, <2>1, <2>2 DEF people, TypeOK, PeopleTypes, RequestsTyped, Part
<1>3. ASSUME NEW u \in Users, NEW x \in StaffRows, Change(u, x)
      PROVE  PeopleTypes' /\ RequestsTyped'
  BY <1>3, <1>same DEF Change, TypeOK, PeopleTypes
<1>4. ASSUME NEW u \in Users, NEW pin \in SomePin
      PROVE  /\ [staff[u] EXCEPT !.pin = pin] \in StaffRows
             /\ [staff[u] EXCEPT !.role = "CAJERO"] \in StaffRows
             /\ [staff[u] EXCEPT !.active = ~@] \in StaffRows
  <2>1. PICK x \in StaffRows : x = staff[u]
    BY DEF TypeOK
  <2>2. /\ [x EXCEPT !.pin = pin] \in StaffRows
        /\ [x EXCEPT !.role = "CAJERO"] \in StaffRows
    BY DEF StaffRows, SomePin, Counted
  <2>3. [x EXCEPT !.active = ~@] \in StaffRows
    BY DEF StaffRows
  <2> QED
    BY <2>1, <2>2, <2>3
<1>5. ASSUME NEW u \in Users, NEW pin \in SomePin,
             SetPin(u, pin) \/ SetRole(u, "CAJERO") \/ SetActive(u)
      PROVE  PeopleTypes' /\ RequestsTyped'
  BY <1>3, <1>4, <1>5 DEF SetPin, SetRole, SetActive
<1>6. ASSUME NEW w \in Waiters, NEW active \in BOOLEAN, NEW pin \in Pins,
             SetWaiter(w, active, pin)
      PROVE  PeopleTypes' /\ RequestsTyped'
  <2>1. [active |-> active, pin |-> pin] \in WaiterRows
    BY DEF WaiterRows
  <2> QED
    BY <1>6, <1>same, <2>1 DEF SetWaiter, TypeOK, PeopleTypes
<1>7. None \in SomePin
  BY DEF SomePin
<1> QED
  BY <1>0, <1>1, <1>2, <1>mark, <1>5, <1>6, <1>7 DEF PeopleStep

LEMMA DeviceTyped == ASSUME TypeOK, DeviceStep PROVE DeviceTypes' /\ RequestsTyped'
<1>0. /\ Part("devices") /\ scenario' = scenario /\ req \subseteq DeviceRequests
      /\ DeviceTypes
  <2>1. Part("devices") /\ scenario' = scenario
    BY DEF DeviceStep, LoginDevice, RegisterWeb, Ask, WriteDevice, UpdateDevice, RevokeWeb,
           SetLimits
  <2> QED
    BY <2>1 DEF TypeOK, RequestsTyped, DeviceTypes
<1>same. ASSUME req' = req PROVE RequestsTyped'
  BY <1>0, <1>same DEF TypeOK, RequestsTyped, Part
<1>1. ASSUME NEW d \in Devices, LoginDevice(d) \/ RegisterWeb(d)
      PROVE  DeviceTypes' /\ RequestsTyped'
  <2>1. PICK kind \in {"seen", "desktop", "web"} : Ask(kind, d)
    BY <1>1 DEF LoginDevice, RegisterWeb
  <2> DEFINE r == [kind |-> kind, dev |-> d]
  <2>2. Opening /\ req' = req \cup {r} /\ UNCHANGED devices /\ r \in DeviceRequests
    BY <2>1 DEF Ask, DeviceRequests
  <2> HIDE DEF r
  <2>3. IsFiniteSet(req') /\ Cardinality(req') <= scenario.open
    BY <2>2, RequestOpened
  <2> QED
    BY <1>0, <2>2, <2>3 DEF devices, DeviceTypes, RequestsTyped, Part
<1>2. ASSUME NEW r \in req, WriteDevice(r) PROVE DeviceTypes' /\ RequestsTyped'
  <2>1. PICK held \in BOOLEAN :
           dev' = [dev EXCEPT ![r.dev] =
                     IF r.kind = "seen" THEN dev[r.dev]
                     ELSE IF dev[r.dev].status # None THEN dev[r.dev]
                     ELSE [status |-> "ACTIVE", web |-> r.kind = "web",
                           held |-> held /\ r.kind = "web"]]
    BY <1>2 DEF WriteDevice, Seen
  <2>2. [status |-> "ACTIVE", web |-> r.kind = "web", held |-> held /\ r.kind = "web"]
        \in DeviceRows
    BY DEF DeviceRows
  <2>3. dev' \in [Devices -> DeviceRows]
    BY <1>0, <2>1, <2>2 DEF DeviceTypes, DeviceRequests
  <2>4. req' = req \ {r} /\ pos' = pos
    BY <1>2 DEF WriteDevice
  <2>5. IsFiniteSet(req') /\ Cardinality(req') <= scenario.open
    BY <2>4, RequestClosed
  <2> QED
    BY <1>0, <2>3, <2>4, <2>5 DEF DeviceTypes, RequestsTyped, Part
<1>3. ASSUME NEW d \in Devices, NEW status \in {"ACTIVE", "REVOKED"},
             dev' = [dev EXCEPT ![d].status = status], pos' = pos, req' = req
      PROVE  DeviceTypes' /\ RequestsTyped'
  <2>1. [dev[d] EXCEPT !.status = status] \in DeviceRows
    BY <1>0 DEF DeviceTypes, DeviceRows
  <2> QED
    BY <1>0, <1>3, <1>same, <2>1 DEF DeviceTypes
<1>4. ASSUME NEW d \in Devices, NEW status \in {"ACTIVE", "REVOKED"},
             RevokeWeb(d) \/ UpdateDevice(d, status)
      PROVE  DeviceTypes' /\ RequestsTyped'
  BY <1>3, <1>4 DEF RevokeWeb, UpdateDevice
<1>5. ASSUME NEW m \in 0 .. Limit, NEW w \in 0 .. Limit, NEW b, SetLimits(m, w, b)
      PROVE  DeviceTypes' /\ RequestsTyped'
  <2>1. m \in Nat /\ w \in Nat
    BY LimitAssumption
  <2> QED
    BY <1>0, <1>5, <1>same, <2>1 DEF SetLimits, DeviceTypes
<1> QED
  BY <1>0, <1>1, <1>2, <1>4, <1>5 DEF DeviceStep

LEMMA CodeTyped == ASSUME TypeOK, InviteStep PROVE CodeTypes' /\ RequestsTyped'
<1>0. /\ Part("invites") /\ scenario' = scenario /\ req \subseteq Users /\ CodeTypes
      /\ scenario.users \subseteq Users
  <2>1. Part("invites") /\ scenario' = scenario
    BY DEF InviteStep, BeginJoin, LeaveRider, CommitJoin, ToggleCode
  <2> QED
    BY <2>1, ScenarioTyped DEF TypeOK, RequestsTyped, CodeTypes
<1>same. ASSUME req' = req PROVE RequestsTyped'
  BY <1>0, <1>same DEF TypeOK, RequestsTyped, Part
<1>1. ASSUME NEW u \in Users, BeginJoin(u) PROVE CodeTypes' /\ RequestsTyped'
  <2>1. Opening /\ req' = req \cup {u} /\ code' = code
    BY <1>1 DEF BeginJoin, invites
  <2>2. IsFiniteSet(req') /\ Cardinality(req') <= scenario.open
    BY <2>1, RequestOpened
  <2> QED
    BY <1>0, <2>1, <2>2 DEF CodeTypes, RequestsTyped, Part
<1>2. ASSUME NEW u \in req, CommitJoin(u) PROVE CodeTypes' /\ RequestsTyped'
  <2>1. req' = req \ {u} /\ code' = [code EXCEPT !.used = @ + 1]
    BY <1>2 DEF CommitJoin
  <2>2. IsFiniteSet(req') /\ Cardinality(req') <= scenario.open
    BY <2>1, RequestClosed
  <2>3. CodeTypes'
    BY <1>0, <2>1 DEF CodeTypes
  <2> QED
    BY <1>0, <2>1, <2>2, <2>3 DEF RequestsTyped, Part
<1>3. ASSUME NEW u, LeaveRider(u) PROVE CodeTypes' /\ RequestsTyped'
  BY <1>0, <1>3, <1>same DEF LeaveRider, CodeTypes
<1>4. CASE ToggleCode
  <2>1. code' = [code EXCEPT !.active = ~@] /\ req' = req
    BY <1>4 DEF ToggleCode
  <2> QED
    BY <1>0, <1>same, <2>1 DEF CodeTypes
<1> QED
  BY <1>0, <1>1, <1>2, <1>3, <1>4 DEF InviteStep

LEMMA TypeNext == ASSUME TypeOK, [Next]_vars PROVE TypeOK'
<1>1. BranchTypes' /\ scenario' = scenario
  BY PartsApart, BranchTyped DEF TypeOK, BranchTypes
<1>2. PeopleTypes'
  BY PartsApart, PeopleTyped DEF TypeOK, PeopleTypes, people
<1>3. DeviceTypes'
  BY PartsApart, DeviceTyped DEF TypeOK, DeviceTypes, devices
<1>4. CodeTypes'
  BY PartsApart, CodeTyped DEF TypeOK, CodeTypes, invites
<1>5. RequestsTyped'
  <2>1. CASE req' = req
    BY <1>1, <2>1 DEF TypeOK, RequestsTyped, Part
  <2> QED
    BY <2>1, PartsApart, BranchTyped, PeopleTyped, DeviceTyped, CodeTyped
<1> QED
  BY <1>1, <1>2, <1>3, <1>4, <1>5 DEF TypeOK, BranchTypes, PeopleTypes, DeviceTypes, CodeTypes

LEMMA TypeInit == Init => TypeOK
<1> SUFFICES ASSUME Init PROVE TypeOK
  OBVIOUS
<1>1. RequestsTyped
  BY FS_EmptySet, ScenarioAssumption DEF Init, RequestsTyped
<1>2. staff \in [Users -> StaffRows]
  BY DEF Init, Unmade, StaffRows, Counted
<1>3. dev \in [Devices -> DeviceRows]
  BY DEF Init, NoDevice, DeviceRows
<1>4. waiter \in [Waiters -> WaiterRows]
  BY DEF Init, WaiterRows
<1> QED
  BY <1>1, <1>2, <1>3, <1>4, LimitAssumption DEF Init, TypeOK

-----------------------------------------------------------------------------
(***************************************************************************)
(* One industry in a company.                                              *)
(***************************************************************************)
\* While a company has one industry, the sibling that is looked at may be any.
LEMMA SiblingIsAny ==
    ASSUME TypeOK, OneIndustry, NEW b \in Businesses, NEW o \in Orgs,
           NEW c \in Businesses \ {b}, org[c] = o, industry[c] # None
    PROVE  Sibling(b, o) = industry[c]
<1> DEFINE with == {d \in Businesses \ {b} : org[d] = o /\ industry[d] # None}
           x == CHOOSE d \in with : TRUE
<1>1. c \in with
  OBVIOUS
<1>2. x \in with
  BY <1>1
<1>3. Sibling(b, o) = industry[x]
  BY <1>1 DEF Sibling
<1> HIDE DEF x
<1>4. industry[x] = industry[c]
  BY <1>2, HomeAssumption DEF OneIndustry, TypeOK
<1> QED
  BY <1>3, <1>4

\* With one request at a time: a business that is about to join a company fits there.
FitsIn(b, o) == o # None => industry[b] # None /\ Sibling(b, o) \in {None, industry[b]}

IndustryHeld ==
    scenario.open = 1 =>
       /\ OneIndustry
       /\ Part("branches") => /\ \A r, s \in req : r = s
                              /\ \A r \in req : FitsIn(r.business, r.to)

LEMMA IndustryStep ==
    ASSUME TypeOK, IndustryHeld, BranchStep, scenario.open = 1
    PROVE  OneIndustry' /\ (\A r, s \in req' : r = s)
           /\ (\A r \in req' : FitsIn(r.business, r.to)')
<1>0. /\ OneIndustry /\ \A r, s \in req : r = s
      /\ \A r \in req : FitsIn(r.business, r.to)
      /\ req \subseteq MoveRequests
  BY DEF IndustryHeld, TypeOK, RequestsTyped, BranchStep, SetIndustry, BeginMove, DropAccesses,
         MoveBusiness, Grant, Revoke, Enter, Refused
<1> DEFINE Goal == /\ OneIndustry' /\ \A r, s \in req' : r = s
                   /\ \A r \in req' : FitsIn(r.business, r.to)'
<1>same. ASSUME UNCHANGED <<org, industry>> PROVE OneIndustry' /\ \A b, o : FitsIn(b, o)' <=> FitsIn(b, o)
  BY <1>0, <1>same DEF OneIndustry, FitsIn, Sibling
<1>1. ASSUME NEW b \in Businesses, NEW i \in Industries \cup {None}, SetIndustry(b, i)
      PROVE  Goal
  <2>1. /\ industry' = [industry EXCEPT ![b] = i] /\ org' = org
        /\ org[b] # None => Sibling(b, org[b]) \in {None, i}
        /\ req = {} /\ req' = req
    BY <1>0, <1>1, NoneOpen DEF SetIndustry
  <2>2. ASSUME NEW c \in Businesses \ {b}, org[c] = org[b], org[b] # None, industry[c] # None
        PROVE  industry[c] = i
    <3>1. org[b] \in Orgs
      BY <2>2 DEF TypeOK
    <3>2. Sibling(b, org[b]) = industry[c]
      BY <1>0, <2>2, <3>1, SiblingIsAny
    <3> QED
      BY <2>1, <2>2, <3>2
  <2>3. OneIndustry'
    BY <1>0, <2>1, <2>2 DEF OneIndustry, TypeOK
  <2> QED
    BY <2>1, <2>3
<1>2. ASSUME NEW b \in Businesses, NEW o \in Orgs \cup {None}, BeginMove(b, o)
      PROVE  Goal
  <2>1. req = {} /\ UNCHANGED <<org, industry>> /\ FitsIn(b, o)
    BY <1>0, <1>2, NoneOpen DEF BeginMove, company, FitsIn
  <2>2. PICK r \in MoveRequests : req' = req \cup {r} /\ r.business = b /\ r.to = o
    BY <1>2, MoveAsked DEF TypeOK
  <2>3. req' = {r}
    BY <2>1, <2>2
  <2>4. FitsIn(r.business, r.to)
    BY <2>1, <2>2
  <2>5. OneIndustry' /\ FitsIn(r.business, r.to)'
    BY <1>same, <2>1, <2>4 DEF FitsIn, Sibling
  <2> QED
    BY <2>3, <2>5
<1>3. ASSUME NEW r \in req, DropAccesses(r) PROVE Goal
  <2> DEFINE t == [r EXCEPT !.clean = TRUE]
  <2>1. req' = (req \ {r}) \cup {t} /\ UNCHANGED <<org, industry>>
    BY <1>3 DEF DropAccesses
  <2>2. t.business = r.business /\ t.to = r.to
    BY <1>0 DEF MoveRequests
  <2> HIDE DEF t
  <2>3. req' = {t}
    BY <1>0, <2>1
  <2>4. FitsIn(t.business, t.to)
    BY <1>0, <2>2
  <2>5. OneIndustry' /\ FitsIn(t.business, t.to)'
    BY <1>same, <2>1, <2>4 DEF FitsIn, Sibling
  <2> QED
    BY <2>3, <2>5
<1>4. ASSUME NEW r \in req, MoveBusiness(r) PROVE Goal
  <2>1. /\ org' = [org EXCEPT ![r.business] = r.to] /\ industry' = industry
        /\ req' = {}
    BY <1>0, <1>4 DEF MoveBusiness
  <2>2. /\ r.business \in Businesses /\ r.to \in Orgs \cup {None}
        /\ FitsIn(r.business, r.to)
    BY <1>0 DEF MoveRequests
  <2>3. ASSUME NEW c \in Businesses \ {r.business}, org[c] = r.to, r.to # None,
               industry[c] # None
        PROVE  industry[c] = industry[r.business]
    <3>1. Sibling(r.business, r.to) = industry[c]
      BY <1>0, <2>2, <2>3, SiblingIsAny
    <3> QED
      BY <2>2, <2>3, <3>1 DEF FitsIn
  <2>4. OneIndustry'
    BY <1>0, <2>1, <2>2, <2>3 DEF OneIndustry, TypeOK
  <2> QED
    BY <2>1, <2>4
<1>5. ASSUME NEW u, NEW b, Grant(u, b) \/ Revoke(u, b) \/ Enter(u, b) \/ Refused(u)
      PROVE  Goal
  <2>1. UNCHANGED <<org, industry, req>>
    BY <1>5 DEF Grant, Revoke, Enter, Refused
  <2> QED
    BY <1>0, <1>same, <2>1 DEF FitsIn, Sibling
<1> QED
  BY <1>1, <1>2, <1>3, <1>4, <1>5 DEF BranchStep

-----------------------------------------------------------------------------
(***************************************************************************)
(* Limits: what is there and what open requests will add.                  *)
(***************************************************************************)
\* Users that open requests will count: those they create, and those they bring back.
WillCount(r) ==
    \/ r.kind = "create" /\ r.role \in Counted
    \/ r.kind = "on" /\ staff[r.user].role \in Counted
Counting == {r \in req : WillCount(r)}
Coming == IF Part("people") THEN {r.user : r \in Counting} ELSE {}
NewDevices(kind) == IF Part("devices") THEN {r \in req : r.kind = kind} ELSE {}
Joining == IF Part("invites") THEN req ELSE {}

QuotaHeld ==
    ~scenario.demote =>
       Cardinality(InQuota \cup Coming) <= UserLimit + scenario.open - 1

DevicesHeld ==
    ~scenario.revive =>
       /\ Cardinality(Live(FALSE)) + Cardinality(NewDevices("desktop"))
             <= pos.max + scenario.open - 1
       /\ Cardinality(Live(TRUE)) + Cardinality(NewDevices("web"))
             <= pos.maxWeb + scenario.open - 1

CodeHeld == code.used + Cardinality(Joining) <= Limit + scenario.open - 1

\* All of them are finite, and those of the requests no more than the requests.
Sized ==
    /\ IsFiniteSet(InQuota) /\ Cardinality(InQuota) \in Nat
    /\ \A web \in BOOLEAN : IsFiniteSet(Live(web)) /\ Cardinality(Live(web)) \in Nat
    /\ IsFiniteSet(InQuota \cup Coming) /\ Cardinality(InQuota \cup Coming) \in Nat
    /\ Cardinality(InQuota) <= Cardinality(InQuota \cup Coming)
    /\ Cardinality(InQuota \cup Coming) <= Cardinality(InQuota) + Cardinality(req)
    /\ \A kind \in {"desktop", "web"} :
          /\ IsFiniteSet(NewDevices(kind)) /\ Cardinality(NewDevices(kind)) \in Nat
          /\ Cardinality(NewDevices(kind)) <= Cardinality(req)
    /\ IsFiniteSet(Joining) /\ Cardinality(Joining) \in Nat
    /\ Cardinality(Joining) <= Cardinality(req)
    /\ Cardinality(req) \in Nat /\ Cardinality(req) <= scenario.open

\* Two finite sets are together no more than both.
LEMMA UnionAtMost ==
    ASSUME NEW S, NEW T, IsFiniteSet(S), IsFiniteSet(T)
    PROVE  /\ IsFiniteSet(S \cup T) /\ Cardinality(S \cup T) \in Nat
           /\ Cardinality(S) \in Nat /\ Cardinality(T) \in Nat
           /\ Cardinality(S \cup T) <= Cardinality(S) + Cardinality(T)
           /\ Cardinality(S) <= Cardinality(S \cup T)
<1>1. /\ IsFiniteSet(S \cup T)
      /\ Cardinality(S \cup T) = Cardinality(S) + Cardinality(T) - Cardinality(S \cap T)
  BY FS_Union
<1>2. IsFiniteSet(S \cap T) /\ Cardinality(S \cap T) <= Cardinality(T)
  BY FS_Subset
<1>3. /\ Cardinality(S) \in Nat /\ Cardinality(T) \in Nat
      /\ Cardinality(S \cap T) \in Nat /\ Cardinality(S \cup T) \in Nat
  BY <1>1, <1>2, FS_CardinalityType
<1> QED
  BY <1>1, <1>2, <1>3

\* A request counts one user.
LEMMA ComingFew ==
    ASSUME TypeOK
    PROVE  /\ IsFiniteSet(Coming) /\ Cardinality(Coming) \in Nat
           /\ Cardinality(Coming) <= Cardinality(req)
<1>1. /\ IsFiniteSet(req) /\ IsFiniteSet(Counting) /\ Cardinality(Counting) <= Cardinality(req)
      /\ Cardinality(req) \in Nat /\ Cardinality(Counting) \in Nat
  BY AtMostAsMany DEF TypeOK, RequestsTyped, Counting
<1>2. CASE Part("people")
  <2> DEFINE who == [r \in Counting |-> r.user]
  <2>1. who \in Surjection(Counting, Coming)
    BY <1>2 DEF Surjection, Coming
  <2>2. IsFiniteSet(Coming) /\ Cardinality(Coming) <= Cardinality(Counting)
    BY <1>1, <2>1, FS_Surjection
  <2>3. Cardinality(Coming) \in Nat
    BY <2>2, FS_CardinalityType
  <2> QED
    BY <1>1, <2>2, <2>3
<1>3. CASE ~Part("people")
  BY <1>1, <1>3, FS_EmptySet DEF Coming
<1> QED
  BY <1>2, <1>3

LEMMA Sizes == TypeOK => Sized
<1> SUFFICES ASSUME TypeOK PROVE Sized
  OBVIOUS
<1>1. IsFiniteSet(Users) /\ IsFiniteSet(Devices) /\ IsFiniteSet(req)
  BY PeopleAssumption DEF TypeOK, RequestsTyped
<1>2. InQuota \subseteq Users
  BY DEF InQuota, Active
<1>3. Joining \subseteq req
  BY DEF Joining
<1>4. \A web \in BOOLEAN : Live(web) \subseteq Devices
  BY DEF Live
<1>5. \A kind \in {"desktop", "web"} : NewDevices(kind) \subseteq req
  BY DEF NewDevices
<1>6. IsFiniteSet(InQuota) /\ Cardinality(InQuota) \in Nat
  BY <1>1, <1>2, AtMostAsMany
<1>11. IsFiniteSet(Coming) /\ Cardinality(Coming) \in Nat /\ Cardinality(Coming) <= Cardinality(req)
  BY ComingFew
<1>12. Cardinality(req) \in Nat
  BY <1>1, FS_CardinalityType
<1>7. /\ IsFiniteSet(InQuota \cup Coming) /\ Cardinality(InQuota \cup Coming) \in Nat
      /\ Cardinality(InQuota) <= Cardinality(InQuota \cup Coming)
      /\ Cardinality(InQuota \cup Coming) <= Cardinality(InQuota) + Cardinality(req)
      /\ Cardinality(req) \in Nat
  BY <1>6, <1>11, <1>12, UnionAtMost
<1>8. /\ IsFiniteSet(Joining) /\ Cardinality(Joining) \in Nat
      /\ Cardinality(Joining) <= Cardinality(req)
  BY <1>1, <1>3, AtMostAsMany
<1>9. ASSUME NEW web \in BOOLEAN PROVE IsFiniteSet(Live(web)) /\ Cardinality(Live(web)) \in Nat
  BY <1>1, <1>4, AtMostAsMany
<1>10. ASSUME NEW kind \in {"desktop", "web"}
       PROVE  /\ IsFiniteSet(NewDevices(kind)) /\ Cardinality(NewDevices(kind)) \in Nat
              /\ Cardinality(NewDevices(kind)) <= Cardinality(req)
  BY <1>1, <1>5, AtMostAsMany
<1> QED
  BY <1>6, <1>7, <1>8, <1>9, <1>10 DEF Sized, TypeOK, RequestsTyped

LEMMA SizesNext == TypeOK' => Sized'
  BY Sizes, PTL

LEMMA QuotaStep == ASSUME TypeOK, QuotaHeld, PeopleStep PROVE QuotaHeld'
<1> DEFINE Goal == Cardinality((InQuota \cup Coming)') <= UserLimit + scenario.open - 1
<1>0. /\ Part("people") /\ scenario' = scenario /\ req \subseteq UserRequests
      /\ scenario.users \subseteq Users /\ scenario.open \in Nat \ {0} /\ UserLimit \in Nat
      /\ TypeOK' /\ Coming = {r.user : r \in Counting}
      /\ Coming' = {r.user : r \in Counting'}
      /\ Counting' = {r \in req' : WillCount(r)'}
      /\ staff \in [Users -> StaffRows] /\ \A r \in req : r.user \in Users
  <2>1. Part("people") /\ scenario' = scenario
    BY DEF PeopleStep, BeginUser, CommitUser, SetPin, SetRole, Deactivate, Activate,
           AskMark, SetActive, Change, SetWaiter
  <2>2. TypeOK'
    BY TypeNext DEF Next
  <2>3. req \subseteq UserRequests /\ \A r \in req : r.user \in Users
    BY <2>1 DEF TypeOK, RequestsTyped, UserRequests
  <2> QED
    BY <2>1, <2>2, <2>3, ScenarioTyped, LimitAssumption DEF TypeOK, Coming, Counting, Part
<1> SUFFICES ASSUME ~scenario.demote PROVE Goal
  BY <1>0 DEF QuotaHeld
<1>1. Cardinality(InQuota \cup Coming) <= UserLimit + scenario.open - 1
  BY DEF QuotaHeld
<1>2. /\ IsFiniteSet(InQuota \cup Coming) /\ Cardinality(InQuota \cup Coming) \in Nat
      /\ Cardinality(InQuota) \in Nat
  BY Sizes DEF Sized
<1>3. /\ Cardinality((InQuota \cup Coming)') \in Nat
      /\ Cardinality((InQuota \cup Coming)') <= Cardinality(InQuota') + Cardinality(req')
      /\ Cardinality(req') \in Nat /\ Cardinality(req') <= scenario.open
  BY <1>0, SizesNext DEF Sized
<1>4. ASSUME InQuota' \subseteq InQuota \cup Coming, Coming' \subseteq InQuota \cup Coming
      PROVE  Goal
  <2>1. Cardinality(InQuota' \cup Coming') <= Cardinality(InQuota \cup Coming)
    BY <1>2, <1>4, AtMostAsMany
  <2> QED
    BY <1>0, <1>1, <1>2, <1>3, <2>1
<1>5. ASSUME InQuota' = InQuota, HasQuota PROVE Goal
  <2>1. Cardinality(InQuota) <= UserLimit - 1
    BY <1>0, <1>2, <1>5 DEF HasQuota
  <2> QED
    BY <1>0, <1>2, <1>3, <1>5, <2>1
<1>6. ASSUME NEW u \in Users, NEW role \in Roles, NEW pin \in SomePin,
             BeginUser(u, role, pin)
      PROVE  Goal
  <2> DEFINE r == [kind |-> "create", user |-> u, role |-> role, pin |-> pin]
  <2>1. req' = req \cup {r} /\ staff' = staff /\ (HasQuota \/ role \notin Counted)
    BY <1>6 DEF BeginUser, people
  <2>2. InQuota' = InQuota
    BY <2>1 DEF InQuota, Active
  <2>3. CASE role \notin Counted
    <3>1. Counting' \subseteq Counting
      BY <1>0, <2>1, <2>3 DEF Counting, WillCount
    <3> QED
      BY <1>0, <1>4, <2>2, <3>1
  <2> QED
    BY <1>5, <2>1, <2>2, <2>3
<1>7. ASSUME NEW u \in Users, Deactivate(u) \/ Activate(u) PROVE Goal
  <2>1. PICK r \in UserRequests :
           /\ r.user = u /\ req' = req \cup {r} /\ UNCHANGED people
           /\ r.kind = "off" \/ (r.kind = "on" /\ (staff[u].active \/ HasQuota))
    BY <1>7, MarkAsked DEF Deactivate, Activate
  <2>2. InQuota' = InQuota
    BY <2>1 DEF InQuota, Active, people
  <2>3. CASE r.kind = "off" \/ staff[u].active
    <3>1. ASSUME NEW x \in Counting' PROVE x.user \in InQuota \cup Coming
      <4>1. x \in req \cup {r} /\ WillCount(x)
        BY <1>0, <2>1, <3>1 DEF WillCount, people
      <4>2. CASE x \in req
        BY <1>0, <4>1, <4>2 DEF Counting
      <4>3. CASE x = r
        BY <2>1, <2>3, <4>1, <4>3 DEF WillCount, InQuota, Active
      <4> QED
        BY <4>1, <4>2, <4>3
    <3> QED
      BY <1>0, <1>4, <2>2, <3>1
  <2> QED
    BY <1>5, <2>1, <2>2, <2>3
<1>8. ASSUME NEW r \in req, CommitUser(r) PROVE Goal
  <2> DEFINE row == RowOf(r, staff[r.user])
  <2>1. /\ staff' = [staff EXCEPT ![r.user] = row] /\ req' = req \ {r}
        /\ r \in UserRequests /\ r.user \in Users /\ staff[r.user] \in StaffRows
    BY <1>8, CommitFacts
  <2>2. /\ r.kind = "create" => row.role = r.role /\ row.active
        /\ r.kind # "create" => row.role = staff[r.user].role /\ (row.active <=> r.kind = "on")
        /\ r.kind \in {"create", "on", "off"}
    BY <2>1, RowTyped DEF UserRequests
  <2> HIDE DEF row
  <2>3. staff'[r.user] = row /\ \A v \in Users : v # r.user => staff'[v] = staff[v]
    BY <1>0, <2>1
  <2>4. ASSUME row.role \in Counted, row.active PROVE r.user \in InQuota \cup Coming
    BY <1>0, <2>1, <2>2, <2>4 DEF Counting, WillCount
  <2>5. InQuota' \subseteq InQuota \cup Coming
    BY <2>1, <2>3, <2>4 DEF InQuota, Active
  <2>6. ASSUME NEW x \in Counting' PROVE x.user \in InQuota \cup Coming
    <3>1. x \in req /\ WillCount(x)' /\ x.user \in Users
      BY <1>0, <2>1, <2>6
    <3>2. CASE WillCount(x)
      BY <1>0, <3>1, <3>2 DEF Counting
    <3>3. CASE ~WillCount(x)
      <4>1. /\ x.kind = "on" /\ staff'[x.user].role \in Counted
            /\ staff[x.user].role \notin Counted
        BY <3>1, <3>3 DEF WillCount
      <4>2. x.user = r.user /\ row.role \in Counted /\ r.kind = "create"
        BY <2>2, <2>3, <3>1, <4>1
      <4> QED
        BY <2>2, <2>4, <4>2
    <3> QED
      BY <3>2, <3>3
  <2> QED
    BY <1>0, <1>4, <2>5, <2>6
<1>9. ASSUME NEW u \in Users, NEW pin \in SomePin, SetPin(u, pin) PROVE Goal
  <2>1. staff' = [staff EXCEPT ![u] = [staff[u] EXCEPT !.pin = pin]] /\ req' = req
    BY <1>9 DEF SetPin, Change
  <2>2. /\ [staff[u] EXCEPT !.pin = pin].role = staff[u].role
        /\ [staff[u] EXCEPT !.pin = pin].active = staff[u].active
    BY <1>0 DEF StaffRows
  <2>3. \A v \in Users : staff'[v].role = staff[v].role /\ staff'[v].active = staff[v].active
    BY <1>0, <2>1, <2>2
  <2>4. InQuota' \subseteq InQuota
    BY <2>3 DEF InQuota, Active
  <2>5. Counting' \subseteq Counting
    BY <1>0, <2>1, <2>3 DEF Counting, WillCount
  <2> QED
    BY <1>0, <1>4, <2>4, <2>5
<1>10. ASSUME NEW w, NEW active, NEW pin, SetWaiter(w, active, pin) PROVE Goal
  <2>1. staff' = staff /\ req' = req
    BY <1>10 DEF SetWaiter
  <2>2. InQuota' \subseteq InQuota /\ Counting' \subseteq Counting
    BY <1>0, <2>1 DEF InQuota, Active, Counting, WillCount
  <2> QED
    BY <1>0, <1>4, <2>2
<1>11. \A u : ~SetRole(u, "CAJERO") /\ ~SetActive(u)
  BY DEF SetRole, SetActive
<1> QED
  BY <1>0, <1>6, <1>7, <1>8, <1>9, <1>10, <1>11 DEF PeopleStep

\* Devices of one kind.
LEMMA KindStep ==
    ASSUME TypeOK, DeviceStep, ~scenario.revive, NEW web \in BOOLEAN,
           NEW kind \in {"desktop", "web"}, web <=> kind = "web",
           NEW before \in Nat, before = IF web THEN pos.maxWeb ELSE pos.max,
           NEW after \in Nat, after = IF web THEN pos'.maxWeb ELSE pos'.max,
           Cardinality(Live(web)) + Cardinality(NewDevices(kind))
              <= before + scenario.open - 1
    PROVE  Cardinality(Live(web)') + Cardinality(NewDevices(kind)')
              <= after + scenario.open - 1
<1>0. /\ Part("devices") /\ scenario' = scenario /\ req \subseteq DeviceRequests
      /\ dev \in [Devices -> DeviceRows] /\ pos.max \in Nat /\ pos.maxWeb \in Nat
      /\ scenario.open \in Nat \ {0} /\ TypeOK'
      /\ NewDevices(kind) = {r \in req : r.kind = kind}
      /\ NewDevices(kind)' = {r \in req' : r.kind = kind}
  <2>1. Part("devices") /\ scenario' = scenario
    BY DEF DeviceStep, LoginDevice, RegisterWeb, Ask, WriteDevice, UpdateDevice, RevokeWeb,
           SetLimits
  <2>2. TypeOK'
    BY TypeNext DEF Next
  <2> QED
    BY <2>1, <2>2, ScenarioTyped DEF TypeOK, RequestsTyped, NewDevices, Part
<1>1. /\ scenario.open \in Nat /\ ~scenario.revive
      /\ NewDevices(kind) = {r \in req : r.kind = kind}
      /\ NewDevices(kind)' = {r \in req' : r.kind = kind}
  BY <1>0
<1>3. /\ IsFiniteSet(Live(web)) /\ Cardinality(Live(web)) \in Nat
      /\ IsFiniteSet(NewDevices(kind)) /\ Cardinality(NewDevices(kind)) \in Nat
      /\ Cardinality(req) \in Nat
  BY Sizes DEF Sized
<1>4. /\ Cardinality(Live(web)') \in Nat /\ Cardinality(NewDevices(kind)') \in Nat
      /\ Cardinality(NewDevices(kind)') <= Cardinality(req') /\ Cardinality(req') \in Nat
      /\ Cardinality(req') <= scenario.open
  BY <1>0, SizesNext DEF Sized
<1> DEFINE Bounded == Cardinality(Live(web)') + Cardinality(NewDevices(kind)')
                         <= after + scenario.open - 1
<1>5. ASSUME Live(web)' \subseteq Live(web),
             NewDevices(kind)' \subseteq NewDevices(kind),
             before <= after
      PROVE  Bounded
  <2>1. Cardinality(Live(web)') <= Cardinality(Live(web))
    BY <1>3, <1>5, AtMostAsMany
  <2>2. Cardinality(NewDevices(kind)') <= Cardinality(NewDevices(kind))
    BY <1>3, <1>5, AtMostAsMany
  <2>3. Cardinality(Live(web)') + Cardinality(NewDevices(kind)')
           <= Cardinality(Live(web)) + Cardinality(NewDevices(kind))
    BY <1>3, <1>4, <2>1, <2>2
  <2>4. before + scenario.open - 1 <= after + scenario.open - 1
    BY <1>1, <1>5
  <2> QED
    BY <1>1, <1>3, <1>4, <2>3, <2>4
<1>6. ASSUME NEW d \in Devices, NEW other, Ask(other, d), other # kind
      PROVE  Bounded
  <2>1. req' = req \cup {[kind |-> other, dev |-> d]} /\ dev' = dev /\ pos' = pos
    BY <1>6 DEF Ask, devices
  <2>2. NewDevices(kind)' \subseteq NewDevices(kind)
    BY <1>1, <1>6, <2>1
  <2>3. Live(web)' \subseteq Live(web)
    BY <2>1 DEF Live
  <2> QED
    BY <1>5, <2>1, <2>2, <2>3
<1>7. ASSUME NEW d \in Devices, Ask(kind, d), Cardinality(Live(web)) < before
      PROVE  Bounded
  <2>1. dev' = dev /\ pos' = pos
    BY <1>7 DEF Ask, devices
  <2>2. Live(web)' = Live(web)
    BY <2>1 DEF Live
  <2> QED
    BY <1>1, <1>3, <1>4, <1>7, <2>1, <2>2
<1>8. ASSUME NEW d \in Devices, LoginDevice(d) \/ RegisterWeb(d) PROVE Bounded
  <2>1. CASE Ask("seen", d)
    BY <1>6, <2>1
  <2>2. CASE Ask("desktop", d) /\ Cardinality(Live(FALSE)) < pos.max
    BY <1>6, <1>7, <2>2
  <2>3. CASE Ask("web", d) /\ Cardinality(Live(TRUE)) < pos.maxWeb
    BY <1>6, <1>7, <2>3
  <2> QED
    BY <1>8, <2>1, <2>2, <2>3 DEF LoginDevice, RegisterWeb
<1>9. ASSUME NEW r \in req, WriteDevice(r) PROVE Bounded
  <2>1. PICK held \in BOOLEAN :
           dev' = [dev EXCEPT ![r.dev] =
                     IF r.kind = "seen" THEN dev[r.dev]
                     ELSE IF dev[r.dev].status # None THEN dev[r.dev]
                     ELSE [status |-> "ACTIVE", web |-> r.kind = "web",
                           held |-> held /\ r.kind = "web"]]
    BY <1>9 DEF WriteDevice, Seen
  <2>2. req' = req \ {r} /\ pos' = pos /\ r.kind \in {"seen", "desktop", "web"}
        /\ r.dev \in Devices
    BY <1>0, <1>9 DEF WriteDevice, DeviceRequests
  <2>3. CASE r.kind # kind
    <3>1. Live(web)' \subseteq Live(web)
      BY <1>0, <2>1, <2>2, <2>3 DEF Live
    <3>2. NewDevices(kind)' \subseteq NewDevices(kind)
      BY <1>1, <2>2
    <3> QED
      BY <1>5, <2>2, <3>1, <3>2
  <2>4. CASE r.kind = kind
    <3>1. Live(web)' \subseteq Live(web) \cup {r.dev}
      BY <1>0, <2>1, <2>2 DEF Live
    <3>2. Cardinality(Live(web)') <= Cardinality(Live(web)) + 1
      BY <1>3, <3>1, AtMostOneMore
    <3>3. r \in NewDevices(kind)
          /\ NewDevices(kind)' \subseteq NewDevices(kind) \ {r}
      BY <1>1, <2>2, <2>4
    <3>4. Cardinality(NewDevices(kind)') + 1 <= Cardinality(NewDevices(kind))
      BY <1>3, <3>3, OneLess
    <3> QED
      BY <1>1, <1>3, <1>4, <2>2, <3>2, <3>4
  <2> QED
    BY <2>3, <2>4
<1>10. ASSUME NEW d \in Devices, NEW status \in {"ACTIVE", "REVOKED"},
              RevokeWeb(d) \/ UpdateDevice(d, status)
       PROVE  Bounded
  <2>1. dev' = [dev EXCEPT ![d].status = "REVOKED"] /\ pos' = pos /\ req' = req
    BY <1>10 DEF RevokeWeb, UpdateDevice
  <2>2. [dev[d] EXCEPT !.status = "REVOKED"].status = "REVOKED"
    BY <1>0 DEF DeviceRows
  <2>3. Live(web)' \subseteq Live(web)
    BY <1>0, <2>1, <2>2 DEF Live
  <2>4. NewDevices(kind)' \subseteq NewDevices(kind)
    BY <1>1, <2>1
  <2> QED
    BY <1>5, <2>1, <2>3, <2>4
<1>11. ASSUME NEW m \in 0 .. Limit, NEW w \in 0 .. Limit, NEW b, SetLimits(m, w, b)
       PROVE  Bounded
  <2>1. /\ dev' = dev /\ req' = req /\ pos' = [max |-> m, maxWeb |-> w, billing |-> b]
        /\ ~(m < pos.max) /\ ~(w < pos.maxWeb) /\ m \in Nat /\ w \in Nat
    BY <1>11, LimitAssumption DEF SetLimits
  <2>2. Live(web)' \subseteq Live(web) /\ NewDevices(kind)' \subseteq NewDevices(kind)
    BY <1>1, <2>1 DEF Live
  <2>3. before <= after
    BY <1>0, <2>1
  <2> QED
    BY <1>5, <2>2, <2>3
<1> QED
  BY <1>8, <1>9, <1>10, <1>11 DEF DeviceStep

LEMMA DevicesStep == ASSUME TypeOK, DevicesHeld, DeviceStep PROVE DevicesHeld'
<1>1. SUFFICES ASSUME ~scenario.revive
               PROVE  /\ Cardinality(Live(FALSE)') + Cardinality(NewDevices("desktop")')
                            <= pos'.max + scenario.open - 1
                      /\ Cardinality(Live(TRUE)') + Cardinality(NewDevices("web")')
                            <= pos'.maxWeb + scenario.open - 1
  BY PartsApart DEF DevicesHeld, Next
<1>2. /\ pos.max \in Nat /\ pos.maxWeb \in Nat /\ pos'.max \in Nat /\ pos'.maxWeb \in Nat
  BY TypeNext DEF TypeOK, Next
<1>3. Cardinality(Live(FALSE)') + Cardinality(NewDevices("desktop")')
         <= pos'.max + scenario.open - 1
  BY <1>1, <1>2, KindStep DEF DevicesHeld
<1>4. Cardinality(Live(TRUE)') + Cardinality(NewDevices("web")')
         <= pos'.maxWeb + scenario.open - 1
  BY <1>1, <1>2, KindStep DEF DevicesHeld
<1> QED
  BY <1>3, <1>4

LEMMA CodeStep == ASSUME TypeOK, CodeHeld, InviteStep PROVE CodeHeld'
<1>0. /\ Part("invites") /\ scenario' = scenario /\ Limit \in Nat
      /\ scenario.open \in Nat \ {0} /\ TypeOK' /\ code.used \in Nat
      /\ Joining = req /\ Joining' = req'
      /\ code = [used |-> code.used, active |-> code.active]
  <2>1. Part("invites") /\ scenario' = scenario
    BY DEF InviteStep, BeginJoin, LeaveRider, CommitJoin, ToggleCode
  <2>2. TypeOK'
    BY TypeNext DEF Next
  <2> QED
    BY <2>1, <2>2, ScenarioTyped, LimitAssumption DEF TypeOK, Joining, Part
<1>1. code.used + Cardinality(req) <= Limit + scenario.open - 1
  BY <1>0 DEF CodeHeld
<1>2. IsFiniteSet(req) /\ Cardinality(req) \in Nat
  BY <1>0, Sizes DEF Sized
<1>3. Cardinality(req') \in Nat /\ Cardinality(req') <= scenario.open
  BY <1>0, SizesNext DEF Sized
<1>4. SUFFICES code'.used + Cardinality(req') <= Limit + scenario.open - 1
  BY <1>0 DEF CodeHeld
<1>5. ASSUME NEW u, BeginJoin(u)
      PROVE  code'.used + Cardinality(req') <= Limit + scenario.open - 1
  <2>1. code' = code /\ code.used < Limit
    BY <1>5 DEF BeginJoin, CodeOpen, invites
  <2> QED
    BY <1>0, <1>3, <2>1
<1>6. ASSUME NEW u \in req, CommitJoin(u)
      PROVE  code'.used + Cardinality(req') <= Limit + scenario.open - 1
  <2>1. code' = [code EXCEPT !.used = @ + 1] /\ req' = req \ {u}
    BY <1>6 DEF CommitJoin
  <2>2. code'.used = code.used + 1
    BY <1>0, <2>1
  <2>3. Cardinality(req') + 1 <= Cardinality(req)
    BY <1>2, <2>1, OneLess
  <2> QED
    BY <1>0, <1>1, <1>2, <1>3, <2>2, <2>3
<1>7. ASSUME NEW u, LeaveRider(u)
      PROVE  code'.used + Cardinality(req') <= Limit + scenario.open - 1
  BY <1>1, <1>7 DEF LeaveRider
<1>8. CASE ToggleCode
  <2>1. code' = [code EXCEPT !.active = ~@] /\ req' = req
    BY <1>8 DEF ToggleCode
  <2>2. code'.used = code.used
    BY <1>0, <2>1
  <2> QED
    BY <1>1, <2>1, <2>2
<1> QED
  BY <1>5, <1>6, <1>7, <1>8 DEF InviteStep

-----------------------------------------------------------------------------
(***************************************************************************)
(* An ENCARGADO and one owner of a PIN.                                    *)
(***************************************************************************)
\* Users that open requests create are not there yet.
FreshHeld == Part("people") => \A r \in req : r.kind = "create" => staff[r.user].role = None

\* One request at a time: an ENCARGADO stays when the open one is written.
BossHeld ==
    Part("people") /\ ~scenario.demote /\ scenario.open = 1 =>
       /\ Bosses # {} /\ \A r, s \in req : r = s
       /\ \A r \in req : r.kind = "off" => Bosses \ {r.user} # {}

\* One request at a time, nobody brought back: an active waiter has a PIN, and the open
\* request has one that is still free.
PinHeld ==
    Part("people") /\ ~scenario.demote /\ ~scenario.revive /\ scenario.open = 1 =>
       /\ PinUnique
       /\ \A w \in Waiters : waiter[w].active => waiter[w].pin # None
       /\ \A r \in req : /\ r.kind = "create" => PinFree(r.pin, r.user)
                         /\ r.kind # "on"

\* Two open requests do not create one user.
Apart ==
    Part("people") =>
       \A r, s \in req : r.kind = "create" /\ s.kind = "create" /\ r.user = s.user => r = s

LEMMA FreshStep ==
    ASSUME TypeOK, FreshHeld, Apart, PeopleStep
    PROVE  FreshHeld' /\ Apart'
<1> DEFINE Goal ==
              /\ \A r \in req' : r.kind = "create" => staff'[r.user].role = None
              /\ \A r, s \in req' :
                    r.kind = "create" /\ s.kind = "create" /\ r.user = s.user => r = s
<1>0. /\ Part("people") /\ scenario' = scenario /\ req \subseteq UserRequests
      /\ scenario.users \subseteq Users /\ staff \in [Users -> StaffRows]
  <2>1. Part("people") /\ scenario' = scenario
    BY DEF PeopleStep, BeginUser, CommitUser, SetPin, SetRole, Deactivate, Activate,
           AskMark, SetActive, Change, SetWaiter
  <2> QED
    BY <2>1, ScenarioTyped DEF TypeOK, RequestsTyped
<1>1. /\ \A r \in req : r.kind = "create" => staff[r.user].role = None
      /\ \A r \in req : r.user \in Users
      /\ \A r, s \in req : r.kind = "create" /\ s.kind = "create" /\ r.user = s.user => r = s
  BY <1>0 DEF FreshHeld, Apart, UserRequests
<1>2. SUFFICES Goal
  BY <1>0 DEF FreshHeld, Apart
<1>3. ASSUME NEW u, NEW role, NEW pin, BeginUser(u, role, pin) PROVE Goal
  <2> DEFINE r == [kind |-> "create", user |-> u, role |-> role, pin |-> pin]
  <2>1. /\ req' = req \cup {r} /\ staff' = staff /\ r.user = u
        /\ staff[u].role = None /\ \A x \in req : x.user # u
    BY <1>3 DEF BeginUser, people
  <2> HIDE DEF r
  <2> QED
    BY <1>1, <2>1
<1>4. ASSUME NEW r \in req, CommitUser(r) PROVE Goal
  <2> DEFINE row == RowOf(r, staff[r.user])
  <2>1. /\ staff' = [staff EXCEPT ![r.user] = row] /\ req' = req \ {r}
        /\ r \in UserRequests /\ r.user \in Users /\ staff[r.user] \in StaffRows
    BY <1>4, CommitFacts
  <2>2. r.kind # "create" => row.role = staff[r.user].role
    BY <2>1, RowTyped
  <2> HIDE DEF row
  <2>3. staff'[r.user] = row /\ \A v \in Users : v # r.user => staff'[v] = staff[v]
    BY <1>0, <2>1
  <2>4. ASSUME NEW x \in req', x.kind = "create" PROVE staff'[x.user].role = None
    <3>1. x \in req /\ x # r /\ x.user \in Users /\ staff[x.user].role = None
      BY <1>1, <2>1, <2>4
    <3>2. CASE x.user = r.user
      BY <1>1, <2>2, <2>3, <2>4, <3>1, <3>2
    <3>3. CASE x.user # r.user
      BY <2>3, <3>1, <3>3
    <3> QED
      BY <3>2, <3>3
  <2> QED
    BY <1>1, <2>1, <2>4
<1>5. ASSUME NEW u \in Users, NEW x, Change(u, x) PROVE Goal
  <2>1. staff' = [staff EXCEPT ![u] = x] /\ req' = req /\ staff[u].role # None
    BY <1>5 DEF Change
  <2> QED
    BY <1>0, <1>1, <2>1
<1>6. ASSUME NEW u \in Users, NEW pin, SetPin(u, pin) \/ SetRole(u, "CAJERO") \/ SetActive(u)
      PROVE  Goal
  BY <1>5, <1>6 DEF SetPin, SetRole, SetActive
<1>7. ASSUME NEW u \in Users, Deactivate(u) \/ Activate(u) PROVE Goal
  <2>1. PICK r \in UserRequests :
           r.kind \in {"on", "off"} /\ req' = req \cup {r} /\ UNCHANGED people
    BY <1>7, MarkAsked DEF Deactivate, Activate
  <2> QED
    BY <1>1, <2>1 DEF people
<1>8. ASSUME NEW w, NEW active, NEW pin, SetWaiter(w, active, pin) PROVE Goal
  BY <1>1, <1>8 DEF SetWaiter
<1> QED
  BY <1>0, <1>3, <1>4, <1>6, <1>7, <1>8 DEF PeopleStep

LEMMA BossStep == ASSUME TypeOK, FreshHeld, BossHeld, PeopleStep PROVE BossHeld'
<1> DEFINE Goal == /\ Bosses' # {} /\ \A r, s \in req' : r = s
                   /\ \A r \in req' : r.kind = "off" => Bosses' \ {r.user} # {}
<1>0. /\ Part("people") /\ scenario' = scenario /\ req \subseteq UserRequests
      /\ scenario.users \subseteq Users /\ staff \in [Users -> StaffRows]
  <2>1. Part("people") /\ scenario' = scenario
    BY DEF PeopleStep, BeginUser, CommitUser, SetPin, SetRole, Deactivate, Activate,
           AskMark, SetActive, Change, SetWaiter
  <2> QED
    BY <2>1, ScenarioTyped DEF TypeOK, RequestsTyped
<1>1. SUFFICES ASSUME ~scenario.demote, scenario.open = 1 PROVE Goal
  BY <1>0 DEF BossHeld
<1>2. /\ Bosses # {} /\ \A r, s \in req : r = s
      /\ \A r \in req : r.kind = "off" => Bosses \ {r.user} # {}
  BY <1>0, <1>1 DEF BossHeld
<1>3. PICK boss \in Bosses : TRUE
  BY <1>2
<1>4. \A b \in Bosses : b \in Users /\ staff[b].active /\ staff[b].role = "ENCARGADO"
  BY DEF Bosses, Active
<1>5. ASSUME NEW b \in Users, staff'[b].active, staff'[b].role = "ENCARGADO"
      PROVE  b \in Bosses'
  BY <1>5 DEF Bosses, Active
<1>6. ASSUME Opening PROVE req = {}
  BY <1>1, <1>2, <1>6, NoneOpen
<1>7. ASSUME staff' = staff PROVE Bosses' = Bosses
  BY <1>7 DEF Bosses, Active
<1>8. ASSUME NEW r \in req, CommitUser(r) PROVE Goal
  <2> DEFINE row == RowOf(r, staff[r.user])
  <2>1. /\ staff' = [staff EXCEPT ![r.user] = row] /\ req' = {}
        /\ r \in UserRequests /\ r.user \in Users /\ staff[r.user] \in StaffRows
    BY <1>2, <1>8, CommitFacts
  <2>2. /\ r.kind # "create" => row.role = staff[r.user].role /\ (row.active <=> r.kind = "on")
        /\ r.kind \in {"create", "on", "off"}
    BY <2>1, RowTyped DEF UserRequests
  <2> HIDE DEF row
  <2>3. staff'[r.user] = row /\ \A v \in Users : v # r.user => staff'[v] = staff[v]
    BY <1>0, <2>1
  <2>4. CASE r.kind = "create"
    <3>1. staff[r.user].role = None
      BY <1>0, <2>4 DEF FreshHeld
    <3>2. boss # r.user
      BY <1>3, <1>4, <3>1 DEF None
    <3> QED
      BY <1>3, <1>4, <1>5, <2>1, <2>3, <3>2
  <2>5. CASE r.kind = "on"
    BY <1>3, <1>4, <1>5, <2>1, <2>2, <2>3, <2>5
  <2>6. CASE r.kind = "off"
    <3>1. PICK b \in Bosses : b # r.user
      BY <1>2, <2>6
    <3> QED
      BY <1>4, <1>5, <2>1, <2>3, <3>1
  <2> QED
    BY <2>2, <2>4, <2>5, <2>6
<1>9. ASSUME NEW u \in Users, NEW pin, SetPin(u, pin) PROVE Goal
  <2>1. staff' = [staff EXCEPT ![u] = [staff[u] EXCEPT !.pin = pin]] /\ req = {} /\ req' = req
    BY <1>6, <1>9 DEF SetPin, Change
  <2>2. /\ [staff[u] EXCEPT !.pin = pin].role = staff[u].role
        /\ [staff[u] EXCEPT !.pin = pin].active = staff[u].active
    BY <1>0 DEF StaffRows
  <2> QED
    BY <1>0, <1>3, <1>4, <1>5, <2>1, <2>2
<1>10. ASSUME NEW u \in Users, Deactivate(u) PROVE Goal
  <2>1. PICK r \in UserRequests : r.user = u /\ req' = req \cup {r} /\ Opening /\ UNCHANGED people
    BY <1>10, MarkAsked DEF Deactivate
  <2>2. Bosses \ {u} # {}
    BY <1>3, <1>4, <1>10 DEF Deactivate, OtherBoss
  <2>3. req' = {r} /\ Bosses' = Bosses
    BY <1>6, <1>7, <2>1 DEF people
  <2> QED
    BY <1>3, <2>1, <2>2, <2>3
<1>11. ASSUME NEW u \in Users, Activate(u) PROVE Goal
  <2>1. PICK r \in UserRequests :
           r.kind = "on" /\ req' = req \cup {r} /\ Opening /\ UNCHANGED people
    BY <1>11, MarkAsked DEF Activate
  <2>3. req' = {r} /\ Bosses' = Bosses
    BY <1>6, <1>7, <2>1 DEF people
  <2> QED
    BY <1>3, <2>1, <2>3
<1>12. ASSUME NEW u, NEW role, NEW pin, BeginUser(u, role, pin) PROVE Goal
  <2> DEFINE r == [kind |-> "create", user |-> u, role |-> role, pin |-> pin]
  <2>1. req' = req \cup {r} /\ Opening /\ staff' = staff /\ r.kind = "create"
    BY <1>12 DEF BeginUser, people
  <2> HIDE DEF r
  <2>3. req' = {r} /\ Bosses' = Bosses
    BY <1>6, <1>7, <2>1
  <2> QED
    BY <1>3, <2>1, <2>3
<1>13. \A u : ~SetRole(u, "CAJERO") /\ ~SetActive(u)
  BY <1>1 DEF SetRole, SetActive
<1>14. ASSUME NEW w, NEW active, NEW pin, SetWaiter(w, active, pin) PROVE Goal
  <2>1. staff' = staff /\ req' = req /\ Opening
    BY <1>14 DEF SetWaiter
  <2> QED
    BY <1>3, <1>6, <1>7, <2>1
<1> QED
  BY <1>0, <1>8, <1>9, <1>10, <1>11, <1>12, <1>13, <1>14 DEF PeopleStep

\* PinFree, one owner at a time.
LEMMA FreeMeans ==
    ASSUME NEW me, NEW pin, PinFree(pin, me), pin # None
    PROVE  /\ \A v \in Users : staff[v].active /\ v # me => staff[v].pin # pin
           /\ \A w \in Waiters : waiter[w].active /\ w # me => waiter[w].pin # pin
<1>1. pin \notin Taken(me)
  BY DEF PinFree
<1>2. ASSUME NEW v \in Users, staff[v].active, v # me PROVE staff[v].pin # pin
  BY <1>1, <1>2 DEF Taken, TakenByUsers, Active
<1>3. ASSUME NEW w \in Waiters, waiter[w].active, w # me PROVE waiter[w].pin # pin
  BY <1>1, <1>3 DEF Taken
<1> QED
  BY <1>2, <1>3

\* A user gets a row whose PIN is free.
LEMMA UserGetsPin ==
    ASSUME TypeOK, PinUnique, \A w \in Waiters : waiter[w].active => waiter[w].pin # None,
           NEW u \in Users, NEW x \in StaffRows, PinFree(x.pin, u),
           staff' = [staff EXCEPT ![u] = x], waiter' = waiter
    PROVE  PinUnique'
<1>1. /\ staff \in [Users -> StaffRows] /\ Users \cap Waiters = {}
      /\ staff'[u] = x /\ \A v \in Users \ {u} : staff'[v] = staff[v]
  BY PeopleAssumption DEF TypeOK
<1>2. x.pin # None =>
         /\ \A v \in Users : staff[v].active /\ v # u => staff[v].pin # x.pin
         /\ \A w \in Waiters : waiter[w].active /\ w # u => waiter[w].pin # x.pin
  BY FreeMeans
<1>3. ASSUME NEW a \in Users, NEW b \in Users, staff'[a].active, staff'[b].active, a # b,
             staff'[a].pin # None
      PROVE  staff'[a].pin # staff'[b].pin
  <2>1. CASE a = u
    BY <1>1, <1>2, <1>3, <2>1
  <2>2. CASE b = u
    BY <1>1, <1>2, <1>3, <2>2
  <2>3. CASE a # u /\ b # u
    BY <1>1, <1>3, <2>3 DEF PinUnique, Active
  <2> QED
    BY <2>1, <2>2, <2>3
<1>4. ASSUME NEW a \in Users, NEW w \in Waiters, staff'[a].active, waiter[w].active
      PROVE  staff'[a].pin # waiter[w].pin
  <2>1. CASE a = u
    BY <1>1, <1>2, <1>4, <2>1
  <2>2. CASE a # u
    BY <1>1, <1>4, <2>2 DEF PinUnique, Active
  <2> QED
    BY <2>1, <2>2
<1>5. ASSUME NEW w \in Waiters, NEW y \in Waiters, w # y, waiter[w].active, waiter[y].active
      PROVE  waiter[w].pin # waiter[y].pin
  BY <1>5 DEF PinUnique
<1> QED
  BY <1>3, <1>4, <1>5 DEF PinUnique, Active

\* A waiter gets a PIN that is free, keeps its own, or is not active.
LEMMA WaiterGetsPin ==
    ASSUME TypeOK, PinUnique, NEW w \in Waiters, NEW x \in WaiterRows, x.pin # None,
           \/ PinFree(x.pin, w) \/ ~x.active
           \/ waiter[w].active /\ waiter[w].pin = x.pin,
           waiter' = [waiter EXCEPT ![w] = x], staff' = staff
    PROVE  PinUnique'
<1>1. /\ waiter \in [Waiters -> WaiterRows] /\ Users \cap Waiters = {}
      /\ waiter'[w] = x /\ \A v \in Waiters \ {w} : waiter'[v] = waiter[v]
  BY PeopleAssumption DEF TypeOK
<1>2. x.active =>
         /\ \A v \in Users : staff[v].active => staff[v].pin # x.pin
         /\ \A y \in Waiters : waiter[y].active /\ y # w => waiter[y].pin # x.pin
  <2>1. CASE PinFree(x.pin, w)
    BY <1>1, <2>1, FreeMeans
  <2>2. CASE waiter[w].active /\ waiter[w].pin = x.pin
    BY <2>2 DEF PinUnique, Active
  <2> QED
    BY <2>1, <2>2
<1>3. ASSUME NEW a \in Users, NEW y \in Waiters, staff[a].active, waiter'[y].active
      PROVE  staff[a].pin # waiter'[y].pin
  <2>1. CASE y = w
    BY <1>1, <1>2, <1>3, <2>1
  <2>2. CASE y # w
    BY <1>1, <1>3, <2>2 DEF PinUnique, Active
  <2> QED
    BY <2>1, <2>2
<1>4. ASSUME NEW y \in Waiters, NEW z \in Waiters, y # z, waiter'[y].active, waiter'[z].active
      PROVE  waiter'[y].pin # waiter'[z].pin
  <2>1. CASE y = w
    BY <1>1, <1>2, <1>4, <2>1
  <2>2. CASE z = w
    BY <1>1, <1>2, <1>4, <2>2
  <2>3. CASE y # w /\ z # w
    BY <1>1, <1>4, <2>3 DEF PinUnique
  <2> QED
    BY <2>1, <2>2, <2>3
<1>5. ASSUME NEW a \in Users, NEW b \in Users, staff[a].active, staff[b].active, a # b,
             staff[a].pin # None
      PROVE  staff[a].pin # staff[b].pin
  BY <1>5 DEF PinUnique, Active
<1> QED
  BY <1>3, <1>4, <1>5 DEF PinUnique, Active

LEMMA PinStep == ASSUME TypeOK, PinHeld, PeopleStep PROVE PinHeld'
<1>0. /\ Part("people") /\ scenario' = scenario /\ req \subseteq UserRequests
      /\ scenario.users \subseteq Users /\ scenario.waiters \subseteq Waiters
      /\ staff \in [Users -> StaffRows] /\ IsFiniteSet(req)
      /\ Cardinality(req) \in Nat /\ Cardinality(req) <= scenario.open
      /\ waiter \in [Waiters -> WaiterRows]
  <2>1. Part("people") /\ scenario' = scenario
    BY DEF PeopleStep, BeginUser, CommitUser, SetPin, SetRole, Deactivate, Activate,
           AskMark, SetActive, Change, SetWaiter
  <2> QED
    BY <2>1, ScenarioTyped, FS_CardinalityType DEF TypeOK, RequestsTyped
<1> DEFINE Goal == /\ PinUnique'
                   /\ \A w \in Waiters : waiter'[w].active => waiter'[w].pin # None
                   /\ \A r \in req' : /\ r.kind = "create" => PinFree(r.pin, r.user)'
                                      /\ r.kind # "on"
<1>1. SUFFICES ASSUME ~scenario.demote, ~scenario.revive, scenario.open = 1 PROVE Goal
  BY <1>0 DEF PinHeld
<1>2. /\ PinUnique /\ \A w \in Waiters : waiter[w].active => waiter[w].pin # None
      /\ \A r \in req : (r.kind = "create" => PinFree(r.pin, r.user)) /\ r.kind # "on"
  BY <1>0, <1>1 DEF PinHeld
<1>3. ASSUME Opening PROVE req = {}
  BY <1>0, <1>1, <1>3, FS_EmptySet DEF Opening
<1>4. ASSUME NEW u \in Users, NEW role, NEW pin, BeginUser(u, role, pin) PROVE Goal
  <2> DEFINE r == [kind |-> "create", user |-> u, role |-> role, pin |-> pin]
  <2>1. req = {} /\ req' = req \cup {r} /\ staff' = staff /\ waiter' = waiter
        /\ PinFree(pin, u)
    BY <1>3, <1>4 DEF BeginUser, people
  <2>2. PinUnique'
    BY <1>2, <2>1 DEF PinUnique, Active
  <2>3. PinFree(pin, u)'
    BY <2>1 DEF PinFree, Taken, TakenByUsers, Active
  <2> QED
    BY <1>2, <2>1, <2>2, <2>3
<1>5. ASSUME NEW r \in req, CommitUser(r) PROVE Goal
  <2> DEFINE x == RowOf(r, staff[r.user])
  <2>1. /\ staff' = [staff EXCEPT ![r.user] = x] /\ req' = req \ {r} /\ waiter' = waiter
        /\ r \in UserRequests /\ r.user \in Users /\ staff[r.user] \in StaffRows
    BY <1>5, CommitFacts
  <2>2. /\ x \in StaffRows
        /\ r.kind = "create" => x.pin = r.pin
        /\ r.kind # "create" => (x.active <=> r.kind = "on")
        /\ r.kind \in {"create", "on", "off"}
    BY <2>1, RowTyped DEF UserRequests
  <2> HIDE DEF x
  <2>3. ASSUME r.kind = "create" PROVE PinUnique'
    <3>1. PinFree(x.pin, r.user) /\ \A w \in Waiters : waiter[w].active => waiter[w].pin # None
      BY <1>2, <2>2, <2>3
    <3> QED
      BY <1>2, <2>1, <2>2, <3>1, UserGetsPin
  <2>5. ASSUME r.kind = "off" PROVE PinUnique'
    <3>1. /\ Active' \subseteq Active
          /\ \A v \in Active' : staff'[v] = staff[v]
      BY <1>0, <2>1, <2>2, <2>5 DEF Active
    <3>2. PinUnique
      BY <1>2
    <3> QED
      BY <2>1, <3>1, <3>2 DEF PinUnique
  <2>6. PinUnique'
    BY <1>2, <2>2, <2>3, <2>5
  <2>4. req' = {}
    <3>1. IsFiniteSet(req') /\ Cardinality(req') = Cardinality(req) - 1
      BY <1>0, <2>1, FS_RemoveElement
    <3>2. Cardinality(req') \in Nat
      BY <3>1, FS_CardinalityType
    <3> QED
      BY <1>0, <1>1, <3>1, <3>2, FS_EmptySet
  <2> QED
    BY <1>2, <2>1, <2>4, <2>6
<1>6. ASSUME NEW u \in Users, NEW pin \in SomePin, SetPin(u, pin) PROVE Goal
  <2> DEFINE x == [staff[u] EXCEPT !.pin = pin]
  <2>1. /\ staff' = [staff EXCEPT ![u] = x] /\ req' = req /\ waiter' = waiter /\ req = {}
        /\ PinFree(pin, u)
    BY <1>3, <1>6 DEF SetPin, Change
  <2>2. x \in StaffRows /\ x.pin = pin
    BY <1>0 DEF StaffRows, SomePin
  <2> HIDE DEF x
  <2>3. PinUnique'
    BY <1>2, <2>1, <2>2, UserGetsPin
  <2> QED
    BY <1>2, <2>1, <2>3
<1>7. ASSUME NEW u \in Users, Deactivate(u) PROVE Goal
  <2>1. PICK r \in UserRequests :
           r.kind = "off" /\ req' = req \cup {r} /\ Opening /\ UNCHANGED people
    BY <1>7, MarkAsked DEF Deactivate
  <2>2. req' = {r} /\ staff' = staff /\ waiter' = waiter
    BY <1>3, <2>1 DEF people
  <2>3. PinUnique'
    BY <1>2, <2>2 DEF PinUnique, Active
  <2> QED
    BY <1>2, <2>1, <2>2, <2>3
<1>8. ASSUME NEW w \in Waiters, NEW active \in BOOLEAN, NEW pin \in Pins,
             SetWaiter(w, active, pin)
      PROVE  Goal
  <2> DEFINE x == [active |-> active, pin |-> pin]
  <2>1. /\ waiter' = [waiter EXCEPT ![w] = x] /\ staff' = staff /\ req' = req /\ req = {}
        /\ pin # None /\ (pin = waiter[w].pin \/ PinFree(pin, w))
        /\ ~(active /\ ~waiter[w].active /\ waiter[w].pin # None)
    BY <1>1, <1>3, <1>8 DEF SetWaiter
  <2>2. x \in WaiterRows /\ x.active = active /\ x.pin = pin
    BY DEF WaiterRows
  <2> HIDE DEF x
  <2>3. PinUnique'
    BY <1>2, <2>1, <2>2, WaiterGetsPin
  <2>4. \A v \in Waiters : waiter'[v].active => waiter'[v].pin # None
    BY <1>0, <1>2, <2>1, <2>2
  <2> QED
    BY <2>1, <2>3, <2>4
<1>9. \A u : ~SetRole(u, "CAJERO") /\ ~SetActive(u) /\ ~Activate(u)
  BY <1>1 DEF SetRole, SetActive, Activate
<1> QED
  BY <1>0, <1>4, <1>5, <1>6, <1>7, <1>8, <1>9 DEF PeopleStep

-----------------------------------------------------------------------------
(***************************************************************************)
(* The invariant.                                                          *)
(***************************************************************************)
RulesInv ==
    /\ TypeOK /\ IndustryHeld
    /\ QuotaHeld /\ DevicesHeld /\ CodeHeld
    /\ FreshHeld /\ Apart /\ BossHeld /\ PinHeld

LEMMA RulesInit == Init => RulesInv
<1> SUFFICES ASSUME Init PROVE RulesInv
  OBVIOUS
<1>1. TypeOK /\ req = {} /\ scenario.open \in Nat \ {0}
  BY TypeInit, ScenarioTyped DEF Init
<1>2. IndustryHeld /\ FreshHeld /\ Apart
  BY DEF Init, OneIndustry, IndustryHeld, FreshHeld, Apart
<1>3. PICK first \in Users :
         staff = [Unmade EXCEPT ![first] = [role |-> "ENCARGADO", active |-> TRUE, pin |-> None]]
  <2>1. (CHOOSE u \in Users : TRUE) \in Users
    BY PeopleAssumption
  <2> QED
    BY <2>1 DEF Init
<1>4. /\ first \in Users /\ staff[first].active /\ staff[first].role = "ENCARGADO"
      /\ \A u \in Users : u # first => ~staff[u].active
      /\ \A u \in Users : staff[u].pin = None
  BY <1>3 DEF Unmade
<1>5. BossHeld
  BY <1>1, <1>4 DEF BossHeld, Bosses, Active
<1>6. PinHeld
  BY <1>1, <1>4 DEF Init, PinHeld, PinUnique, Active
<1>7. Cardinality({}) = 0
  BY FS_EmptySet
<1>8. Coming = {} /\ NewDevices("desktop") = {} /\ NewDevices("web") = {} /\ Joining = {}
  BY <1>1 DEF Coming, Counting, NewDevices, Joining
<1>9. QuotaHeld
  <2>1. InQuota \subseteq {first}
    BY <1>4 DEF InQuota, Active
  <2>2. Cardinality({first}) = 1 /\ IsFiniteSet({first})
    BY FS_Singleton
  <2>3. Cardinality(InQuota) \in Nat /\ Cardinality(InQuota) <= 1
    BY <2>1, <2>2, AtMostAsMany
  <2>5. InQuota \cup Coming = InQuota
    BY <1>8
  <2>6. Cardinality(InQuota \cup Coming) \in Nat /\ Cardinality(InQuota \cup Coming) <= 1
    BY <2>3, <2>5, Zenon
  <2>4. UserLimit \in Nat \ {0}
    BY LimitAssumption
  <2> QED
    BY <1>1, <2>4, <2>6 DEF QuotaHeld
<1>10. DevicesHeld
  <2>1. Live(FALSE) = {} /\ Live(TRUE) = {}
    BY DEF Init, Live, NoDevice, None
  <2>2. pos.max \in Nat /\ pos.maxWeb \in Nat
    BY <1>1 DEF TypeOK
  <2>3. 0 + 0 <= pos.max + scenario.open - 1 /\ 0 + 0 <= pos.maxWeb + scenario.open - 1
    BY <1>1, <2>2
  <2> QED
    BY <1>7, <1>8, <2>1, <2>3, Zenon DEF DevicesHeld
<1>11. CodeHeld
  <2>1. code.used = 0 /\ Limit \in Nat
    BY LimitAssumption DEF Init
  <2> QED
    BY <1>1, <1>7, <1>8, <2>1 DEF CodeHeld
<1> QED
  BY <1>1, <1>2, <1>5, <1>6, <1>9, <1>10, <1>11 DEF RulesInv

LEMMA RulesNext == ASSUME RulesInv, [Next]_vars PROVE RulesInv'
<1>0. /\ TypeOK /\ TypeOK' /\ scenario' = scenario
  BY TypeNext, PartsApart DEF RulesInv
<1>1. IndustryHeld'
  <2>1. CASE UNCHANGED <<org, industry>> /\ (Part("branches") => req' = req)
    <3>1. OneIndustry' <=> OneIndustry
      BY <2>1 DEF OneIndustry
    <3>2. \A b, o : FitsIn(b, o)' <=> FitsIn(b, o)
      BY <2>1 DEF FitsIn, Sibling
    <3> QED
      BY <1>0, <2>1, <3>1, <3>2 DEF RulesInv, IndustryHeld, Part
  <2>2. CASE BranchStep
    BY <1>0, <2>2, IndustryStep DEF RulesInv, IndustryHeld
  <2> QED
    BY <2>1, <2>2, PartsApart
<1>2. QuotaHeld' /\ FreshHeld' /\ Apart' /\ BossHeld' /\ PinHeld'
  <2>1. CASE UNCHANGED people /\ (Part("people") => req' = req)
    <3>1. /\ InQuota' = InQuota /\ Bosses' = Bosses /\ (PinUnique' <=> PinUnique)
          /\ Coming' = Coming
      BY <1>0, <2>1 DEF people, InQuota, Bosses, Active, PinUnique, Coming, Counting, WillCount,
                        Part
    <3>2. \A pin, me : PinFree(pin, me)' <=> PinFree(pin, me)
      BY <2>1 DEF people, PinFree, Taken, TakenByUsers, Active
    <3>3. QuotaHeld' /\ BossHeld'
      BY <1>0, <2>1, <3>1 DEF RulesInv, QuotaHeld, BossHeld, Part
    <3>4. FreshHeld' /\ Apart'
      BY <1>0, <2>1 DEF RulesInv, FreshHeld, Apart, Part, people
    <3>5. PinHeld'
      BY <1>0, <2>1, <3>1, <3>2 DEF RulesInv, PinHeld, Part, people
    <3> QED
      BY <3>3, <3>4, <3>5
  <2>2. CASE PeopleStep
    BY <2>2, QuotaStep, FreshStep, BossStep, PinStep DEF RulesInv
  <2> QED
    BY <2>1, <2>2, PartsApart
<1>3. DevicesHeld'
  <2>1. CASE UNCHANGED devices /\ (Part("devices") => req' = req)
    <3>1. /\ Live(TRUE)' = Live(TRUE) /\ Live(FALSE)' = Live(FALSE) /\ pos' = pos
          /\ NewDevices("desktop")' = NewDevices("desktop")
          /\ NewDevices("web")' = NewDevices("web")
      BY <1>0, <2>1 DEF devices, Live, NewDevices, Part
    <3> QED
      BY <1>0, <3>1 DEF RulesInv, DevicesHeld
  <2> QED
    BY <2>1, PartsApart, DevicesStep DEF RulesInv
<1>4. CodeHeld'
  <2>1. CASE UNCHANGED invites /\ (Part("invites") => req' = req)
    <3>1. code' = code /\ Joining' = Joining
      BY <1>0, <2>1 DEF invites, Joining, Part
    <3> QED
      BY <1>0, <3>1 DEF RulesInv, CodeHeld
  <2> QED
    BY <2>1, PartsApart, CodeStep DEF RulesInv
<1> QED
  BY <1>0, <1>1, <1>2, <1>3, <1>4 DEF RulesInv

LEMMA LessTaken ==
    ASSUME NEW a \in Nat, NEW b \in Nat, NEW m \in Nat, NEW o \in Nat, a + b <= m + o - 1
    PROVE  a <= m + (o - 1)
  OBVIOUS

\* What open requests hold is at least nothing.
LEMMA RulesImplied == RulesInv => RulesKept
<1> SUFFICES ASSUME RulesInv PROVE RulesKept
  OBVIOUS
<1>1. Sized /\ scenario.open \in Nat
  BY Sizes, ScenarioTyped DEF RulesInv
<1>2. /\ UserLimit \in Nat /\ Limit \in Nat /\ pos.max \in Nat /\ pos.maxWeb \in Nat
      /\ code.used \in Nat
  BY LimitAssumption DEF RulesInv, TypeOK
<1>3. ~scenario.demote => Cardinality(InQuota) <= UserLimit + (scenario.open - 1)
  <2>1. /\ Cardinality(InQuota) \in Nat /\ Cardinality(InQuota \cup Coming) \in Nat
        /\ Cardinality(InQuota) <= Cardinality(InQuota \cup Coming)
    BY <1>1 DEF Sized
  <2>2. ~scenario.demote => Cardinality(InQuota \cup Coming) <= UserLimit + scenario.open - 1
    BY DEF RulesInv, QuotaHeld
  <2> QED
    BY <1>1, <1>2, <2>1, <2>2
<1>4. ~scenario.revive =>
         /\ Cardinality(Live(FALSE)) <= pos.max + (scenario.open - 1)
         /\ Cardinality(Live(TRUE)) <= pos.maxWeb + (scenario.open - 1)
  <2>1. /\ Cardinality(Live(FALSE)) \in Nat /\ Cardinality(NewDevices("desktop")) \in Nat
        /\ Cardinality(Live(TRUE)) \in Nat /\ Cardinality(NewDevices("web")) \in Nat
    BY <1>1 DEF Sized
  <2>2. ~scenario.revive =>
           /\ Cardinality(Live(FALSE)) + Cardinality(NewDevices("desktop"))
                 <= pos.max + scenario.open - 1
           /\ Cardinality(Live(TRUE)) + Cardinality(NewDevices("web"))
                 <= pos.maxWeb + scenario.open - 1
    BY DEF RulesInv, DevicesHeld
  <2>3. ~scenario.revive => Cardinality(Live(FALSE)) <= pos.max + (scenario.open - 1)
    BY <1>1, <1>2, <2>1, <2>2, LessTaken, Zenon
  <2>4. ~scenario.revive => Cardinality(Live(TRUE)) <= pos.maxWeb + (scenario.open - 1)
    BY <1>1, <1>2, <2>1, <2>2, LessTaken, Zenon
  <2> QED
    BY <2>3, <2>4
<1>5. code.used <= Limit + (scenario.open - 1)
  BY <1>1, <1>2 DEF RulesInv, CodeHeld, Sized
<1>6. LimitsKept
  BY <1>3, <1>4, <1>5 DEF LimitsKept
<1>7. scenario.open = 1 =>
         /\ OneIndustry
         /\ Part("people") /\ ~scenario.demote => Bosses # {} /\ (~scenario.revive => PinUnique)
  BY DEF RulesInv, IndustryHeld, BossHeld, PinHeld
<1> QED
  BY <1>6, <1>7 DEF RulesInv, RulesKept

\* Quotas, device limits and uses of a code passed by no more than the requests open
\* together; and, where one request is open at a time, one industry in each company, always
\* an active ENCARGADO and one owner of a PIN, for every set of people, devices, PINs and
\* branches and every limit.
THEOREM RulesHold == Spec => []RulesKept
<1>1. Init => RulesInv
  BY RulesInit
<1>2. RulesInv /\ [Next]_vars => RulesInv'
  BY RulesNext
<1>3. RulesInv => RulesKept
  BY RulesImplied
<1> QED
  BY <1>1, <1>2, <1>3, PTL DEF Spec

(***************************************************************************)
(* The calendar of the memberships.                                        *)
(***************************************************************************)
\* A month has at least one day.
LEMMA MonthsTyped ==
    /\ Len(MonthDays) \in Nat /\ Len(MonthDays) >= 2 /\ IsFiniteSet(Months)
    /\ \A m \in Months : MonthDays[m] \in Nat /\ MonthDays[m] >= 1
<1>1. /\ MonthDays \in Seq(Nat) /\ Len(MonthDays) >= 2 /\ Grace \in Nat
      /\ \A m \in 1 .. Len(MonthDays) : MonthDays[m] > Grace + 1
  BY CalendarAssumption
<1>2. Len(MonthDays) \in Nat /\ \A m \in 1 .. Len(MonthDays) : MonthDays[m] \in Nat
  BY <1>1
<1>3. IsFiniteSet(Months)
  BY <1>2, FS_Interval DEF Months
<1> QED BY <1>1, <1>2, <1>3 DEF Months

\* A month begins where the one before it ends.
LEMMA FirstStep ==
    /\ FirstOf[1] = 1
    /\ \A m \in 1 .. (Len(MonthDays) + 1) : FirstOf[m] \in Nat
    /\ \A m \in Months : FirstOf[m + 1] = FirstOf[m] + MonthDays[m]
<1>1. \A m \in 1 .. (Len(MonthDays) + 1) : /\ FirstOf[m] = 1 + SumFunctionOnSet(MonthDays, 1 .. (m - 1))
                                          /\ IsFiniteSet(1 .. (m - 1))
                                          /\ \A i \in 1 .. (m - 1) : MonthDays[i] \in Nat
  <2> TAKE m \in 1 .. (Len(MonthDays) + 1)
  <2>1. m \in Nat /\ m - 1 \in Int /\ m >= 1 /\ m <= Len(MonthDays) + 1
    BY MonthsTyped
  <2>2. IsFiniteSet(1 .. (m - 1))
    BY <2>1, FS_Interval
  <2>3. \A i \in 1 .. (m - 1) : MonthDays[i] \in Nat
    BY <2>1, MonthsTyped DEF Months
  <2> QED BY <2>2, <2>3 DEF FirstOf
<1>2. \A m \in 1 .. (Len(MonthDays) + 1) : FirstOf[m] \in Nat
  <2> TAKE m \in 1 .. (Len(MonthDays) + 1)
  <2>1. SumFunctionOnSet(MonthDays, 1 .. (m - 1)) \in Nat
    BY <1>1, SumNat
  <2> QED BY <1>1, <2>1
<1>3. FirstOf[1] = 1
  <2>1. 1 .. (1 - 1) = {}
    OBVIOUS
  <2>2. FirstOf[1] = 1 + SumFunctionOnSet(MonthDays, 1 .. (1 - 1))
    BY <1>1, MonthsTyped
  <2>3. SumFunctionOnSet(MonthDays, 1 .. (1 - 1)) = 0
    BY <2>1, SumEmpty
  <2> QED BY <2>2, <2>3
<1>4. ASSUME NEW m \in Months PROVE FirstOf[m + 1] = FirstOf[m] + MonthDays[m]
  <2>1. /\ m \in Nat /\ m \in 1 .. (Len(MonthDays) + 1) /\ m + 1 \in 1 .. (Len(MonthDays) + 1)
        /\ (m + 1) - 1 = m /\ m >= 1
    BY MonthsTyped DEF Months
  <2>2. 1 .. m = (1 .. (m - 1)) \cup {m} /\ m \notin 1 .. (m - 1)
    BY <2>1
  <2>3. \A y \in (1 .. (m - 1)) \cup {m} : MonthDays[y] \in Int
    BY <1>1, <2>1, MonthsTyped
  <2>4. SumFunctionOnSet(MonthDays, (1 .. (m - 1)) \cup {m})
        = MonthDays[m] + SumFunctionOnSet(MonthDays, 1 .. (m - 1))
    BY <1>1, <2>1, <2>2, <2>3, SumAdd
  <2>5. FirstOf[m + 1] = 1 + SumFunctionOnSet(MonthDays, 1 .. m)
    BY <1>1, <2>1
  <2>6. FirstOf[m] = 1 + SumFunctionOnSet(MonthDays, 1 .. (m - 1))
    BY <1>1, <2>1
  <2>7. SumFunctionOnSet(MonthDays, 1 .. (m - 1)) \in Int /\ MonthDays[m] \in Int
    BY <1>1, <2>1, <2>3, SumNat
  <2>8. SumFunctionOnSet(MonthDays, 1 .. m) = SumFunctionOnSet(MonthDays, (1 .. (m - 1)) \cup {m})
    BY <2>2
  <2> QED BY <2>4, <2>5, <2>6, <2>7, <2>8
<1> QED BY <1>2, <1>3, <1>4

\* A later month begins later.
LEMMA FirstGrows ==
    ASSUME NEW m \in 1 .. (Len(MonthDays) + 1), NEW n \in 1 .. (Len(MonthDays) + 1), m <= n
    PROVE  FirstOf[m] <= FirstOf[n]
<1>1. m \in Nat /\ n \in Nat /\ m >= 1 /\ n <= Len(MonthDays) + 1 /\ Len(MonthDays) \in Nat
  BY MonthsTyped
<1>2. 1 .. (n - 1) = (1 .. (m - 1)) \cup (m .. (n - 1)) /\ (1 .. (m - 1)) \cap (m .. (n - 1)) = {}
  BY <1>1
<1>3. IsFiniteSet(1 .. (m - 1)) /\ IsFiniteSet(m .. (n - 1))
  <2>1. 1 \in Int /\ m \in Int /\ m - 1 \in Int /\ n - 1 \in Int
    BY <1>1
  <2>2. IsFiniteSet(1 .. (m - 1))
    BY <2>1, FS_Interval
  <2>3. IsFiniteSet(m .. (n - 1))
    BY <2>1, FS_Interval
  <2> QED BY <2>2, <2>3
<1>4. /\ \A x \in (1 .. (m - 1)) \cup (m .. (n - 1)) : MonthDays[x] \in Int
      /\ \A x \in m .. (n - 1) : MonthDays[x] \in Nat
      /\ \A x \in 1 .. (m - 1) : MonthDays[x] \in Nat
  BY <1>1, MonthsTyped DEF Months
<1>5. SumFunctionOnSet(MonthDays, (1 .. (m - 1)) \cup (m .. (n - 1)))
      = SumFunctionOnSet(MonthDays, 1 .. (m - 1)) + SumFunctionOnSet(MonthDays, m .. (n - 1))
  BY <1>2, <1>3, <1>4, SumUnion
<1>6. /\ SumFunctionOnSet(MonthDays, m .. (n - 1)) \in Nat
      /\ SumFunctionOnSet(MonthDays, 1 .. (m - 1)) \in Nat
  BY <1>3, <1>4, SumNat
<1>7. /\ FirstOf[m] = 1 + SumFunctionOnSet(MonthDays, 1 .. (m - 1))
      /\ FirstOf[n] = 1 + SumFunctionOnSet(MonthDays, 1 .. (n - 1))
  BY DEF FirstOf
<1>8. SumFunctionOnSet(MonthDays, 1 .. (n - 1))
      = SumFunctionOnSet(MonthDays, (1 .. (m - 1)) \cup (m .. (n - 1)))
  BY <1>2
<1> QED BY <1>5, <1>6, <1>7, <1>8

\* A day between the first of a month and that of the next one is of that month.
LEMMA MonthIs ==
    ASSUME NEW m \in Months, NEW d \in Int, FirstOf[m] <= d, d < FirstOf[m + 1]
    PROVE  d \in Days /\ MonthOf(d) = m /\ DayOf(d) = d - FirstOf[m] + 1
<1>1. m \in Nat /\ m >= 1 /\ m <= Len(MonthDays) /\ Len(MonthDays) \in Nat
  BY MonthsTyped DEF Months
<1>2. /\ 1 \in 1 .. (Len(MonthDays) + 1) /\ m \in 1 .. (Len(MonthDays) + 1)
      /\ m + 1 \in 1 .. (Len(MonthDays) + 1) /\ Len(MonthDays) + 1 \in 1 .. (Len(MonthDays) + 1)
  BY <1>1
<1>3. FirstOf[1] <= FirstOf[m] /\ FirstOf[m + 1] <= FirstOf[Len(MonthDays) + 1]
  BY <1>1, <1>2, FirstGrows
<1>4. /\ FirstOf[1] = 1 /\ FirstOf[m] \in Nat /\ FirstOf[m + 1] \in Nat
      /\ FirstOf[Len(MonthDays) + 1] \in Nat
  BY <1>2, FirstStep
<1>5. d \in Days
  BY <1>3, <1>4 DEF Days
<1>6. \A n \in Months : FirstOf[n] <= d /\ d < FirstOf[n + 1] => n = m
  <2> SUFFICES ASSUME NEW n \in Months, FirstOf[n] <= d, d < FirstOf[n + 1], n # m PROVE FALSE
    OBVIOUS
  <2>1. n \in Nat /\ n \in 1 .. (Len(MonthDays) + 1) /\ n + 1 \in 1 .. (Len(MonthDays) + 1)
    BY <1>1 DEF Months
  <2>2. FirstOf[n] \in Nat /\ FirstOf[n + 1] \in Nat
    BY <2>1, FirstStep
  <2>3. CASE n < m
    <3>1. FirstOf[n + 1] <= FirstOf[m]
      <4>1. n + 1 <= m
        BY <1>1, <2>1, <2>3
      <4> QED BY <1>2, <2>1, <4>1, FirstGrows
    <3> QED BY <1>4, <2>2, <3>1
  <2>4. CASE m < n
    <3>1. FirstOf[m + 1] <= FirstOf[n]
      <4>1. m + 1 <= n
        BY <1>1, <2>1, <2>4
      <4> QED BY <1>2, <2>1, <4>1, FirstGrows
    <3> QED BY <1>4, <2>2, <3>1
  <2> QED BY <1>1, <2>1, <2>3, <2>4
<1>7. MonthOf(d) = m
  BY <1>6 DEF MonthOf
<1> QED BY <1>5, <1>7 DEF DayOf

\* Every day of the calendar is of a month.
LEMMA MonthOfDay ==
    ASSUME NEW d \in Days
    PROVE  /\ MonthOf(d) \in Months /\ DayOf(d) \in Nat /\ DayOf(d) >= 1 /\ d \in Nat
           /\ FirstOf[MonthOf(d)] <= d /\ d < FirstOf[MonthOf(d) + 1]
<1> DEFINE L == Len(MonthDays)
           S == {m \in Months : FirstOf[m] <= d}
           R == {p \in Months \X Months : p[1] < p[2]}
<1>0. L \in Nat /\ L >= 2 /\ FirstOf[L + 1] \in Nat /\ FirstOf[1] = 1 /\ IsFiniteSet(Months)
  BY MonthsTyped, FirstStep
<1>1. d \in Nat /\ d >= 1 /\ d < FirstOf[L + 1]
  BY <1>0 DEF Days
<1>2. 1 \in S
  BY <1>0, <1>1 DEF Months
<1>3. IsFiniteSet(S)
  BY <1>0, FS_Subset
<1>4. StrictOrder(R, S)
  <2>1. \A i, j \in S : i \in Nat /\ j \in Nat /\ (<<i, j>> \in R <=> i < j)
    BY <1>0 DEF Months
  <2> HIDE DEF R, S
  <2> QED BY <2>1 DEF StrictOrder
<1>5. PICK m \in S : \A x \in S \ {m} : <<x, m>> \in R
  <2> HIDE DEF R, S
  <2> QED BY <1>2, <1>3, <1>4, LastExists
<1>6. m \in Months /\ m \in Nat /\ m >= 1 /\ m <= L /\ FirstOf[m] <= d
  BY <1>0 DEF Months
<1>7. d < FirstOf[m + 1]
  <2>1. CASE m = L
    BY <1>1, <2>1
  <2>2. CASE m < L
    <3>1. m + 1 \in Months /\ m + 1 # m /\ ~(m + 1 < m)
      BY <1>0, <1>6, <2>2 DEF Months
    <3>2. m + 1 \notin S
      BY <1>5, <3>1
    <3>3. FirstOf[m + 1] \in Nat
      BY <1>6, <1>0, FirstStep
    <3> QED BY <1>1, <3>1, <3>2, <3>3
  <2> QED BY <1>0, <1>6, <2>1, <2>2
<1>8. MonthOf(d) = m /\ DayOf(d) = d - FirstOf[m] + 1
  BY <1>1, <1>6, <1>7, MonthIs
<1>9. FirstOf[m] \in Nat
  BY <1>6, <1>0, FirstStep
<1> QED BY <1>1, <1>6, <1>7, <1>8, <1>9

\* The anchor day falls in the month it is asked for.
LEMMA OnDayIn ==
    ASSUME NEW m \in Months, NEW a \in Nat, a >= 1
    PROVE  /\ OnDay(m, a) \in Days /\ OnDay(m, a) \in Nat /\ MonthOf(OnDay(m, a)) = m
           /\ FirstOf[m] <= OnDay(m, a) /\ OnDay(m, a) < FirstOf[m + 1]
<1>1. m \in 1 .. (Len(MonthDays) + 1)
  BY MonthsTyped DEF Months
<1>2. /\ FirstOf[m] \in Nat /\ MonthDays[m] \in Nat /\ MonthDays[m] >= 1
      /\ FirstOf[m + 1] = FirstOf[m] + MonthDays[m]
  BY <1>1, MonthsTyped, FirstStep
<1>3. /\ OnDay(m, a) \in Nat
      /\ FirstOf[m] <= OnDay(m, a) /\ OnDay(m, a) < FirstOf[m + 1]
  BY <1>2 DEF OnDay, Least
<1> QED BY <1>3, MonthIs

\* A day after which the calendar has another month.
Startable == {d \in Days : MonthOf(d) < Len(MonthDays)}

\* A period ends in the month after the one it starts in.
LEMMA DueDateIn ==
    ASSUME NEW d \in Startable, NEW a \in Nat, a >= 1
    PROVE  /\ DueDate(d, a) \in Days /\ d < DueDate(d, a)
           /\ MonthOf(DueDate(d, a)) = MonthOf(d) + 1
           /\ DueDate(d, a) = OnDay(MonthOf(DueDate(d, a)), a)
<1>1. /\ MonthOf(d) \in Months /\ d \in Nat /\ d < FirstOf[MonthOf(d) + 1]
      /\ MonthOf(d) < Len(MonthDays)
  BY MonthOfDay DEF Startable
<1>2. MonthOf(d) + 1 \in Months
  BY <1>1, MonthsTyped DEF Months
<1>3. /\ DueDate(d, a) \in Days /\ DueDate(d, a) \in Nat /\ MonthOf(DueDate(d, a)) = MonthOf(d) + 1
      /\ FirstOf[MonthOf(d) + 1] <= DueDate(d, a)
  BY <1>2, OnDayIn DEF DueDate
<1>4. FirstOf[MonthOf(d) + 1] \in Nat
  BY <1>2, MonthsTyped, FirstStep DEF Months
<1> QED BY <1>1, <1>3, <1>4 DEF DueDate

\* An earlier day is of no later month.
LEMMA MonthGrows ==
    ASSUME NEW d \in Days, NEW e \in Days, d <= e
    PROVE  MonthOf(d) <= MonthOf(e)
<1> SUFFICES ASSUME MonthOf(e) < MonthOf(d) PROVE FALSE
  BY MonthOfDay, MonthsTyped DEF Months
<1>1. /\ MonthOf(d) \in Months /\ MonthOf(e) \in Months /\ d \in Nat /\ e \in Nat
      /\ FirstOf[MonthOf(d)] <= d /\ e < FirstOf[MonthOf(e) + 1]
  BY MonthOfDay
<1>2. /\ MonthOf(e) + 1 \in 1 .. (Len(MonthDays) + 1) /\ MonthOf(d) \in 1 .. (Len(MonthDays) + 1)
      /\ MonthOf(e) + 1 <= MonthOf(d)
  BY <1>1, MonthsTyped DEF Months
<1>3. FirstOf[MonthOf(e) + 1] <= FirstOf[MonthOf(d)]
  BY <1>2, FirstGrows
<1>4. FirstOf[MonthOf(e) + 1] \in Nat /\ FirstOf[MonthOf(d)] \in Nat
  BY <1>2, FirstStep
<1> QED BY <1>1, <1>3, <1>4

(***************************************************************************)
(* The types of the memberships.                                           *)
(***************************************************************************)
MembershipRows == [start : Startable, end : Days, status : {"ACTIVE", "EXPIRED", "CANCELLED"},
                   items : SUBSET Products]
Deals == [type : {"CREDITO", "CONTADO"}, total : Nat, down : Nat, count : Nat, grace : Nat,
          since : Days, freeUntil : {0} \cup Days, status : {"VIGENTE", "LIQUIDADO"}]
PayRows == [kind : Kinds, amount : Nat \ {0}, void : BOOLEAN]
MembershipRequests == [kind : {"membership"}, start : Startable, items : SUBSET Products,
                       anchor : Nat \ {0}, hadAnchor : BOOLEAN]
PayRequests == [kind : Kinds, amount : Nat \ {0}, balance : Int]
AnyRequest == {NoRequest} \cup MembershipRequests \cup PayRequests
CronRows == [pc : {"idle", "expire", "products", "cut", "flag"}, ids : SUBSET Nat,
             todo : SUBSET Products, cur : Products \cup {Nothing}]

RowsTyped ==
    /\ setting \in Settings
    /\ day \in Days
    /\ mems \in Seq(MembershipRows)
    /\ sub \in [Products -> {"ACTIVE", "INACTIVE"}]
    /\ flag \in [Products -> BOOLEAN]
    /\ swept \in BOOLEAN
DealTyped ==
    /\ anchor \in Nat
    /\ agr \in {NoDeal} \cup Deals
    /\ pays \in Seq(PayRows)
    /\ agr = NoDeal => pays = <<>>
CronTyped ==
    /\ cron \in CronRows
    /\ cron.ids \subseteq 1 .. Len(mems)
    /\ cron.pc \in {"cut", "flag"} => cron.cur \in Products
    /\ cron.pc = "idle" => cron = Idle
    /\ cron.pc # "idle" => ~swept
RequestTyped ==
    /\ request \in [Admins -> AnyRequest]
    /\ \A a \in Admins : request[a] # NoRequest => a \in setting.admins
    /\ agr = NoDeal => \A a \in Admins : request[a] \notin PayRequests

\* The anchor comes with the first membership or agreement, and an open request has
\* read it or the day's.
Anchored ==
    /\ anchor = 0 => mems = <<>> /\ agr = NoDeal
    /\ \A a \in Admins : request[a] \in MembershipRequests =>
          IF request[a].hadAnchor THEN anchor = request[a].anchor
          ELSE request[a].anchor = DayOf(day) /\ anchor \in {0, DayOf(day)}

MembershipTypes == RowsTyped /\ DealTyped /\ CronTyped /\ RequestTyped /\ Anchored

\* A request is of one kind.
LEMMA RequestKinds ==
    /\ NoRequest \notin MembershipRequests /\ NoRequest \notin PayRequests
    /\ NoRequest.kind = "none"
    /\ \A r \in MembershipRequests : r.kind = "membership" /\ r # NoRequest /\ r \notin PayRequests
    /\ \A r \in PayRequests : r.kind \in Kinds /\ r # NoRequest /\ r \notin MembershipRequests
    /\ "membership" \notin Kinds /\ "none" \notin Kinds
<1>1. NoRequest.kind = "none" /\ "membership" \notin Kinds /\ "none" \notin Kinds
  BY DEF NoRequest, Nothing, Kinds
<1>2. \A r \in MembershipRequests : r.kind = "membership"
  BY DEF MembershipRequests
<1>3. \A r \in PayRequests : r.kind \in Kinds
  BY DEF PayRequests
<1> QED BY <1>1, <1>2, <1>3

\* The absence of an agreement is none of the agreements.
LEMMA DealIsDeal == \A d \in Deals : d # NoDeal
  BY DEF Deals, NoDeal, Nothing

\* What settings allow.
LEMMA SettingTyped ==
    ASSUME RowsTyped
    PROVE  /\ setting.first \in SUBSET Products /\ setting.products \in SUBSET Products
           /\ setting.admins \in SUBSET Admins /\ IsFiniteSet(setting.admins)
           /\ setting.days \in Days
           /\ setting.edits \in BOOLEAN /\ setting.crash \in BOOLEAN /\ setting.apart \in BOOLEAN
           /\ setting.edits => MonthOf(setting.days) < Len(MonthDays)
  BY SettingAssumption DEF RowsTyped

\* Months from a day, as far as the calendar goes.
LEMMA AddMonthsIn ==
    ASSUME NEW d \in Days, NEW n \in Nat, MonthOf(d) + n <= Len(MonthDays)
    PROVE  AddMonths(d, n) \in Days
<1>1. MonthOf(d) + n \in Months
  BY MonthOfDay, MonthsTyped DEF Months
<1> QED BY <1>1, MonthOfDay, OnDayIn DEF AddMonths

\* Of any memberships there is a latest one.
LEMMA LatestIn ==
    ASSUME RowsTyped, NEW S \in SUBSET (1 .. Len(mems)), S # {}
    PROVE  /\ Latest(S) \in S
           /\ \A j \in S : \/ mems[j].end < mems[Latest(S)].end
                           \/ /\ mems[j].end = mems[Latest(S)].end
                              /\ mems[j].start <= mems[Latest(S)].start
<1> DEFINE Below(j, k) == \/ mems[j].end < mems[k].end
                          \/ mems[j].end = mems[k].end /\ mems[j].start < mems[k].start
                          \/ mems[j].end = mems[k].end /\ mems[j].start = mems[k].start /\ j < k
           R == {p \in S \X S : Below(p[1], p[2])}
<1>1. Len(mems) \in Nat /\ \A k \in S : k \in Nat /\ mems[k] \in MembershipRows
  BY DEF RowsTyped
<1>2. \A k \in S : k \in Nat /\ mems[k].start \in Nat /\ mems[k].end \in Nat
  <2> TAKE k \in S
  <2>1. mems[k].start \in Days /\ mems[k].end \in Days /\ k \in Nat
    BY <1>1 DEF MembershipRows, Startable
  <2> QED BY <2>1, MonthOfDay
<1>3. IsFiniteSet(S)
  <2>1. IsFiniteSet(1 .. Len(mems))
    BY <1>1, FS_Interval
  <2> QED BY <2>1, FS_Subset
<1>4. \A i, j \in S : <<i, j>> \in R <=> Below(i, j)
  OBVIOUS
<1> HIDE DEF R
<1>5. StrictOrder(R, S)
  <2>1. \A x, y \in S : x # y => <<x, y>> \in R \/ <<y, x>> \in R
    BY <1>2, <1>4
  <2>2. ASSUME NEW x \in S, NEW y \in S, <<x, y>> \in R, <<y, x>> \in R PROVE FALSE
    <3>1. /\ x \in Nat /\ mems[x].start \in Nat /\ mems[x].end \in Nat
          /\ y \in Nat /\ mems[y].start \in Nat /\ mems[y].end \in Nat
      BY <1>2
    <3>2. Below(x, y) /\ Below(y, x)
      BY <1>4, <2>2
    <3> QED BY <3>1, <3>2
  <2>3. ASSUME NEW x \in S, NEW y \in S, NEW z \in S, <<x, y>> \in R, <<y, z>> \in R
        PROVE  <<x, z>> \in R
    <3>1. /\ x \in Nat /\ mems[x].start \in Nat /\ mems[x].end \in Nat
          /\ y \in Nat /\ mems[y].start \in Nat /\ mems[y].end \in Nat
          /\ z \in Nat /\ mems[z].start \in Nat /\ mems[z].end \in Nat
      BY <1>2
    <3>2. Below(x, y) /\ Below(y, z)
      BY <1>4, <2>3
    <3>3. Below(x, z)
      BY <3>1, <3>2
    <3> QED BY <1>4, <3>3
  <2> QED BY <2>1, <2>2, <2>3 DEF StrictOrder
<1>6. PICK m \in S : \A x \in S \ {m} : <<x, m>> \in R
  <2> QED BY <1>3, <1>5, LastExists
<1>7. \A j \in S : \/ mems[j].end < mems[m].end
                   \/ mems[j].end = mems[m].end /\ mems[j].start <= mems[m].start
  <2> TAKE j \in S
  <2>1. /\ mems[j].start \in Nat /\ mems[j].end \in Nat
        /\ mems[m].start \in Nat /\ mems[m].end \in Nat
    BY <1>2
  <2>2. CASE j = m
    BY <2>1, <2>2
  <2>3. CASE j # m
    <3>1. Below(j, m)
      BY <1>4, <1>6, <2>3
    <3> QED BY <2>1, <3>1
  <2> QED BY <2>2, <2>3
<1> QED BY <1>7 DEF Latest

\* The start and the anchor of a new membership.
LEMMA NewStartIn ==
    ASSUME MembershipTypes, MonthOf(NewStart) < Len(MonthDays)
    PROVE  /\ NewStart \in Startable /\ NewAnchor \in Nat \ {0}
           /\ anchor # 0 => NewAnchor = anchor
           /\ anchor = 0 => NewAnchor = DayOf(day)
<1>1. /\ anchor \in Nat /\ day \in Days /\ mems \in Seq(MembershipRows)
      /\ anchor = 0 => mems = <<>>
  BY DEF MembershipTypes, RowsTyped, DealTyped, Anchored
<1>2. DayOf(day) \in Nat /\ DayOf(day) >= 1
  BY <1>1, MonthOfDay
<1>3. /\ NewAnchor \in Nat \ {0} /\ (anchor # 0 => NewAnchor = anchor)
      /\ anchor = 0 => NewAnchor = DayOf(day)
  BY <1>1, <1>2 DEF NewAnchor
<1>4. NewStart \in Days
  <2>1. CASE mems # <<>>
    <3>1. 1 .. Len(mems) # {} /\ Len(mems) \in Nat
      <4>1. Len(mems) \in Nat /\ Len(mems) # 0
        BY <1>1, <2>1
      <4>2. 1 \in 1 .. Len(mems)
        BY <4>1
      <4> QED BY <4>1, <4>2
    <3>2. Latest(1 .. Len(mems)) \in 1 .. Len(mems)
      BY <3>1, LatestIn DEF MembershipTypes
    <3>3. mems[Latest(1 .. Len(mems))] \in MembershipRows
      BY <1>1, <3>2
    <3>4. mems[Latest(1 .. Len(mems))].start \in Startable
      BY <3>3 DEF MembershipRows
    <3>5. DueDate(mems[Latest(1 .. Len(mems))].start, NewAnchor) \in Days
      BY <1>3, <3>4, DueDateIn
    <3> QED BY <2>1, <3>5 DEF NewStart, Previous
  <2>2. CASE mems = <<>> /\ agr # NoDeal /\ agr.freeUntil # 0
    <3>1. agr \in Deals
      BY <2>2 DEF MembershipTypes, DealTyped
    <3>2. agr.freeUntil \in {0} \cup Days
      BY <3>1 DEF Deals
    <3> QED BY <2>2, <3>2 DEF NewStart
  <2>3. CASE mems = <<>> /\ ~(agr # NoDeal /\ agr.freeUntil # 0)
    BY <1>1, <2>3 DEF NewStart
  <2> QED BY <2>1, <2>2, <2>3
<1> QED BY <1>3, <1>4 DEF Startable

\* The first state is typed.
LEMMA MembershipInitTyped ==
    ASSUME MembershipInit PROVE MembershipTypes
<1>0. setting \in Settings
  BY DEF MembershipInit
<1>1. /\ setting.first \in SUBSET Products /\ setting.admins \in SUBSET Admins
  BY <1>0, SettingAssumption
<1>2. /\ 1 \in Startable /\ DayOf(1) = 1
  <2>1. 1 \in Months /\ 1 \in 1 .. (Len(MonthDays) + 1) /\ FirstOf[1 + 1] = FirstOf[1] + MonthDays[1]
    BY MonthsTyped, FirstStep DEF Months
  <2>2. FirstOf[1] = 1 /\ MonthDays[1] \in Nat /\ MonthDays[1] >= 1
    BY <2>1, MonthsTyped, FirstStep
  <2>3. 1 \in Days /\ MonthOf(1) = 1 /\ DayOf(1) = 1 - FirstOf[1] + 1
    BY <2>1, <2>2, MonthIs
  <2> QED BY <2>2, <2>3, MonthsTyped DEF Startable
<1>3. 1 \in Days /\ DueDate(1, 1) \in Days
  BY <1>2, DueDateIn DEF Startable
<1>4. FirstMembership(setting.first) \in MembershipRows
  BY <1>1, <1>2, <1>3 DEF FirstMembership, MembershipRows
<1>5. mems \in Seq(MembershipRows)
  BY <1>4 DEF MembershipInit
<1>6. RowsTyped
  <2>1. sub \in [Products -> {"ACTIVE", "INACTIVE"}]
    BY DEF MembershipInit
  <2>2. flag \in [Products -> BOOLEAN]
    <3>1. \A p \in Products : (p \in setting.first) \in BOOLEAN
      OBVIOUS
    <3>2. flag = [p \in Products |-> p \in setting.first]
      BY DEF MembershipInit
    <3> QED BY <3>1, <3>2, Zenon
  <2>3. day \in Days /\ swept \in BOOLEAN
    BY <1>3 DEF MembershipInit
  <2> QED BY <1>0, <1>5, <2>1, <2>2, <2>3 DEF RowsTyped
<1>7. DealTyped
  BY DEF MembershipInit, DealTyped
<1>8. CronTyped
  BY DEF MembershipInit, CronTyped, CronRows, Idle
<1>9. RequestTyped
  <2>1. request = [a \in Admins |-> NoRequest]
    BY DEF MembershipInit
  <2>2. request \in [Admins -> AnyRequest] /\ \A a \in Admins : request[a] = NoRequest
    BY <2>1 DEF AnyRequest
  <2> QED BY <2>2, RequestKinds DEF RequestTyped
<1>10. Anchored
  BY RequestKinds DEF MembershipInit, Anchored
<1> QED BY <1>6, <1>7, <1>8, <1>9, <1>10 DEF MembershipTypes

\* A day that passes keeps the types: the last day is still in the calendar.
LEMMA DayPassesTyped ==
    ASSUME MembershipTypes, DayPasses PROVE MembershipTypes'
<1> USE DEF MembershipTypes
<1>1. /\ day \in Nat /\ setting.days \in Days /\ day \in Days /\ setting.days \in Nat
  <2>1. day \in Days /\ setting.days \in Days
    BY SettingTyped DEF RowsTyped
  <2> QED BY <2>1, MonthOfDay
<1>2. day + 1 \in Days
  <2>1. FirstOf[Len(MonthDays) + 1] \in Nat
    BY MonthsTyped, FirstStep
  <2> QED BY <1>1, <2>1 DEF DayPasses, Days
<1>3. RowsTyped'
  BY <1>2 DEF DayPasses, RowsTyped, subs
<1>4. DealTyped' /\ RequestTyped'
  BY DEF DayPasses, DealTyped, RequestTyped, deal
<1>5. CronTyped'
  BY DEF DayPasses, CronTyped
<1>6. Anchored'
  <2>1. \A a \in Admins : request'[a] = NoRequest
    BY DEF DayPasses
  <2> QED BY <2>1, RequestKinds DEF DayPasses, Anchored, deal
<1> QED BY <1>3, <1>4, <1>5, <1>6

\* The actions of the cron leave the agreement and the requests alone.
LEMMA CronTypes ==
    ASSUME MembershipTypes,
           \/ CronRead \/ CronExpire \/ CronCut \/ CronFlag \/ CronEnd \/ CronDies
           \/ \E p \in Products : CronLook(p)
    PROVE  MembershipTypes'
<1> USE DEF MembershipTypes
<1>1. /\ UNCHANGED <<setting, day, anchor, deal, request>>
      /\ Len(mems) \in Nat /\ cron \in CronRows /\ cron.ids \subseteq 1 .. Len(mems)
      /\ \A k \in 1 .. Len(mems) : mems[k] \in MembershipRows
  <2>1. UNCHANGED <<setting, day, anchor, deal, request>>
    BY DEF CronRead, CronExpire, CronCut, CronFlag, CronEnd, CronDies, CronLook
  <2>2. cron \in CronRows /\ cron.ids \subseteq 1 .. Len(mems)
    BY DEF CronTyped
  <2>3. mems \in Seq(MembershipRows)
    BY DEF RowsTyped
  <2>4. Len(mems) \in Nat /\ \A k \in 1 .. Len(mems) : mems[k] \in MembershipRows
    BY <2>3
  <2> QED BY <2>1, <2>2, <2>4
<1>2. DealTyped' /\ RequestTyped'
  BY <1>1 DEF DealTyped, RequestTyped, deal
<1>3. CASE CronRead
  <2>1. RowsTyped'
    BY <1>1, <1>3 DEF CronRead, RowsTyped, subs
  <2>2. CronTyped'
    <3> DEFINE ids == {k \in 1 .. Len(mems) : mems[k].status = "ACTIVE" /\ day >= GraceOf(k)}
    <3>1. ids \subseteq 1 .. Len(mems) /\ ids \in SUBSET Nat
      BY <1>1
    <3>2. CASE ids = {}
      BY <1>3, <3>2 DEF CronRead, CronTyped, subs
    <3>3. CASE ids # {}
      <4>1. cron' = [Idle EXCEPT !.pc = "expire", !.ids = ids] /\ UNCHANGED <<swept, mems>> /\ ~swept
        BY <1>3, <3>3 DEF CronRead
      <4> HIDE DEF ids
      <4> QED BY <3>1, <4>1 DEF CronTyped, CronRows, Idle
    <3> QED BY <3>2, <3>3
  <2>3. Anchored'
    BY <1>1, <1>3 DEF CronRead, Anchored, deal
  <2> QED BY <1>2, <2>1, <2>2, <2>3
<1>4. CASE CronExpire
  <2> DEFINE E(k) == IF k \in cron.ids THEN [mems[k] EXCEPT !.status = "EXPIRED"] ELSE mems[k]
  <2>1. mems' = [k \in 1 .. Len(mems) |-> E(k)]
    BY <1>4 DEF CronExpire
  <2>2. \A k \in 1 .. Len(mems) : E(k) \in MembershipRows
    BY <1>1 DEF MembershipRows
  <2>3. mems' \in Seq(MembershipRows) /\ Len(mems') = Len(mems)
    <3> HIDE DEF E
    <3> QED BY <1>1, <2>1, <2>2
  <2>4. RowsTyped'
    BY <1>1, <1>4, <2>3 DEF CronExpire, RowsTyped, subs
  <2>5. UNION {mems[k].items : k \in cron.ids} \in SUBSET Products
    BY <1>1 DEF MembershipRows
  <2>6. CronTyped'
    <3> DEFINE T == UNION {mems[k].items : k \in cron.ids}
    <3>1. cron' = [cron EXCEPT !.pc = "products", !.todo = T] /\ UNCHANGED swept /\ cron.pc = "expire"
      BY <1>4 DEF CronExpire
    <3>2. T \in SUBSET Products
      BY <2>5
    <3> HIDE DEF T
    <3> QED BY <1>1, <2>3, <3>1, <3>2 DEF CronTyped, CronRows
  <2>7. Anchored'
    <3>1. mems = <<>> => mems' = <<>>
      BY <1>1, <2>3
    <3> QED BY <1>1, <3>1 DEF Anchored, deal
  <2> QED BY <1>2, <2>4, <2>6, <2>7
<1>5. CASE CronCut
  <2>1. RowsTyped' /\ CronTyped' /\ Anchored'
    BY <1>1, <1>5 DEF CronCut, RowsTyped, CronTyped, CronRows, Anchored, deal
  <2> QED BY <1>2, <2>1
<1>6. CASE CronFlag
  <2>1. RowsTyped' /\ Anchored'
    BY <1>1, <1>6 DEF CronFlag, FlagCleared, RowsTyped, CronTyped, Anchored, deal
  <2>2. CronTyped'
    BY <1>1, <1>6 DEF CronFlag, CronTyped, CronRows, Nothing
  <2> QED BY <1>2, <2>1, <2>2
<1>7. CASE CronEnd
  <2>1. RowsTyped' /\ Anchored'
    BY <1>1, <1>7 DEF CronEnd, RowsTyped, Anchored, deal, subs
  <2>2. CronTyped'
    BY <1>1, <1>7 DEF CronEnd, CronTyped, CronRows, Idle
  <2> QED BY <1>2, <2>1, <2>2
<1>8. CASE CronDies
  <2>1. RowsTyped' /\ Anchored'
    BY <1>1, <1>8 DEF CronDies, RowsTyped, Anchored, deal, subs
  <2>2. CronTyped'
    BY <1>1, <1>8 DEF CronDies, CronTyped, CronRows, Idle
  <2> QED BY <1>2, <2>1, <2>2
<1>9. CASE \E p \in Products : CronLook(p)
  <2>1. PICK p \in Products : CronLook(p)
    BY <1>9
  <2>2. RowsTyped' /\ Anchored'
    BY <1>1, <2>1 DEF CronLook, RowsTyped, Anchored, deal, subs
  <2>3. CronTyped'
    <3>1. \/ cron' = [cron EXCEPT !.todo = @ \ {p}]
          \/ cron' = [cron EXCEPT !.pc = "cut", !.cur = p]
      BY <2>1 DEF CronLook
    <3>2. cron.pc = "products" /\ UNCHANGED <<mems, swept>>
      BY <2>1 DEF CronLook
    <3> QED BY <1>1, <3>1, <3>2 DEF CronTyped, CronRows
  <2> QED BY <1>2, <2>2, <2>3
<1> QED BY <1>3, <1>4, <1>5, <1>6, <1>7, <1>8, <1>9

\* A request reads rows that exist, and writes nothing.
LEMMA BeginMembershipTyped ==
    ASSUME MembershipTypes, NEW a \in Admins, NEW items \in SUBSET setting.products,
           BeginMembership(a, items)
    PROVE  MembershipTypes'
<1> USE DEF MembershipTypes
<1>1. /\ NewStart \in Startable /\ NewAnchor \in Nat \ {0}
      /\ anchor # 0 => NewAnchor = anchor
      /\ anchor = 0 => NewAnchor = DayOf(day)
  BY NewStartIn DEF BeginMembership
<1> DEFINE r == [kind |-> "membership", start |-> NewStart, items |-> items,
                 anchor |-> NewAnchor, hadAnchor |-> anchor # 0]
<1>2. r \in MembershipRequests
  BY <1>1, SettingTyped DEF MembershipRequests
<1>3. /\ request' = [request EXCEPT ![a] = r] /\ a \in setting.admins
      /\ UNCHANGED <<setting, day, anchor, mems, subs, deal, cron, swept>>
  BY DEF BeginMembership, Free
<1>4. RowsTyped' /\ DealTyped' /\ CronTyped'
  BY <1>3 DEF RowsTyped, DealTyped, CronTyped, subs, deal
<1>5. r.hadAnchor = (anchor # 0) /\ r.anchor = NewAnchor
  OBVIOUS
<1> HIDE DEF r
<1>6. RequestTyped'
  BY <1>2, <1>3, RequestKinds DEF RequestTyped, AnyRequest, deal
<1>7. Anchored'
  <2>1. request \in [Admins -> AnyRequest]
    BY DEF RequestTyped
  <2>2. ASSUME NEW b \in Admins, request'[b] \in MembershipRequests
        PROVE  IF request'[b].hadAnchor THEN anchor' = request'[b].anchor
               ELSE request'[b].anchor = DayOf(day') /\ anchor' \in {0, DayOf(day')}
    <3>1. CASE b = a
      BY <1>1, <1>3, <1>5, <2>1, <3>1
    <3>2. CASE b # a
      <4>1. request'[b] = request[b] /\ UNCHANGED <<anchor, day>>
        BY <1>3, <2>1, <3>2
      <4> QED BY <2>2, <4>1 DEF Anchored
    <3> QED BY <3>1, <3>2
  <2> QED BY <1>3, <2>2 DEF Anchored, deal
<1> QED BY <1>4, <1>6, <1>7

\* A membership written by its transaction.
Written(r) == [start |-> r.start, end |-> DueDate(r.start, r.anchor), status |-> "ACTIVE",
               items |-> r.items]

\* The membership a request writes has a start and an end in the calendar.
LEMMA WrittenTyped ==
    ASSUME NEW r \in MembershipRequests
    PROVE  /\ Written(r) \in MembershipRows /\ r.anchor \in Nat /\ r.anchor >= 1
           /\ r.start \in Startable
<1>1. /\ r.anchor \in Nat /\ r.anchor >= 1 /\ r.start \in Startable /\ r.items \in SUBSET Products
  BY DEF MembershipRequests
<1>2. DueDate(r.start, r.anchor) \in Days
  BY <1>1, DueDateIn
<1> QED BY <1>1, <1>2 DEF Written, MembershipRows

\* What a request becomes where it is the one to end, and the anchor it leaves.
LEMMA CommitMembershipFacts ==
    ASSUME MembershipTypes, NEW a \in Admins, CommitMembership(a)
    PROVE  /\ request[a] \in MembershipRequests /\ a \in setting.admins
           /\ mems' = Append(mems, Written(request[a]))
           /\ anchor' = request[a].anchor
           /\ mems # <<>> \/ agr # NoDeal => anchor # 0 /\ anchor' = anchor
           /\ request' = [request EXCEPT ![a] = NoRequest]
           /\ UNCHANGED <<setting, day, deal, cron, swept>>
<1> USE DEF MembershipTypes
<1>1. request[a] \in MembershipRequests /\ a \in setting.admins
  BY RequestKinds DEF CommitMembership, RequestTyped, AnyRequest
<1>2. /\ mems' = Append(mems, Written(request[a]))
      /\ anchor' = IF request[a].hadAnchor THEN anchor ELSE request[a].anchor
      /\ request' = [request EXCEPT ![a] = NoRequest]
      /\ UNCHANGED <<setting, day, deal, cron, swept>>
  BY DEF CommitMembership, Written
<1>3. /\ IF request[a].hadAnchor THEN anchor = request[a].anchor
         ELSE request[a].anchor = DayOf(day) /\ anchor \in {0, DayOf(day)}
      /\ anchor = 0 => mems = <<>> /\ agr = NoDeal
  BY <1>1 DEF Anchored
<1> QED BY <1>1, <1>2, <1>3

\* Writing a membership keeps the types.
LEMMA CommitMembershipTyped ==
    ASSUME MembershipTypes, NEW a \in Admins, CommitMembership(a) PROVE MembershipTypes'
<1> USE DEF MembershipTypes
<1> DEFINE r == request[a]
<1>1. /\ r \in MembershipRequests /\ a \in setting.admins
      /\ mems' = Append(mems, Written(r)) /\ anchor' = r.anchor
      /\ request' = [request EXCEPT ![a] = NoRequest]
      /\ UNCHANGED <<setting, day, deal, cron, swept>>
      /\ mems \in Seq(MembershipRows) /\ request \in [Admins -> AnyRequest]
  BY CommitMembershipFacts DEF RowsTyped, RequestTyped
<1>2. /\ Written(r) \in MembershipRows /\ r.anchor \in Nat /\ r.anchor >= 1
  BY <1>1, WrittenTyped
<1>3. mems' \in Seq(MembershipRows) /\ Len(mems') = Len(mems) + 1 /\ Len(mems) \in Nat
  BY <1>1, <1>2
<1>4. /\ sub' \in [Products -> {"ACTIVE", "INACTIVE"}] /\ flag' \in [Products -> BOOLEAN]
  <2> DEFINE on == IF day < GraceEnd(DueDate(r.start, r.anchor), Grace) THEN r.items ELSE {}
  <2>1. /\ sub' = [p \in Products |-> IF p \in on THEN "ACTIVE" ELSE sub[p]]
        /\ flag' = [p \in Products |-> p \in on \/ flag[p]]
    BY DEF CommitMembership
  <2>2. /\ sub \in [Products -> {"ACTIVE", "INACTIVE"}] /\ flag \in [Products -> BOOLEAN]
    BY DEF RowsTyped
  <2> HIDE DEF on
  <2>3. sub' \in [Products -> {"ACTIVE", "INACTIVE"}]
    BY <2>1, <2>2
  <2>4. \A p \in Products : (p \in on \/ flag[p]) \in BOOLEAN
    OBVIOUS
  <2>5. flag' \in [Products -> BOOLEAN]
    BY <2>1, <2>4, Zenon
  <2> QED BY <2>3, <2>5
<1>5. RowsTyped'
  BY <1>1, <1>3, <1>4 DEF RowsTyped
<1>6. DealTyped'
  BY <1>1, <1>2 DEF DealTyped, deal
<1>7. CronTyped'
  <2>1. cron.ids \subseteq 1 .. Len(mems')
    BY <1>3 DEF CronTyped
  <2> QED BY <1>1, <2>1 DEF CronTyped
<1>8. RequestTyped'
  BY <1>1, RequestKinds DEF RequestTyped, AnyRequest, deal
<1>9. Anchored'
  <2>1. anchor' # 0
    BY <1>1, <1>2
  <2>2. ASSUME NEW b \in Admins, request'[b] \in MembershipRequests
        PROVE  IF request'[b].hadAnchor THEN anchor' = request'[b].anchor
               ELSE request'[b].anchor = DayOf(day') /\ anchor' \in {0, DayOf(day')}
    <3>1. b # a
      BY <1>1, <2>2, RequestKinds
    <3>2. request'[b] = request[b] /\ day' = day
      BY <1>1, <3>1
    <3>3. /\ IF request[b].hadAnchor THEN anchor = request[b].anchor
             ELSE request[b].anchor = DayOf(day) /\ anchor \in {0, DayOf(day)}
          /\ IF r.hadAnchor THEN anchor = r.anchor
             ELSE r.anchor = DayOf(day) /\ anchor \in {0, DayOf(day)}
      BY <1>1, <2>2, <3>2 DEF Anchored
    <3>4. request[b].anchor # 0 /\ r.anchor # 0
      BY <1>1, <2>2, <3>2 DEF MembershipRequests
    <3> QED BY <1>1, <3>2, <3>3, <3>4
  <2> QED BY <2>1, <2>2 DEF Anchored
<1> QED BY <1>5, <1>6, <1>7, <1>8, <1>9

\* A membership that is edited keeps its products, and room for the next period.
LEMMA EditMembershipFacts ==
    ASSUME MembershipTypes, NEW a \in Admins, NEW k \in 1 .. Len(mems), EditMembership(a, k)
    PROVE  /\ mems' \in Seq(MembershipRows) /\ Len(mems') = Len(mems)
           /\ \A j \in 1 .. Len(mems) : j # k => mems'[j] = mems[j]
           /\ mems'[k].items = mems[k].items
           /\ ~setting.edits => /\ mems'[k].start = mems[k].start /\ mems'[k].end = mems[k].end
                                /\ mems'[k].status = "CANCELLED"
<1> USE DEF MembershipTypes
<1>1. /\ mems \in Seq(MembershipRows) /\ Len(mems) \in Nat /\ mems[k] \in MembershipRows
      /\ mems'[k].end <= setting.days /\ mems'[k].start < mems'[k].end
      /\ setting.edits \in BOOLEAN
  BY SettingTyped DEF EditMembership, RowsTyped
<1>2. PICK m : /\ mems' = [mems EXCEPT ![k] = m]
               /\ \/ m = [mems[k] EXCEPT !.status = "CANCELLED"]
                  \/ setting.edits /\ \/ m = [mems[k] EXCEPT !.status = "ACTIVE"]
                                      \/ m = [mems[k] EXCEPT !.start = @ + 1]
                                      \/ m = [mems[k] EXCEPT !.end = @ + 1]
  <2>1. CASE mems' = [mems EXCEPT ![k].status = "CANCELLED"]
    BY <2>1
  <2>2. CASE setting.edits /\ mems' = [mems EXCEPT ![k].status = "ACTIVE"]
    BY <2>2
  <2>3. CASE setting.edits /\ mems' = [mems EXCEPT ![k].start = @ + 1]
    BY <2>3
  <2>4. CASE setting.edits /\ mems' = [mems EXCEPT ![k].end = @ + 1]
    BY <2>4
  <2> QED BY <2>1, <2>2, <2>3, <2>4 DEF EditMembership
<1>3. mems'[k] = m
  BY <1>1, <1>2
<1>4. mems[k].start \in Startable /\ mems[k].end \in Days /\ mems[k].items \in SUBSET Products
  BY <1>1 DEF MembershipRows
<1>5. mems[k].start \in Days /\ mems[k].start \in Nat /\ mems[k].end \in Nat
  BY <1>4, MonthOfDay DEF Startable
<1>6. setting.days \in Days /\ setting.days \in Nat
  BY SettingTyped, MonthOfDay
<1>7. m \in MembershipRows
  <2>1. CASE m = [mems[k] EXCEPT !.status = "CANCELLED"] \/ m = [mems[k] EXCEPT !.status = "ACTIVE"]
    BY <1>1, <2>1 DEF MembershipRows
  <2>2. CASE setting.edits /\ m = [mems[k] EXCEPT !.start = @ + 1]
    <3>1. m.start = mems[k].start + 1 /\ m.end = mems[k].end
      BY <1>1, <2>2 DEF MembershipRows
    <3>2. m.start \in Days /\ m.start <= setting.days
      <4>1. FirstOf[Len(MonthDays) + 1] \in Nat
        BY MonthsTyped, FirstStep
      <4> QED BY <1>1, <1>3, <1>5, <1>6, <3>1, <4>1 DEF Days
    <3>3. MonthOf(m.start) <= MonthOf(setting.days) /\ MonthOf(setting.days) < Len(MonthDays)
      BY <1>6, <2>2, <3>2, MonthGrows, SettingTyped
    <3>4. MonthOf(m.start) \in Int /\ MonthOf(setting.days) \in Int /\ Len(MonthDays) \in Int
      BY <1>6, <3>2, MonthOfDay, MonthsTyped DEF Months
    <3>5. m.start \in Startable
      BY <3>2, <3>3, <3>4 DEF Startable
    <3> QED BY <1>1, <2>2, <3>1, <3>5 DEF MembershipRows
  <2>3. CASE setting.edits /\ m = [mems[k] EXCEPT !.end = @ + 1]
    <3>1. m.end = mems[k].end + 1
      BY <1>1, <2>3 DEF MembershipRows
    <3>2. m.end \in Days
      <4>1. FirstOf[Len(MonthDays) + 1] \in Nat
        BY MonthsTyped, FirstStep
      <4> QED BY <1>1, <1>3, <1>5, <1>6, <3>1, <4>1 DEF Days
    <3> QED BY <1>1, <2>3, <3>1, <3>2 DEF MembershipRows
  <2> QED BY <1>2, <2>1, <2>2, <2>3
<1>8. m.items = mems[k].items
  BY <1>1, <1>2 DEF MembershipRows
<1>9. ~setting.edits => m.start = mems[k].start /\ m.end = mems[k].end /\ m.status = "CANCELLED"
  BY <1>1, <1>2 DEF MembershipRows
<1> HIDE DEF MembershipTypes
<1>10. mems' \in Seq(MembershipRows) /\ Len(mems') = Len(mems)
  BY <1>1, <1>2, <1>7
<1>11. \A j \in 1 .. Len(mems) : j # k => mems'[j] = mems[j]
  BY <1>1, <1>2
<1> QED BY <1>3, <1>8, <1>9, <1>10, <1>11

\* The edit of a membership keeps the types.
LEMMA EditMembershipTyped ==
    ASSUME MembershipTypes, NEW a \in Admins, NEW k \in 1 .. Len(mems), EditMembership(a, k)
    PROVE  MembershipTypes'
<1>1. /\ mems' \in Seq(MembershipRows) /\ Len(mems') = Len(mems) /\ mems # <<>>
      /\ UNCHANGED <<setting, day, anchor, subs, deal, request, cron, swept>>
  <2>1. mems # <<>>
    BY DEF MembershipTypes, RowsTyped
  <2> QED BY <2>1, EditMembershipFacts DEF EditMembership
<1> USE DEF MembershipTypes
<1>2. RowsTyped' /\ DealTyped' /\ RequestTyped'
  BY <1>1 DEF RowsTyped, DealTyped, RequestTyped, subs, deal
<1>3. CronTyped' /\ Anchored'
  BY <1>1 DEF CronTyped, Anchored, deal
<1> QED BY <1>2, <1>3

\* Switching a product on or off keeps the types.
LEMMA ProductTyped ==
    ASSUME MembershipTypes, NEW a \in Admins, NEW p \in Products,
           ActivateProduct(a, p) \/ DeactivateProduct(a, p) \/ DeactivateNow(a, p)
    PROVE  MembershipTypes'
<1> USE DEF MembershipTypes
<1>1. /\ UNCHANGED <<setting, day, anchor, mems, deal, request, cron, swept>>
      /\ \/ sub' = [sub EXCEPT ![p] = "ACTIVE"] /\ flag' = [flag EXCEPT ![p] = TRUE]
         \/ sub' = [sub EXCEPT ![p] = "INACTIVE"] /\ flag' = [flag EXCEPT ![p] = FALSE]
  BY DEF ActivateProduct, DeactivateProduct, DeactivateNow, Activated, Deactivated, Sync
<1>2. RowsTyped'
  BY <1>1 DEF RowsTyped
<1>3. DealTyped' /\ CronTyped' /\ RequestTyped' /\ Anchored'
  BY <1>1 DEF DealTyped, CronTyped, RequestTyped, Anchored, deal
<1> QED BY <1>2, <1>3

\* The agreement an upsert leaves.
LEMMA UpsertFacts ==
    ASSUME MembershipTypes, NEW a \in Admins, NEW t \in Terms, Upsert(a, t)
    PROVE  /\ agr' \in Deals /\ anchor' \in Nat /\ anchor' # 0
           /\ anchor' = IF anchor = 0 THEN DayOf(day) ELSE anchor
           /\ UNCHANGED <<setting, day, mems, subs, pays, request, cron, swept>>
           /\ Resolved(t).total \in Nat /\ Resolved(t).down \in Nat /\ Resolved(t).count \in Nat
<1> USE DEF MembershipTypes
<1>1. /\ t.type \in {"CREDITO", "CONTADO", "none"}
      /\ t.total \in Nat \cup {Absent} /\ t.down \in Nat \cup {Absent} /\ t.count \in Nat \cup {Absent}
      /\ t.free \in 0 .. MaxMonths \cup {Absent} /\ Absent = -1
      /\ FreeMonths \in 0 .. MaxMonths /\ MaxMonths \in Nat /\ Grace \in Nat
  BY TermAssumption, CalendarAssumption DEF Absent
<1>2. /\ agr = NoDeal \/ agr \in Deals
      /\ anchor \in Nat /\ day \in Days /\ (anchor = 0 => agr = NoDeal)
  BY DEF RowsTyped, DealTyped, Anchored
<1>3. Since \in Days /\ (anchor = 0 => Since = day)
  BY <1>2 DEF Since, Deals
<1>4. DayOf(day) \in Nat /\ DayOf(day) >= 1 /\ MonthOf(Since) \in Nat
  BY <1>2, <1>3, MonthOfDay, MonthsTyped DEF Months
<1> DEFINE r == Resolved(t)
           months == Or(t.free, FreeMonths)
<1>5. months \in 0 .. MaxMonths /\ MonthOf(Since) + MaxMonths <= Len(MonthDays)
  BY <1>1 DEF Or, Upsert
<1>6. AddMonths(Since, months) \in Days
  <2> HIDE DEF months
  <2>1. months \in Nat /\ MonthOf(Since) + months <= Len(MonthDays)
    BY <1>1, <1>4, <1>5, MonthsTyped
  <2> QED BY <1>3, <2>1, AddMonthsIn
<1>7. /\ r.total \in Nat /\ r.grace \in Nat /\ r.since = Since
      /\ r.freeUntil \in {0} \cup Days
  BY <1>1, <1>2, <1>6 DEF Resolved, Or, Deals
<1>8. r.down \in Nat
  <2>1. Or(t.total, IF agr # NoDeal THEN agr.total ELSE 0) \in Nat
    BY <1>1, <1>2 DEF Or, Deals
  <2>2. Or(t.total, IF agr # NoDeal THEN agr.total ELSE 0) \div 2 \in Nat
    BY <2>1
  <2> QED BY <1>1, <2>2 DEF Resolved, Or
<1>9. r.count \in Nat
  BY <1>1 DEF Resolved, Or
<1>10. r.type \in {"CREDITO", "CONTADO"}
  BY <1>1, <1>2 DEF Resolved, TypeOr, Deals, Nothing
<1>11. /\ agr' = [type |-> r.type, total |-> r.total, down |-> r.down, count |-> r.count,
                   grace |-> r.grace, since |-> r.since, freeUntil |-> r.freeUntil,
                   status |-> IF agr = NoDeal THEN "VIGENTE" ELSE agr.status]
       /\ anchor' = IF anchor = 0 THEN DayOf(r.since) ELSE anchor
       /\ UNCHANGED <<setting, day, mems, subs, pays, request, cron, swept>>
  BY DEF Upsert
<1> HIDE DEF r
<1>12. agr' \in Deals
  <2>1. (IF agr = NoDeal THEN "VIGENTE" ELSE agr.status) \in {"VIGENTE", "LIQUIDADO"}
    BY <1>2 DEF Deals
  <2> QED BY <1>3, <1>7, <1>8, <1>9, <1>10, <1>11, <2>1 DEF Deals
<1> QED BY <1>2, <1>3, <1>4, <1>7, <1>8, <1>9, <1>11, <1>12 DEF r

\* An agreement written from terms is an agreement, with its installments.
LEMMA UpsertTyped ==
    ASSUME MembershipTypes, NEW a \in Admins, NEW t \in Terms, Upsert(a, t)
    PROVE  MembershipTypes'
<1>1. /\ agr' \in Deals /\ anchor' \in Nat /\ anchor' # 0
      /\ anchor' = IF anchor = 0 THEN DayOf(day) ELSE anchor
      /\ UNCHANGED <<setting, day, mems, subs, pays, request, cron, swept>>
  BY UpsertFacts
<1> USE DEF MembershipTypes
<1>2. RowsTyped' /\ DealTyped' /\ CronTyped' /\ RequestTyped'
  BY <1>1, DealIsDeal DEF RowsTyped, DealTyped, CronTyped, RequestTyped, subs
<1>3. Anchored'
  <2>1. \A b \in Admins : request[b] \in MembershipRequests => request[b].anchor \in Nat \ {0}
    BY DEF MembershipRequests
  <2> QED BY <1>1, <2>1 DEF Anchored
<1> QED BY <1>2, <1>3

\* Money of the standing payments of some kinds.
StandsIn(seq, kinds) == {k \in 1 .. Len(seq) : ~seq[k].void /\ seq[k].kind \in kinds}
Money(seq, kinds) == SumFunctionOnSet([k \in 1 .. Len(seq) |-> seq[k].amount], StandsIn(seq, kinds))

\* The money of a list of payments is a natural number.
LEMMA MoneyNat ==
    ASSUME NEW seq \in Seq(PayRows), NEW kinds
    PROVE  /\ Money(seq, kinds) \in Nat /\ IsFiniteSet(StandsIn(seq, kinds))
           /\ StandsIn(seq, kinds) = {} => Money(seq, kinds) = 0
<1> DEFINE g == [k \in 1 .. Len(seq) |-> seq[k].amount]
           T == StandsIn(seq, kinds)
<1>1. /\ Len(seq) \in Nat /\ T \in SUBSET (1 .. Len(seq)) /\ IsFiniteSet(1 .. Len(seq))
      /\ \A k \in 1 .. Len(seq) : seq[k] \in PayRows
  <2>1. Len(seq) \in Nat /\ \A k \in 1 .. Len(seq) : seq[k] \in PayRows
    OBVIOUS
  <2>2. IsFiniteSet(1 .. Len(seq))
    BY <2>1, FS_Interval
  <2> QED BY <2>1, <2>2 DEF StandsIn
<1>2. \A k \in T : g[k] \in Nat
  BY <1>1 DEF PayRows
<1>3. IsFiniteSet(T)
  BY <1>1, FS_Subset
<1> HIDE DEF g, T
<1>4. SumFunctionOnSet(g, T) \in Nat /\ (T = {} => SumFunctionOnSet(g, T) = 0)
  BY <1>2, <1>3, SumNat, SumEmpty
<1> QED BY <1>3, <1>4 DEF Money, g, T

\* What the code sums for a kind of payment is the money of that kind.
LEMMA PaidIsMoney ==
    /\ \A kinds : Sum(kinds) = Money(pays, kinds) /\ Standing(kinds) = StandsIn(pays, kinds)
    /\ Paid = Money(pays, Kinds)
  BY DEF Sum, Standing, Money, StandsIn, Paid

\* A payment adds its amount to the kinds it is of.
LEMMA MoneyAppend ==
    ASSUME NEW seq \in Seq(PayRows), NEW x \in PayRows, NEW kinds
    PROVE  Money(Append(seq, x), kinds)
           = Money(seq, kinds) + (IF ~x.void /\ x.kind \in kinds THEN x.amount ELSE 0)
<1> DEFINE new == Append(seq, x)  n == Len(seq) + 1
           g == [k \in 1 .. Len(seq) |-> seq[k].amount]
           h == [k \in 1 .. Len(new) |-> new[k].amount]
           S == StandsIn(seq, kinds)  T == StandsIn(new, kinds)
<1>1. /\ Len(seq) \in Nat /\ Len(new) = n /\ new[n] = x
      /\ \A k \in 1 .. Len(seq) : new[k] = seq[k] /\ seq[k] \in PayRows
  OBVIOUS
<1>2. \A k \in 1 .. n : k = n \/ k \in 1 .. Len(seq)
  BY <1>1
<1>3. n \in Nat /\ n \notin 1 .. Len(seq) /\ n \in 1 .. n /\ 1 .. Len(seq) \subseteq 1 .. n
  BY <1>1
<1> HIDE DEF new, n
<1>4. T = IF ~x.void /\ x.kind \in kinds THEN S \cup {n} ELSE S
  BY <1>1, <1>2, <1>3 DEF StandsIn
<1>5. IsFiniteSet(S) /\ S \subseteq 1 .. Len(seq) /\ n \notin S
  BY <1>3, MoneyNat DEF StandsIn
<1>6. /\ \A k \in S : g[k] = h[k] /\ h[k] \in Int
      /\ h[n] = x.amount /\ x.amount \in Int
  BY <1>1, <1>3, <1>5 DEF PayRows
<1>7. SumFunctionOnSet(g, S) = SumFunctionOnSet(h, S)
  <2> HIDE DEF g, h, S
  <2> QED BY <1>5, <1>6, SumSame
<1>8. SumFunctionOnSet(h, S \cup {n}) = h[n] + SumFunctionOnSet(h, S)
  <2> HIDE DEF g, h, S
  <2> QED BY <1>5, <1>6, SumAdd
<1>9. Money(new, kinds) = SumFunctionOnSet(h, T) /\ Money(seq, kinds) = SumFunctionOnSet(g, S)
  BY DEF Money
<1>10. Money(seq, kinds) \in Nat
  BY MoneyNat
<1> HIDE DEF g, h, S, T
<1> QED BY <1>4, <1>6, <1>7, <1>8, <1>9, <1>10 DEF new

\* A payment that is voided takes its amount away.
LEMMA MoneyVoid ==
    ASSUME NEW seq \in Seq(PayRows), NEW k \in 1 .. Len(seq), ~seq[k].void, NEW kinds
    PROVE  /\ [seq EXCEPT ![k].void = TRUE] \in Seq(PayRows)
           /\ Money([seq EXCEPT ![k].void = TRUE], kinds)
              = Money(seq, kinds) - (IF seq[k].kind \in kinds THEN seq[k].amount ELSE 0)
<1> DEFINE new == [seq EXCEPT ![k].void = TRUE]
           g == [i \in 1 .. Len(seq) |-> seq[i].amount]
           h == [i \in 1 .. Len(new) |-> new[i].amount]
           S == StandsIn(seq, kinds)  T == StandsIn(new, kinds)
<1>0. seq[k] \in PayRows /\ \A i \in 1 .. Len(seq) : seq[i] \in PayRows
  OBVIOUS
<1> DEFINE row == [seq[k] EXCEPT !.void = TRUE]
<1>1. new = [seq EXCEPT ![k] = row]
  OBVIOUS
<1>2. row \in PayRows /\ row.void = TRUE /\ row.amount = seq[k].amount
  BY <1>0 DEF PayRows
<1> HIDE DEF row, new
<1>3. /\ new \in Seq(PayRows) /\ Len(seq) \in Nat /\ Len(new) = Len(seq) /\ new[k] = row
      /\ \A i \in 1 .. Len(seq) : i # k => new[i] = seq[i]
  BY <1>1, <1>2
<1>4. T = S \ {k}
  BY <1>2, <1>3 DEF StandsIn
<1>5. IsFiniteSet(S) /\ IsFiniteSet(T) /\ S \subseteq 1 .. Len(seq) /\ (k \in S <=> seq[k].kind \in kinds)
  BY <1>3, MoneyNat DEF StandsIn
<1>6. /\ \A i \in 1 .. Len(seq) : g[i] = h[i] /\ g[i] \in Int
      /\ g[k] = seq[k].amount
  <2>1. \A i \in 1 .. Len(seq) : seq[i].amount \in Int /\ new[i].amount = seq[i].amount
    BY <1>0, <1>2, <1>3 DEF PayRows
  <2> QED BY <1>3, <2>1
<1>7. SumFunctionOnSet(g, T) = SumFunctionOnSet(h, T)
  <2>1. T \subseteq 1 .. Len(seq)
    BY <1>4, <1>5
  <2> HIDE DEF g, h, S, T
  <2> QED BY <1>5, <1>6, <2>1, SumSame
<1>8. ASSUME k \in S PROVE SumFunctionOnSet(g, S) = g[k] + SumFunctionOnSet(g, T)
  <2> HIDE DEF g, h, S, T
  <2>1. \A i \in T \cup {k} : g[i] \in Int
    BY <1>4, <1>5, <1>6
  <2>2. k \notin T /\ IsFiniteSet(T)
    BY <1>4, <1>5
  <2>3. SumFunctionOnSet(g, T \cup {k}) = g[k] + SumFunctionOnSet(g, T)
    BY <2>1, <2>2, SumAdd
  <2>4. T \cup {k} = S
    BY <1>4, <1>8
  <2> QED BY <2>3, <2>4
<1>10. Money(new, kinds) = SumFunctionOnSet(h, T) /\ Money(seq, kinds) = SumFunctionOnSet(g, S)
  BY DEF Money
<1>9. seq[k].amount \in Nat
  BY <1>0 DEF PayRows
<1>11. Money(new, kinds) \in Nat /\ Money(seq, kinds) \in Nat
  BY <1>3, MoneyNat
<1> HIDE DEF g, h, S, T
<1>12. Money(new, kinds) = Money(seq, kinds) - (IF seq[k].kind \in kinds THEN seq[k].amount ELSE 0)
  <2>1. CASE k \in S
    BY <1>5, <1>6, <1>7, <1>8, <1>10, <1>11, <1>9, <2>1
  <2>2. CASE k \notin S
    <3>1. SumFunctionOnSet(g, T) = SumFunctionOnSet(g, S)
      <4>1. T = S
        BY <1>4, <2>2
      <4> QED BY <4>1
    <3> QED BY <1>5, <1>7, <1>10, <1>11, <2>2, <3>1
  <2> QED BY <2>1, <2>2
<1> QED BY <1>3, <1>12 DEF new

\* All that is paid is advances and what settles installments.
LEMMA MoneySplit ==
    ASSUME NEW seq \in Seq(PayRows)
    PROVE  Money(seq, Kinds) = Money(seq, {"ADELANTO"}) + Money(seq, Settling)
<1> DEFINE g == [k \in 1 .. Len(seq) |-> seq[k].amount]
           S == StandsIn(seq, {"ADELANTO"})  T == StandsIn(seq, Settling)
<1>1. StandsIn(seq, Kinds) = S \cup T /\ S \cap T = {}
  BY DEF StandsIn, Kinds, Settling
<1>2. IsFiniteSet(S) /\ IsFiniteSet(T)
  BY MoneyNat
<1>3. \A k \in S \cup T : g[k] \in Int
  <2>1. \A k \in S \cup T : k \in 1 .. Len(seq) /\ seq[k] \in PayRows
    BY DEF StandsIn
  <2> QED BY <2>1 DEF PayRows
<1>4. SumFunctionOnSet(g, S \cup T) = SumFunctionOnSet(g, S) + SumFunctionOnSet(g, T)
  <2> HIDE DEF g, S, T
  <2> QED BY <1>1, <1>2, <1>3, SumUnion
<1> QED BY <1>1, <1>4 DEF Money

\* The request of a payment keeps the balance that it read.
LEMMA BeginPaymentTyped ==
    ASSUME MembershipTypes, NEW a \in Admins, NEW kind \in Kinds, NEW n \in Amounts,
           BeginPayment(a, kind, n)
    PROVE  MembershipTypes'
<1> USE DEF MembershipTypes
<1> DEFINE r == [kind |-> kind, amount |-> n, balance |-> agr.total - Paid]
<1>1. /\ request' = [request EXCEPT ![a] = r] /\ a \in setting.admins /\ agr # NoDeal
      /\ UNCHANGED <<setting, day, anchor, mems, subs, deal, cron, swept>>
  BY DEF BeginPayment, Free
<1>2. agr.total \in Nat /\ Paid \in Nat
  <2>1. agr \in Deals
    BY DEF BeginPayment, DealTyped
  <2>2. pays \in Seq(PayRows)
    BY DEF DealTyped
  <2> QED BY <2>1, <2>2, PaidIsMoney, MoneyNat DEF Deals
<1>3. r \in PayRequests
  BY <1>2, TermAssumption DEF PayRequests
<1>4. RowsTyped' /\ DealTyped' /\ CronTyped'
  BY <1>1 DEF RowsTyped, DealTyped, CronTyped, subs, deal
<1> HIDE DEF r
<1>5. RequestTyped'
  BY <1>1, <1>3, RequestKinds DEF RequestTyped, AnyRequest, deal
<1>6. Anchored'
  <2>1. \A b \in Admins : request'[b] \in MembershipRequests => request'[b] = request[b]
    BY <1>1, <1>3, RequestKinds DEF RequestTyped
  <2> QED BY <1>1, <2>1 DEF Anchored, deal
<1> QED BY <1>4, <1>5, <1>6

\* A payment that is recorded.
Recorded(r) == [kind |-> r.kind, amount |-> r.amount, void |-> FALSE]

\* What the registration of a payment writes.
LEMMA CommitPaymentFacts ==
    ASSUME MembershipTypes, NEW a \in Admins, CommitPayment(a)
    PROVE  /\ request[a] \in PayRequests /\ a \in setting.admins /\ agr \in Deals /\ agr' \in Deals
           /\ Recorded(request[a]) \in PayRows
           /\ pays' = Append(pays, Recorded(request[a])) /\ pays' \in Seq(PayRows)
           /\ request' = [request EXCEPT ![a] = NoRequest]
           /\ UNCHANGED <<setting, day, anchor, mems, subs, cron, swept>>
<1> USE DEF MembershipTypes
<1>1. request[a] \in PayRequests /\ a \in setting.admins
  BY RequestKinds DEF CommitPayment, RequestTyped, AnyRequest
<1>2. Recorded(request[a]) \in PayRows
  BY <1>1 DEF Recorded, PayRequests, PayRows
<1>3. /\ pays' = Append(pays, Recorded(request[a]))
      /\ request' = [request EXCEPT ![a] = NoRequest]
      /\ UNCHANGED <<setting, day, anchor, mems, subs, cron, swept>>
  BY DEF CommitPayment, Recorded
<1>4. pays' \in Seq(PayRows)
  BY <1>2, <1>3 DEF DealTyped
<1>5. agr \in Deals /\ agr' \in Deals
  <2>1. agr \in Deals
    BY <1>1 DEF DealTyped, RequestTyped
  <2>2. agr' = agr \/ agr' = [agr EXCEPT !.status = "LIQUIDADO"]
    BY DEF CommitPayment
  <2> QED BY <2>1, <2>2 DEF Deals
<1> QED BY <1>1, <1>2, <1>3, <1>4, <1>5

\* The registration of a payment keeps the types.
LEMMA CommitPaymentTyped ==
    ASSUME MembershipTypes, NEW a \in Admins, CommitPayment(a)
    PROVE  MembershipTypes'
<1>1. /\ request[a] \in PayRequests /\ agr \in Deals /\ agr' \in Deals
      /\ pays' \in Seq(PayRows)
      /\ request' = [request EXCEPT ![a] = NoRequest]
      /\ UNCHANGED <<setting, day, anchor, mems, subs, cron, swept>>
  BY CommitPaymentFacts
<1> USE DEF MembershipTypes
<1>2. agr # NoDeal /\ agr' # NoDeal
  BY <1>1, DealIsDeal
<1>3. RowsTyped' /\ CronTyped' /\ DealTyped'
  BY <1>1, <1>2 DEF RowsTyped, CronTyped, DealTyped, subs
<1>4. RequestTyped'
  BY <1>1, <1>2 DEF RequestTyped, AnyRequest
<1>5. Anchored'
  <2>1. \A b \in Admins : request'[b] \in MembershipRequests => request'[b] = request[b]
    BY <1>1, RequestKinds DEF RequestTyped
  <2> QED BY <1>1, <1>2, <2>1, DealIsDeal DEF Anchored
<1> QED BY <1>3, <1>4, <1>5

\* What the void of a payment writes.
LEMMA VoidPaymentFacts ==
    ASSUME MembershipTypes, NEW a \in Admins, NEW k \in 1 .. Len(pays), VoidPayment(a, k)
    PROVE  /\ agr \in Deals /\ agr' \in Deals /\ pays \in Seq(PayRows) /\ pays' \in Seq(PayRows)
           /\ pays' = [pays EXCEPT ![k].void = TRUE] /\ ~pays[k].void
           /\ UNCHANGED <<setting, day, anchor, mems, subs, request, cron, swept>>
<1>1. /\ pays \in Seq(PayRows) /\ pays' \in Seq(PayRows)
      /\ pays' = [pays EXCEPT ![k].void = TRUE] /\ ~pays[k].void
      /\ UNCHANGED <<setting, day, anchor, mems, subs, request, cron, swept>>
  BY MoneyVoid DEF VoidPayment, MembershipTypes, DealTyped
<1>2. agr \in Deals
  BY DEF MembershipTypes, DealTyped
<1>3. agr' = agr \/ agr' = [agr EXCEPT !.status = "VIGENTE"]
  BY DEF VoidPayment
<1>4. agr' \in Deals
  BY <1>2, <1>3 DEF Deals
<1> QED BY <1>1, <1>2, <1>4

\* The void of a payment keeps the types.
LEMMA VoidPaymentTyped ==
    ASSUME MembershipTypes, NEW a \in Admins, NEW k \in 1 .. Len(pays), VoidPayment(a, k)
    PROVE  MembershipTypes'
<1>1. /\ agr # NoDeal /\ agr' # NoDeal /\ agr' \in Deals /\ pays' \in Seq(PayRows)
      /\ UNCHANGED <<setting, day, anchor, mems, subs, request, cron, swept>>
  BY VoidPaymentFacts, DealIsDeal
<1> USE DEF MembershipTypes
<1>2. RowsTyped' /\ CronTyped' /\ DealTyped' /\ RequestTyped'
  BY <1>1 DEF RowsTyped, CronTyped, DealTyped, RequestTyped, subs
<1>3. Anchored'
  BY <1>1 DEF Anchored
<1> QED BY <1>2, <1>3

\* Every step keeps the types.
LEMMA MembershipStepTyped ==
    ASSUME MembershipTypes, [MembershipNext]_membershipVars PROVE MembershipTypes'
<1>1. CASE MembershipNext
  <2>1. CASE DayPasses
    BY <2>1, DayPassesTyped
  <2>2. CASE \/ CronRead \/ CronExpire \/ CronCut \/ CronFlag \/ CronEnd \/ CronDies
             \/ \E p \in Products : CronLook(p)
    BY <2>2, CronTypes
  <2>3. ASSUME NEW a \in Admins, NEW items \in SUBSET setting.products, BeginMembership(a, items)
        PROVE  MembershipTypes'
    BY <2>3, BeginMembershipTyped
  <2>4. ASSUME NEW a \in Admins, CommitMembership(a) PROVE MembershipTypes'
    BY <2>4, CommitMembershipTyped
  <2>5. ASSUME NEW a \in Admins, NEW k \in 1 .. Len(mems), EditMembership(a, k)
        PROVE  MembershipTypes'
    BY <2>5, EditMembershipTyped
  <2>6. ASSUME NEW a \in Admins, NEW p \in Products,
               ActivateProduct(a, p) \/ DeactivateProduct(a, p) \/ DeactivateNow(a, p)
        PROVE  MembershipTypes'
    BY <2>6, ProductTyped
  <2>7. ASSUME NEW a \in Admins, NEW t \in Terms, Upsert(a, t) PROVE MembershipTypes'
    BY <2>7, UpsertTyped
  <2>8. ASSUME NEW a \in Admins, NEW kind \in Kinds, NEW n \in Amounts, BeginPayment(a, kind, n)
        PROVE  MembershipTypes'
    BY <2>8, BeginPaymentTyped
  <2>9. ASSUME NEW a \in Admins, CommitPayment(a) PROVE MembershipTypes'
    BY <2>9, CommitPaymentTyped
  <2>10. ASSUME NEW a \in Admins, NEW k \in 1 .. Len(pays), VoidPayment(a, k)
         PROVE  MembershipTypes'
    BY <2>10, VoidPaymentTyped
  <2> QED BY <1>1, <2>1, <2>2, <2>3, <2>4, <2>5, <2>6, <2>7, <2>8, <2>9, <2>10 DEF MembershipNext
<1>2. CASE UNCHANGED membershipVars
  BY <1>2 DEF membershipVars, subs, deal, MembershipTypes, RowsTyped, DealTyped, CronTyped,
              RequestTyped, Anchored
<1> QED BY <1>1, <1>2

\* Every period starts on a day of the calendar that has a month after it; the anchor
\* comes with the first membership or agreement and an open request has read it.
THEOREM MembershipsTyped == MembershipSpec => []MembershipTypes
<1> QED BY MembershipInitTyped, MembershipStepTyped, PTL DEF MembershipSpec

(***************************************************************************)
(* The periods of a business follow one another.                           *)
(***************************************************************************)
Alone == ~setting.edits /\ Cardinality(setting.admins) = 1

\* Unless dates are edited a membership ends on the anchor day.
Dated ==
    ~setting.edits =>
        \A k \in 1 .. Len(mems) : mems[k].end = DueDate(mems[k].start, anchor)

\* With one superadmin, an open request starts where the last membership ends.
PeriodsFit ==
    \A j, k \in 1 .. Len(mems) : j < k =>
        /\ mems[j].end <= mems[k].start
        /\ mems[k].start = OnDay(MonthOf(mems[k].start), anchor)
StartsNext ==
    \A a \in Admins : request[a] \in MembershipRequests /\ mems # <<>> =>
        request[a].start = mems[Len(mems)].end
InOrder == Alone => PeriodsFit /\ StartsNext

OrderInv == MembershipTypes /\ Dated /\ InOrder

\* What every action needs of the rows of the memberships.
LEMMA MemsTyped ==
    ASSUME MembershipTypes
    PROVE  /\ mems \in Seq(MembershipRows) /\ Len(mems) \in Nat /\ anchor \in Nat
           /\ mems # <<>> <=> Len(mems) # 0
           /\ \A k \in 1 .. Len(mems) :
                 /\ mems[k] \in MembershipRows /\ anchor # 0 /\ k \in Nat
                 /\ mems[k].start \in Startable /\ mems[k].start \in Nat /\ mems[k].end \in Nat
                 /\ mems[k].end \in Days /\ mems[k].items \in SUBSET Products
                 /\ mems[k].status \in {"ACTIVE", "EXPIRED", "CANCELLED"}
<1>1. mems \in Seq(MembershipRows) /\ anchor \in Nat /\ (anchor = 0 => mems = <<>>)
  BY DEF MembershipTypes, RowsTyped, DealTyped, Anchored
<1>2. Len(mems) \in Nat /\ (mems # <<>> <=> Len(mems) # 0)
  BY <1>1
<1>3. ASSUME NEW k \in 1 .. Len(mems)
      PROVE  /\ mems[k] \in MembershipRows /\ anchor # 0 /\ k \in Nat
             /\ mems[k].start \in Startable /\ mems[k].start \in Nat /\ mems[k].end \in Nat
             /\ mems[k].end \in Days /\ mems[k].items \in SUBSET Products
             /\ mems[k].status \in {"ACTIVE", "EXPIRED", "CANCELLED"}
  <2>1. mems[k] \in MembershipRows /\ k \in Nat /\ mems # <<>>
    BY <1>1, <1>2
  <2>2. /\ mems[k].start \in Startable /\ mems[k].end \in Days /\ mems[k].items \in SUBSET Products
        /\ mems[k].status \in {"ACTIVE", "EXPIRED", "CANCELLED"}
    BY <2>1 DEF MembershipRows
  <2>3. mems[k].start \in Nat /\ mems[k].end \in Nat
    BY <2>2, MonthOfDay DEF Startable
  <2> QED BY <1>1, <2>1, <2>2, <2>3
<1> QED BY <1>1, <1>2, <1>3

\* A step that leaves the dates alone.
LEMMA OrderKept ==
    ASSUME OrderInv, MembershipTypes', setting' = setting, Len(mems') = Len(mems),
           \A k \in 1 .. Len(mems) : /\ mems'[k].start = mems[k].start
                                     /\ mems'[k].end = mems[k].end,
           mems # <<>> => anchor' = anchor,
           \A a \in Admins : request'[a] \in MembershipRequests => request'[a] = request[a]
    PROVE  OrderInv'
<1>1. /\ Len(mems) \in Nat /\ (mems # <<>> <=> Len(mems) # 0)
      /\ (mems' # <<>> <=> Len(mems') # 0)
      /\ \A k \in 1 .. Len(mems) : k \in Nat
  <2>1. Len(mems) \in Nat /\ (mems # <<>> <=> Len(mems) # 0) /\ \A k \in 1 .. Len(mems) : k \in Nat
    BY MemsTyped DEF OrderInv
  <2>2. mems' \in Seq(MembershipRows)
    BY DEF MembershipTypes, RowsTyped
  <2> QED BY <2>1, <2>2
<1>2. \A k \in 1 .. Len(mems) : anchor' = anchor
  BY <1>1
<1>3. Dated'
  BY <1>1, <1>2 DEF Dated, OrderInv
<1>4. InOrder'
  <2> SUFFICES ASSUME Alone' PROVE PeriodsFit' /\ StartsNext'
    BY DEF InOrder
  <2>1. Alone
    BY DEF Alone
  <2>2. \A j, k \in 1 .. Len(mems) : j < k =>
              /\ mems[j].end <= mems[k].start
              /\ mems[k].start = OnDay(MonthOf(mems[k].start), anchor)
    BY <2>1 DEF InOrder, OrderInv, PeriodsFit, StartsNext
  <2>3. \A a \in Admins : request[a] \in MembershipRequests /\ mems # <<>> =>
              request[a].start = mems[Len(mems)].end
    BY <2>1 DEF InOrder, OrderInv, PeriodsFit, StartsNext
  <2>4. mems # <<>> => mems'[Len(mems)].end = mems[Len(mems)].end
    BY <1>1
  <2>5. \A a \in Admins : request'[a] \in MembershipRequests /\ mems' # <<>> =>
              request'[a].start = mems'[Len(mems')].end
    BY <1>1, <2>3, <2>4
  <2>6. \A j, k \in 1 .. Len(mems') : j < k =>
              /\ mems'[j].end <= mems'[k].start
              /\ mems'[k].start = OnDay(MonthOf(mems'[k].start), anchor')
    BY <1>2, <2>2
  <2> QED BY <2>5, <2>6 DEF PeriodsFit, StartsNext
<1> QED BY <1>3, <1>4 DEF OrderInv

\* The last membership is the latest one.
LEMMA LastIsLatest ==
    ASSUME OrderInv, Alone, mems # <<>>
    PROVE  /\ Latest(1 .. Len(mems)) = Len(mems) /\ Len(mems) \in 1 .. Len(mems)
           /\ mems[Len(mems)].end = DueDate(mems[Len(mems)].start, anchor) /\ anchor # 0
<1> DEFINE n == Len(mems)  L == Latest(1 .. n)
<1>1. n \in Nat /\ n # 0 /\ n \in 1 .. n /\ 1 .. n # {} /\ RowsTyped
  <2>1. n \in Nat /\ n # 0 /\ RowsTyped
    BY MemsTyped DEF OrderInv, MembershipTypes
  <2>2. n \in 1 .. n
    BY <2>1
  <2> QED BY <2>1, <2>2
<1>2. /\ L \in 1 .. n
      /\ \/ mems[n].end < mems[L].end
         \/ mems[n].end = mems[L].end /\ mems[n].start <= mems[L].start
  BY <1>1, LatestIn
<1>3. \A k \in 1 .. n : /\ mems[k].start \in Nat /\ mems[k].end \in Nat /\ k \in Nat /\ anchor # 0
                        /\ mems[k].start \in Startable /\ anchor \in Nat
                        /\ mems[k].end = DueDate(mems[k].start, anchor)
  BY MemsTyped DEF OrderInv, Dated, Alone
<1>4. mems[n].start < mems[n].end
  BY <1>1, <1>3, DueDateIn
<1>5. L < n => mems[L].end <= mems[n].start
  BY <1>1, <1>2 DEF OrderInv, InOrder, PeriodsFit, StartsNext
<1>6. L = n
  <2>1. L \in Nat /\ mems[L].end \in Nat /\ mems[n].end \in Nat /\ mems[n].start \in Nat
    BY <1>1, <1>2, <1>3
  <2> HIDE DEF L, n
  <2> QED BY <1>1, <1>2, <1>4, <1>5, <2>1
<1> QED BY <1>1, <1>3, <1>6

\* With one superadmin no other request is open.
LEMMA OnlyOne ==
    ASSUME MembershipTypes, Cardinality(setting.admins) = 1, NEW a \in Admins, NEW b \in Admins, a \in setting.admins,
           request[b] # NoRequest
    PROVE  a = b
<1>1. b \in setting.admins
  BY DEF RequestTyped, MembershipTypes
<1>2. PICK x : setting.admins = {x}
  BY FS_Singleton, SettingTyped DEF MembershipTypes
<1> QED BY <1>1, <1>2

\* A request that opens a period has read where the last one ended.
LEMMA BeginMembershipInOrder ==
    ASSUME OrderInv, MembershipTypes', NEW a \in Admins, NEW items \in SUBSET setting.products,
           BeginMembership(a, items)
    PROVE  OrderInv'
<1> DEFINE r == [kind |-> "membership", start |-> NewStart, items |-> items,
                 anchor |-> NewAnchor, hadAnchor |-> anchor # 0]
<1>1. /\ request' = [request EXCEPT ![a] = r] /\ request \in [Admins -> AnyRequest]
      /\ UNCHANGED <<setting, day, anchor, mems, subs, deal, cron, swept>>
      /\ request[a] = NoRequest /\ a \in setting.admins
      /\ MonthOf(NewStart) < Len(MonthDays)
  BY DEF BeginMembership, Free, OrderInv, MembershipTypes, RequestTyped
<1>2. r.start = NewStart
  OBVIOUS
<1> HIDE DEF r
<1>3. Dated'
  BY <1>1 DEF Dated, OrderInv
<1>4. ASSUME Alone, mems # <<>> PROVE NewStart = mems[Len(mems)].end
  <2>1. NewAnchor = anchor
    BY <1>1, <1>4, NewStartIn, LastIsLatest DEF OrderInv
  <2>2. NewStart = DueDate(mems[Latest(1 .. Len(mems))].start, NewAnchor)
    BY <1>4 DEF NewStart, Previous
  <2> QED BY <1>4, <2>1, <2>2, LastIsLatest
<1>5. InOrder'
  <2> SUFFICES ASSUME Alone' PROVE PeriodsFit' /\ StartsNext'
    BY DEF InOrder
  <2>1. Alone
    BY <1>1 DEF Alone
  <2>2. \A b \in Admins : request'[b] \in MembershipRequests /\ mems # <<>> =>
              request'[b].start = mems[Len(mems)].end
    <3> TAKE b \in Admins
    <3>1. CASE b = a
      BY <1>1, <1>2, <1>4, <2>1, <3>1
    <3>2. CASE b # a
      BY <1>1, <2>1, <3>2 DEF OrderInv, InOrder, PeriodsFit, StartsNext
    <3> QED BY <3>1, <3>2
  <2>3. \A j, k \in 1 .. Len(mems) : j < k =>
              /\ mems[j].end <= mems[k].start
              /\ mems[k].start = OnDay(MonthOf(mems[k].start), anchor)
    BY <2>1 DEF InOrder, OrderInv, PeriodsFit, StartsNext
  <2> QED BY <1>1, <2>2, <2>3 DEF PeriodsFit, StartsNext
<1> QED BY <1>3, <1>5 DEF OrderInv

\* A period is written to begin where the one before it ended.
LEMMA CommitMembershipInOrder ==
    ASSUME OrderInv, MembershipTypes', NEW a \in Admins, CommitMembership(a)
    PROVE  OrderInv'
<1> DEFINE r == request[a]  n == Len(mems)  m == Written(request[a])
<1>1. /\ r \in MembershipRequests /\ a \in setting.admins
      /\ mems' = Append(mems, m)
      /\ anchor' = r.anchor
      /\ mems # <<>> => anchor # 0 /\ anchor' = anchor
      /\ request' = [request EXCEPT ![a] = NoRequest]
      /\ UNCHANGED setting
  BY CommitMembershipFacts DEF OrderInv
<1>2. mems \in Seq(MembershipRows) /\ n \in Nat /\ request \in [Admins -> AnyRequest]
  BY MemsTyped DEF OrderInv, MembershipTypes, RequestTyped
<1>3. /\ Len(mems') = n + 1 /\ mems'[n + 1] = m
      /\ \A k \in 1 .. n : mems'[k] = mems[k]
      /\ \A k \in 1 .. (n + 1) : k = n + 1 \/ (k \in 1 .. n /\ mems # <<>>)
  <2> HIDE DEF m
  <2> QED BY <1>1, <1>2
<1>4. m.start = r.start /\ m.end = DueDate(r.start, r.anchor)
  BY DEF Written
<1> HIDE DEF m, r, n
<1>5. Dated'
  <2> SUFFICES ASSUME ~setting'.edits, NEW k \in 1 .. Len(mems')
               PROVE  mems'[k].end = DueDate(mems'[k].start, anchor')
    BY DEF Dated
  <2>1. CASE k = n + 1
    BY <1>1, <1>3, <1>4, <2>1
  <2>2. CASE k \in 1 .. n /\ mems # <<>>
    BY <1>1, <1>3, <2>2 DEF Dated, OrderInv, n
  <2> QED BY <1>3, <2>1, <2>2
<1>6. InOrder'
  <2> SUFFICES ASSUME Alone' PROVE PeriodsFit' /\ StartsNext'
    BY DEF InOrder
  <2>1. Alone
    BY <1>1 DEF Alone
  <2>2. \A b \in Admins : request'[b] = NoRequest
    <3> TAKE b \in Admins
    <3>1. CASE b = a
      BY <1>1, <1>2, <3>1
    <3>2. CASE b # a
      <4>1. request[b] = NoRequest
        BY <1>1, <2>1, <3>2, OnlyOne DEF OrderInv, Alone
      <4> QED BY <1>1, <1>2, <3>2, <4>1
    <3> QED BY <3>1, <3>2
  <2>3. \A j, k \in 1 .. n : j < k =>
              /\ mems[j].end <= mems[k].start
              /\ mems[k].start = OnDay(MonthOf(mems[k].start), anchor)
    BY <2>1 DEF InOrder, OrderInv, PeriodsFit, StartsNext, n
  <2>4. ASSUME NEW j \in 1 .. n
        PROVE  /\ mems[j].end <= r.start
               /\ r.start = OnDay(MonthOf(r.start), anchor')
    <3>1. mems # <<>>
      BY <1>3, <2>4, MemsTyped DEF OrderInv, n
    <3>2. r.start = mems[n].end /\ n \in 1 .. n
      BY <1>1, <2>1, <3>1, LastIsLatest DEF OrderInv, InOrder, PeriodsFit, StartsNext, r, n
    <3>3. mems[n].end = DueDate(mems[n].start, anchor) /\ anchor # 0
      BY <2>1, <3>1, LastIsLatest DEF n
    <3>4. /\ mems[n].start \in Startable /\ anchor \in Nat /\ anchor >= 1 /\ n \in Nat /\ j \in Nat
          /\ mems[n].start \in Nat /\ mems[n].end \in Nat /\ mems[j].end \in Nat /\ j <= n
      BY <3>2, <3>3, MemsTyped DEF OrderInv, n
    <3>5. mems[n].start < mems[n].end /\ mems[n].end = OnDay(MonthOf(mems[n].end), anchor)
      BY <3>3, <3>4, DueDateIn
    <3>6. j = n \/ mems[j].end <= mems[n].start
      BY <2>3, <3>2, <3>4
    <3> QED BY <1>1, <3>1, <3>2, <3>4, <3>5, <3>6
  <2>5. \A j, k \in 1 .. (n + 1) : j < k =>
              /\ mems'[j].end <= mems'[k].start
              /\ mems'[k].start = OnDay(MonthOf(mems'[k].start), anchor')
    <3> SUFFICES ASSUME NEW j \in 1 .. (n + 1), NEW k \in 1 .. (n + 1), j < k
                 PROVE  /\ mems'[j].end <= mems'[k].start
                        /\ mems'[k].start = OnDay(MonthOf(mems'[k].start), anchor')
      OBVIOUS
    <3>1. j \in 1 .. n
      BY <1>2 DEF n
    <3>2. mems'[j] = mems[j] /\ anchor' = anchor
      <4>1. mems # <<>>
        BY <3>1, MemsTyped DEF OrderInv, n
      <4> QED BY <1>1, <1>3, <3>1, <4>1
    <3>3. CASE k = n + 1
      BY <1>3, <1>4, <2>4, <3>1, <3>2, <3>3
    <3>4. CASE k \in 1 .. n
      BY <1>3, <2>3, <3>1, <3>2, <3>4
    <3> QED BY <1>3, <3>3, <3>4
  <2> QED BY <1>3, <2>2, <2>5, RequestKinds DEF PeriodsFit, StartsNext
<1> QED BY <1>5, <1>6 DEF OrderInv

\* The memberships of the first state are in order.
LEMMA MembershipInitInOrder ==
    ASSUME MembershipInit PROVE OrderInv
<1>1. MembershipTypes
  BY MembershipInitTyped
<1>2. \A a \in Admins : request[a] \notin MembershipRequests
  BY RequestKinds DEF MembershipInit
<1>3. Len(mems) \in {0, 1} /\ \A k \in 1 .. Len(mems) : k = 1 /\ mems[k].end = DueDate(mems[k].start, anchor)
  <2>1. CASE setting.first = {}
    BY <2>1 DEF MembershipInit
  <2>2. CASE setting.first # {}
    <3>1. mems = << FirstMembership(setting.first) >> /\ anchor = 1
      BY <2>2 DEF MembershipInit
    <3>2. Len(mems) = 1 /\ mems[1] = FirstMembership(setting.first)
      BY <3>1
    <3> QED BY <3>1, <3>2 DEF FirstMembership
  <2> QED BY <2>1, <2>2
<1>4. Dated
  BY <1>3 DEF Dated
<1>5. InOrder
  BY <1>2, <1>3 DEF InOrder, PeriodsFit, StartsNext
<1> QED BY <1>1, <1>4, <1>5 DEF OrderInv

\* Every step keeps the periods in order.
LEMMA MembershipStepInOrder ==
    ASSUME OrderInv, [MembershipNext]_membershipVars PROVE OrderInv'
<1>0. MembershipTypes /\ MembershipTypes' /\ Len(mems) \in Nat
  BY MembershipStepTyped, MemsTyped DEF OrderInv
<1>1. CASE MembershipNext
  <2>1. CASE \/ DayPasses \/ CronRead \/ CronCut \/ CronFlag \/ CronEnd \/ CronDies
             \/ \E p \in Products : CronLook(p)
    <3>1. UNCHANGED <<setting, mems, anchor, request>>
      BY <2>1 DEF DayPasses, CronRead, CronCut, CronFlag, CronEnd, CronDies, CronLook
    <3> QED BY <1>0, <3>1, OrderKept
  <2>2. CASE CronExpire
    <3> DEFINE E(k) == IF k \in cron.ids THEN [mems[k] EXCEPT !.status = "EXPIRED"] ELSE mems[k]
    <3>1. mems' = [k \in 1 .. Len(mems) |-> E(k)] /\ UNCHANGED <<setting, anchor, request>>
      BY <2>2 DEF CronExpire
    <3>2. \A k \in 1 .. Len(mems) : E(k).start = mems[k].start /\ E(k).end = mems[k].end
      BY <1>0, MemsTyped DEF MembershipRows
    <3>3. Len(mems') = Len(mems)
      <4>1. mems' \in Seq(MembershipRows)
        BY <1>0 DEF MembershipTypes, RowsTyped
      <4>2. DOMAIN mems' = 1 .. Len(mems)
        BY <3>1
      <4> QED BY <1>0, <4>1, <4>2
    <3> HIDE DEF E
    <3> QED BY <1>0, <3>1, <3>2, <3>3, OrderKept
  <2>3. ASSUME NEW a \in Admins, NEW items \in SUBSET setting.products, BeginMembership(a, items)
        PROVE  OrderInv'
    BY <1>0, <2>3, BeginMembershipInOrder
  <2>4. ASSUME NEW a \in Admins, CommitMembership(a) PROVE OrderInv'
    BY <1>0, <2>4, CommitMembershipInOrder
  <2>5. ASSUME NEW a \in Admins, NEW k \in 1 .. Len(mems), EditMembership(a, k)
        PROVE  OrderInv'
    <3>1. /\ Len(mems') = Len(mems) /\ UNCHANGED <<setting, anchor, request>>
          /\ ~setting.edits => \A j \in 1 .. Len(mems) :
                mems'[j].start = mems[j].start /\ mems'[j].end = mems[j].end
      BY <1>0, <2>5, EditMembershipFacts DEF EditMembership
    <3>2. CASE setting.edits
      BY <1>0, <3>1, <3>2 DEF OrderInv, Dated, InOrder, Alone
    <3>3. CASE ~setting.edits
      BY <1>0, <3>1, <3>3, OrderKept
    <3> QED BY <3>2, <3>3
  <2>6. ASSUME NEW a \in Admins, NEW p \in Products,
               ActivateProduct(a, p) \/ DeactivateProduct(a, p) \/ DeactivateNow(a, p)
        PROVE  OrderInv'
    <3>1. UNCHANGED <<setting, mems, anchor, request>>
      BY <2>6 DEF ActivateProduct, DeactivateProduct, DeactivateNow
    <3> QED BY <1>0, <3>1, OrderKept
  <2>7. ASSUME NEW a \in Admins, NEW t \in Terms, Upsert(a, t) PROVE OrderInv'
    <3>1. UNCHANGED <<setting, mems, request>> /\ (mems # <<>> => anchor' = anchor)
      BY <1>0, <2>7, UpsertFacts DEF MembershipTypes, Anchored
    <3> QED BY <1>0, <3>1, OrderKept
  <2>8. ASSUME NEW a \in Admins, NEW kind \in Kinds, NEW n \in Amounts, BeginPayment(a, kind, n)
        PROVE  OrderInv'
    <3> DEFINE r == [kind |-> kind, amount |-> n, balance |-> agr.total - Paid]
    <3>1. UNCHANGED <<setting, mems, anchor>> /\ request' = [request EXCEPT ![a] = r]
      BY <2>8 DEF BeginPayment
    <3>2. r.kind # "membership"
      BY RequestKinds
    <3> HIDE DEF r
    <3>3. \A b \in Admins : request'[b] \in MembershipRequests => request'[b] = request[b]
      <4>1. request \in [Admins -> AnyRequest] /\ r \notin MembershipRequests
        BY <1>0, <3>2, RequestKinds DEF MembershipTypes, RequestTyped
      <4> QED BY <3>1, <4>1
    <3> QED BY <1>0, <3>1, <3>3, OrderKept
  <2>9. ASSUME NEW a \in Admins, CommitPayment(a) PROVE OrderInv'
    <3>1. UNCHANGED <<setting, mems, anchor>> /\ request' = [request EXCEPT ![a] = NoRequest]
      BY <2>9 DEF CommitPayment
    <3>2. \A b \in Admins : request'[b] \in MembershipRequests => request'[b] = request[b]
      <4>1. request \in [Admins -> AnyRequest] /\ NoRequest \notin MembershipRequests
        BY <1>0, RequestKinds DEF MembershipTypes, RequestTyped
      <4> QED BY <3>1, <4>1
    <3> QED BY <1>0, <3>1, <3>2, OrderKept
  <2>10. ASSUME NEW a \in Admins, NEW k \in 1 .. Len(pays), VoidPayment(a, k) PROVE OrderInv'
    <3>1. UNCHANGED <<setting, mems, anchor, request>>
      BY <2>10 DEF VoidPayment
    <3> QED BY <1>0, <3>1, OrderKept
  <2> QED BY <1>1, <2>1, <2>2, <2>3, <2>4, <2>5, <2>6, <2>7, <2>8, <2>9, <2>10 DEF MembershipNext
<1>2. CASE UNCHANGED membershipVars
  <2>1. UNCHANGED <<setting, mems, anchor, request>>
    BY <1>2 DEF membershipVars
  <2> QED BY <1>0, <2>1, OrderKept
<1> QED BY <1>1, <1>2

\* The invariant of the order holds the order of every two periods.
LEMMA OrderInvIsEnough == ASSUME OrderInv PROVE PeriodsInOrder
  BY DEF OrderInv, InOrder, PeriodsFit, Alone, PeriodsInOrder

\* With one superadmin and no dates edited no month is paid twice, and every period
\* after the first starts on the anchor day or on the last of a shorter month, whatever
\* the calendar and however long it runs.
THEOREM PeriodsFollow == MembershipSpec => []PeriodsInOrder
<1>1. MembershipInit => OrderInv
  BY MembershipInitInOrder
<1>2. OrderInv /\ [MembershipNext]_membershipVars => OrderInv'
  BY MembershipStepInOrder
<1>3. OrderInv => PeriodsInOrder
  BY OrderInvIsEnough
<1> QED BY <1>1, <1>2, <1>3, PTL DEF MembershipSpec

(***************************************************************************)
(* Where no request runs during the cron, a product that is on is paid by  *)
(* a membership still in its grace once the cron has run, or the cron has  *)
(* yet to look at it.                                                      *)
(***************************************************************************)
Quiet == agr = NoDeal /\ ~setting.edits /\ ~setting.crash
PaysFor(p) == {k \in 1 .. Len(mems) : p \in mems[k].items}
Uncancelled(p) == \A k \in PaysFor(p) : mems[k].status # "CANCELLED"
InGrace(k) == day < mems[k].end + Grace + 1
Backed(p) == \E k \in PaysFor(p) : mems[k].status = "ACTIVE"
BackedInGrace(p) == \E k \in PaysFor(p) : mems[k].status = "ACTIVE" /\ InGrace(k)
Looking == cron.pc \in {"products", "cut", "flag"}
ToLook(p) == Looking /\ p \in cron.todo

FlagsAgree ==
    ~setting.crash => \A p \in Products :
        IF cron.pc = "flag" /\ p = cron.cur THEN sub[p] = "INACTIVE"
        ELSE flag[p] = (sub[p] = "ACTIVE")
NoneDuringCron == cron.pc # "idle" => \A a \in Admins : request[a] = NoRequest
ReadIds ==
    Quiet /\ cron.pc = "expire" =>
        cron.ids = {k \in 1 .. Len(mems) : mems[k].status = "ACTIVE" /\ ~InGrace(k)}
ServedIsPaid ==
    Quiet => \A p \in Products : sub[p] = "ACTIVE" /\ Uncancelled(p) =>
        /\ Backed(p) \/ ToLook(p)
        /\ swept \/ Looking => BackedInGrace(p) \/ ToLook(p)

LapsedInv ==
    /\ OrderInv /\ setting.apart
    /\ FlagsAgree /\ NoneDuringCron /\ ReadIds /\ ServedIsPaid

\* The grace of a membership counts from its end where dates are not edited.
LEMMA GraceIs ==
    ASSUME OrderInv, ~setting.edits, NEW k \in 1 .. Len(mems)
    PROVE  GraceOf(k) = mems[k].end + Grace + 1 /\ GraceOf(k) \in Nat /\ day \in Nat /\ Grace \in Nat
<1>1. anchor # 0 /\ mems[k].end = DueDate(mems[k].start, anchor) /\ mems[k].end \in Nat
  BY MemsTyped DEF OrderInv, Dated
<1>2. day \in Nat
  BY MonthOfDay DEF OrderInv, MembershipTypes, RowsTyped
<1>3. Grace \in Nat
  BY CalendarAssumption
<1> QED BY <1>1, <1>2, <1>3 DEF GraceOf, GraceEnd, AnchorOf

\* A product paid today is paid by a membership in its grace.
LEMMA PaidIsInGrace ==
    ASSUME OrderInv, ~setting.edits, NEW p \in Products, PaidToday(p)
    PROVE  Backed(p) /\ BackedInGrace(p)
<1>1. PICK k \in 1 .. Len(mems) : /\ p \in mems[k].items /\ mems[k].status = "ACTIVE"
                                  /\ day < mems[k].end
  BY DEF PaidToday
<1>2. mems[k].end \in Nat /\ day \in Nat /\ Grace \in Nat
  BY GraceIs, MemsTyped DEF OrderInv
<1>3. InGrace(k)
  BY <1>1, <1>2 DEF InGrace
<1> QED BY <1>1, <1>3 DEF Backed, BackedInGrace, PaysFor

\* The flags of the first state agree with its memberships.
LEMMA LapsedInit ==
    ASSUME MembershipInit, \A sc \in Settings : sc.apart
    PROVE  LapsedInv
<1>1. OrderInv /\ setting.apart
  BY MembershipInitInOrder DEF MembershipInit
<1>2. cron.pc = "idle" /\ swept = FALSE
  BY DEF MembershipInit, Idle
<1>3. \A p \in Products : /\ sub[p] = IF p \in setting.first THEN "ACTIVE" ELSE "INACTIVE"
                          /\ flag[p] = (p \in setting.first)
  BY DEF MembershipInit
<1>4. FlagsAgree
  <2>1. \A p \in Products : flag[p] = (sub[p] = "ACTIVE")
    BY <1>3
  <2> QED BY <1>2, <2>1 DEF FlagsAgree
<1>5. NoneDuringCron /\ ReadIds
  BY <1>2 DEF NoneDuringCron, ReadIds
<1>6. ASSUME NEW p \in Products, sub[p] = "ACTIVE" PROVE Backed(p)
  <2>1. p \in setting.first
    BY <1>3, <1>6
  <2>2. mems = << FirstMembership(setting.first) >>
    BY <2>1 DEF MembershipInit
  <2>3. Len(mems) = 1 /\ mems[1] = FirstMembership(setting.first) /\ 1 \in 1 .. Len(mems)
    BY <2>2
  <2> QED BY <2>1, <2>3 DEF Backed, PaysFor, FirstMembership
<1>7. ServedIsPaid
  BY <1>2, <1>6 DEF ServedIsPaid, Looking
<1> QED BY <1>1, <1>4, <1>5, <1>7 DEF LapsedInv

\* A step that leaves the memberships, the products and the cron alone.
LEMMA LapsedKept ==
    ASSUME LapsedInv, OrderInv', UNCHANGED <<setting, sub, flag, cron>>,
           agr' = NoDeal => agr = NoDeal /\ mems' = mems /\ (swept' => swept)
                            /\ (swept' => day' = day) /\ (cron.pc # "idle" => day' = day),
           cron.pc = "idle" \/ request' = request
    PROVE  LapsedInv'
<1>1. FlagsAgree' /\ NoneDuringCron'
  BY DEF LapsedInv, FlagsAgree, NoneDuringCron
<1>2. ReadIds'
  BY DEF LapsedInv, ReadIds, Quiet, InGrace
<1>3. ServedIsPaid'
  <2> SUFFICES ASSUME Quiet', NEW p \in Products, sub'[p] = "ACTIVE", Uncancelled(p)'
               PROVE  /\ Backed(p)' \/ ToLook(p)'
                      /\ swept' \/ Looking' => BackedInGrace(p)' \/ ToLook(p)'
    BY DEF ServedIsPaid
  <2>1. Quiet /\ sub[p] = "ACTIVE" /\ Uncancelled(p) /\ mems' = mems
    BY DEF Quiet, Uncancelled, PaysFor
  <2>2. /\ Backed(p) \/ ToLook(p)
        /\ swept \/ Looking => BackedInGrace(p) \/ ToLook(p)
    BY <2>1 DEF LapsedInv, ServedIsPaid
  <2>3. /\ Backed(p)' <=> Backed(p)
        /\ ToLook(p)' <=> ToLook(p)
        /\ Looking' <=> Looking
    BY <2>1 DEF Backed, PaysFor, ToLook, Looking
  <2>4. ASSUME swept' \/ Looking' PROVE BackedInGrace(p)' \/ ToLook(p)'
    <3>1. (swept \/ Looking) /\ day' = day
      BY <2>1, <2>3, <2>4 DEF Quiet, Looking
    <3>2. BackedInGrace(p)' <=> BackedInGrace(p)
      BY <2>1, <3>1 DEF BackedInGrace, PaysFor, InGrace
    <3> QED BY <2>2, <2>3, <3>1, <3>2
  <2> QED BY <2>2, <2>3, <2>4
<1> QED BY <1>1, <1>2, <1>3 DEF LapsedInv

\* What the nightly job has read agrees with the memberships.
LEMMA CronReadLapsed ==
    ASSUME LapsedInv, OrderInv', CronRead PROVE LapsedInv'
<1> DEFINE ids == {k \in 1 .. Len(mems) : mems[k].status = "ACTIVE" /\ day >= GraceOf(k)}
<1>1. /\ UNCHANGED <<setting, day, anchor, mems, subs, deal, request>>
      /\ cron.pc = "idle" /\ ~swept /\ setting.apart
      /\ \A a \in Admins : request[a] = NoRequest
      /\ IF ids = {} THEN swept' = TRUE /\ UNCHANGED cron
         ELSE cron' = [Idle EXCEPT !.pc = "expire", !.ids = ids] /\ UNCHANGED swept
  BY DEF CronRead, LapsedInv
<1>2. FlagsAgree' /\ NoneDuringCron'
  <2>1. cron'.pc # "flag"
    BY <1>1 DEF Idle
  <2>2. \A p \in Products : ~setting.crash => flag[p] = (sub[p] = "ACTIVE")
    BY <1>1 DEF LapsedInv, FlagsAgree
  <2> QED BY <1>1, <2>1, <2>2 DEF FlagsAgree, NoneDuringCron, subs
<1>3. ~setting.edits => \A k \in 1 .. Len(mems) : k \in ids <=> (mems[k].status = "ACTIVE" /\ ~InGrace(k))
  <2> SUFFICES ASSUME ~setting.edits, NEW k \in 1 .. Len(mems)
               PROVE  day >= GraceOf(k) <=> ~InGrace(k)
    OBVIOUS
  <2>1. GraceOf(k) = mems[k].end + Grace + 1 /\ GraceOf(k) \in Nat /\ day \in Nat
    BY GraceIs DEF LapsedInv
  <2> QED BY <2>1 DEF InGrace
<1>4. ids \subseteq 1 .. Len(mems)
  OBVIOUS
<1> HIDE DEF ids
<1>5. ReadIds'
  <2> SUFFICES ASSUME Quiet', cron'.pc = "expire"
               PROVE  cron'.ids = {k \in 1 .. Len(mems') : mems'[k].status = "ACTIVE" /\ ~(InGrace(k)')}
    BY DEF ReadIds
  <2>1. cron'.ids = ids /\ mems' = mems /\ ~setting.edits /\ day' = day
    BY <1>1 DEF Idle, Quiet
  <2>2. \A k \in 1 .. Len(mems) : InGrace(k)' <=> InGrace(k)
    BY <2>1 DEF InGrace
  <2> QED BY <1>3, <1>4, <2>1, <2>2
<1>6. ServedIsPaid'
  <2> SUFFICES ASSUME Quiet', NEW p \in Products, sub'[p] = "ACTIVE", Uncancelled(p)'
               PROVE  /\ Backed(p)' \/ ToLook(p)'
                      /\ swept' \/ Looking' => BackedInGrace(p)' \/ ToLook(p)'
    BY DEF ServedIsPaid
  <2>1. Quiet /\ sub[p] = "ACTIVE" /\ Uncancelled(p) /\ mems' = mems /\ day' = day
    BY <1>1 DEF Quiet, Uncancelled, PaysFor, subs, deal
  <2>2. Backed(p)
    BY <1>1, <2>1 DEF LapsedInv, ServedIsPaid, ToLook, Looking
  <2>3. Backed(p)' /\ ~(Looking')
    BY <1>1, <2>1, <2>2 DEF Backed, PaysFor, Looking, Idle
  <2>4. ASSUME swept' PROVE BackedInGrace(p)'
    <3>1. ids = {}
      BY <1>1, <2>4
    <3>2. BackedInGrace(p)
      BY <1>3, <2>1, <2>2, <3>1 DEF Backed, BackedInGrace, PaysFor, Quiet
    <3> QED BY <2>1, <3>2 DEF BackedInGrace, PaysFor, InGrace
  <2> QED BY <2>3, <2>4
<1>7. setting'.apart
  BY <1>1
<1> QED BY <1>2, <1>5, <1>6, <1>7 DEF LapsedInv

\* The nightly job switches off what it has read to be lapsed.
LEMMA CronExpireLapsed ==
    ASSUME LapsedInv, OrderInv', CronExpire PROVE LapsedInv'
<1> DEFINE E(k) == IF k \in cron.ids THEN [mems[k] EXCEPT !.status = "EXPIRED"] ELSE mems[k]
           T == UNION {mems[k].items : k \in cron.ids}
<1>0. /\ cron \in CronRows /\ mems' \in Seq(MembershipRows) /\ Len(mems) \in Nat
      /\ cron.ids \subseteq 1 .. Len(mems)
      /\ \A k \in 1 .. Len(mems) : mems[k] \in MembershipRows
  BY MemsTyped DEF LapsedInv, OrderInv, MembershipTypes, RowsTyped, CronTyped
<1>1. /\ UNCHANGED <<setting, day, anchor, subs, deal, request, swept>>
      /\ cron.pc = "expire" /\ mems' = [k \in 1 .. Len(mems) |-> E(k)]
      /\ cron' = [cron EXCEPT !.pc = "products", !.todo = T]
  BY DEF CronExpire
<1>2. /\ Len(mems') = Len(mems)
      /\ \A k \in 1 .. Len(mems) :
            /\ mems'[k].items = mems[k].items /\ mems'[k].end = mems[k].end
            /\ mems'[k].status = IF k \in cron.ids THEN "EXPIRED" ELSE mems[k].status
  <2>1. \A k \in 1 .. Len(mems) :
            /\ E(k).items = mems[k].items /\ E(k).end = mems[k].end
            /\ E(k).status = IF k \in cron.ids THEN "EXPIRED" ELSE mems[k].status
    BY <1>0 DEF MembershipRows
  <2>2. DOMAIN mems' = 1 .. Len(mems)
    BY <1>1
  <2>3. Len(mems') = Len(mems)
    BY <1>0, <2>2
  <2> HIDE DEF E
  <2> QED BY <1>1, <2>1, <2>3
<1>3. cron'.pc = "products" /\ cron'.todo = T
  BY <1>0, <1>1 DEF CronRows
<1>4. FlagsAgree' /\ NoneDuringCron' /\ ReadIds'
  <2>1. \A p \in Products : ~setting.crash => flag[p] = (sub[p] = "ACTIVE")
    BY <1>1 DEF LapsedInv, FlagsAgree
  <2>2. \A a \in Admins : request[a] = NoRequest
    BY <1>1 DEF LapsedInv, NoneDuringCron
  <2> QED BY <1>1, <1>3, <2>1, <2>2 DEF FlagsAgree, NoneDuringCron, ReadIds, subs
<1>5. ServedIsPaid'
  <2> SUFFICES ASSUME Quiet', NEW p \in Products, sub'[p] = "ACTIVE", Uncancelled(p)'
               PROVE  /\ Backed(p)' \/ ToLook(p)'
                      /\ swept' \/ Looking' => BackedInGrace(p)' \/ ToLook(p)'
    BY DEF ServedIsPaid
  <2>0. Quiet /\ sub[p] = "ACTIVE" /\ day' = day
    BY <1>1 DEF Quiet, subs, deal
  <2>1. \A k \in 1 .. Len(mems) : k \in cron.ids <=> (mems[k].status = "ACTIVE" /\ ~InGrace(k))
    BY <1>1, <2>0 DEF LapsedInv, ReadIds
  <2>2. PaysFor(p)' = PaysFor(p)
    BY <1>2 DEF PaysFor
  <2>3. Uncancelled(p)
    <3> SUFFICES ASSUME NEW k \in PaysFor(p) PROVE mems[k].status # "CANCELLED"
      BY DEF Uncancelled
    <3>1. k \in 1 .. Len(mems) /\ mems'[k].status # "CANCELLED"
      BY <2>2 DEF Uncancelled, PaysFor
    <3> QED BY <1>2, <2>1, <3>1
  <2>4. PICK k \in PaysFor(p) : mems[k].status = "ACTIVE"
    BY <1>1, <2>0, <2>3 DEF LapsedInv, ServedIsPaid, ToLook, Looking, Backed
  <2>5. k \in 1 .. Len(mems) /\ p \in mems[k].items /\ k \in PaysFor(p)'
    BY <2>2 DEF PaysFor
  <2>6. CASE k \in cron.ids
    BY <1>3, <2>5, <2>6 DEF ToLook, Looking
  <2>7. CASE k \notin cron.ids
    <3>1. InGrace(k) /\ mems'[k].status = "ACTIVE" /\ mems'[k].end = mems[k].end
      BY <1>2, <2>1, <2>4, <2>5, <2>7
    <3>2. InGrace(k)'
      BY <2>0, <3>1 DEF InGrace
    <3> QED BY <2>5, <3>1, <3>2 DEF Backed, BackedInGrace
  <2> QED BY <2>6, <2>7
<1> QED BY <1>1, <1>4, <1>5 DEF LapsedInv

\* The steps of the cron that look at one product and cut it.
LEMMA CronCutsLapsed ==
    ASSUME LapsedInv, OrderInv',
           \/ CronCut \/ CronFlag \/ CronEnd
           \/ \E p \in Products : CronLook(p)
    PROVE  LapsedInv'
<1>0. /\ cron \in CronRows /\ (cron.pc \in {"cut", "flag"} => cron.cur \in Products)
      /\ sub \in [Products -> {"ACTIVE", "INACTIVE"}] /\ flag \in [Products -> BOOLEAN]
  BY DEF LapsedInv, OrderInv, MembershipTypes, RowsTyped, CronTyped
<1>1. UNCHANGED <<setting, day, anchor, mems, deal, request>> /\ cron.pc # "idle" /\ cron.pc # "expire"
  BY DEF CronCut, CronFlag, CronEnd, CronLook, subs
<1>2. NoneDuringCron' /\ setting'.apart
  BY <1>1 DEF LapsedInv, NoneDuringCron
<1>3. /\ cron'.pc # "expire"
      /\ Looking /\ (cron'.pc = "idle" => cron.todo = {} /\ swept')
      /\ cron'.pc # "idle" => Looking'
      /\ \A p \in Products : sub'[p] = "ACTIVE" => sub[p] = "ACTIVE"
  <2>1. CASE CronCut
    BY <1>0, <2>1 DEF CronCut, CronRows, Looking
  <2>2. CASE CronFlag
    BY <1>0, <2>2 DEF CronFlag, CronRows, Looking
  <2>3. CASE CronEnd
    BY <1>0, <2>3 DEF CronEnd, Idle, Looking, subs
  <2>4. CASE \E p \in Products : CronLook(p)
    <3>1. PICK p \in Products : CronLook(p)
      BY <2>4
    <3>2. \/ cron' = [cron EXCEPT !.todo = @ \ {p}]
          \/ cron' = [cron EXCEPT !.pc = "cut", !.cur = p]
      BY <3>1 DEF CronLook
    <3>3. cron.pc = "products" /\ UNCHANGED subs
      BY <3>1 DEF CronLook
    <3> QED BY <1>0, <3>2, <3>3 DEF CronRows, Looking, subs
  <2> QED BY <2>1, <2>2, <2>3, <2>4
<1>4. ReadIds'
  BY <1>3 DEF ReadIds
<1>5. FlagsAgree'
  <2> SUFFICES ASSUME ~setting.crash, NEW q \in Products
               PROVE  IF cron'.pc = "flag" /\ q = cron'.cur THEN sub'[q] = "INACTIVE"
                      ELSE flag'[q] = (sub'[q] = "ACTIVE")
    BY <1>1 DEF FlagsAgree
  <2>0. IF cron.pc = "flag" /\ q = cron.cur THEN sub[q] = "INACTIVE" ELSE flag[q] = (sub[q] = "ACTIVE")
    BY DEF LapsedInv, FlagsAgree
  <2>1. CASE CronCut
    <3>1. /\ cron'.pc = "flag" /\ cron'.cur = cron.cur /\ cron.pc = "cut"
          /\ sub' = [sub EXCEPT ![cron.cur] = "INACTIVE"] /\ flag' = flag
      BY <1>0, <2>1 DEF CronCut, CronRows
    <3> QED BY <1>0, <2>0, <3>1
  <2>2. CASE CronFlag
    <3>1. /\ cron'.pc = "products" /\ cron.pc = "flag" /\ cron.cur \in Products
          /\ sub' = sub /\ flag' = [flag EXCEPT ![cron.cur] = FALSE]
      BY <1>0, <2>2 DEF CronFlag, CronRows, FlagCleared
    <3>2. CASE q = cron.cur
      <4>1. sub'[q] = "INACTIVE" /\ flag'[q] = FALSE
        BY <1>0, <2>0, <3>1, <3>2
      <4> QED BY <3>1, <4>1
    <3>3. CASE q # cron.cur
      <4>1. flag'[q] = flag[q] /\ sub'[q] = sub[q]
        BY <1>0, <3>1, <3>3
      <4> QED BY <2>0, <3>1, <3>3, <4>1
    <3> QED BY <3>2, <3>3
  <2>3. CASE CronEnd
    BY <2>0, <2>3 DEF CronEnd, Idle, subs
  <2>4. CASE \E p \in Products : CronLook(p)
    <3>1. cron'.pc # "flag" /\ cron.pc # "flag" /\ UNCHANGED subs
      BY <1>0, <2>4 DEF CronLook, CronRows
    <3> QED BY <2>0, <3>1 DEF subs
  <2> QED BY <2>1, <2>2, <2>3, <2>4
<1>6. ServedIsPaid'
  <2> SUFFICES ASSUME Quiet', NEW q \in Products, sub'[q] = "ACTIVE", Uncancelled(q)'
               PROVE  /\ Backed(q)' \/ ToLook(q)'
                      /\ swept' \/ Looking' => BackedInGrace(q)' \/ ToLook(q)'
    BY DEF ServedIsPaid
  <2>1. Quiet /\ sub[q] = "ACTIVE" /\ Uncancelled(q)
    BY <1>1, <1>3 DEF Quiet, Uncancelled, PaysFor, deal
  <2>2. /\ Backed(q) \/ ToLook(q)
        /\ BackedInGrace(q) \/ ToLook(q)
    BY <1>3, <2>1 DEF LapsedInv, ServedIsPaid
  <2>3. (Backed(q)' <=> Backed(q)) /\ (BackedInGrace(q)' <=> BackedInGrace(q))
    BY <1>1 DEF Backed, BackedInGrace, PaysFor, InGrace
  <2>4. ASSUME ToLook(q), ~(ToLook(q)') PROVE Backed(q) /\ BackedInGrace(q)
    <3>1. q \in cron.todo
      BY <2>4 DEF ToLook
    <3>2. q \notin cron'.todo \/ cron'.pc = "idle"
      BY <1>3, <2>4 DEF ToLook
    <3>3. ~CronCut
      BY <1>0, <3>1, <3>2 DEF CronCut, CronRows
    <3>4. ~CronEnd
      BY <3>1 DEF CronEnd
    <3>5. ~CronFlag
      <4> SUFFICES ASSUME CronFlag PROVE FALSE
        OBVIOUS
      <4>1. cron'.todo = cron.todo \ {cron.cur} /\ cron'.pc = "products" /\ cron.pc = "flag" /\ sub' = sub
        BY <1>0 DEF CronFlag, CronRows
      <4>2. q = cron.cur
        BY <3>1, <3>2, <4>1
      <4> QED BY <2>1, <4>1, <4>2 DEF LapsedInv, FlagsAgree, Quiet
    <3>6. PICK p \in Products : CronLook(p)
      BY <3>3, <3>4, <3>5
    <3>7. p = q /\ Spared(p)
      <4>1. CASE Spared(p)
        <5>1. cron' = [cron EXCEPT !.todo = @ \ {p}] /\ cron.pc = "products"
          BY <3>6, <4>1 DEF CronLook
        <5> QED BY <1>0, <3>1, <3>2, <4>1, <5>1 DEF CronRows
      <4>2. CASE ~Spared(p)
        <5>1. cron' = [cron EXCEPT !.pc = "cut", !.cur = p]
          BY <3>6, <4>2 DEF CronLook
        <5> QED BY <1>0, <3>1, <3>2, <5>1 DEF CronRows
      <4> QED BY <4>1, <4>2
    <3>8. Covering.source = "MEMBERSHIP"
      BY <2>1 DEF Covering, Quiet
    <3>9. PaidToday(q)
      BY <2>1, <3>7, <3>8 DEF Spared, PaidOtherwise
    <3> QED BY <2>1, <3>9, PaidIsInGrace DEF LapsedInv, Quiet
  <2> QED BY <2>2, <2>3, <2>4
<1> QED BY <1>2, <1>4, <1>5, <1>6 DEF LapsedInv

\* A membership that is written serves its product.
LEMMA CommitMembershipLapsed ==
    ASSUME LapsedInv, OrderInv', NEW a \in Admins, CommitMembership(a) PROVE LapsedInv'
<1> DEFINE r == request[a]  n == Len(mems)  m == Written(request[a])
           on == IF day < GraceEnd(m.end, Grace) THEN r.items ELSE {}
<1>1. /\ mems' = Append(mems, m) /\ mems \in Seq(MembershipRows) /\ n \in Nat
      /\ UNCHANGED <<setting, day, deal, cron, swept>> /\ r \in MembershipRequests
      /\ setting.apart /\ cron.pc = "idle"
      /\ sub' = [p \in Products |-> IF p \in on THEN "ACTIVE" ELSE sub[p]]
      /\ flag' = [p \in Products |-> p \in on \/ flag[p]]
  <2>1. sub' = [p \in Products |-> IF p \in on THEN "ACTIVE" ELSE sub[p]]
    BY DEF CommitMembership, Written
  <2>2. flag' = [p \in Products |-> p \in on \/ flag[p]]
    BY DEF CommitMembership, Written
  <2>3. /\ mems' = Append(mems, m) /\ mems \in Seq(MembershipRows) /\ n \in Nat
        /\ UNCHANGED <<setting, day, deal, cron, swept>> /\ r \in MembershipRequests
    BY CommitMembershipFacts, MemsTyped DEF LapsedInv, OrderInv
  <2>4. setting.apart /\ cron.pc = "idle"
    BY DEF LapsedInv, CommitMembership, Serving
  <2> QED BY <2>1, <2>2, <2>3, <2>4
<1>2. /\ m.status = "ACTIVE" /\ m.items = r.items
      /\ \A p \in on : p \in r.items /\ day < GraceEnd(m.end, Grace)
  BY DEF Written
<1>3. PICK j \in Nat : /\ Len(mems') = j /\ mems'[j] = m /\ j \in 1 .. j
                       /\ \A k \in 1 .. n : mems'[k] = mems[k] /\ k \in 1 .. j
  <2> HIDE DEF m
  <2>1. n + 1 \in Nat /\ Len(mems') = n + 1 /\ mems'[n + 1] = m /\ n + 1 \in 1 .. (n + 1)
    BY <1>1
  <2>2. \A k \in 1 .. n : mems'[k] = mems[k] /\ k \in 1 .. (n + 1)
    BY <1>1
  <2> QED BY <2>1, <2>2
<1> HIDE DEF m, r, n, on
<1>4. FlagsAgree' /\ NoneDuringCron' /\ ReadIds'
  <2>1. \A p \in Products : ~setting.crash => flag[p] = (sub[p] = "ACTIVE")
    BY <1>1 DEF LapsedInv, FlagsAgree
  <2>2. \A p \in Products : ~setting.crash => flag'[p] = (sub'[p] = "ACTIVE")
    <3> TAKE p \in Products
    <3>1. CASE p \in on
      BY <1>1, <3>1
    <3>2. CASE p \notin on
      <4>1. flag'[p] = (p \in on \/ flag[p]) /\ sub'[p] = sub[p]
        BY <1>1, <3>2
      <4>2. ~setting.crash => flag[p] \in BOOLEAN
        BY <2>1
      <4> QED BY <2>1, <3>2, <4>1, <4>2
    <3> QED BY <3>1, <3>2
  <2> QED BY <1>1, <2>2 DEF FlagsAgree, NoneDuringCron, ReadIds
<1>5. ServedIsPaid'
  <2> SUFFICES ASSUME Quiet', NEW p \in Products, sub'[p] = "ACTIVE", Uncancelled(p)'
               PROVE  Backed(p)' /\ (swept' => BackedInGrace(p)')
    BY <1>1 DEF ServedIsPaid, Looking
  <2>1. CASE p \in on
    <3>1. j \in PaysFor(p)'
      BY <1>2, <1>3, <2>1 DEF PaysFor
    <3>2. InGrace(j)'
      <4>1. day' = day /\ day < GraceEnd(m.end, Grace) /\ mems'[j].end = m.end
        BY <1>1, <1>2, <1>3, <2>1
      <4> QED BY <4>1 DEF InGrace, GraceEnd
    <3> QED BY <1>2, <1>3, <3>1, <3>2 DEF Backed, BackedInGrace
  <2>2. CASE p \notin on
    <3>1. sub[p] = "ACTIVE" /\ Quiet
      BY <1>1, <2>2 DEF Quiet, deal
    <3>2. \A k \in PaysFor(p) : k \in PaysFor(p)' /\ mems'[k] = mems[k]
      BY <1>3 DEF PaysFor, n
    <3>3. Uncancelled(p)
      BY <3>2 DEF Uncancelled
    <3>4. Backed(p) /\ (swept => BackedInGrace(p))
      BY <1>1, <3>1, <3>3 DEF LapsedInv, ServedIsPaid, ToLook, Looking
    <3>5. \A k \in PaysFor(p) : InGrace(k) => InGrace(k)'
      BY <1>1, <3>2 DEF InGrace
    <3> QED BY <1>1, <3>2, <3>4, <3>5 DEF Backed, BackedInGrace
  <2> QED BY <2>1, <2>2
<1> QED BY <1>1, <1>4, <1>5 DEF LapsedInv

\* The edit of a membership keeps the flags in agreement.
LEMMA EditMembershipLapsed ==
    ASSUME LapsedInv, OrderInv', NEW a \in Admins, NEW k \in 1 .. Len(mems), EditMembership(a, k)
    PROVE  LapsedInv'
<1>1. /\ UNCHANGED <<setting, day, anchor, subs, deal, request, cron, swept>>
      /\ setting.apart /\ cron.pc = "idle" /\ MembershipTypes
  BY DEF LapsedInv, OrderInv, EditMembership, Serving
<1>2. /\ Len(mems') = Len(mems)
      /\ \A j \in 1 .. Len(mems) : j # k => mems'[j] = mems[j]
      /\ mems'[k].items = mems[k].items
      /\ ~setting.edits => mems'[k].status = "CANCELLED"
  BY <1>1, EditMembershipFacts
<1>3. FlagsAgree' /\ NoneDuringCron' /\ ReadIds'
  BY <1>1 DEF LapsedInv, FlagsAgree, NoneDuringCron, ReadIds, subs
<1>4. ServedIsPaid'
  <2> SUFFICES ASSUME Quiet', NEW p \in Products, sub'[p] = "ACTIVE", Uncancelled(p)'
               PROVE  Backed(p)' /\ (swept' => BackedInGrace(p)')
    BY <1>1 DEF ServedIsPaid, Looking
  <2>1. Quiet /\ sub[p] = "ACTIVE" /\ ~setting.edits
    BY <1>1 DEF Quiet, subs, deal
  <2>2. PaysFor(p)' = PaysFor(p)
    BY <1>2 DEF PaysFor
  <2>3. k \notin PaysFor(p)
    BY <1>2, <2>1, <2>2 DEF Uncancelled
  <2>4. \A j \in PaysFor(p) : mems'[j] = mems[j]
    BY <1>2, <2>3 DEF PaysFor
  <2>5. Uncancelled(p)
    BY <2>2, <2>4 DEF Uncancelled
  <2>6. Backed(p) /\ (swept => BackedInGrace(p))
    BY <1>1, <2>1, <2>5 DEF LapsedInv, ServedIsPaid, ToLook, Looking
  <2>7. \A j \in PaysFor(p) : InGrace(j) => InGrace(j)'
    BY <1>1, <2>4 DEF InGrace
  <2> QED BY <1>1, <2>2, <2>4, <2>6, <2>7 DEF Backed, BackedInGrace
<1> QED BY <1>1, <1>3, <1>4 DEF LapsedInv

\* Switching a product on or off keeps the flags in agreement.
LEMMA ProductLapsed ==
    ASSUME LapsedInv, OrderInv', NEW a \in Admins, NEW p \in Products,
           ActivateProduct(a, p) \/ DeactivateProduct(a, p) \/ DeactivateNow(a, p)
    PROVE  LapsedInv'
<1>1. /\ UNCHANGED <<setting, day, anchor, mems, deal, request, cron, swept>>
      /\ setting.apart /\ cron.pc = "idle"
      /\ sub \in [Products -> {"ACTIVE", "INACTIVE"}] /\ flag \in [Products -> BOOLEAN]
  BY DEF LapsedInv, OrderInv, MembershipTypes, RowsTyped, ActivateProduct, DeactivateProduct,
         DeactivateNow, Serving
<1>2. \/ sub' = [sub EXCEPT ![p] = "ACTIVE"] /\ flag' = [flag EXCEPT ![p] = TRUE] /\ PaidToday(p)
      \/ sub' = [sub EXCEPT ![p] = "INACTIVE"] /\ flag' = [flag EXCEPT ![p] = FALSE]
  BY DEF ActivateProduct, DeactivateProduct, DeactivateNow, Activated, Deactivated, Sync
<1>3. FlagsAgree' /\ NoneDuringCron' /\ ReadIds'
  <2>1. ASSUME ~setting.crash, NEW q \in Products PROVE flag'[q] = (sub'[q] = "ACTIVE")
    <3>1. flag[q] = (sub[q] = "ACTIVE")
      BY <1>1, <2>1 DEF LapsedInv, FlagsAgree
    <3>2. CASE q = p
      BY <1>1, <1>2, <3>2
    <3>3. CASE q # p
      <4>1. flag'[q] = flag[q] /\ sub'[q] = sub[q]
        BY <1>1, <1>2, <3>3
      <4> QED BY <3>1, <4>1
    <3> QED BY <3>2, <3>3
  <2> QED BY <1>1, <2>1 DEF FlagsAgree, NoneDuringCron, ReadIds
<1>4. ServedIsPaid'
  <2> SUFFICES ASSUME Quiet', NEW q \in Products, sub'[q] = "ACTIVE", Uncancelled(q)'
               PROVE  Backed(q)' /\ (swept' => BackedInGrace(q)')
    BY <1>1 DEF ServedIsPaid, Looking
  <2>1. Quiet /\ Uncancelled(q)
    BY <1>1 DEF Quiet, Uncancelled, PaysFor, deal
  <2>2. sub[q] = "ACTIVE" \/ PaidToday(q)
    BY <1>1, <1>2
  <2>3. Backed(q) /\ (swept => BackedInGrace(q))
    <3>1. CASE PaidToday(q)
      BY <2>1, <3>1, PaidIsInGrace DEF LapsedInv, Quiet
    <3>2. CASE sub[q] = "ACTIVE"
      BY <1>1, <2>1, <3>2 DEF LapsedInv, ServedIsPaid, ToLook, Looking
    <3> QED BY <2>2, <3>1, <3>2
  <2> QED BY <1>1, <2>3 DEF Backed, BackedInGrace, PaysFor, InGrace
<1> QED BY <1>1, <1>3, <1>4 DEF LapsedInv

\* Every step keeps the flags and the memberships in agreement.
LEMMA LapsedStep ==
    ASSUME LapsedInv, [MembershipNext]_membershipVars PROVE LapsedInv'
<1>0. MembershipTypes /\ OrderInv' /\ setting.apart
  BY MembershipStepInOrder DEF LapsedInv, OrderInv
<1>1. CASE MembershipNext
  <2>1. CASE DayPasses
    <3>1. UNCHANGED <<setting, sub, flag, cron, mems, agr>> /\ ~(swept') /\ cron.pc = "idle"
      BY <2>1 DEF DayPasses, subs, deal
    <3> QED BY <1>0, <3>1, LapsedKept
  <2>2. CASE CronRead
    BY <1>0, <2>2, CronReadLapsed
  <2>3. CASE CronExpire
    BY <1>0, <2>3, CronExpireLapsed
  <2>4. CASE CronCut \/ CronFlag \/ CronEnd \/ \E p \in Products : CronLook(p)
    BY <1>0, <2>4, CronCutsLapsed
  <2>5. CASE CronDies
    <3>1. /\ UNCHANGED <<setting, sub, flag, request>> /\ setting.crash /\ cron'.pc = "idle"
      BY <2>5 DEF CronDies, subs, Idle
    <3> QED BY <1>0, <3>1 DEF LapsedInv, FlagsAgree, NoneDuringCron, ReadIds, ServedIsPaid, Quiet
  <2>6. ASSUME NEW a \in Admins, NEW items \in SUBSET setting.products, BeginMembership(a, items)
        PROVE  LapsedInv'
    <3>1. UNCHANGED <<setting, sub, flag, cron, mems, agr, swept, day>> /\ cron.pc = "idle"
      BY <1>0, <2>6 DEF BeginMembership, Serving, subs, deal
    <3> QED BY <1>0, <3>1, LapsedKept
  <2>7. ASSUME NEW a \in Admins, CommitMembership(a) PROVE LapsedInv'
    BY <1>0, <2>7, CommitMembershipLapsed
  <2>8. ASSUME NEW a \in Admins, NEW k \in 1 .. Len(mems), EditMembership(a, k) PROVE LapsedInv'
    BY <1>0, <2>8, EditMembershipLapsed
  <2>9. ASSUME NEW a \in Admins, NEW p \in Products,
               ActivateProduct(a, p) \/ DeactivateProduct(a, p) \/ DeactivateNow(a, p)
        PROVE  LapsedInv'
    BY <1>0, <2>9, ProductLapsed
  <2>10. ASSUME NEW a \in Admins, NEW t \in Terms, Upsert(a, t) PROVE LapsedInv'
    <3>1. UNCHANGED <<setting, sub, flag, cron, request>> /\ agr' # NoDeal
      BY <1>0, <2>10, UpsertFacts, DealIsDeal DEF subs
    <3> QED BY <1>0, <3>1, LapsedKept
  <2>11. ASSUME NEW a \in Admins, NEW kind \in Kinds, NEW n \in Amounts, BeginPayment(a, kind, n)
         PROVE  LapsedInv'
    <3>1. UNCHANGED <<setting, sub, flag, cron, mems, agr, swept, day>> /\ cron.pc = "idle"
      BY <1>0, <2>11 DEF BeginPayment, Serving, subs, deal
    <3> QED BY <1>0, <3>1, LapsedKept
  <2>12. ASSUME NEW a \in Admins, CommitPayment(a) PROVE LapsedInv'
    <3>1. UNCHANGED <<setting, sub, flag, cron>> /\ agr' # NoDeal /\ cron.pc = "idle"
      BY <1>0, <2>12, CommitPaymentFacts, DealIsDeal DEF CommitPayment, Serving, subs
    <3> QED BY <1>0, <3>1, LapsedKept
  <2>13. ASSUME NEW a \in Admins, NEW k \in 1 .. Len(pays), VoidPayment(a, k) PROVE LapsedInv'
    <3>1. UNCHANGED <<setting, sub, flag, cron, request>> /\ agr' # NoDeal
      BY <1>0, <2>13, VoidPaymentFacts, DealIsDeal DEF subs
    <3> QED BY <1>0, <3>1, LapsedKept
  <2> QED BY <1>1, <2>1, <2>2, <2>3, <2>4, <2>5, <2>6, <2>7, <2>8, <2>9, <2>10, <2>11, <2>12, <2>13
          DEF MembershipNext
<1>2. CASE UNCHANGED membershipVars
  <2>1. UNCHANGED <<setting, sub, flag, cron, mems, agr, swept, day, request>>
    BY <1>2 DEF membershipVars, subs, deal
  <2> QED BY <1>0, <2>1, LapsedKept
<1> QED BY <1>1, <1>2

\* Once the cron has run, what pays a product that is on is in its grace.
LEMMA LapsedInvIsEnough == ASSUME LapsedInv PROVE LapsedIsCut
<1>0. /\ cron.pc # "idle" => ~swept
      /\ sub \in [Products -> {"ACTIVE", "INACTIVE"}] /\ OrderInv /\ setting.apart
  BY DEF LapsedInv, OrderInv, MembershipTypes, RowsTyped, CronTyped
<1>1. cron.pc = "idle" /\ ~setting.crash => \A p \in Products : flag[p] = (sub[p] = "ACTIVE")
  BY DEF LapsedInv, FlagsAgree
<1>2. ASSUME Swept, NEW p \in Products, sub[p] = "ACTIVE", Uncancelled(p)
      PROVE  \E k \in PaysFor(p) : /\ mems[k].status = "ACTIVE" /\ k \in Valid
                                   /\ day < GraceOf(k) /\ ~(day >= GraceOf(k))
  <2>1. Quiet /\ swept /\ ~Looking
    BY <1>0, <1>2 DEF Swept, Quiet, Looking
  <2>2. PICK k \in PaysFor(p) : mems[k].status = "ACTIVE" /\ InGrace(k)
    BY <1>2, <2>1 DEF LapsedInv, ServedIsPaid, ToLook, BackedInGrace
  <2>3. k \in 1 .. Len(mems)
    BY DEF PaysFor
  <2>4. GraceOf(k) = mems[k].end + Grace + 1 /\ GraceOf(k) \in Nat /\ day \in Nat
    BY <1>0, <2>1, <2>3, GraceIs DEF Quiet
  <2> QED BY <2>2, <2>3, <2>4 DEF InGrace, Valid
<1>3. ASSUME Swept, NEW p \in Products,
             \A k \in PaysFor(p) : mems[k].status # "CANCELLED",
             \A k \in PaysFor(p) : day >= GraceOf(k)
      PROVE  sub[p] = "INACTIVE"
  BY <1>0, <1>2, <1>3 DEF Uncancelled
<1>4. ASSUME Swept, \A k \in 1 .. Len(mems) : mems[k].status # "CANCELLED" /\ mems[k].start <= day,
             NEW p \in Products
      PROVE  Shown(p) = Runs(p)
  <2>1. sub[p] = "ACTIVE" => OwnCover(p)
    <3> SUFFICES ASSUME sub[p] = "ACTIVE" PROVE OwnCover(p)
      OBVIOUS
    <3>1. Uncancelled(p)
      BY <1>4 DEF Uncancelled, PaysFor
    <3>2. PICK k \in PaysFor(p) : k \in Valid /\ day < GraceOf(k)
      BY <1>2, <1>4, <3>1
    <3> QED BY <1>4, <3>2 DEF OwnCover, PaysFor
  <2> QED BY <2>1 DEF Shown, Runs
<1> QED BY <1>1, <1>3, <1>4 DEF LapsedIsCut, PaysFor

\* Where no request runs during the cron, a product whose memberships have all ended
\* their grace is off once the cron has run, whatever the other products of the business
\* are paid for and whatever the order of payments, cancellations and activations.
THEOREM LapsedAreCut ==
    ASSUME \A sc \in Settings : sc.apart
    PROVE  MembershipSpec => []LapsedIsCut
<1>1. MembershipInit => LapsedInv
  BY LapsedInit
<1>2. LapsedInv /\ [MembershipNext]_membershipVars => LapsedInv'
  BY LapsedStep
<1>3. LapsedInv => LapsedIsCut
  BY LapsedInvIsEnough
<1> QED BY <1>1, <1>2, <1>3, PTL DEF MembershipSpec

(***************************************************************************)
(* The commercial agreement: with one superadmin and terms that leave      *)
(* nothing out, it is settled exactly when all of it is paid.              *)
(***************************************************************************)
\* The amount of an installment, what is owed before it and what payments fill of it.
ShareOf(F, c, n) == IF n = c THEN F - (c - 1) * (F \div c) ELSE F \div c
OwedOf(s, n) == SumFunctionOnSet([k \in 1 .. Len(s) |-> s[k].amount], 1 .. (n - 1))
FillOf(s, M, n) == IF M - OwedOf(s, n) <= 0 THEN 0 ELSE Least(M - OwedOf(s, n), s[n].amount)
RefillOf(s, M) == [n \in 1 .. Len(s) |-> [s[n] EXCEPT !.paid = FillOf(s, M, n)]]

\* c installments of F, of which payments of M fill the first.
InstOk(s, F, c, M) ==
    /\ \E S : s \in Seq(S)
    /\ Len(s) = c
    /\ \A n \in 1 .. c :
          /\ s[n] = [due |-> s[n].due, paid |-> s[n].paid, amount |-> ShareOf(F, c, n)]
          /\ s[n].paid = FillOf(s, M, n)

\* A function on 1 .. n is a sequence of that length.
LEMMA FcnIsSeq ==
    ASSUME NEW n \in Nat, NEW f, f = [i \in 1 .. n |-> f[i]]
    PROVE  (\E S : f \in Seq(S)) /\ Len(f) = n
<1> DEFINE S == {f[i] : i \in 1 .. n}
<1>1. f \in [1 .. n -> S]
  OBVIOUS
<1>2. f \in Seq(S) /\ Len(f) = n
  <2> HIDE DEF S
  <2> QED BY <1>1
<1> QED BY <1>2

\* The shares of a total: what each installment is given.
LEMMA ShareFacts ==
    ASSUME NEW F \in Nat, NEW c \in Nat, c >= 1
    PROVE  /\ F \div c \in Nat /\ c * (F \div c) <= F /\ c * (F \div c) \in Nat
           /\ \A n \in Int : n * (F \div c) \in Int /\ (n - 1) * (F \div c) = n * (F \div c) - (F \div c)
           /\ \A n \in 1 .. c : n * (F \div c) <= c * (F \div c)
<1> DEFINE q == F \div c
<1>1. q \in Nat /\ c * q <= F
  BY SMT
<1> HIDE DEF q
<1>2. \A n \in Int : n * q \in Int /\ (n - 1) * q = n * q - q
  BY <1>1, SMT
<1>3. \A n \in 1 .. c : n * q <= c * q
  BY <1>1, SMT
<1>4. c * q \in Nat
  BY <1>1, SMT
<1> QED BY <1>1, <1>2, <1>3, <1>4 DEF q

\* What is owed before an installment is as many equal parts.
LEMMA OwedIs ==
    ASSUME NEW F \in Nat, F >= 1, NEW c \in Nat, c >= 1, NEW s, Len(s) = c,
           \A n \in 1 .. c : s[n].amount = ShareOf(F, c, n)
    PROVE  \A n \in 1 .. c :
              /\ OwedOf(s, n) \in Nat /\ s[n].amount \in Nat /\ OwedOf(s, n) + s[n].amount <= F
              /\ n = c => OwedOf(s, n) + s[n].amount = F /\ s[n].amount >= 1
<1> DEFINE q == F \div c
<1>1. /\ q \in Nat /\ c * q <= F /\ c * q \in Nat
      /\ \A n \in Int : n * q \in Int /\ (n - 1) * q = n * q - q
      /\ \A n \in 1 .. c : n * q <= c * q
  BY ShareFacts
<1>2. \A n \in 1 .. c : ShareOf(F, c, n) = IF n = c THEN F - (c - 1) * q ELSE q
  BY DEF ShareOf
<1> HIDE DEF q
<1> TAKE n \in 1 .. c
<1>3. n \in Nat /\ n >= 1 /\ n <= c /\ n - 1 \in Int
  OBVIOUS
<1> DEFINE g == [k \in 1 .. Len(s) |-> s[k].amount]  one == [k \in 1 .. (n - 1) |-> 1]
           I == 1 .. (n - 1)
<1>4. IsFiniteSet(I) /\ Cardinality(I) = n - 1
  <2>1. IsFiniteSet(1 .. (n - 1)) /\ Cardinality(1 .. (n - 1)) = IF 1 > n - 1 THEN 0 ELSE (n - 1) - 1 + 1
    BY <1>3, FS_Interval
  <2> QED BY <1>3, <2>1
<1>5. \A k \in I : g[k] = q * one[k] /\ one[k] \in Int /\ one[k] = 1
  <2> TAKE k \in I
  <2>1. k \in 1 .. c /\ k # c /\ one[k] = 1
    BY <1>3
  <2>2. g[k] = q
    BY <1>2, <2>1
  <2> QED BY <1>1, <2>1, <2>2
<1>6. SumFunctionOnSet(one, I) = n - 1
  <2> HIDE DEF one, I
  <2> QED BY <1>4, <1>5, SumOnes
<1>7. SumFunctionOnSet(g, I) = q * SumFunctionOnSet(one, I)
  <2>1. q \in Int
    BY <1>1
  <2> HIDE DEF g, one, I
  <2> QED BY <1>4, <1>5, <2>1, SumScale
<1>8. OwedOf(s, n) = SumFunctionOnSet(g, I)
  BY DEF OwedOf
<1>9. OwedOf(s, n) = q * (n - 1)
  <2> HIDE DEF g, one, I
  <2> QED BY <1>6, <1>7, <1>8
<1>10. q * (n - 1) = (n - 1) * q
  BY <1>1, <1>3, SMT
<1>11. OwedOf(s, n) = n * q - q /\ n * q \in Int /\ n * q <= c * q
  BY <1>1, <1>3, <1>9, <1>10
<1>12. OwedOf(s, n) \in Nat
  <2>1. (n - 1) * q >= 0
    BY <1>1, <1>3, SMT
  <2> QED BY <1>1, <1>9, <1>10, <1>11, <2>1
<1>13. s[n].amount = IF n = c THEN F - (c * q - q) ELSE q
  <2>1. s[n].amount = IF n = c THEN F - (c - 1) * q ELSE q
    BY <1>2
  <2>2. (c - 1) * q = c * q - q
    BY <1>1
  <2> QED BY <2>1, <2>2
<1> QED BY <1>1, <1>3, <1>11, <1>12, <1>13

\* New installments are equal parts, none of them paid.
LEMMA InstMade ==
    ASSUME NEW F \in Nat, F >= 1, NEW c \in Nat, NEW first
    PROVE  InstOk(Installments(F, c, first), F, c, 0)
<1> DEFINE s == Installments(F, c, first)
<1>1. s = [k \in 1 .. c |-> [due |-> AddMonths(first, k - 1), paid |-> 0,
                             amount |-> ShareOf(F, c, k)]]
  BY DEF Installments, ShareOf
<1> HIDE DEF s
<1>2. s = [k \in 1 .. c |-> s[k]]
  BY <1>1
<1>3. (\E S : s \in Seq(S)) /\ Len(s) = c
  BY <1>2, FcnIsSeq
<1>4. \A n \in 1 .. c : /\ s[n] = [due |-> s[n].due, paid |-> s[n].paid, amount |-> ShareOf(F, c, n)]
                        /\ s[n].paid = 0 /\ s[n].amount = ShareOf(F, c, n)
  BY <1>1
<1>5. \A n \in 1 .. c : FillOf(s, 0, n) = 0
  <2> TAKE n \in 1 .. c
  <2>1. c >= 1
    OBVIOUS
  <2>2. OwedOf(s, n) \in Nat
    BY <1>3, <1>4, <2>1, OwedIs
  <2> QED BY <2>2 DEF FillOf
<1>6. InstOk(s, F, c, 0)
  BY <1>3, <1>4, <1>5 DEF InstOk
<1> QED BY <1>6 DEF s

\* Payments fill the installments anew.
LEMMA InstRefill ==
    ASSUME NEW s, NEW F, NEW c \in Nat, NEW M, NEW M2, InstOk(s, F, c, M)
    PROVE  InstOk(RefillOf(s, M2), F, c, M2)
<1> DEFINE w == RefillOf(s, M2)
<1>1. /\ Len(s) = c
      /\ \A n \in 1 .. c :
            s[n] = [due |-> s[n].due, paid |-> s[n].paid, amount |-> ShareOf(F, c, n)]
  BY DEF InstOk
<1>2. w = [n \in 1 .. c |-> [s[n] EXCEPT !.paid = FillOf(s, M2, n)]]
  BY <1>1 DEF RefillOf
<1> HIDE DEF w
<1>3. \A n \in 1 .. c :
         w[n] = [due |-> s[n].due, paid |-> FillOf(s, M2, n), amount |-> ShareOf(F, c, n)]
  <2> TAKE n \in 1 .. c
  <2>1. s[n] = [due |-> s[n].due, paid |-> s[n].paid, amount |-> ShareOf(F, c, n)]
    BY <1>1
  <2>2. w[n] = [s[n] EXCEPT !.paid = FillOf(s, M2, n)]
    BY <1>2
  <2> DEFINE d == s[n].due  p == s[n].paid  x == ShareOf(F, c, n)  y == FillOf(s, M2, n)
  <2>3. s[n] = [due |-> d, paid |-> p, amount |-> x] /\ w[n] = [s[n] EXCEPT !.paid = y]
    BY <2>1, <2>2
  <2> SUFFICES w[n] = [due |-> d, paid |-> y, amount |-> x]
    OBVIOUS
  <2> HIDE DEF d, p, x, y
  <2> QED BY <2>3
<1>4. w = [n \in 1 .. c |-> w[n]]
  BY <1>2
<1>5. (\E S : w \in Seq(S)) /\ Len(w) = c
  BY <1>4, FcnIsSeq
<1>6. \A n \in 1 .. c : /\ w[n].due = s[n].due /\ w[n].paid = FillOf(s, M2, n)
                        /\ w[n].amount = ShareOf(F, c, n) /\ s[n].amount = ShareOf(F, c, n)
  <2> TAKE n \in 1 .. c
  <2>1. s[n] = [due |-> s[n].due, paid |-> s[n].paid, amount |-> ShareOf(F, c, n)]
    BY <1>1
  <2>2. w[n] = [due |-> s[n].due, paid |-> FillOf(s, M2, n), amount |-> ShareOf(F, c, n)]
    BY <1>3
  <2> DEFINE d == s[n].due  p == s[n].paid  x == ShareOf(F, c, n)  y == FillOf(s, M2, n)
  <2>3. s[n] = [due |-> d, paid |-> p, amount |-> x] /\ w[n] = [due |-> d, paid |-> y, amount |-> x]
    BY <2>1, <2>2
  <2> SUFFICES w[n].due = d /\ w[n].paid = y /\ w[n].amount = x /\ s[n].amount = x
    OBVIOUS
  <2> HIDE DEF d, p, x, y
  <2> QED BY <2>3
<1>7. \A n \in 1 .. c : OwedOf(w, n) = OwedOf(s, n)
  <2>1. [k \in 1 .. Len(w) |-> w[k].amount] = [k \in 1 .. Len(s) |-> s[k].amount]
    BY <1>1, <1>5, <1>6
  <2> QED BY <2>1 DEF OwedOf
<1>8. \A n \in 1 .. c : FillOf(w, M2, n) = FillOf(s, M2, n)
  BY <1>6, <1>7 DEF FillOf
<1>9. InstOk(w, F, c, M2)
  <2>1. \A n \in 1 .. c :
          /\ w[n] = [due |-> w[n].due, paid |-> w[n].paid, amount |-> ShareOf(F, c, n)]
          /\ w[n].paid = FillOf(w, M2, n)
    BY <1>3, <1>6, <1>8
  <2> QED BY <1>5, <2>1 DEF InstOk
<1> QED BY <1>9 DEF w

\* All of them are paid exactly when payments reach what they come to.
LEMMA InstPaid ==
    ASSUME NEW s, NEW F \in Nat, F >= 1, NEW c \in Nat, c >= 1, NEW M \in Nat, InstOk(s, F, c, M)
    PROVE  (\A n \in 1 .. c : s[n].paid = s[n].amount) <=> M >= F
<1>1. Len(s) = c
  BY DEF InstOk
<1>2. \A n \in 1 .. c : s[n].amount = ShareOf(F, c, n) /\ s[n].paid = FillOf(s, M, n)
  <2> TAKE n \in 1 .. c
  <2>1. s[n] = [due |-> s[n].due, paid |-> s[n].paid, amount |-> ShareOf(F, c, n)]
    BY DEF InstOk
  <2>2. s[n].paid = FillOf(s, M, n)
    BY DEF InstOk
  <2> QED BY <2>1, <2>2
<1>3. \A n \in 1 .. c :
         /\ OwedOf(s, n) \in Nat /\ s[n].amount \in Nat /\ OwedOf(s, n) + s[n].amount <= F
         /\ n = c => OwedOf(s, n) + s[n].amount = F /\ s[n].amount >= 1
  BY <1>1, <1>2, OwedIs
<1>4. ASSUME M >= F, NEW n \in 1 .. c PROVE s[n].paid = s[n].amount
  <2>1. s[n].paid = FillOf(s, M, n) /\ OwedOf(s, n) \in Nat /\ s[n].amount \in Nat
        /\ OwedOf(s, n) + s[n].amount <= F
    BY <1>2, <1>3
  <2> QED BY <1>4, <2>1 DEF FillOf, Least
<1>5. ASSUME \A n \in 1 .. c : s[n].paid = s[n].amount PROVE M >= F
  <2>1. c \in 1 .. c
    OBVIOUS
  <2>2. /\ s[c].paid = FillOf(s, M, c) /\ OwedOf(s, c) \in Nat /\ s[c].amount \in Nat
        /\ OwedOf(s, c) + s[c].amount = F /\ s[c].amount >= 1 /\ s[c].paid = s[c].amount
    BY <1>2, <1>3, <1>5, <2>1
  <2> QED BY <2>2 DEF FillOf, Least
<1> QED BY <1>4, <1>5

Financed == IF agr.type = "CREDITO" THEN agr.total - agr.down ELSE 0
InstCount == IF Financed > 0 THEN agr.count ELSE 0

\* What is paid of an agreement, and what an open payment has read.
DealHolds ==
    agr # NoDeal =>
        /\ agr.total >= 1 /\ (agr.type = "CONTADO" => agr.down = 0 /\ agr.count = 0)
        /\ Money(pays, {"ADELANTO"}) <= agr.down
        /\ agr.status = "LIQUIDADO" <=> Money(pays, Kinds) >= agr.total
        /\ InstOk(inst, Financed, InstCount, Money(pays, Settling))
PaymentsFit ==
    \A a \in Admins : request[a] \in PayRequests =>
        /\ request[a].balance = agr.total - Money(pays, Kinds)
        /\ request[a].amount <= request[a].balance
        /\ request[a].kind = "ADELANTO" =>
              request[a].amount <= agr.down - Money(pays, {"ADELANTO"})
InstWithDeal == agr = NoDeal => inst = <<>>

SettledInv ==
    /\ MembershipTypes /\ Cardinality(setting.admins) = 1
    /\ DealHolds /\ PaymentsFit /\ InstWithDeal

\* The terms leave nothing out but, for an agreement there is, the total.
CompleteTerms ==
    \A t \in Terms : /\ t.type # Nothing /\ t.total # 0
                     /\ t.down # Absent /\ t.count # Absent

\* The fields of an agreement.
LEMMA DealFields ==
    ASSUME NEW d \in Deals
    PROVE  /\ d.type \in {"CREDITO", "CONTADO"} /\ d.total \in Nat /\ d.down \in Nat /\ d.count \in Nat
           /\ d.status \in {"VIGENTE", "LIQUIDADO"} /\ d # NoDeal
  BY DealIsDeal DEF Deals

\* The list of payments is typed, and its money a natural number.
LEMMA PaysTyped ==
    ASSUME MembershipTypes
    PROVE  /\ pays \in Seq(PayRows)
           /\ \A kinds : Money(pays, kinds) \in Nat
           /\ Money(pays, Kinds) = Money(pays, {"ADELANTO"}) + Money(pays, Settling)
  BY MoneyNat, MoneySplit DEF MembershipTypes, DealTyped

\* A step that leaves the agreement and what is paid alone.
LEMMA SettledKept ==
    ASSUME SettledInv, MembershipTypes', UNCHANGED <<setting, agr, inst, pays>>,
           \A a \in Admins : request'[a] \in PayRequests => request'[a] = request[a]
    PROVE  SettledInv'
<1>1. DealHolds' /\ InstWithDeal'
  BY DEF SettledInv, DealHolds, InstWithDeal, Financed, InstCount
<1>2. PaymentsFit'
  BY DEF SettledInv, PaymentsFit
<1> QED BY <1>1, <1>2 DEF SettledInv

\* Where a request of the only superadmin begins or ends, no other is open.
LEMMA NoOther ==
    ASSUME SettledInv, NEW a \in Admins, a \in setting.admins,
           \/ request' = request /\ request[a] = NoRequest
           \/ request' = [request EXCEPT ![a] = NoRequest]
    PROVE  PaymentsFit'
<1>1. request \in [Admins -> AnyRequest]
  BY DEF SettledInv, MembershipTypes, RequestTyped
<1>2. ASSUME NEW b \in Admins PROVE request'[b] = NoRequest
  <2>1. CASE b = a
    BY <1>1, <2>1
  <2>2. CASE b # a
    <3>1. request[b] = NoRequest
      BY <2>2, OnlyOne DEF SettledInv
    <3> QED BY <1>1, <2>2, <3>1
  <2> QED BY <2>1, <2>2
<1> QED BY <1>2, RequestKinds DEF PaymentsFit

\* An agreement may be written again only in the terms that were paid on.
LEMMA UpsertSettled ==
    ASSUME SettledInv, MembershipTypes', CompleteTerms, NEW a \in Admins, NEW t \in Terms, Upsert(a, t)
    PROVE  SettledInv'
<1> DEFINE r == Resolved(t)
           old == agr # NoDeal
           first == AddMonths(r.since, 1)
           financed == IF r.credit THEN r.total - r.down ELSE 0
<1>1. /\ agr' \in Deals /\ UNCHANGED <<setting, pays, request>>
      /\ r.total \in Nat /\ r.down \in Nat /\ r.count \in Nat
  BY UpsertFacts DEF SettledInv
<1>2. /\ a \in setting.admins /\ request[a] = NoRequest
      /\ ~old => t.total # Absent
      /\ old /\ Standing(Kinds) # {} => ~TermsChanged(t)
      /\ inst' = IF Standing(Kinds) # {} THEN inst
                 ELSE IF financed > 0 THEN Installments(financed, r.count, first) ELSE <<>>
  BY DEF Upsert, Free
<1>3. agr' = [type |-> r.type, total |-> r.total, down |-> r.down, count |-> r.count,
              grace |-> r.grace, since |-> r.since, freeUntil |-> r.freeUntil,
              status |-> IF agr = NoDeal THEN "VIGENTE" ELSE agr.status]
  BY DEF Upsert
<1>4. /\ t.type # Nothing /\ t.total # 0 /\ t.down # Absent /\ t.count # Absent
      /\ t.total \in Nat \cup {Absent} /\ t.down \in Nat /\ t.count \in Nat
      /\ t.type \in {"CREDITO", "CONTADO", "none"}
  BY TermAssumption DEF CompleteTerms
<1>5. /\ r.type = t.type /\ r.credit = (t.type = "CREDITO")
      /\ r.total = Or(t.total, IF old THEN agr.total ELSE 0)
      /\ r.down = IF t.type = "CREDITO" THEN t.down ELSE 0
      /\ r.count = IF t.type = "CREDITO" THEN t.count ELSE 0
  BY <1>4 DEF Resolved, TypeOr, Or
<1> HIDE DEF r, first
<1>6. /\ agr'.type = r.type /\ agr'.total = r.total /\ agr'.down = r.down /\ agr'.count = r.count
      /\ agr'.status = IF agr = NoDeal THEN "VIGENTE" ELSE agr.status
  BY <1>3
<1>7. old => agr \in Deals
  BY DEF SettledInv, MembershipTypes, DealTyped
<1>8. agr'.total >= 1
  <2>1. CASE t.total = Absent
    <3>1. old
      BY <1>2, <2>1
    <3>2. r.total = agr.total
      BY <1>5, <2>1, <3>1 DEF Or
    <3> QED BY <1>6, <3>1, <3>2 DEF SettledInv, DealHolds
  <2>2. CASE t.total # Absent
    BY <1>4, <1>5, <1>6, <2>2 DEF Or
  <2> QED BY <2>1, <2>2
<1>9. agr'.type = "CONTADO" => agr'.down = 0 /\ agr'.count = 0
  BY <1>5, <1>6
<1>10. /\ pays \in Seq(PayRows) /\ \A kinds : Money(pays, kinds) \in Nat
       /\ Standing(Kinds) = StandsIn(pays, Kinds)
  BY PaysTyped, PaidIsMoney DEF SettledInv
<1>11. CASE Standing(Kinds) = {}
  <2>1. /\ StandsIn(pays, Kinds) = {} /\ StandsIn(pays, Settling) = {}
        /\ StandsIn(pays, {"ADELANTO"}) = {}
    BY <1>10, <1>11 DEF StandsIn, Kinds, Settling
  <2>2. /\ Money(pays, Kinds) = 0 /\ Money(pays, Settling) = 0 /\ Money(pays, {"ADELANTO"}) = 0
    BY <1>10, <2>1, MoneyNat
  <2>3. agr'.status # "LIQUIDADO"
    <3>1. CASE ~old
      BY <1>6, <3>1
    <3>2. CASE old
      <4>1. agr.total >= 1 /\ agr.total \in Nat /\ (agr.status = "LIQUIDADO" <=> Money(pays, Kinds) >= agr.total)
        BY <1>7, <3>2, DealFields DEF SettledInv, DealHolds
      <4> QED BY <1>6, <2>2, <3>2, <4>1
    <3> QED BY <3>1, <3>2
  <2>4. Financed' = financed
    BY <1>5, <1>6 DEF Financed
  <2>5. InstOk(inst', Financed', InstCount', 0)
    <3>1. CASE financed > 0
      <4>1. financed \in Nat /\ financed >= 1
        BY <1>1, <3>1
      <4>2. inst' = Installments(financed, r.count, first) /\ InstCount' = r.count
        BY <1>2, <1>6, <1>11, <2>4, <3>1 DEF InstCount
      <4> HIDE DEF financed
      <4> QED BY <1>1, <2>4, <4>1, <4>2, InstMade
    <3>2. CASE ~(financed > 0)
      <4>1. inst' = <<>> /\ InstCount' = 0
        BY <1>2, <1>11, <2>4, <3>2 DEF InstCount
      <4>2. <<>> \in Seq(PayRows) /\ Len(<<>>) = 0
        OBVIOUS
      <4> QED BY <4>1, <4>2 DEF InstOk
    <3> QED BY <3>1, <3>2
  <2>6. DealHolds'
    <3>1. Money(pays', {"ADELANTO"}) <= agr'.down
      BY <1>1, <1>6, <2>2
    <3>2. agr'.status = "LIQUIDADO" <=> Money(pays', Kinds) >= agr'.total
      BY <1>1, <1>6, <1>8, <2>2, <2>3
    <3>3. InstOk(inst', Financed', InstCount', Money(pays', Settling))
      BY <1>1, <2>2, <2>5
    <3> QED BY <1>8, <1>9, <3>1, <3>2, <3>3 DEF DealHolds
  <2>7. PaymentsFit' /\ InstWithDeal'
    BY <1>1, <1>2, NoOther, DealIsDeal DEF InstWithDeal
  <2> QED BY <1>1, <2>6, <2>7 DEF SettledInv
<1>12. CASE Standing(Kinds) # {}
  <2>1. old /\ pays # <<>>
    <3>1. pays # <<>>
      BY <1>10, <1>12 DEF StandsIn
    <3> QED BY <3>1 DEF SettledInv, MembershipTypes, DealTyped
  <2>2. ~TermsChanged(t) /\ inst' = inst
    BY <1>2, <1>12, <2>1
  <2>3. /\ t.type = agr.type /\ t.down = agr.down /\ t.count = agr.count
        /\ Or(t.total, agr.total) = agr.total
    BY <1>4, <2>2 DEF TermsChanged, TypeOr, Or
  <2>4. agr.type = "CONTADO" => agr.down = 0 /\ agr.count = 0
    BY <2>1 DEF SettledInv, DealHolds
  <2>5. /\ agr.type \in {"CREDITO", "CONTADO"} /\ agr'.type = agr.type /\ agr'.total = agr.total
        /\ agr'.down = agr.down /\ agr'.count = agr.count /\ agr'.status = agr.status
    BY <1>5, <1>6, <1>7, <2>1, <2>3, <2>4, DealFields
  <2>6. Financed' = Financed /\ InstCount' = InstCount
    BY <2>5 DEF Financed, InstCount
  <2>7. DealHolds'
    BY <1>1, <1>8, <1>9, <2>1, <2>2, <2>5, <2>6 DEF SettledInv, DealHolds
  <2>8. PaymentsFit' /\ InstWithDeal'
    BY <1>1, <1>2, NoOther, DealIsDeal DEF InstWithDeal
  <2> QED BY <1>1, <2>7, <2>8 DEF SettledInv
<1> QED BY <1>11, <1>12

\* The balance that a request keeps is the balance of the agreement.
LEMMA BeginPaymentSettled ==
    ASSUME SettledInv, MembershipTypes', NEW a \in Admins, NEW kind \in Kinds, NEW n \in Amounts,
           BeginPayment(a, kind, n)
    PROVE  SettledInv'
<1> DEFINE r == [kind |-> kind, amount |-> n, balance |-> agr.total - Money(pays, Kinds)]
<1>1. /\ request' = [request EXCEPT ![a] = r] /\ UNCHANGED <<setting, agr, inst, pays>>
      /\ n <= agr.total - Money(pays, Kinds)
      /\ kind = "ADELANTO" => n <= agr.down - Money(pays, {"ADELANTO"})
      /\ request \in [Admins -> AnyRequest]
  BY PaidIsMoney DEF BeginPayment, deal, SettledInv, MembershipTypes, RequestTyped
<1>2. r.kind = kind /\ r.amount = n /\ r.balance = agr.total - Money(pays, Kinds)
  OBVIOUS
<1> HIDE DEF r
<1>3. DealHolds' /\ InstWithDeal'
  BY <1>1 DEF SettledInv, DealHolds, InstWithDeal, Financed, InstCount
<1>4. PaymentsFit'
  <2> SUFFICES ASSUME NEW b \in Admins, request'[b] \in PayRequests
               PROVE  /\ request'[b].balance = agr.total - Money(pays, Kinds)
                      /\ request'[b].amount <= request'[b].balance
                      /\ request'[b].kind = "ADELANTO" =>
                            request'[b].amount <= agr.down - Money(pays, {"ADELANTO"})
    BY <1>1 DEF PaymentsFit
  <2>1. CASE b = a
    <3>1. request'[b] = r
      BY <1>1, <2>1
    <3> QED BY <1>1, <1>2, <3>1
  <2>2. CASE b # a
    <3>1. request'[b] = request[b]
      BY <1>1, <2>2
    <3> QED BY <3>1 DEF SettledInv, PaymentsFit
  <2> QED BY <2>1, <2>2
<1> QED BY <1>1, <1>3, <1>4 DEF SettledInv

\* The refill of the installments depends only on the money that settles them.
LEMMA RefilledIs == \A seq : Refilled(seq) = RefillOf(inst, Money(seq, Settling))
  BY DEF Refilled, RefillOf, FillOf, OwedOf, Money, StandsIn

\* The number of installments of an agreement is a natural number.
LEMMA CountTyped ==
    ASSUME MembershipTypes, agr # NoDeal PROVE InstCount \in Nat /\ Financed \in Int
  BY DealFields DEF MembershipTypes, DealTyped, InstCount, Financed

\* A payment that is registered fits what was still owed.
LEMMA CommitPaymentSettled ==
    ASSUME SettledInv, MembershipTypes', NEW a \in Admins, CommitPayment(a)
    PROVE  SettledInv'
<1> DEFINE r == request[a]  x == Recorded(request[a])
<1>1. /\ r \in PayRequests /\ a \in setting.admins /\ agr \in Deals /\ agr' \in Deals
      /\ x \in PayRows /\ pays' = Append(pays, x) /\ UNCHANGED setting
      /\ request' = [request EXCEPT ![a] = NoRequest]
  BY CommitPaymentFacts DEF SettledInv
<1>2. x.kind = r.kind /\ x.amount = r.amount /\ x.void = FALSE
  BY DEF Recorded
<1>3. r.kind \in Kinds /\ r.amount \in Nat /\ r.amount >= 1 /\ r.balance \in Int
  BY <1>1 DEF PayRequests
<1>4. /\ r.balance = agr.total - Money(pays, Kinds)
      /\ r.amount <= r.balance
      /\ r.kind = "ADELANTO" => r.amount <= agr.down - Money(pays, {"ADELANTO"})
  BY <1>1 DEF SettledInv, PaymentsFit
<1>5. /\ inst' = RefillOf(inst, Money(pays', Settling))
      /\ agr' = IF r.balance <= r.amount THEN [agr EXCEPT !.status = "LIQUIDADO"] ELSE agr
  BY RefilledIs DEF CommitPayment
<1> HIDE DEF r, x
<1>6. pays \in Seq(PayRows) /\ \A kinds : Money(pays, kinds) \in Nat
  BY PaysTyped DEF SettledInv
<1>7. \A kinds : Money(pays', kinds)
                 = Money(pays, kinds) + (IF ~x.void /\ x.kind \in kinds THEN x.amount ELSE 0)
  BY <1>1, <1>6, MoneyAppend
<1>8. /\ Money(pays', Kinds) = Money(pays, Kinds) + r.amount
      /\ Money(pays', {"ADELANTO"}) = Money(pays, {"ADELANTO"}) + (IF r.kind = "ADELANTO" THEN r.amount ELSE 0)
  BY <1>2, <1>3, <1>6, <1>7
<1>9. /\ agr'.type = agr.type /\ agr'.total = agr.total /\ agr'.down = agr.down
      /\ agr'.count = agr.count
      /\ agr'.status = IF r.balance <= r.amount THEN "LIQUIDADO" ELSE agr.status
      /\ agr.total \in Nat /\ agr.down \in Nat /\ agr # NoDeal
  BY <1>1, <1>5, DealFields DEF Deals
<1>10. /\ agr.total >= 1 /\ (agr.type = "CONTADO" => agr.down = 0 /\ agr.count = 0)
       /\ Money(pays, {"ADELANTO"}) <= agr.down
       /\ agr.status = "LIQUIDADO" <=> Money(pays, Kinds) >= agr.total
       /\ InstOk(inst, Financed, InstCount, Money(pays, Settling))
  BY <1>9 DEF SettledInv, DealHolds
<1>11. Financed' = Financed /\ InstCount' = InstCount /\ InstCount \in Nat
  BY <1>9, CountTyped DEF Financed, InstCount, SettledInv
<1>12. InstOk(inst', Financed', InstCount', Money(pays', Settling))
  BY <1>5, <1>10, <1>11, InstRefill
<1>13. Money(pays', {"ADELANTO"}) <= agr'.down
  BY <1>3, <1>4, <1>6, <1>8, <1>9, <1>10
<1>14. agr'.status = "LIQUIDADO" <=> Money(pays', Kinds) >= agr'.total
  BY <1>3, <1>4, <1>6, <1>8, <1>9, <1>10
<1>15. DealHolds'
  BY <1>9, <1>10, <1>12, <1>13, <1>14 DEF DealHolds
<1>16. PaymentsFit' /\ InstWithDeal'
  BY <1>1, NoOther, DealIsDeal DEF InstWithDeal
<1> QED BY <1>1, <1>15, <1>16 DEF SettledInv

\* A void gives back to the installments what the payment had paid.
LEMMA VoidPaymentSettled ==
    ASSUME SettledInv, MembershipTypes', NEW a \in Admins, NEW k \in 1 .. Len(pays), VoidPayment(a, k)
    PROVE  SettledInv'
<1>1. /\ agr \in Deals /\ agr' \in Deals /\ pays \in Seq(PayRows)
      /\ pays' = [pays EXCEPT ![k].void = TRUE] /\ ~pays[k].void
      /\ UNCHANGED <<setting, request>>
  BY VoidPaymentFacts DEF SettledInv
<1>2. /\ a \in setting.admins /\ request[a] = NoRequest
      /\ inst' = RefillOf(inst, Money(pays', Settling))
      /\ agr' = IF Money(pays, Kinds) - pays[k].amount < agr.total /\ agr.status = "LIQUIDADO"
                THEN [agr EXCEPT !.status = "VIGENTE"] ELSE agr
  BY RefilledIs, PaidIsMoney DEF VoidPayment, Free
<1>3. pays[k].kind \in Kinds /\ pays[k].amount \in Nat
  <2>1. pays[k] \in PayRows
    BY <1>1
  <2> QED BY <2>1 DEF PayRows
<1>4. \A kinds : Money(pays, kinds) \in Nat
  BY PaysTyped DEF SettledInv
<1>5. \A kinds : Money(pays', kinds)
                 = Money(pays, kinds) - (IF pays[k].kind \in kinds THEN pays[k].amount ELSE 0)
  BY <1>1, MoneyVoid
<1>6. /\ Money(pays', Kinds) = Money(pays, Kinds) - pays[k].amount
      /\ Money(pays', {"ADELANTO"}) = Money(pays, {"ADELANTO"})
            - (IF pays[k].kind \in {"ADELANTO"} THEN pays[k].amount ELSE 0)
  BY <1>3, <1>5
<1>7. /\ agr'.type = agr.type /\ agr'.total = agr.total /\ agr'.down = agr.down
      /\ agr'.count = agr.count
      /\ agr'.status = IF Money(pays, Kinds) - pays[k].amount < agr.total /\ agr.status = "LIQUIDADO"
                       THEN "VIGENTE" ELSE agr.status
      /\ agr.total \in Nat /\ agr.down \in Nat /\ agr # NoDeal
  BY <1>1, <1>2, DealFields DEF Deals
<1>8. /\ agr.total >= 1 /\ (agr.type = "CONTADO" => agr.down = 0 /\ agr.count = 0)
      /\ Money(pays, {"ADELANTO"}) <= agr.down
      /\ agr.status = "LIQUIDADO" <=> Money(pays, Kinds) >= agr.total
      /\ InstOk(inst, Financed, InstCount, Money(pays, Settling))
  BY <1>7 DEF SettledInv, DealHolds
<1>9. Financed' = Financed /\ InstCount' = InstCount /\ InstCount \in Nat
  BY <1>7, CountTyped DEF Financed, InstCount, SettledInv
<1>10. InstOk(inst', Financed', InstCount', Money(pays', Settling))
  BY <1>2, <1>8, <1>9, InstRefill
<1>11. Money(pays', {"ADELANTO"}) <= agr'.down
  BY <1>3, <1>4, <1>6, <1>7, <1>8
<1>12. agr'.status = "LIQUIDADO" <=> Money(pays', Kinds) >= agr'.total
  BY <1>3, <1>4, <1>6, <1>7, <1>8
<1>13. DealHolds'
  BY <1>7, <1>8, <1>10, <1>11, <1>12 DEF DealHolds
<1>14. PaymentsFit' /\ InstWithDeal'
  BY <1>1, <1>2, NoOther, DealIsDeal DEF InstWithDeal
<1> QED BY <1>1, <1>13, <1>14 DEF SettledInv

\* Nothing is owed and nothing is paid in the first state.
LEMMA SettledInit ==
    ASSUME MembershipInit, \A sc \in Settings : Cardinality(sc.admins) = 1
    PROVE  SettledInv
<1>1. MembershipTypes
  BY MembershipInitTyped
<1>2. \A a \in Admins : request[a] = NoRequest
  BY DEF MembershipInit
<1>3. agr = NoDeal /\ inst = <<>> /\ setting \in Settings
  BY DEF MembershipInit
<1>4. DealHolds /\ InstWithDeal
  BY <1>3 DEF DealHolds, InstWithDeal
<1>5. PaymentsFit
  BY <1>2, RequestKinds DEF PaymentsFit
<1> QED BY <1>1, <1>3, <1>4, <1>5 DEF SettledInv

\* Every step keeps the installments in line with the payments.
LEMMA SettledStep ==
    ASSUME SettledInv, CompleteTerms, [MembershipNext]_membershipVars PROVE SettledInv'
<1>0. MembershipTypes /\ MembershipTypes' /\ request \in [Admins -> AnyRequest]
  BY MembershipStepTyped DEF SettledInv, MembershipTypes, RequestTyped
<1>1. CASE MembershipNext
  <2>1. CASE \/ DayPasses \/ CronRead \/ CronExpire \/ CronCut \/ CronFlag \/ CronEnd \/ CronDies
             \/ \E p \in Products : CronLook(p)
    <3>1. UNCHANGED <<setting, agr, inst, pays, request>>
      BY <2>1 DEF DayPasses, CronRead, CronExpire, CronCut, CronFlag, CronEnd, CronDies, CronLook, deal
    <3> QED BY <1>0, <3>1, SettledKept
  <2>2. ASSUME NEW a \in Admins, NEW items \in SUBSET setting.products, BeginMembership(a, items)
        PROVE  SettledInv'
    <3> DEFINE r == [kind |-> "membership", start |-> NewStart, items |-> items,
                     anchor |-> NewAnchor, hadAnchor |-> anchor # 0]
    <3>1. UNCHANGED <<setting, agr, inst, pays>> /\ request' = [request EXCEPT ![a] = r]
      BY <2>2 DEF BeginMembership, deal
    <3>2. r \notin PayRequests
      BY RequestKinds DEF PayRequests
    <3> HIDE DEF r
    <3>3. \A b \in Admins : request'[b] \in PayRequests => request'[b] = request[b]
      BY <1>0, <3>1, <3>2
    <3> QED BY <1>0, <3>1, <3>3, SettledKept
  <2>3. ASSUME NEW a \in Admins, CommitMembership(a) PROVE SettledInv'
    <3>1. UNCHANGED <<setting, agr, inst, pays>> /\ request' = [request EXCEPT ![a] = NoRequest]
      BY <1>0, <2>3 DEF CommitMembership, deal
    <3>2. \A b \in Admins : request'[b] \in PayRequests => request'[b] = request[b]
      BY <1>0, <3>1, RequestKinds
    <3> QED BY <1>0, <3>1, <3>2, SettledKept
  <2>4. ASSUME NEW a \in Admins, NEW k \in 1 .. Len(mems), EditMembership(a, k) PROVE SettledInv'
    <3>1. UNCHANGED <<setting, agr, inst, pays, request>>
      BY <2>4 DEF EditMembership, deal
    <3> QED BY <1>0, <3>1, SettledKept
  <2>5. ASSUME NEW a \in Admins, NEW p \in Products,
               ActivateProduct(a, p) \/ DeactivateProduct(a, p) \/ DeactivateNow(a, p)
        PROVE  SettledInv'
    <3>1. UNCHANGED <<setting, agr, inst, pays, request>>
      BY <2>5 DEF ActivateProduct, DeactivateProduct, DeactivateNow, deal
    <3> QED BY <1>0, <3>1, SettledKept
  <2>6. ASSUME NEW a \in Admins, NEW t \in Terms, Upsert(a, t) PROVE SettledInv'
    BY <1>0, <2>6, UpsertSettled
  <2>7. ASSUME NEW a \in Admins, NEW kind \in Kinds, NEW n \in Amounts, BeginPayment(a, kind, n)
        PROVE  SettledInv'
    BY <1>0, <2>7, BeginPaymentSettled
  <2>8. ASSUME NEW a \in Admins, CommitPayment(a) PROVE SettledInv'
    BY <1>0, <2>8, CommitPaymentSettled
  <2>9. ASSUME NEW a \in Admins, NEW k \in 1 .. Len(pays), VoidPayment(a, k) PROVE SettledInv'
    BY <1>0, <2>9, VoidPaymentSettled
  <2> QED BY <1>1, <2>1, <2>2, <2>3, <2>4, <2>5, <2>6, <2>7, <2>8, <2>9 DEF MembershipNext
<1>2. CASE UNCHANGED membershipVars
  <2>1. UNCHANGED <<setting, agr, inst, pays, request>>
    BY <1>2 DEF membershipVars, deal
  <2> QED BY <1>0, <2>1, SettledKept
<1> QED BY <1>1, <1>2

\* Settled means that nothing is owed, and paying every installment settles.
LEMMA SettledInvIsEnough == ASSUME SettledInv PROVE SettledMeansClear
<1> SUFFICES ASSUME agr # NoDeal
             PROVE  /\ (agr.status = "LIQUIDADO") <=> (Paid >= agr.total)
                    /\ agr.status = "LIQUIDADO" => InstallmentsPaid
                    /\ (inst # <<>> /\ InstallmentsPaid /\ Sum({"ADELANTO"}) = agr.down)
                          => agr.status = "LIQUIDADO"
  BY DEF SettledMeansClear
<1>1. /\ Paid = Money(pays, Kinds) /\ Sum({"ADELANTO"}) = Money(pays, {"ADELANTO"})
      /\ Money(pays, Kinds) = Money(pays, {"ADELANTO"}) + Money(pays, Settling)
      /\ Money(pays, Kinds) \in Nat /\ Money(pays, {"ADELANTO"}) \in Nat /\ Money(pays, Settling) \in Nat
  BY PaidIsMoney, PaysTyped DEF SettledInv
<1>2. /\ Money(pays, {"ADELANTO"}) <= agr.down
      /\ agr.status = "LIQUIDADO" <=> Money(pays, Kinds) >= agr.total
      /\ InstOk(inst, Financed, InstCount, Money(pays, Settling))
  BY DEF SettledInv, DealHolds
<1>3. agr.total \in Nat /\ agr.down \in Nat /\ InstCount \in Nat /\ Financed \in Int
  BY CountTyped, DealFields DEF SettledInv, MembershipTypes, DealTyped
<1>4. (\E S : inst \in Seq(S)) /\ Len(inst) = InstCount
  BY <1>2 DEF InstOk
<1>5. CASE InstCount = 0
  <2>1. inst = <<>> /\ InstallmentsPaid
    BY <1>4, <1>5 DEF InstallmentsPaid
  <2> QED BY <1>1, <1>2, <2>1
<1>6. CASE InstCount # 0
  <2>1. Financed > 0 /\ Financed = agr.total - agr.down /\ InstCount >= 1
    BY <1>3, <1>6 DEF InstCount, Financed
  <2>2. Financed \in Nat /\ Financed >= 1
    BY <1>3, <2>1
  <2>3. InstallmentsPaid <=> Money(pays, Settling) >= Financed
    BY <1>1, <1>2, <1>3, <1>4, <2>1, <2>2, InstPaid DEF InstallmentsPaid
  <2> QED BY <1>1, <1>2, <1>3, <2>1, <2>3
<1> QED BY <1>5, <1>6

\* With one superadmin and terms that leave nothing out an agreement is settled exactly
\* when all of it is paid; then no installment is owed that could block the business, and
\* the down payment and every installment settle it, whatever is voided and paid again.
THEOREM SettledIsClear ==
    ASSUME \A sc \in Settings : Cardinality(sc.admins) = 1, CompleteTerms
    PROVE  MembershipSpec => []SettledMeansClear
<1>1. MembershipInit => SettledInv
  BY SettledInit
<1>2. SettledInv /\ [MembershipNext]_membershipVars => SettledInv'
  BY SettledStep
<1>3. SettledInv => SettledMeansClear
  BY SettledInvIsEnough
<1> QED BY <1>1, <1>2, <1>3, PTL DEF MembershipSpec
=============================================================================
