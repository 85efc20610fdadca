------------------------------- MODULE Access -------------------------------
(***************************************************************************)
(* Who may work where: the branches of a company and the users who may     *)
(* enter them, the collaborators of a business with their PINs and quota,  *)
(* the devices of its point of sale, the clock of a trial and the invite   *)
(* codes of riders.  Translated from superadmin.service.ts, auth.service,  *)
(* jwt.strategy, users, pos/users, pos/waiters, pos/devices, invite-codes  *)
(* and common/guards under src/src.                                        *)
(*                                                                         *)
(* The parts share no statement of the code but the login, and a scenario  *)
(* runs one of them.  Where a handler reads outside a transaction and      *)
(* writes later, the read and the write are two actions, but for grants,   *)
(* changes of industry, of a PIN and of a waiter: what they check is       *)
(* claimed where one request is open at a time.                            *)
(***************************************************************************)
EXTENDS Integers, FiniteSets, FiniteSetsExt

CONSTANTS
    Users, Waiters, Businesses, Orgs, Industries, Devices, Pins,
    Home,        \* main branch of each user
    UserLimit,   \* active users a business may have: base and extra slots
    Limit,       \* maxDevices, maxWebDevices and maxUses of a code
    TrialHours, TokenHours,
    Scenarios,   \* what is run: see ScenarioAssumption
    MaxHours     \* bound: hours of a trial run

None == "none"

\* BASE_USER_LIMIT leaves room for the ENCARGADO that comes with the business.
ASSUME LimitAssumption == /\ {UserLimit, Limit, TrialHours, TokenHours, MaxHours} \subseteq Nat
                          /\ UserLimit # 0
ASSUME HomeAssumption == /\ Home \in [Users -> Businesses] /\ None \notin Orgs \cup Industries
                         /\ None \notin Pins
ASSUME PeopleAssumption == /\ IsFiniteSet(Users) /\ Users # {} /\ Users \cap Waiters = {}
                           /\ IsFiniteSet(Devices)

\* revive: inactive collaborators come back; demote: roles and active marks change by
\* every endpoint; open: requests that may be open at the same time; users and waiters: who
\* of them does something.
ASSUME ScenarioAssumption ==
    \A sc \in Scenarios :
        /\ sc.part \in {"branches", "people", "devices", "trial", "invites"}
        /\ {sc.revive, sc.demote} \subseteq BOOLEAN /\ sc.open \in Nat \ {0}
        /\ sc.users \subseteq Users /\ sc.waiters \subseteq Waiters

VARIABLES
    scenario,
    org, industry, access, session,   \* branches: businesses, accesses, branch of each token
    staff, waiter,                    \* users and waiters of one business
    dev, pos,                         \* its devices and the settings of its subscription
    now, trial, paid, token,          \* hour, trial clock, end of coverage, end of the token
    granted, used,                    \* hours of trial given by admins, hours worked on them
    rider, code,                      \* code each rider used; uses of the code
    req                               \* what open requests have read

company == <<org, industry, access, session>>
people == <<staff, waiter>>
devices == <<dev, pos>>
clock == <<now, trial, paid, token, granted, used>>
invites == <<rider, code>>
vars == <<scenario, company, people, devices, clock, invites, req>>

NoClock == -1
Unmade == [u \in Users |-> [role |-> None, active |-> FALSE, pin |-> None]]
NoDevice == [status |-> None, web |-> FALSE, held |-> FALSE]

Init ==
    /\ scenario \in Scenarios
    /\ org = [b \in Businesses |-> None] /\ industry = [b \in Businesses |-> None]
    /\ access = {} /\ session = Home
    /\ staff = [Unmade EXCEPT ![CHOOSE u \in Users : TRUE] =
                    [role |-> "ENCARGADO", active |-> TRUE, pin |-> None]]
    /\ waiter = [w \in Waiters |-> [active |-> FALSE, pin |-> None]]
    /\ dev = [d \in Devices |-> NoDevice]
    /\ pos = [max |-> Limit, maxWeb |-> Limit, billing |-> FALSE]
    /\ now = 0 /\ paid = NoClock /\ token = 0
    /\ trial = [hours |-> TrialHours, started |-> FALSE, ends |-> NoClock]
    /\ granted = TrialHours /\ used = 0
    /\ rider = [u \in Users |-> FALSE] /\ code = [used |-> 0, active |-> TRUE]
    /\ req = {}

Part(p) == scenario.part = p
Opening == Cardinality(req) < scenario.open

(***************************************************************************)
(* Companies and branches.                                                 *)
(***************************************************************************)

\* The industry of the other businesses of a company: None when none has one.
Sibling(b, o) ==
    LET with == {c \in Businesses \ {b} : org[c] = o /\ industry[c] # None}
    IN  IF with = {} THEN None ELSE industry[CHOOSE c \in with : TRUE]

\* updateBusiness, where it changes the industry.
SetIndustry(b, i) ==
    /\ Part("branches") /\ Opening /\ i # industry[b]
    /\ org[b] # None => Sibling(b, org[b]) \in {None, i}
    /\ industry' = [industry EXCEPT ![b] = i]
    /\ UNCHANGED <<scenario, org, access, session, people, devices, clock, invites, req>>

\* updateBusinessOrganization reads the business and the company it goes to, deletes the
\* accesses to a branch that leaves its company, and writes the company last.
BeginMove(b, o) ==
    /\ Part("branches") /\ Opening
    /\ o # None => industry[b] # None /\ Sibling(b, o) \in {None, industry[b]}
    /\ req' = req \cup {[business |-> b, from |-> org[b], to |-> o,
                         clean |-> org[b] \in {None, o}]}
    /\ UNCHANGED <<scenario, company, people, devices, clock, invites>>

AccessesKept(b) == access
AccessesAfter(b) == {a \in access : a[2] # b}

DropAccesses(r) ==
    /\ ~r.clean
    /\ access' = AccessesAfter(r.business)
    /\ req' = (req \ {r}) \cup {[r EXCEPT !.clean = TRUE]}
    /\ UNCHANGED <<scenario, org, industry, session, people, devices, clock, invites>>

MoveBusiness(r) ==
    /\ r.clean
    /\ org' = [org EXCEPT ![r.business] = r.to]
    /\ req' = req \ {r}
    /\ UNCHANGED <<scenario, industry, access, session, people, devices, clock, invites>>

Together(u, b) == org[Home[u]] # None /\ org[Home[u]] = org[b]

\* grantBranchAccess and revokeBranchAccess.
Grant(u, b) ==
    /\ Part("branches") /\ Opening /\ Together(u, b) /\ b # Home[u] /\ <<u, b>> \notin access
    /\ access' = access \cup {<<u, b>>}
    /\ UNCHANGED <<scenario, org, industry, session, people, devices, clock, invites, req>>

Revoke(u, b) ==
    /\ Part("branches") /\ <<u, b>> \in access /\ org[b] # None
    /\ access' = access \ {<<u, b>>}
    /\ UNCHANGED <<scenario, org, industry, session, people, devices, clock, invites, req>>

\* canAccessBusiness: the main branch, or one of the same company with an access.
CanAccess(u, b) == b = Home[u] \/ (<<u, b>> \in access /\ Together(u, b))

\* login with a branch, and switchBranch.
Enter(u, b) ==
    /\ Part("branches") /\ CanAccess(u, b)
    /\ session' = [session EXCEPT ![u] = b]
    /\ UNCHANGED <<scenario, org, industry, access, people, devices, clock, invites, req>>

\* jwt.strategy and refresh: a token of a branch that may not be entered any more is
\* refused, and its user logs in again.
Refused(u) ==
    /\ Part("branches") /\ ~CanAccess(u, session[u])
    /\ session' = [session EXCEPT ![u] = Home[u]]
    /\ UNCHANGED <<scenario, org, industry, access, people, devices, clock, invites, req>>

(***************************************************************************)
(* Collaborators of one business.                                          *)
(***************************************************************************)
\* VENDEDOR counts and is written as CAJERO is.
Counted == {"ENCARGADO", "CAJERO"}
Active == {u \in Users : staff[u].active}
Bosses == {u \in Active : staff[u].role = "ENCARGADO"}
InQuota == {u \in Active : staff[u].role \in Counted}
HasQuota == Cardinality(InQuota) < UserLimit

TakenByUsers(me) == {staff[u].pin : u \in Active \ {me}}

\* validateAndHashPin: PINs of active users and of active waiters, but one's own.
Taken(me) ==
    TakenByUsers(me) \cup {waiter[w].pin : w \in {v \in Waiters : waiter[v].active /\ v # me}}

PinFree(pin, me) == pin = None \/ pin \notin Taken(me)

\* createUser: the quota is counted and the PIN compared before the user is written.  Riders
\* made by other endpoints are not counted.
BeginUser(u, role, pin) ==
    /\ Part("people") /\ Opening /\ staff[u].role = None /\ \A r \in req : r.user # u
    /\ HasQuota \/ role \notin Counted
    /\ PinFree(pin, u)
    /\ req' = req \cup {[kind |-> "create", user |-> u, role |-> role, pin |-> pin]}
    /\ UNCHANGED <<scenario, company, people, devices, clock, invites>>

\* The mark of a user is written after the checks, and alone.
AskMark(kind, u) ==
    /\ Part("people") /\ Opening /\ staff[u].role # None
    /\ req' = req \cup {[kind |-> kind, user |-> u, role |-> staff[u].role, pin |-> None]}
    /\ UNCHANGED <<scenario, company, people, devices, clock, invites>>

AnyBoss(u) == TRUE

\* The only active ENCARGADO of a business is not deactivated.
OtherBoss(u) == staff[u].role = "ENCARGADO" => Bosses \ {u} # {}

\* deactivateUser up to its write.
Deactivate(u) == OtherBoss(u) /\ AskMark("off", u)

\* activateUser up to its write: it counts the quota if it reads the user inactive, and
\* does not look at the PIN.
Activate(u) == scenario.revive /\ (staff[u].active \/ HasQuota) /\ AskMark("on", u)

\* The write of each of the three.
CommitUser(r) ==
    /\ Part("people")
    /\ staff' = [staff EXCEPT ![r.user] =
                    IF r.kind = "create" THEN [role |-> r.role, active |-> TRUE, pin |-> r.pin]
                    ELSE [@ EXCEPT !.active = (r.kind = "on")]]
    /\ req' = req \ {r}
    /\ UNCHANGED <<scenario, company, waiter, devices, clock, invites>>

Change(u, s) ==
    /\ Part("people") /\ Opening /\ staff[u].role # None /\ s # staff[u]
    /\ staff' = [staff EXCEPT ![u] = s]
    /\ UNCHANGED <<scenario, company, waiter, devices, clock, invites, req>>

\* updateUser and setUserPin.
SetPin(u, pin) ==
    /\ PinFree(pin, u)
    /\ Change(u, [staff[u] EXCEPT !.pin = pin])

\* updateUser: a user becomes a cashier or a seller, whatever it was.
SetRole(u, role) ==
    /\ scenario.demote
    /\ Change(u, [staff[u] EXCEPT !.role = role])

\* updateStatus of admin users and update of users: the mark as the superadmin asks.
SetActive(u) ==
    /\ scenario.demote
    /\ Change(u, [staff[u] EXCEPT !.active = ~@])

\* create, update and remove of waiters: the PIN is compared when the body has one.
SetWaiter(w, active, pin) ==
    /\ Part("people") /\ Opening
    /\ pin # None /\ (pin = waiter[w].pin \/ PinFree(pin, w))
    /\ active /\ ~waiter[w].active /\ waiter[w].pin # None => scenario.revive
    /\ waiter' = [waiter EXCEPT ![w] = [active |-> active, pin |-> pin]]
    /\ UNCHANGED <<scenario, company, staff, devices, clock, invites, req>>

(***************************************************************************)
(* Devices of a business.                                                  *)
(***************************************************************************)
Live(web) == {d \in Devices : dev[d].status = "ACTIVE" /\ dev[d].web = web}

Ask(kind, d) ==
    /\ Part("devices") /\ Opening /\ req' = req \cup {[kind |-> kind, dev |-> d]}
    /\ UNCHANGED <<scenario, company, people, devices, clock, invites>>

\* validateAndRegisterOnLogin up to its write: a device that is known and not revoked, or a
\* new one below the limit.
LoginDevice(d) ==
    \/ dev[d].status = "ACTIVE" /\ Ask("seen", d)
    \/ dev[d].status = None /\ Cardinality(Live(FALSE)) < pos.max /\ Ask("desktop", d)

\* registerWebDevice up to its write: a known device proves its secret.
RegisterWeb(d) ==
    /\ pos.billing
    /\ \/ dev[d].status = "ACTIVE" /\ dev[d].held /\ Ask("seen", d)
       \/ dev[d].status = None /\ Cardinality(Live(TRUE)) < pos.maxWeb /\ Ask("web", d)

SeenAlive(x) == [x EXCEPT !.status = "ACTIVE"]

\* The row of a known device: its times, name and user are written, never its status.
Seen(x) == x

\* The write; a second row of one device breaks its unique key.  The secret of a new web
\* device is in the reply, which may be lost.
WriteDevice(r) ==
    /\ Part("devices") /\ req' = req \ {r}
    /\ \E held \in BOOLEAN :
          dev' = [dev EXCEPT ![r.dev] =
                    IF r.kind = "seen" THEN Seen(@)
                    ELSE IF @.status # None THEN @
                    ELSE [status |-> "ACTIVE", web |-> r.kind = "web",
                          held |-> held /\ r.kind = "web"]]
    /\ UNCHANGED <<scenario, company, people, pos, clock, invites>>

\* updateDevice, updateBusinessDevice and updateBusinessWebDevice: any status.
UpdateDevice(d, status) ==
    /\ Part("devices") /\ dev[d].status # None /\ (status = "ACTIVE" => scenario.revive)
    /\ dev' = [dev EXCEPT ![d].status = status]
    /\ UNCHANGED <<scenario, company, people, pos, clock, invites, req>>

\* revokeWebDevice.
RevokeWeb(d) ==
    /\ Part("devices") /\ dev[d].status # None /\ dev[d].web
    /\ dev' = [dev EXCEPT ![d].status = "REVOKED"]
    /\ UNCHANGED <<scenario, company, people, pos, clock, invites, req>>

\* updatePosSubscription, limits and web billing (with the web admin it needs).
SetLimits(max, maxWeb, billing) ==
    /\ Part("devices")
    /\ max < pos.max \/ maxWeb < pos.maxWeb => scenario.revive
    /\ pos' = [max |-> max, maxWeb |-> maxWeb, billing |-> billing]
    /\ UNCHANGED <<scenario, company, people, dev, clock, invites, req>>

(***************************************************************************)
(* The trial of the point of sale, by the hour.                            *)
(***************************************************************************)
Covered == now < paid
Over == trial.ends # NoClock /\ now >= trial.ends
Running == trial.ends # NoClock /\ now < trial.ends

RestartClock(desktop) == desktop

\* The first login of a desktop starts the clock.
Starts(desktop) == desktop /\ ~trial.started

Clock(desktop) ==
    IF trial.hours # NoClock /\ Starts(desktop)
    THEN [trial EXCEPT !.started = TRUE, !.ends = now + trial.hours] ELSE trial

\* A trial that is over needs coverage.
MayEnter == trial.hours # NoClock /\ Over => Covered

\* generateTokens: the token ends with the clock, if only as it is issued.
TokenEnd(t) ==
    IF t.hours # NoClock /\ t.ends # NoClock
    THEN Max({now, Min({now + TokenHours, t.ends})}) ELSE now + TokenHours

Login(desktop) ==
    /\ Part("trial") /\ MayEnter
    /\ trial' = Clock(desktop) /\ token' = TokenEnd(trial')
    /\ UNCHANGED <<scenario, company, people, devices, now, paid, granted, used, invites, req>>

\* refresh and switchBranch start no clock.
Refresh ==
    /\ Part("trial") /\ MayEnter
    /\ token' = TokenEnd(trial)
    /\ UNCHANGED <<scenario, company, people, devices, now, trial, paid, granted, used,
                   invites, req>>

\* socialLogin looks at no trial: its token has a whole life.
SocialLogin ==
    /\ Part("trial") /\ token' = now + TokenHours
    /\ UNCHANGED <<scenario, company, people, devices, now, trial, paid, granted, used,
                   invites, req>>

\* pos.guard, with isActive: the token, a membership that has not lapsed, and the clock
\* or coverage.
Served == now < token /\ (paid # NoClock => Covered) /\ (Running \/ Covered)

\* An hour, worked whenever the guard lets requests in.
Tick ==
    /\ Part("trial") /\ now < MaxHours
    /\ now' = now + 1
    /\ used' = IF Served /\ ~Covered THEN used + 1 ELSE used
    /\ UNCHANGED <<scenario, company, people, devices, trial, paid, token, granted, invites, req>>

\* updatePosSubscription, where it sets the trial; what it gives is counted.
SetTrial(t, given) ==
    /\ Part("trial") /\ granted + given <= MaxHours
    /\ trial' = t /\ granted' = granted + given
    /\ UNCHANGED <<scenario, company, people, devices, now, paid, token, used, invites, req>>

\* trialHours: none clears the clock, a number leaves it.
SetHours(h) ==
    IF h = NoClock THEN SetTrial([hours |-> NoClock, started |-> FALSE, ends |-> NoClock], 0)
    ELSE SetTrial([trial EXCEPT !.hours = h], h)

ExtendClock(h) ==
    SetTrial([trial EXCEPT !.started = TRUE, !.ends = (IF Running THEN @ ELSE now) + h], h)

ResetClock ==
    /\ trial.hours # NoClock
    /\ SetTrial([trial EXCEPT !.started = FALSE, !.ends = NoClock], trial.hours)

TerminateTrial == SetTrial([trial EXCEPT !.ends = now], 0)

\* A membership is paid or cancelled.
SetPaid(until) ==
    /\ Part("trial") /\ paid' = until
    /\ UNCHANGED <<scenario, company, people, devices, now, trial, token, granted, used,
                   invites, req>>

(***************************************************************************)
(* Invite codes of a company of riders.                                    *)
(***************************************************************************)
CodeOpen == code.active /\ code.used < Limit

\* registerRider and joinBusiness: the code is read before the transaction.
BeginJoin(u) ==
    /\ Part("invites") /\ Opening /\ CodeOpen /\ ~rider[u] /\ u \notin req
    /\ req' = req \cup {u}
    /\ UNCHANGED <<scenario, company, people, devices, clock, invites>>

CommitJoin(u) ==
    /\ Part("invites") /\ req' = req \ {u}
    /\ rider' = [rider EXCEPT ![u] = TRUE] /\ code' = [code EXCEPT !.used = @ + 1]
    /\ UNCHANGED <<scenario, company, people, devices, clock>>

\* The rider joins another company with a code of theirs.
LeaveRider(u) ==
    /\ Part("invites") /\ rider[u]
    /\ rider' = [rider EXCEPT ![u] = FALSE]
    /\ UNCHANGED <<scenario, company, people, devices, clock, code, req>>

\* toggle, activate and deactivate.
ToggleCode ==
    /\ Part("invites") /\ code' = [code EXCEPT !.active = ~@]
    /\ UNCHANGED <<scenario, company, people, devices, clock, rider, req>>

(***************************************************************************)
Roles == Counted \cup {"REPARTIDOR"}
SomePin == Pins \cup {None}

BranchStep ==
    \/ \E b \in Businesses : \E i \in Industries \cup {None} : SetIndustry(b, i)
    \/ \E b \in Businesses : \E o \in Orgs \cup {None} : BeginMove(b, o)
    \/ Part("branches") /\ \E r \in req : DropAccesses(r) \/ MoveBusiness(r)
    \/ \E u \in scenario.users : \E b \in Businesses : Grant(u, b) \/ Revoke(u, b) \/ Enter(u, b)
    \/ \E u \in scenario.users : Refused(u)

PeopleStep ==
    \/ \E u \in scenario.users : \E role \in Roles : \E pin \in SomePin : BeginUser(u, role, pin)
    \/ Part("people") /\ \E r \in req : CommitUser(r)
    \/ \E u \in scenario.users : \E pin \in SomePin : SetPin(u, pin)
    \/ \E u \in scenario.users : SetRole(u, "CAJERO")
    \/ \E u \in scenario.users : Deactivate(u) \/ Activate(u) \/ SetActive(u)
    \/ \E w \in scenario.waiters : \E active \in BOOLEAN : \E pin \in Pins : SetWaiter(w, active, pin)

DeviceStep ==
    \/ \E d \in Devices : LoginDevice(d) \/ RegisterWeb(d) \/ RevokeWeb(d)
    \/ Part("devices") /\ \E r \in req : WriteDevice(r)
    \/ \E d \in Devices : \E status \in {"ACTIVE", "REVOKED"} : UpdateDevice(d, status)
    \/ \E m \in 0..Limit : \E w \in 0..Limit : \E b \in BOOLEAN : SetLimits(m, w, b)

TrialStep ==
    \/ \E desktop \in BOOLEAN : Login(desktop)
    \/ Refresh \/ SocialLogin \/ Tick \/ ResetClock \/ TerminateTrial
    \/ \E h \in {NoClock, 1, TrialHours} : SetHours(h)
    \/ \E h \in {1, TrialHours} : ExtendClock(h)
    \/ \E until \in {NoClock, MaxHours \div 2, MaxHours} : SetPaid(until)

InviteStep ==
    \/ \E u \in scenario.users : BeginJoin(u) \/ LeaveRider(u)
    \/ Part("invites") /\ \E u \in req : CommitJoin(u)
    \/ ToggleCode

Next == BranchStep \/ PeopleStep \/ DeviceStep \/ TrialStep \/ InviteStep

Spec == Init /\ [][Next]_vars

(***************************************************************************)
(* Properties.                                                             *)
(***************************************************************************)
Granted(u) == {b \in Businesses : CanAccess(u, b)}

\* A user comes to be able to enter a branch only by a grant of that moment: no move of a
\* business between companies brings back an access somebody gave before
\* (updateBusinessOrganization deletes those of the business that moves; when the main
\* branch of a user leaves and comes back, the user's accesses do come back).  The
\* superadmin's requests come one at a time: a grant between the deletion and the write
\* of the company would outlive the move.  Nor does a revoked device work again before an
\* admin says so, whatever request had read it before it was revoked.
OnlyByGrant ==
    [][/\ scenario.open = 1 => \A u \in Users : \A b \in Businesses \ Granted(u) :
             (CanAccess(u, b))' => <<u, b>> \notin access \/ org'[Home[u]] # org[Home[u]]
       /\ \A d \in Devices : dev[d].status = "REVOKED" /\ dev'[d].status # "REVOKED" =>
             UpdateDevice(d, "ACTIVE")]_vars

\* The businesses of a company that have an industry have the same one.
OneIndustry ==
    \A b, c \in Businesses :
        org[b] = org[c] /\ org[b] # None /\ None \notin {industry[b], industry[c]}
        => industry[b] = industry[c]

\* A PIN names one active collaborator, user or waiter.
PinUnique ==
    /\ \A u, v \in Active : u # v /\ staff[u].pin # None => staff[u].pin # staff[v].pin
    /\ \A u \in Active, w \in Waiters : waiter[w].active => staff[u].pin # waiter[w].pin
    /\ \A w, x \in Waiters :
          w # x /\ waiter[w].active /\ waiter[x].active => waiter[w].pin # waiter[x].pin

\* Limits are passed by no more than the requests that were open together.
LimitsKept ==
    LET slack == scenario.open - 1
    IN  /\ ~scenario.demote => Cardinality(InQuota) <= UserLimit + slack
        /\ ~scenario.revive => /\ Cardinality(Live(FALSE)) <= pos.max + slack
                               /\ Cardinality(Live(TRUE)) <= pos.maxWeb + slack
        /\ code.used <= Limit + slack

\* The rules of users, waiters, devices, codes and companies that each handler checks
\* before it writes, in whatever order they come.  Limits are passed by the requests that
\* were open together at most.  The rest is claimed where one request is open at a time,
\* for two that check before either writes break each of them: one industry in a company,
\* always an active ENCARGADO (unless updateUser takes the role from him), and one owner
\* of a PIN (and nobody brought back).
RulesKept ==
    /\ LimitsKept
    /\ scenario.open = 1 =>
          /\ OneIndustry
          /\ Part("people") /\ ~scenario.demote => Bosses # {} /\ (~scenario.revive => PinUnique)

\* The hours a business works on its trial without paying are never more than those that
\* admins gave, in whatever order logins, extensions, resets and lapses come.
TrialBound == used <= granted

=============================================================================
