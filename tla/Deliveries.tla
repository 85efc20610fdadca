----------------------------- MODULE Deliveries -----------------------------
(***************************************************************************)
(* Delivery orders: offers to riders (dispatch.service.ts), the life of an *)
(* order (orders.service.ts), price proposals (quotes.service.ts), the     *)
(* commission of a delivery (commissions.service.ts) and the geofence that *)
(* moves an order when its rider arrives (tracking.service.ts).            *)
(*                                                                         *)
(* Most handlers are sequences of separate statements without a            *)
(* transaction: each statement that writes is an action, what was read     *)
(* before it waits in loc, and a crash may fall between any two.  The      *)
(* handlers that do use a transaction read without locks and write in one  *)
(* action.  The timer of an offer and the cron that replaces it after a    *)
(* restart call the same handleTimeout, which any request may run here.    *)
(*                                                                         *)
(* Restrictions: every rider is active and available and may be offered    *)
(* any order; every business has its location set and a positive fee;      *)
(* the amounts of proposals and counter-proposals are left out.            *)
(***************************************************************************)
EXTENDS Naturals, Sequences, FiniteSets

CONSTANTS
    Orders,        \* orders
    Riders,        \* riders
    Requests,      \* handlers that may be in flight together
    None,          \* no rider
    Scenarios,     \* what clients do: requests of these kinds, at most width at
                   \* once, about these orders; targets: the statuses they ask
                   \* updateStatus for; crash: the process may restart.
                   \* Without "geofence" there is no Redis
    MaxActive,     \* MAX_ACTIVE_ORDERS_PER_RIDER
    MaxCrashes     \* bound on restarts of the process

Kinds == {"dispatch", "timeout", "accept", "reject", "take", "cancel",
          "status", "quote", "haggle", "acceptQuote", "cancelQuote", "geofence"}

ActiveStatus == {"ACEPTADO", "EN_CAMINO_AL_NEGOCIO", "EN_EL_NEGOCIO", "EN_CAMINO",
                 "CERCA_DEL_DESTINO", "VERIFICANDO_ENTREGA"}

OrderStatus == ActiveStatus \cup {"PENDIENTE", "OFERTADO", "COTIZANDO", "ENTREGADO",
                                  "CANCELADO", "INCIDENCIA", "CERRADO"}

ASSUME ScenarioAssumption ==
    \A sc \in Scenarios : /\ sc.kinds \subseteq Kinds /\ sc.orders \subseteq Orders
                          /\ sc.width \in Nat \ {0} /\ sc.targets \subseteq OrderStatus
ASSUME BoundAssumption ==
    MaxActive \in Nat \ {0} /\ MaxCrashes \in Nat /\ None \notin Riders

VARIABLES
    scenario,    \* one of Scenarios, fixed from the start
    order,       \* Order rows: status and deliveryUserId
    offers,      \* OrderDispatch rows of each order, in the order of creation
    quote,       \* OrderQuote of each order and rider (unique on both)
    commission,  \* orders that have their OrderCommission (unique)
    meta,        \* Redis: what the geofence remembers of an order, for two hours
    fence,       \* Redis: the places at which it has seen the rider arrive
    crashes,     \* restarts so far
    pc, loc      \* where each handler stands, and what it has read

redis == <<meta, fence>>
vars == <<scenario, order, offers, quote, commission, redis, crashes, pc, loc>>
rows == <<order, offers, quote, commission>>

Flow == <<"PENDIENTE", "ACEPTADO", "EN_CAMINO_AL_NEGOCIO", "EN_EL_NEGOCIO", "EN_CAMINO",
          "CERCA_DEL_DESTINO", "VERIFICANDO_ENTREGA", "ENTREGADO", "CERRADO">>

LiveQuote == {"PENDING", "NEGOTIATING"}

NoWork == [order |-> None, rider |-> None, offer |-> 0, status |-> "NONE"]
NoMeta == [status |-> "NONE", rider |-> None]

Init == /\ scenario \in Scenarios
        /\ order = [o \in Orders |-> [status |-> "NONE", rider |-> None]]
        /\ offers = [o \in Orders |-> << >>]
        /\ quote = [o \in Orders |-> [r \in Riders |-> "NONE"]]
        /\ commission = {}
        /\ meta = [o \in Orders |-> NoMeta]
        /\ fence = [o \in Orders |-> {}]
        /\ crashes = 0
        /\ pc = [h \in Requests |-> "idle"]
        /\ loc = [h \in Requests |-> NoWork]

-----------------------------------------------------------------------------
InFlight == {h \in Requests : pc[h] # "idle"}

\* A handler of kind k may start.
MayStart(h, k) == /\ pc[h] = "idle"
                  /\ k \in scenario.kinds
                  /\ Cardinality(InFlight) < scenario.width

Step(h, step, work) == /\ pc' = [pc EXCEPT ![h] = step]
                       /\ loc' = [loc EXCEPT ![h] = work]
                       /\ UNCHANGED <<scenario, crashes>>

\* Most statements do not concern the geofence.
Go(h, step, work) == Step(h, step, work) /\ UNCHANGED redis

Finish(h) == Go(h, "idle", NoWork)

At(h, step) == pc[h] = step

ActiveOrders(r) == {o \in Orders : order[o].rider = r /\ order[o].status \in ActiveStatus}

UnderLimit(r) == Cardinality(ActiveOrders(r)) < MaxActive

SetOrder(o, status, r) == order' = [order EXCEPT ![o] = [status |-> status, rider |-> r]]
SetStatus(o, status)   == order' = [order EXCEPT ![o].status = status]

(***************************************************************************)
(* Offers: create, dispatchToNextRider, handleTimeout.                     *)
(***************************************************************************)

\* An order is born PENDIENTE; a business of riders dispatches it at once.
Create(h) ==
    \E o \in scenario.orders :
       /\ order[o].status = "NONE"
       /\ pc[h] = "idle" /\ Cardinality(InFlight) < scenario.width
       /\ SetOrder(o, "PENDIENTE", None)
       /\ IF "dispatch" \in scenario.kinds
            THEN Go(h, "choose", [NoWork EXCEPT !.order = o])
            ELSE Finish(h)
       /\ UNCHANGED <<offers, quote, commission>>

Tried(o) == {offers[o][i].rider : i \in DOMAIN offers[o]}

\* Riders without an active order that this order was not offered to.
Eligible(o) == {r \in Riders \ Tried(o) : ActiveOrders(r) = {}}

NextChoose(h) ==
    LET o == loc[h].order IN
    /\ At(h, "choose")
    /\ IF Eligible(o) = {}
         THEN Go(h, "giveUp", loc[h])
         ELSE \E r \in Eligible(o) : Go(h, "offer", [loc[h] EXCEPT !.rider = r])
    /\ UNCHANGED rows

\* Mutant: without riders the order keeps its status.
StillOffered == "OFERTADO"

WithoutRiders == "PENDIENTE"

NextGiveUp(h) ==
    /\ At(h, "giveUp")
    /\ SetStatus(loc[h].order, WithoutRiders)
    /\ Finish(h)
    /\ UNCHANGED <<offers, quote, commission>>

NextOffer(h) ==
    LET o == loc[h].order IN
    /\ At(h, "offer")
    /\ offers' = [offers EXCEPT ![o] =
                    Append(@, [rider |-> loc[h].rider, status |-> "SENT", late |-> 0])]
    /\ Go(h, "mark", loc[h])
    /\ UNCHANGED <<order, quote, commission>>

\* The status is written whatever it has become.
NextMark(h) ==
    /\ At(h, "mark")
    /\ SetStatus(loc[h].order, "OFERTADO")
    /\ Finish(h)
    /\ UNCHANGED <<offers, quote, commission>>

\* 0: before timeoutAt; 1: past it; 2: past it by more than ten seconds.
Later(late) == IF late < 2 THEN late + 1 ELSE 2

\* An offer lasts minutes: the handler that makes it has ended by then.
Expire(o, i) ==
    /\ offers[o][i].status = "SENT"
    /\ \A h \in Requests : ~(At(h, "mark") /\ loc[h].order = o)
    /\ Later(offers[o][i].late) # offers[o][i].late
    /\ offers' = [offers EXCEPT ![o][i].late = Later(@)]
    /\ UNCHANGED <<scenario, order, quote, commission, redis, crashes, pc, loc>>

\* Mutant: a second timeout does not find that the first one claimed the offer.
ClaimTwice(d) == d.status \in {"SENT", "TIMEOUT"} /\ d.late > 0

TimedOut(d) == d.status = "SENT" /\ d.late > 0

\* updateMany where status is still SENT: one of the timer and the cron wins.
TimeoutClaim(h, o) ==
    \E i \in DOMAIN offers[o] :
       /\ MayStart(h, "timeout")
       /\ TimedOut(offers[o][i])
       /\ offers' = [offers EXCEPT ![o][i].status = "TIMEOUT"]
       /\ Go(h, "reread", [NoWork EXCEPT !.order = o])
       /\ UNCHANGED <<order, quote, commission>>

StillWaiting(o) == order[o].status = "OFERTADO"

TimeoutReread(h) ==
    /\ At(h, "reread")
    /\ IF StillWaiting(loc[h].order) THEN Go(h, "choose", loc[h]) ELSE Finish(h)
    /\ UNCHANGED rows

(***************************************************************************)
(* Answers of the riders: acceptDispatch, rejectDispatch, takeOrder.       *)
(***************************************************************************)
OffersTo(o, r) == {i \in DOMAIN offers[o] : offers[o][i].rider = r}

\* The last offer of the order made to the rider.
IsLast(o, r, i) == i \in OffersTo(o, r) /\ \A j \in OffersTo(o, r) : j <= i

Acceptable(o, r, i) ==
    /\ IsLast(o, r, i)
    /\ offers[o][i].status = "SENT" /\ offers[o][i].late < 2
    /\ order[o].status # "CANCELADO"
    /\ order[o].rider \in {None, r}
    /\ UnderLimit(r)

AcceptRead(h) ==
    \E o \in Orders, r \in Riders : \E i \in DOMAIN offers[o] :
       /\ MayStart(h, "accept")
       /\ Acceptable(o, r, i)
       /\ Go(h, "accept", [NoWork EXCEPT !.order = o, !.rider = r, !.offer = i])
       /\ UNCHANGED rows

AcceptWrite(h) ==
    LET w == loc[h] IN
    /\ At(h, "accept")
    /\ offers' = [offers EXCEPT ![w.order][w.offer].status = "ACCEPTED"]
    /\ SetOrder(w.order, "ACEPTADO", w.rider)
    /\ Finish(h)
    /\ UNCHANGED <<quote, commission>>

RejectRead(h) ==
    \E o \in Orders, r \in Riders : \E i \in DOMAIN offers[o] :
       /\ MayStart(h, "reject")
       /\ IsLast(o, r, i)
       /\ offers[o][i].status = "SENT"
       /\ Go(h, "reject", [NoWork EXCEPT !.order = o, !.offer = i])
       /\ UNCHANGED rows

\* The next rider is asked without a look at the order.
RejectWrite(h) ==
    LET w == loc[h] IN
    /\ At(h, "reject")
    /\ offers' = [offers EXCEPT ![w.order][w.offer].status = "REJECTED"]
    /\ Go(h, "choose", w)
    /\ UNCHANGED <<order, quote, commission>>

ActiveOffer(o) ==
    \E i \in DOMAIN offers[o] : offers[o][i].status = "SENT" /\ offers[o][i].late = 0

\* Mutant: an order under way may be taken.
TakeAnyStatus(o) == order[o].status # "CANCELADO"

Takeable(o) == /\ order[o].rider = None
               /\ order[o].status \in {"PENDIENTE", "COTIZANDO", "OFERTADO"}
               /\ ~ActiveOffer(o)

\* A rider with a live offer of his own is sent to acceptDispatch.
TakeRead(h) ==
    \E o \in Orders, r \in Riders :
       /\ MayStart(h, "take")
       /\ Takeable(o)
       /\ UnderLimit(r)
       /\ Go(h, "take", [NoWork EXCEPT !.order = o, !.rider = r])
       /\ UNCHANGED rows

TakeWrite(h) ==
    LET w == loc[h] IN
    /\ At(h, "take")
    /\ offers' = [offers EXCEPT ![w.order] =
                    [i \in DOMAIN @ |-> IF @[i].rider = w.rider /\ @[i].status = "SENT"
                                          THEN [@[i] EXCEPT !.status = "ACCEPTED"]
                                          ELSE @[i]]]
    /\ SetOrder(w.order, "ACEPTADO", w.rider)
    /\ Finish(h)
    /\ UNCHANGED <<quote, commission>>

(***************************************************************************)
(* cancelOrder and updateStatus.                                           *)
(***************************************************************************)

Redis == "geofence" \in scenario.kinds

\* Whatever its status.
CancelOrder(h) ==
    \E o \in Orders :
       /\ MayStart(h, "cancel")
       /\ order[o].status # "NONE"
       /\ SetStatus(o, "CANCELADO")
       /\ IF Redis THEN Go(h, "forget", [NoWork EXCEPT !.order = o]) ELSE Finish(h)
       /\ UNCHANGED <<offers, quote, commission>>

\* cleanupGeofenceFlag, cleanupOrderRedisKeys.
Forget(o) == /\ meta' = [meta EXCEPT ![o] = NoMeta]
             /\ fence' = [fence EXCEPT ![o] = {}]

CancelForget(h) ==
    /\ At(h, "forget")
    /\ Forget(loc[h].order)
    /\ Step(h, "idle", NoWork)
    /\ UNCHANGED rows

\* Place in the flow, 0 for a status outside it.
Place(s) == IF \E i \in DOMAIN Flow : Flow[i] = s
              THEN CHOOSE i \in DOMAIN Flow : Flow[i] = s ELSE 0

Shortcuts == {<<"PENDIENTE", "COTIZANDO">>, <<"COTIZANDO", "PENDIENTE">>,
              <<"COTIZANDO", "ACEPTADO">>, <<"PENDIENTE", "OFERTADO">>,
              <<"OFERTADO", "PENDIENTE">>, <<"OFERTADO", "ACEPTADO">>}

\* validateStateTransition.
Transition(current, next, role) ==
    \/ current = next
    \/ next = "CANCELADO" /\ role = "ENCARGADO"
    \/ next = "INCIDENCIA" /\ role = "REPARTIDOR"
    \/ <<current, next>> \in Shortcuts
    \/ /\ next \notin {"CANCELADO", "INCIDENCIA", "CERRADO"}
       /\ Place(next) > 0
       /\ \/ Place(next) = Place(current) + 1
          \/ current = "EN_CAMINO" /\ next = "VERIFICANDO_ENTREGA"
       /\ next = "ACEPTADO" => role = "REPARTIDOR"

\* A rider may change his own orders and those nobody has.
MayChange(o, role, r) ==
    role = "REPARTIDOR" => order[o].rider = r \/ order[o].status = "PENDIENTE"

StatusRead(h) ==
    \E o \in Orders, r \in Riders, role \in {"REPARTIDOR", "ENCARGADO"}, next \in scenario.targets :
       /\ MayStart(h, "status")
       /\ order[o].status # "NONE"
       /\ MayChange(o, role, r)
       /\ Transition(order[o].status, next, role)
       /\ Go(h, "status", [NoWork EXCEPT !.order = o, !.status = next])
       /\ UNCHANGED rows

\* Mutant: the commission waits for an order to be closed.
EarnsWhenClosed(s) == s = "CERRADO"

EarnsCommission(s) == s = "ENTREGADO"

\* The commission is registered after the answer, by a promise nobody awaits.
StatusWrite(h) ==
    /\ At(h, "status")
    /\ SetStatus(loc[h].order, loc[h].status)
    /\ IF Redis THEN Go(h, "remember", loc[h])
       ELSE IF EarnsCommission(loc[h].status) THEN Go(h, "commission", loc[h])
       ELSE Finish(h)
    /\ UNCHANGED <<offers, quote, commission>>

\* getGeofenceMeta: what Redis remembers or, failing that, the order.
Meta(o) == IF meta[o] # NoMeta THEN meta[o] ELSE order[o]

\* Mutant: a change of status is not told to the geofence.
NotTold(o, status) == Meta(o)

Told(o, status) == [Meta(o) EXCEPT !.status = status]

\* The geofence learns the status, or forgets an order that has ended.
StatusRemember(h) ==
    LET o == loc[h].order
        status == loc[h].status
    IN
    /\ At(h, "remember")
    /\ IF status \in {"ENTREGADO", "CANCELADO"} THEN Forget(o)
       ELSE meta' = [meta EXCEPT ![o] = Told(o, status)] /\ UNCHANGED fence
    /\ IF EarnsCommission(status) THEN Step(h, "commission", loc[h])
       ELSE Step(h, "idle", NoWork)
    /\ UNCHANGED rows

CommissionWrite(h) ==
    /\ At(h, "commission")
    /\ commission' = commission \cup {loc[h].order}
    /\ Finish(h)
    /\ UNCHANGED <<order, offers, quote>>

(***************************************************************************)
(* checkGeofenceAndTransition, at each position the rider sends.           *)
(***************************************************************************)
Arrivals == {<<"EN_CAMINO_AL_NEGOCIO", "EN_EL_NEGOCIO">>, <<"EN_CAMINO", "CERCA_DEL_DESTINO">>}

\* The rider of the order is near the place that the remembered status makes him
\* head for; that he arrived there is noted for an hour.
GeofenceRead(h) ==
    \E o \in Orders, a \in Arrivals :
       /\ MayStart(h, "geofence")
       /\ order[o].status # "NONE"
       /\ meta' = [meta EXCEPT ![o] = Meta(o)]
       /\ IF Meta(o).rider # None /\ Meta(o).status = a[1] /\ a \notin fence[o]
            THEN /\ fence' = [fence EXCEPT ![o] = @ \cup {a}]
                 /\ Step(h, "arrive", [order |-> o, rider |-> Meta(o).rider, offer |-> 0,
                                       status |-> a[2]])
            ELSE UNCHANGED fence /\ Step(h, "idle", NoWork)
       /\ UNCHANGED rows

\* The status is written whatever it has become.
GeofenceWrite(h) ==
    /\ At(h, "arrive")
    /\ SetStatus(loc[h].order, loc[h].status)
    /\ Go(h, "arrived", loc[h])
    /\ UNCHANGED <<offers, quote, commission>>

GeofenceRemember(h) ==
    LET w == loc[h] IN
    /\ At(h, "arrived")
    /\ meta' = [meta EXCEPT ![w.order] = [status |-> w.status, rider |-> w.rider]]
    /\ Step(h, "idle", NoWork)
    /\ UNCHANGED <<rows, fence>>

\* Redis drops what it keeps of an order: its time is up, or it restarted.
RedisForgets(o) ==
    /\ meta[o] # NoMeta
    /\ Forget(o)
    /\ UNCHANGED <<scenario, rows, crashes, pc, loc>>

(***************************************************************************)
(* Price proposals: createQuote, counterQuote and updateFee, acceptQuote,  *)
(* cancelQuote.                                                            *)
(***************************************************************************)
SetQuote(o, r, status) == quote' = [quote EXCEPT ![o][r] = status]

Live(o) == {r \in Riders : quote[o][r] \in LiveQuote}

QuoteRead(h) ==
    \E o \in Orders, r \in Riders :
       /\ MayStart(h, "quote")
       /\ order[o].status \in {"PENDIENTE", "COTIZANDO"}
       /\ quote[o][r] \in {"NONE", "CANCELLED"}
       /\ UnderLimit(r)
       /\ Go(h, "quote", [NoWork EXCEPT !.order = o, !.rider = r, !.status = order[o].status])
       /\ UNCHANGED rows

\* The unique index refuses a second proposal, even after a cancelled one.
QuoteInsert(h) ==
    LET w == loc[h] IN
    /\ At(h, "quote")
    /\ IF quote[w.order][w.rider] = "NONE"
         THEN /\ SetQuote(w.order, w.rider, "PENDING")
              /\ IF w.status = "PENDIENTE" THEN Go(h, "quoteMark", w) ELSE Finish(h)
         ELSE UNCHANGED quote /\ Finish(h)
    /\ UNCHANGED <<order, offers, commission>>

QuoteMark(h) ==
    /\ At(h, "quoteMark")
    /\ SetStatus(loc[h].order, "COTIZANDO")
    /\ Finish(h)
    /\ UNCHANGED <<offers, quote, commission>>

QuoteStep(h, kind, step) ==
    \E o \in Orders : \E r \in Live(o) :
       /\ MayStart(h, kind)
       /\ kind = "acceptQuote" => UnderLimit(r)
       /\ Go(h, step, [NoWork EXCEPT !.order = o, !.rider = r])
       /\ UNCHANGED rows

HaggleRead(h) == QuoteStep(h, "haggle", "haggle")

HaggleWrite(h) ==
    /\ At(h, "haggle")
    /\ SetQuote(loc[h].order, loc[h].rider, "NEGOTIATING")
    /\ Finish(h)
    /\ UNCHANGED <<order, offers, commission>>

AcceptQuoteRead(h) == QuoteStep(h, "acceptQuote", "acceptQuote")

\* The proposal is accepted and the other live ones are rejected.
OneAccepted(o, r) ==
    [q \in Riders |-> IF q = r THEN "ACCEPTED"
                      ELSE IF q \in Live(o) THEN "REJECTED" ELSE quote[o][q]]

\* The order goes to the rider of the proposal, whatever became of it.
AcceptQuoteWrite(h) ==
    LET w == loc[h] IN
    /\ At(h, "acceptQuote")
    /\ quote' = [quote EXCEPT ![w.order] = OneAccepted(w.order, w.rider)]
    /\ SetOrder(w.order, "ACEPTADO", w.rider)
    /\ Finish(h)
    /\ UNCHANGED <<offers, commission>>

CancelQuoteRead(h) == QuoteStep(h, "cancelQuote", "cancelQuote")

CancelQuoteWrite(h) ==
    /\ At(h, "cancelQuote")
    /\ SetQuote(loc[h].order, loc[h].rider, "CANCELLED")
    /\ Go(h, "recount", loc[h])
    /\ UNCHANGED <<order, offers, commission>>

CancelQuoteRecount(h) ==
    /\ At(h, "recount")
    /\ IF Live(loc[h].order) = {} THEN Go(h, "reopen", loc[h]) ELSE Finish(h)
    /\ UNCHANGED rows

\* Without live proposals the order is PENDIENTE again, whatever it was.
CancelQuoteReopen(h) ==
    /\ At(h, "reopen")
    /\ SetStatus(loc[h].order, "PENDIENTE")
    /\ Finish(h)
    /\ UNCHANGED <<offers, quote, commission>>

-----------------------------------------------------------------------------
\* The process restarts: every handler in flight and every timer is lost.
Crash ==
    /\ crashes < MaxCrashes /\ scenario.crash
    /\ crashes' = crashes + 1
    /\ pc' = [h \in Requests |-> "idle"]
    /\ loc' = [h \in Requests |-> NoWork]
    /\ UNCHANGED <<scenario, rows, redis>>

\* The next statement of a handler that has begun.
Continue(h) ==
    \/ NextChoose(h) \/ NextGiveUp(h) \/ NextOffer(h) \/ NextMark(h) \/ TimeoutReread(h)
    \/ AcceptWrite(h) \/ RejectWrite(h) \/ TakeWrite(h)
    \/ StatusWrite(h) \/ StatusRemember(h) \/ CommissionWrite(h) \/ CancelForget(h)
    \/ GeofenceWrite(h) \/ GeofenceRemember(h)
    \/ QuoteInsert(h) \/ QuoteMark(h) \/ HaggleWrite(h) \/ AcceptQuoteWrite(h)
    \/ CancelQuoteWrite(h) \/ CancelQuoteRecount(h) \/ CancelQuoteReopen(h)

Timeout(o) == \E h \in Requests : TimeoutClaim(h, o)
TimePasses(o) == \E i \in DOMAIN offers[o] : Expire(o, i)

Next ==
    \/ \E h \in Requests :
          \/ Create(h) \/ AcceptRead(h) \/ RejectRead(h) \/ TakeRead(h)
          \/ CancelOrder(h) \/ StatusRead(h) \/ GeofenceRead(h) \/ QuoteRead(h)
          \/ HaggleRead(h) \/ AcceptQuoteRead(h) \/ CancelQuoteRead(h)
          \/ Continue(h)
    \/ \E o \in Orders : Timeout(o) \/ TimePasses(o) \/ RedisForgets(o)
    \/ Crash

(***************************************************************************)
(* A handler that began goes on; time passes; the cron looks for expired   *)
(* offers every 30 seconds whatever else runs (strong fairness, because    *)
(* the bound on handlers in flight can disable it for a moment).           *)
(***************************************************************************)
Fairness == /\ \A h \in Requests : WF_vars(Continue(h))
            /\ \A o \in Orders : WF_vars(TimePasses(o)) /\ SF_vars(Timeout(o))

Spec == Init /\ [][Next]_vars /\ Fairness

-----------------------------------------------------------------------------
(***************************************************************************)
(* Properties.                                                             *)
(***************************************************************************)
\* An order waits for one rider at a time and never asks the same rider
\* twice, although the timer and the cron may both see an offer expire; at
\* most one proposal of an order is accepted, and then the order is with its
\* rider and no other proposal is open.
OneOffer ==
    /\ \A o \in Orders : \A i, j \in DOMAIN offers[o] : i # j =>
          /\ offers[o][i].rider # offers[o][j].rider
          /\ ~(offers[o][i].status = "SENT" /\ offers[o][j].status = "SENT")
    /\ \A o \in Orders, r \in Riders : quote[o][r] = "ACCEPTED" =>
          /\ order[o].rider = r
          /\ \A q \in Riders \ {r} : quote[o][q] \notin LiveQuote \cup {"ACCEPTED"}

\* An order under way, which has its rider.
UnderWay(o) == order[o].status \in ActiveStatus /\ order[o].rider # None

\* An order under way stays with its rider and is not opened again until it is
\* delivered, cancelled or reported as an incident, although offers, proposals,
\* timers and what Redis remembers of it outlive the moment it was taken.  (After
\* that updateStatus may reopen it: CANCELADO -> PENDIENTE passes
\* validateStateTransition.)
HolderKeeps ==
    [][\A o \in Orders : UnderWay(o) =>
          /\ order'[o].rider = order[o].rider
          /\ order'[o].status \notin {"PENDIENTE", "OFERTADO", "COTIZANDO"}]_vars

\* updateStatus and the geofence, which writes the status that follows the one
\* it remembers: an order under way never goes back along the flow.
OnlyForward ==
    [][\A o \in Orders : UnderWay(o) =>
          \/ Place(order'[o].status) >= Place(order[o].status)
          \/ order'[o].status \in {"CANCELADO", "INCIDENCIA"}]_vars

\* Unless the process restarts, an order that was offered does not wait for ever:
\* it is accepted, taken, cancelled, or runs out of riders and is PENDIENTE.
\* (OFERTADO written by hand with updateStatus makes no offer: nothing ends it.)
OfferMovesOn ==
    \A o \in Orders : order[o].status = "OFERTADO" /\ offers[o] # << >> ~>
                          (order[o].status # "OFERTADO" \/ crashes > 0)

\* Unless the process restarts, every delivered order gets its commission.
CommissionEarned ==
    \A o \in Orders : order[o].status = "ENTREGADO" ~> (o \in commission \/ crashes > 0)
=============================================================================
