-------------------------- MODULE DeliveriesProofs --------------------------
(***************************************************************************)
(* Proofs about Deliveries, for every set of orders, riders and handlers,  *)
(* and every number of restarts.                                           *)
(***************************************************************************)
EXTENDS Deliveries, FiniteSetTheorems, TLAPS

(***************************************************************************)
(* Types.                                                                  *)
(***************************************************************************)
Opened   == {"PENDIENTE", "OFERTADO", "COTIZANDO"}
Statuses == {"NONE", "ENTREGADO", "CERRADO", "CANCELADO", "INCIDENCIA"}
            \cup Opened \cup ActiveStatus

OrderRow == [status : Statuses, rider : Riders \cup {None}]
OfferRow == [rider : Riders, status : {"SENT", "TIMEOUT", "ACCEPTED", "REJECTED"}, late : Nat]
QuoteRow == {"NONE", "ACCEPTED", "REJECTED", "CANCELLED"} \cup LiveQuote

OfferStep == {"choose", "giveUp", "offer", "mark"}
QuoteStp  == {"quote", "quoteMark", "haggle", "acceptQuote", "cancelQuote", "recount", "reopen"}
RedisStep == {"forget", "remember", "arrive", "arrived"}
RiderStep == {"offer", "accept", "take", "quote", "quoteMark", "haggle", "acceptQuote",
              "cancelQuote", "recount", "reopen"}
Steps == {"idle", "reread", "accept", "reject", "take", "status", "commission"}
         \cup OfferStep \cup QuoteStp \cup RedisStep

Work == [order : Orders \cup {None}, rider : Riders \cup {None}, offer : Nat, status : Statuses]

RowsOK == /\ order \in [Orders -> OrderRow]
          /\ offers \in [Orders -> Seq(OfferRow)]
          /\ quote \in [Orders -> [Riders -> QuoteRow]]
          /\ commission \subseteq Orders

RedisOK == /\ meta \in [Orders -> OrderRow]
           /\ fence \in [Orders -> SUBSET Arrivals]

TypeOK == /\ scenario \in Scenarios /\ crashes \in Nat
          /\ RowsOK /\ RedisOK
          /\ pc \in [Requests -> Steps]
          /\ loc \in [Requests -> Work]

(***************************************************************************)
(* The flow of an order.                                                   *)
(***************************************************************************)
LEMMA FlowShape ==
    /\ DOMAIN Flow = 1 .. 9
    /\ \A i \in 1 .. 9 : Flow[i] \in ActiveStatus \cup {"PENDIENTE", "ENTREGADO", "CERRADO"}
    /\ \A i, j \in 1 .. 9 : Flow[i] = Flow[j] => i = j
<1>1. /\ Flow[1] = "PENDIENTE" /\ Flow[2] = "ACEPTADO" /\ Flow[3] = "EN_CAMINO_AL_NEGOCIO"
      /\ Flow[4] = "EN_EL_NEGOCIO" /\ Flow[5] = "EN_CAMINO" /\ Flow[6] = "CERCA_DEL_DESTINO"
      /\ Flow[7] = "VERIFICANDO_ENTREGA" /\ Flow[8] = "ENTREGADO" /\ Flow[9] = "CERRADO"
      /\ DOMAIN Flow = 1 .. 9
  BY DEF Flow
<1>2. \A i \in 1 .. 9 : i \in {1, 2, 3, 4, 5, 6, 7, 8, 9}
  OBVIOUS
<1>3. \A i \in 1 .. 9 : Flow[i] \in ActiveStatus \cup {"PENDIENTE", "ENTREGADO", "CERRADO"}
  BY <1>1, <1>2 DEF ActiveStatus
<1>4. \A i, j \in 1 .. 9 : Flow[i] = Flow[j] => i = j
  BY <1>1, <1>2
<1> QED
  BY <1>1, <1>3, <1>4

LEMMA Places ==
    ASSUME NEW s
    PROVE  /\ Place(s) \in 0 .. 9
           /\ Place(s) > 0 => Flow[Place(s)] = s
           /\ \A i \in 1 .. 9 : s = Flow[i] => Place(s) = i
  BY FlowShape DEF Place

LEMMA PlaceOf ==
    /\ Place("PENDIENTE") = 1 /\ Place("ACEPTADO") = 2 /\ Place("EN_CAMINO_AL_NEGOCIO") = 3
    /\ Place("EN_EL_NEGOCIO") = 4 /\ Place("EN_CAMINO") = 5 /\ Place("CERCA_DEL_DESTINO") = 6
    /\ Place("VERIFICANDO_ENTREGA") = 7 /\ Place("ENTREGADO") = 8 /\ Place("CERRADO") = 9
    /\ \A s \in {"NONE", "OFERTADO", "COTIZANDO", "CANCELADO", "INCIDENCIA"} : Place(s) = 0
<1>1. /\ Flow[1] = "PENDIENTE" /\ Flow[2] = "ACEPTADO" /\ Flow[3] = "EN_CAMINO_AL_NEGOCIO"
      /\ Flow[4] = "EN_EL_NEGOCIO" /\ Flow[5] = "EN_CAMINO" /\ Flow[6] = "CERCA_DEL_DESTINO"
      /\ Flow[7] = "VERIFICANDO_ENTREGA" /\ Flow[8] = "ENTREGADO" /\ Flow[9] = "CERRADO"
  BY DEF Flow
<1>2. \A s \in {"NONE", "OFERTADO", "COTIZANDO", "CANCELADO", "INCIDENCIA"} : Place(s) = 0
  <2> TAKE s \in {"NONE", "OFERTADO", "COTIZANDO", "CANCELADO", "INCIDENCIA"}
  <2>1. Place(s) > 0 => s \in ActiveStatus \cup {"PENDIENTE", "ENTREGADO", "CERRADO"}
    BY Places, FlowShape
  <2>2. s \notin ActiveStatus \cup {"PENDIENTE", "ENTREGADO", "CERRADO"}
    BY DEF ActiveStatus
  <2> QED
    BY <2>1, <2>2, Places
<1> QED
  BY <1>1, <1>2, Places

(***************************************************************************)
(* What a handler works on exists and stays, and an order that does not    *)
(* exist has no offers and no proposals.                                   *)
(***************************************************************************)
Born(o) == order[o].status # "NONE"

OwnWork(h) ==
    /\ pc[h] # "idle" => loc[h].order \in Orders /\ Born(loc[h].order)
    /\ pc[h] \in RiderStep => loc[h].rider \in Riders
    /\ pc[h] \in {"accept", "reject"} => loc[h].offer \in DOMAIN offers[loc[h].order]
    /\ pc[h] = "status" => loc[h].status # "NONE"
    /\ pc[h] \in {"arrive", "arrived"} => loc[h].status \in ActiveStatus

Unborn == \A o \in Orders : ~Born(o) => /\ offers[o] = << >>
                                        /\ \A r \in Riders : quote[o][r] = "NONE"

\* Kinds of requests that take a handler to each step.
Asked(h) ==
    /\ pc[h] = "reject"      => "reject" \in scenario.kinds
    /\ pc[h] = "accept"      => "accept" \in scenario.kinds
    /\ pc[h] = "take"        => "take" \in scenario.kinds
    /\ pc[h] = "acceptQuote" => "acceptQuote" \in scenario.kinds
    /\ pc[h] \in {"cancelQuote", "recount", "reopen"} => "cancelQuote" \in scenario.kinds
    /\ pc[h] \in RedisStep   => Redis
    /\ pc[h] \in {"quote", "quoteMark"} => "quote" \in scenario.kinds
    /\ pc[h] \in OfferStep \cup {"reread"} => scenario.kinds \cap {"dispatch", "timeout", "reject"} # {}

Alone ==
    /\ IsFiniteSet(InFlight)
    /\ scenario.width = 1 =>
          \A g, h \in Requests : pc[g] # "idle" /\ pc[h] # "idle" => g = h

BaseInv == /\ TypeOK /\ Unborn /\ Alone
           /\ \A h \in Requests : OwnWork(h) /\ Asked(h)

Sole(h) == scenario.width = 1 => \A g \in Requests \ {h} : pc[g] = "idle"

\* No order and no offer disappears.
RowsKept == \A o \in Orders : /\ Born(o) => order'[o].status # "NONE"
                              /\ DOMAIN offers[o] \subseteq DOMAIN offers'[o]

\* A handler may start.
Room == Cardinality(InFlight) < scenario.width

LEMMA RoomSole ==
    ASSUME BaseInv, Room, scenario.width = 1
    PROVE  \A g \in Requests : pc[g] = "idle"
<1>1. IsFiniteSet(InFlight) /\ Cardinality(InFlight) < 1
  BY DEF BaseInv, Alone, Room
<1>2. Cardinality(InFlight) \in Nat
  BY <1>1, FS_CardinalityType
<1>3. Cardinality(InFlight) = 0
  BY <1>1, <1>2
<1>4. InFlight = {}
  BY <1>1, <1>3, FS_EmptySet
<1> QED
  BY <1>4 DEF InFlight

LEMMA BusySole ==
    ASSUME BaseInv, NEW h \in Requests, pc[h] # "idle"
    PROVE  Sole(h)
  BY DEF BaseInv, Alone, Sole

LEMMA StepFacts ==
    ASSUME TypeOK, NEW h \in Requests, NEW step, NEW work, Step(h, step, work)
    PROVE  /\ scenario' = scenario /\ crashes' = crashes
           /\ pc'[h] = step /\ loc'[h] = work
           /\ \A g \in Requests \ {h} : pc'[g] = pc[g] /\ loc'[g] = loc[g]
  BY DEF TypeOK, Step

LEMMA StepTyped ==
    ASSUME TypeOK, NEW h \in Requests, NEW step \in Steps, NEW work \in Work,
           Step(h, step, work)
    PROVE  pc' \in [Requests -> Steps] /\ loc' \in [Requests -> Work]
  BY DEF TypeOK, Step

LEMMA OwnKept ==
    ASSUME NEW g \in Requests, OwnWork(g), Asked(g), RowsKept,
           scenario' = scenario, pc'[g] = pc[g], loc'[g] = loc[g]
    PROVE  OwnWork(g)' /\ Asked(g)'
  BY DEF OwnWork, Asked, RowsKept, Born, Redis

\* A step of the handler h, whatever it does to the rows.
LEMMA StepKeeps ==
    ASSUME BaseInv, NEW h \in Requests, NEW step \in Steps, NEW work \in Work,
           Step(h, step, work), Sole(h),
           RowsOK', RedisOK', RowsKept, Unborn', OwnWork(h)', Asked(h)'
    PROVE  BaseInv'
<1>1. /\ scenario' = scenario /\ crashes' = crashes
      /\ pc' \in [Requests -> Steps] /\ loc' \in [Requests -> Work]
      /\ \A g \in Requests \ {h} : pc'[g] = pc[g] /\ loc'[g] = loc[g]
  BY StepFacts, StepTyped DEF BaseInv
<1>2. TypeOK'
  BY <1>1 DEF BaseInv, TypeOK
<1>3. \A g \in Requests : OwnWork(g)' /\ Asked(g)'
  <2> TAKE g \in Requests
  <2>1. CASE g = h
    BY <2>1
  <2>2. CASE g # h
    BY <1>1, <2>2, OwnKept DEF BaseInv
  <2> QED
    BY <2>1, <2>2
<1>4. Alone'
  <2>1. IsFiniteSet(InFlight \cup {h})
    BY FS_AddElement DEF BaseInv, Alone
  <2>2. InFlight' \subseteq InFlight \cup {h}
    BY <1>1 DEF InFlight
  <2>3. IsFiniteSet(InFlight')
    BY <2>1, <2>2, FS_Subset
  <2>4. scenario'.width = 1 =>
           \A f, g \in Requests : pc'[f] # "idle" /\ pc'[g] # "idle" => f = g
    BY <1>1 DEF Sole
  <2> QED
    BY <2>3, <2>4 DEF Alone
<1> QED
  BY <1>2, <1>3, <1>4 DEF BaseInv

LEMMA RowsSame ==
    ASSUME BaseInv, UNCHANGED rows
    PROVE  RowsOK' /\ RowsKept /\ Unborn'
  BY DEF BaseInv, TypeOK, RowsOK, RowsKept, Unborn, Born, rows

LEMMA RedisSame == ASSUME BaseInv, UNCHANGED redis PROVE RedisOK'
  BY DEF BaseInv, TypeOK, RedisOK, redis

LEMMA NoWorkTyped ==
    /\ NoWork \in Work /\ NoWork.order = None /\ NoWork.status = "NONE" /\ NoWork.offer = 0
    /\ NoWork.rider = None /\ "idle" \in Steps
  BY DEF NoWork, Work, Statuses, Steps

\* A handler that ends.
LEMMA Ends ==
    ASSUME BaseInv, NEW h \in Requests, Step(h, "idle", NoWork), Sole(h),
           RowsOK', RedisOK', RowsKept, Unborn'
    PROVE  BaseInv'
<1>1. pc'[h] = "idle"
  BY StepFacts DEF BaseInv
<1>2. OwnWork(h)' /\ Asked(h)'
  BY <1>1 DEF OwnWork, Asked, RiderStep, RedisStep, OfferStep
<1> QED
  BY <1>2, NoWorkTyped, StepKeeps

\* What a write of an order's status changes, and of its status and rider.
StatusIs(o, s) == /\ order'[o].status = s /\ order'[o].rider = order[o].rider
                  /\ \A p \in Orders \ {o} : order'[p] = order[p]
HolderIs(o, s, r) == /\ order'[o].status = s /\ order'[o].rider = r
                     /\ \A p \in Orders \ {o} : order'[p] = order[p]

LEMMA StatusSet ==
    ASSUME BaseInv, NEW o \in Orders, Born(o), NEW s \in Statuses \ {"NONE"}, SetStatus(o, s),
           UNCHANGED <<offers, quote, commission>>
    PROVE  RowsOK' /\ RowsKept /\ Unborn' /\ StatusIs(o, s)
<1> DEFINE n == [order[o] EXCEPT !.status = s]
<1>1. order[o] \in OrderRow
  BY DEF BaseInv, TypeOK, RowsOK
<1>2. n \in OrderRow /\ n.status = s /\ n.rider = order[o].rider
  BY <1>1 DEF OrderRow
<1>3. order' = [order EXCEPT ![o] = n]
  BY DEF SetStatus
<1> HIDE DEF n
<1>4. order' \in [Orders -> OrderRow] /\ order'[o] = n /\ \A p \in Orders \ {o} : order'[p] = order[p]
  BY <1>2, <1>3 DEF BaseInv, TypeOK, RowsOK
<1> QED
  BY <1>2, <1>4 DEF BaseInv, TypeOK, RowsOK, RowsKept, Unborn, Born, StatusIs

LEMMA OrderSet ==
    ASSUME BaseInv, NEW o \in Orders, NEW s \in Statuses, NEW r \in Riders \cup {None},
           SetOrder(o, s, r)
    PROVE  order' \in [Orders -> OrderRow] /\ HolderIs(o, s, r)
<1> DEFINE n == [status |-> s, rider |-> r]
<1>1. n \in OrderRow /\ n.status = s /\ n.rider = r
  BY DEF OrderRow
<1>2. order' = [order EXCEPT ![o] = n]
  BY DEF SetOrder
<1> HIDE DEF n
<1> QED
  BY <1>1, <1>2 DEF BaseInv, TypeOK, RowsOK, HolderIs

\* What a write of one offer's status changes.
OfferIs(o, i, s) ==
    /\ DOMAIN offers'[o] = DOMAIN offers[o]
    /\ offers'[o][i].status = s
    /\ \A j \in DOMAIN offers[o] : /\ offers'[o][j].rider = offers[o][j].rider
                                   /\ j # i => offers'[o][j] = offers[o][j]
    /\ \A p \in Orders \ {o} : offers'[p] = offers[p]

LEMMA OfferSet ==
    ASSUME BaseInv, NEW o \in Orders, NEW i \in DOMAIN offers[o],
           NEW s \in {"TIMEOUT", "ACCEPTED", "REJECTED"},
           offers' = [offers EXCEPT ![o][i].status = s]
    PROVE  offers' \in [Orders -> Seq(OfferRow)] /\ OfferIs(o, i, s)
<1> DEFINE d == offers[o][i]
           n == [d EXCEPT !.status = s]
           q == [offers[o] EXCEPT ![i] = n]
<1>1. offers[o] \in Seq(OfferRow) /\ d \in OfferRow
  BY DEF BaseInv, TypeOK, RowsOK
<1>2. n \in OfferRow /\ n.status = s /\ n.rider = d.rider
  BY <1>1 DEF OfferRow
<1>3. offers' = [offers EXCEPT ![o] = q]
  OBVIOUS
<1>4. /\ q \in Seq(OfferRow) /\ DOMAIN q = DOMAIN offers[o] /\ q[i] = n
      /\ \A j \in DOMAIN offers[o] : j # i => q[j] = offers[o][j]
  BY <1>1, <1>2
<1> HIDE DEF q, n
<1>5. offers'[o] = q /\ \A p \in Orders \ {o} : offers'[p] = offers[p]
  BY <1>3 DEF BaseInv, TypeOK, RowsOK
<1> QED
  BY <1>2, <1>3, <1>4, <1>5 DEF BaseInv, TypeOK, RowsOK, OfferIs

(***************************************************************************)
(* The base invariant, action by action.                                   *)
(***************************************************************************)
LEMMA GoStep ==
    ASSUME NEW h, NEW step, NEW work, Go(h, step, work)
    PROVE  Step(h, step, work) /\ UNCHANGED redis
  BY DEF Go

\* A handler that has begun and changes no row.
LEMMA GoesOn ==
    ASSUME BaseInv, NEW h \in Requests, NEW step \in Steps, NEW w \in Work,
           Go(h, step, w), UNCHANGED rows, Sole(h), OwnWork(h)', Asked(h)'
    PROVE  BaseInv'
  BY GoStep, RowsSame, RedisSame, StepKeeps

LEMMA BaseCreate ==
    ASSUME BaseInv, NEW h \in Requests, Create(h)
    PROVE  BaseInv'
<1>1. PICK o \in scenario.orders :
         /\ order[o].status = "NONE" /\ pc[h] = "idle" /\ Room
         /\ SetOrder(o, "PENDIENTE", None)
         /\ IF "dispatch" \in scenario.kinds
              THEN Go(h, "choose", [NoWork EXCEPT !.order = o])
              ELSE Finish(h)
         /\ UNCHANGED <<offers, quote, commission>>
  BY DEF Create, Room
<1>2. o \in Orders /\ Sole(h)
  BY <1>1, ScenarioAssumption, RoomSole DEF BaseInv, TypeOK, Sole
<1>3. order' \in [Orders -> OrderRow] /\ HolderIs(o, "PENDIENTE", None)
  BY <1>1, <1>2, OrderSet DEF Statuses, Opened
<1>4. RowsOK' /\ RowsKept /\ Unborn'
  BY <1>1, <1>2, <1>3 DEF BaseInv, TypeOK, RowsOK, RowsKept, Unborn, Born, HolderIs
<1>5. RedisOK'
  BY <1>1, RedisSame DEF Go, Finish
<1>6. CASE "dispatch" \in scenario.kinds
  <2> DEFINE w == [NoWork EXCEPT !.order = o]
  <2>1. w \in Work /\ w.order = o
    BY <1>2, NoWorkTyped DEF Work
  <2>2. Step(h, "choose", w) /\ "choose" \in Steps
    BY <1>1, <1>6 DEF Go, Steps, OfferStep
  <2> HIDE DEF w
  <2>3. scenario' = scenario /\ pc'[h] = "choose" /\ loc'[h] = w
    BY <2>2, StepFacts DEF BaseInv
  <2>4. OwnWork(h)' /\ Asked(h)'
    BY <1>2, <1>3, <1>6, <2>1, <2>3 DEF OwnWork, Asked, RiderStep, RedisStep, Born, HolderIs
  <2> QED
    BY <1>2, <1>4, <1>5, <2>1, <2>2, <2>4, StepKeeps
<1>7. CASE "dispatch" \notin scenario.kinds
  BY <1>1, <1>2, <1>4, <1>5, <1>7, Ends DEF Finish, Go
<1> QED
  BY <1>6, <1>7

\* The handlers that read an order and act on it afterwards.
LEMMA BaseRead ==
    ASSUME BaseInv, NEW h \in Requests, Room, NEW o \in Orders, Born(o),
           NEW step \in Steps \ {"idle"}, NEW w \in Work, w.order = o, Go(h, step, w), UNCHANGED rows,
           step \in RiderStep => w.rider \in Riders,
           step \in {"accept", "reject"} => w.offer \in DOMAIN offers[o],
           step = "status" => w.status # "NONE",
           step \notin {"arrive", "arrived"},
           Asked(h)'
    PROVE  BaseInv'
<1>1. Sole(h)
  BY RoomSole DEF Sole
<1>2. pc'[h] = step /\ loc'[h] = w
  BY GoStep, StepFacts DEF BaseInv
<1>3. OwnWork(h)'
  BY <1>2 DEF OwnWork, Born, rows
<1> QED
  BY <1>1, <1>3, GoesOn

LEMMA LiveBorn ==
    ASSUME BaseInv, NEW o \in Orders
    PROVE  /\ Live(o) # {} => Born(o)
           /\ DOMAIN offers[o] # {} => Born(o)
  BY DEF BaseInv, Unborn, Live, LiveQuote

LEMMA BaseReads ==
    ASSUME BaseInv, NEW h \in Requests,
           \/ AcceptRead(h) \/ RejectRead(h) \/ TakeRead(h) \/ StatusRead(h)
           \/ QuoteRead(h) \/ HaggleRead(h) \/ AcceptQuoteRead(h) \/ CancelQuoteRead(h)
    PROVE  BaseInv'
<1>0. NoWork \in Work /\ \A k : MayStart(h, k) => Room /\ k \in scenario.kinds
  BY NoWorkTyped DEF MayStart, Room
<1>a. ASSUME NEW step, NEW w, Go(h, step, w)
      PROVE  scenario' = scenario /\ pc'[h] = step
  BY <1>a, GoStep, StepFacts DEF BaseInv
<1>1. CASE AcceptRead(h)
  <2>1. PICK o \in Orders, r \in Riders : \E i \in DOMAIN offers[o] :
           /\ MayStart(h, "accept")
           /\ Go(h, "accept", [NoWork EXCEPT !.order = o, !.rider = r, !.offer = i])
           /\ UNCHANGED rows
    BY <1>1 DEF AcceptRead
  <2>2. PICK i \in DOMAIN offers[o] :
           /\ MayStart(h, "accept")
           /\ Go(h, "accept", [NoWork EXCEPT !.order = o, !.rider = r, !.offer = i])
           /\ UNCHANGED rows
    BY <2>1
  <2> DEFINE w == [NoWork EXCEPT !.order = o, !.rider = r, !.offer = i]
  <2>3. i \in Nat /\ Born(o)
    BY LiveBorn DEF BaseInv, TypeOK, RowsOK
  <2>4. w \in Work /\ w.order = o /\ w.rider = r /\ w.offer = i
    BY <1>0, <2>3 DEF NoWork, Work
  <2>5. Go(h, "accept", w)
    BY <2>2
  <2> HIDE DEF w
  <2>6. Asked(h)'
    BY <1>0, <1>a, <2>2, <2>5 DEF Asked, OfferStep, RedisStep
  <2> QED
    BY <1>0, <2>2, <2>3, <2>4, <2>5, <2>6, BaseRead DEF Steps
<1>2. CASE RejectRead(h)
  <2>1. PICK o \in Orders : \E i \in DOMAIN offers[o] :
           /\ MayStart(h, "reject")
           /\ Go(h, "reject", [NoWork EXCEPT !.order = o, !.offer = i])
           /\ UNCHANGED rows
    BY <1>2 DEF RejectRead
  <2>2. PICK i \in DOMAIN offers[o] :
           /\ MayStart(h, "reject")
           /\ Go(h, "reject", [NoWork EXCEPT !.order = o, !.offer = i])
           /\ UNCHANGED rows
    BY <2>1
  <2> DEFINE w == [NoWork EXCEPT !.order = o, !.offer = i]
  <2>3. i \in Nat /\ Born(o)
    BY LiveBorn DEF BaseInv, TypeOK, RowsOK
  <2>4. w \in Work /\ w.order = o /\ w.offer = i
    BY <1>0, <2>3 DEF NoWork, Work
  <2>5. Go(h, "reject", w)
    BY <2>2
  <2> HIDE DEF w
  <2>6. Asked(h)'
    BY <1>0, <1>a, <2>2, <2>5 DEF Asked, OfferStep, RedisStep
  <2> QED
    BY <1>0, <2>2, <2>3, <2>4, <2>5, <2>6, BaseRead DEF Steps, RiderStep
<1>3. CASE TakeRead(h)
  <2>1. PICK o \in Orders, r \in Riders :
           /\ MayStart(h, "take") /\ Takeable(o)
           /\ Go(h, "take", [NoWork EXCEPT !.order = o, !.rider = r])
           /\ UNCHANGED rows
    BY <1>3 DEF TakeRead
  <2> DEFINE w == [NoWork EXCEPT !.order = o, !.rider = r]
  <2>3. Born(o)
    BY <2>1 DEF Takeable, Born
  <2>4. w \in Work /\ w.order = o /\ w.rider = r
    BY <1>0 DEF NoWork, Work
  <2>5. Go(h, "take", w)
    BY <2>1
  <2> HIDE DEF w
  <2>6. Asked(h)'
    BY <1>0, <1>a, <2>1, <2>5 DEF Asked, OfferStep, RedisStep
  <2> QED
    BY <1>0, <2>1, <2>3, <2>4, <2>5, <2>6, BaseRead DEF Steps
<1>4. CASE StatusRead(h)
  <2>1. PICK o \in Orders, role \in {"REPARTIDOR", "ENCARGADO"}, next \in scenario.targets :
           /\ MayStart(h, "status") /\ order[o].status # "NONE"
           /\ Transition(order[o].status, next, role)
           /\ Go(h, "status", [NoWork EXCEPT !.order = o, !.status = next])
           /\ UNCHANGED rows
    BY <1>4 DEF StatusRead
  <2> DEFINE w == [NoWork EXCEPT !.order = o, !.status = next]
  <2>3. Born(o) /\ next # "NONE"
    BY <2>1, PlaceOf DEF Born, Transition, Shortcuts
  <2>2. next \in Statuses
    BY <2>1, ScenarioAssumption DEF BaseInv, TypeOK, OrderStatus, Statuses, Opened
  <2>4. w \in Work /\ w.order = o /\ w.status = next
    BY <1>0, <2>2 DEF NoWork, Work
  <2>5. Go(h, "status", w)
    BY <2>1
  <2> HIDE DEF w
  <2>6. Asked(h)'
    BY <1>0, <1>a, <2>1, <2>5 DEF Asked, OfferStep, RedisStep
  <2> QED
    BY <1>0, <2>1, <2>3, <2>4, <2>5, <2>6, BaseRead DEF Steps, RiderStep
<1>5. CASE QuoteRead(h)
  <2>1. PICK o \in Orders, r \in Riders :
           /\ MayStart(h, "quote") /\ order[o].status \in {"PENDIENTE", "COTIZANDO"}
           /\ Go(h, "quote", [NoWork EXCEPT !.order = o, !.rider = r, !.status = order[o].status])
           /\ UNCHANGED rows
    BY <1>5 DEF QuoteRead
  <2> DEFINE s == order[o].status
             w == [NoWork EXCEPT !.order = o, !.rider = r, !.status = s]
  <2>3. Born(o) /\ s \in Statuses
    BY <2>1 DEF Born, Statuses, Opened
  <2>5. Go(h, "quote", w)
    BY <2>1
  <2> HIDE DEF s
  <2>4. w \in Work /\ w.order = o /\ w.rider = r
    BY <1>0, <2>3 DEF NoWork, Work
  <2> HIDE DEF w
  <2>6. Asked(h)'
    BY <1>0, <1>a, <2>1, <2>5 DEF Asked, OfferStep, RedisStep
  <2> QED
    BY <1>0, <2>1, <2>3, <2>4, <2>5, <2>6, BaseRead DEF Steps, QuoteStp
<1>6. ASSUME NEW kind \in {"haggle", "acceptQuote", "cancelQuote"}, QuoteStep(h, kind, kind)
      PROVE  BaseInv'
  <2>1. PICK o \in Orders : \E r \in Live(o) :
           /\ MayStart(h, kind)
           /\ Go(h, kind, [NoWork EXCEPT !.order = o, !.rider = r])
           /\ UNCHANGED rows
    BY <1>6 DEF QuoteStep
  <2>2. PICK r \in Live(o) :
           /\ MayStart(h, kind)
           /\ Go(h, kind, [NoWork EXCEPT !.order = o, !.rider = r])
           /\ UNCHANGED rows
    BY <2>1
  <2> DEFINE w == [NoWork EXCEPT !.order = o, !.rider = r]
  <2>3. Born(o) /\ r \in Riders
    BY LiveBorn DEF Live
  <2>4. w \in Work /\ w.order = o /\ w.rider = r
    BY <1>0, <2>3 DEF NoWork, Work
  <2>5. Go(h, kind, w)
    BY <2>2
  <2> HIDE DEF w
  <2>6. Asked(h)'
    BY <1>0, <1>a, <2>2, <2>5 DEF Asked, OfferStep, RedisStep
  <2> QED
    BY <1>0, <2>2, <2>3, <2>4, <2>5, <2>6, BaseRead DEF Steps, QuoteStp
<1> QED
  BY <1>1, <1>2, <1>3, <1>4, <1>5, <1>6 DEF HaggleRead, AcceptQuoteRead, CancelQuoteRead

\* Those that write at once.
LEMMA BaseCancelOrder ==
    ASSUME BaseInv, NEW h \in Requests, CancelOrder(h)
    PROVE  BaseInv'
<1>1. PICK o \in Orders :
         /\ MayStart(h, "cancel") /\ Born(o) /\ SetStatus(o, "CANCELADO")
         /\ IF Redis THEN Go(h, "forget", [NoWork EXCEPT !.order = o]) ELSE Finish(h)
         /\ UNCHANGED <<offers, quote, commission>>
  BY DEF CancelOrder, Born
<1>2. Sole(h)
  BY <1>1, RoomSole DEF MayStart, Room, Sole
<1>3. RowsOK' /\ RowsKept /\ Unborn' /\ StatusIs(o, "CANCELADO")
  BY <1>1, StatusSet DEF Statuses
<1>4. RedisOK'
  BY <1>1, RedisSame DEF Go, Finish
<1>5. CASE Redis
  <2> DEFINE w == [NoWork EXCEPT !.order = o]
  <2>1. w \in Work /\ w.order = o
    BY NoWorkTyped DEF Work
  <2>2. Step(h, "forget", w) /\ "forget" \in Steps
    BY <1>1, <1>5 DEF Go, Steps, RedisStep
  <2> HIDE DEF w
  <2>3. scenario' = scenario /\ pc'[h] = "forget" /\ loc'[h] = w
    BY <2>2, StepFacts DEF BaseInv
  <2>4. OwnWork(h)' /\ Asked(h)'
    BY <1>3, <1>5, <2>1, <2>3 DEF OwnWork, Asked, RiderStep, OfferStep, Born, StatusIs, Redis
  <2> QED
    BY <1>2, <1>3, <1>4, <2>1, <2>2, <2>4, StepKeeps
<1>6. CASE ~Redis
  BY <1>1, <1>2, <1>3, <1>4, <1>6, Ends DEF Finish, Go
<1> QED
  BY <1>5, <1>6

LEMMA BaseTimeoutClaim ==
    ASSUME BaseInv, NEW h \in Requests, NEW o \in Orders, TimeoutClaim(h, o)
    PROVE  BaseInv'
<1>1. PICK i \in DOMAIN offers[o] :
         /\ MayStart(h, "timeout") /\ TimedOut(offers[o][i])
         /\ offers' = [offers EXCEPT ![o][i].status = "TIMEOUT"]
         /\ Go(h, "reread", [NoWork EXCEPT !.order = o])
         /\ UNCHANGED <<order, quote, commission>>
  BY DEF TimeoutClaim
<1>2. Sole(h) /\ Born(o)
  BY <1>1, RoomSole, LiveBorn DEF MayStart, Room, Sole
<1>3. offers' \in [Orders -> Seq(OfferRow)] /\ OfferIs(o, i, "TIMEOUT")
  BY <1>1, OfferSet
<1>4. RowsOK' /\ RowsKept /\ Unborn'
  BY <1>1, <1>2, <1>3 DEF BaseInv, TypeOK, RowsOK, RowsKept, Unborn, Born, OfferIs
<1> DEFINE w == [NoWork EXCEPT !.order = o]
<1>5. w \in Work /\ w.order = o
  BY NoWorkTyped DEF Work
<1>6. Step(h, "reread", w) /\ "reread" \in Steps /\ RedisOK'
  BY <1>1, RedisSame DEF Go, Steps
<1> HIDE DEF w
<1>7. scenario' = scenario /\ pc'[h] = "reread" /\ loc'[h] = w
  BY <1>6, StepFacts DEF BaseInv
<1>8. OwnWork(h)' /\ Asked(h)'
  BY <1>1, <1>2, <1>5, <1>7 DEF OwnWork, Asked, RiderStep, OfferStep, RedisStep, Born, MayStart
<1> QED
  BY <1>2, <1>4, <1>5, <1>6, <1>8, StepKeeps

\* What a continuing handler knows.
LEMMA Working ==
    ASSUME BaseInv, NEW h \in Requests, pc[h] # "idle"
    PROVE  /\ loc[h] \in Work /\ loc[h].order \in Orders /\ Born(loc[h].order)
           /\ Sole(h) /\ OwnWork(h) /\ Asked(h)
           /\ pc[h] \in RiderStep => loc[h].rider \in Riders
  BY BusySole DEF BaseInv, TypeOK, OwnWork

\* What keeps its order and its rider and needs no more.
Plain == {"choose", "giveUp", "mark", "quoteMark", "commission", "remember", "recount", "reopen",
          "arrived"}

LEMMA Follows ==
    ASSUME BaseInv, NEW h \in Requests, pc[h] # "idle", NEW step \in Plain,
           Step(h, step, loc[h]), RowsOK', RedisOK', RowsKept, Unborn', Asked(h)',
           step \in RiderStep => pc[h] \in RiderStep,
           step = "arrived" => pc[h] = "arrive"
    PROVE  BaseInv'
<1>1. /\ loc[h] \in Work /\ loc[h].order \in Orders /\ Born(loc[h].order)
      /\ Sole(h) /\ OwnWork(h)
  BY Working
<1>2. pc'[h] = step /\ loc'[h] = loc[h]
  BY StepFacts DEF BaseInv
<1>3. OwnWork(h)'
  BY <1>1, <1>2 DEF OwnWork, Plain, RowsKept, Born
<1>4. step \in Steps
  BY DEF Plain, Steps, OfferStep, QuoteStp, RedisStep
<1> QED
  BY <1>1, <1>3, <1>4, StepKeeps

LEMMA BaseNextChoose ==
    ASSUME BaseInv, NEW h \in Requests, NextChoose(h)
    PROVE  BaseInv'
<1>1. pc[h] = "choose" /\ UNCHANGED rows
  BY DEF NextChoose, At
<1>2. RowsOK' /\ RowsKept /\ Unborn'
  BY <1>1, RowsSame
<1>3. /\ loc[h] \in Work /\ loc[h].order \in Orders /\ Born(loc[h].order)
      /\ Sole(h) /\ OwnWork(h) /\ Asked(h)
  BY <1>1, Working
<1>4. CASE Go(h, "giveUp", loc[h])
  <2>1. Step(h, "giveUp", loc[h]) /\ RedisOK'
    BY <1>4, RedisSame, GoStep
  <2>2. scenario' = scenario /\ pc'[h] = "giveUp"
    BY <2>1, StepFacts DEF BaseInv
  <2>3. Asked(h)'
    BY <1>1, <1>3, <2>2 DEF Asked, OfferStep, RedisStep
  <2> QED
    BY <1>1, <1>2, <2>1, <2>3, Follows DEF Plain, RiderStep
<1>5. CASE \E r \in Eligible(loc[h].order) : Go(h, "offer", [loc[h] EXCEPT !.rider = r])
  <2> PICK r \in Eligible(loc[h].order) : Go(h, "offer", [loc[h] EXCEPT !.rider = r])
    BY <1>5
  <2> DEFINE w == [loc[h] EXCEPT !.rider = r]
  <2>1. r \in Riders
    BY DEF Eligible
  <2>2. w \in Work /\ w.order = loc[h].order /\ w.rider = r
    BY <1>3, <2>1 DEF Work
  <2>3. Step(h, "offer", w) /\ RedisOK' /\ "offer" \in Steps
    BY RedisSame, GoStep DEF Steps, OfferStep
  <2> HIDE DEF w
  <2>4. scenario' = scenario /\ pc'[h] = "offer" /\ loc'[h] = w
    BY <2>3, StepFacts DEF BaseInv
  <2>5. OwnWork(h)' /\ Asked(h)'
    BY <1>1, <1>2, <1>3, <2>1, <2>2, <2>4 DEF OwnWork, Asked, OfferStep, RedisStep, RowsKept, Born
  <2> QED
    BY <1>2, <1>3, <2>2, <2>3, <2>5, StepKeeps
<1> QED
  BY <1>4, <1>5 DEF NextChoose

LEMMA BaseNextOffer ==
    ASSUME BaseInv, NEW h \in Requests, NextOffer(h)
    PROVE  BaseInv'
<1> DEFINE o == loc[h].order
           n == [rider |-> loc[h].rider, status |-> "SENT", late |-> 0]
<1>1. pc[h] = "offer" /\ UNCHANGED <<order, quote, commission>> /\ Go(h, "mark", loc[h])
  BY DEF NextOffer, At
<1>2. o \in Orders /\ Born(o) /\ loc[h].rider \in Riders /\ Asked(h)
  BY <1>1, Working DEF RiderStep
<1>3. n \in OfferRow /\ offers[o] \in Seq(OfferRow)
  BY <1>2 DEF OfferRow, BaseInv, TypeOK, RowsOK
<1>4. offers' = [offers EXCEPT ![o] = Append(offers[o], n)]
  BY DEF NextOffer
<1>5. Append(offers[o], n) \in Seq(OfferRow) /\ DOMAIN offers[o] \subseteq DOMAIN Append(offers[o], n)
  BY <1>3
<1> HIDE DEF o, n
<1>6. RowsOK' /\ RowsKept /\ Unborn'
  BY <1>1, <1>2, <1>4, <1>5 DEF BaseInv, TypeOK, RowsOK, RowsKept, Unborn, Born
<1>7. Step(h, "mark", loc[h]) /\ RedisOK'
  BY <1>1, RedisSame, GoStep
<1>8. scenario' = scenario /\ pc'[h] = "mark"
  BY <1>7, StepFacts DEF BaseInv
<1>9. Asked(h)'
  BY <1>1, <1>2, <1>8 DEF Asked, OfferStep, RedisStep
<1> QED
  BY <1>1, <1>6, <1>7, <1>9, Follows DEF Plain, RiderStep

\* A handler that writes the order's status and ends.
LEMMA BaseMarks ==
    ASSUME BaseInv, NEW h \in Requests,
           NextGiveUp(h) \/ NextMark(h) \/ QuoteMark(h) \/ CancelQuoteReopen(h)
    PROVE  BaseInv'
<1>1. /\ pc[h] # "idle" /\ Finish(h) /\ UNCHANGED <<offers, quote, commission>>
      /\ \E s \in Opened : SetStatus(loc[h].order, s)
  BY DEF NextGiveUp, NextMark, QuoteMark, CancelQuoteReopen, At, Opened, WithoutRiders
<1>2. PICK s \in Opened : SetStatus(loc[h].order, s)
  BY <1>1
<1>3. loc[h].order \in Orders /\ Born(loc[h].order) /\ Sole(h)
  BY <1>1, Working
<1>4. RowsOK' /\ RowsKept /\ Unborn'
  BY <1>1, <1>2, <1>3, StatusSet DEF Statuses, Opened
<1> QED
  BY <1>1, <1>3, <1>4, RedisSame, Ends DEF Finish, Go

LEMMA BaseTimeoutReread ==
    ASSUME BaseInv, NEW h \in Requests, TimeoutReread(h)
    PROVE  BaseInv'
<1>1. pc[h] = "reread" /\ UNCHANGED rows
  BY DEF TimeoutReread, At
<1>2. RowsOK' /\ RowsKept /\ Unborn' /\ Sole(h)
  BY <1>1, RowsSame, Working
<1>3. CASE Finish(h)
  BY <1>2, <1>3, RedisSame, Ends DEF Finish, Go
<1>4. CASE Go(h, "choose", loc[h])
  <2>1. Step(h, "choose", loc[h]) /\ RedisOK'
    BY <1>4, RedisSame, GoStep
  <2>2. scenario' = scenario /\ pc'[h] = "choose"
    BY <2>1, StepFacts DEF BaseInv
  <2>3. Asked(h)'
    BY <1>1, <2>2, Working DEF Asked, OfferStep, RedisStep
  <2> QED
    BY <1>1, <1>2, <2>1, <2>3, Follows DEF Plain, RiderStep
<1> QED
  BY <1>3, <1>4 DEF TimeoutReread

LEMMA BaseAcceptWrite ==
    ASSUME BaseInv, NEW h \in Requests, AcceptWrite(h)
    PROVE  BaseInv'
<1> DEFINE o == loc[h].order
           i == loc[h].offer
<1>1. /\ pc[h] = "accept" /\ Finish(h) /\ UNCHANGED <<quote, commission>>
      /\ offers' = [offers EXCEPT ![o][i].status = "ACCEPTED"]
      /\ SetOrder(o, "ACEPTADO", loc[h].rider)
  BY DEF AcceptWrite, At
<1>2. /\ o \in Orders /\ Born(o) /\ Sole(h) /\ loc[h].rider \in Riders /\ i \in DOMAIN offers[o]
  BY <1>1, Working DEF RiderStep, OwnWork
<1> HIDE DEF o, i
<1>3. offers' \in [Orders -> Seq(OfferRow)] /\ OfferIs(o, i, "ACCEPTED")
  BY <1>1, <1>2, OfferSet
<1>4. order' \in [Orders -> OrderRow] /\ HolderIs(o, "ACEPTADO", loc[h].rider)
  BY <1>1, <1>2, OrderSet DEF Statuses, ActiveStatus
<1>5. RowsOK' /\ RowsKept /\ Unborn'
  BY <1>1, <1>2, <1>3, <1>4 DEF BaseInv, TypeOK, RowsOK, RowsKept, Unborn, Born, OfferIs, HolderIs
<1> QED
  BY <1>1, <1>2, <1>5, RedisSame, Ends DEF Finish, Go

LEMMA BaseRejectWrite ==
    ASSUME BaseInv, NEW h \in Requests, RejectWrite(h)
    PROVE  BaseInv'
<1> DEFINE o == loc[h].order
           i == loc[h].offer
<1>1. /\ pc[h] = "reject" /\ Go(h, "choose", loc[h]) /\ UNCHANGED <<order, quote, commission>>
      /\ offers' = [offers EXCEPT ![o][i].status = "REJECTED"]
  BY DEF RejectWrite, At
<1>2. o \in Orders /\ Born(o) /\ i \in DOMAIN offers[o] /\ Asked(h)
  BY <1>1, Working DEF RiderStep, OwnWork
<1> HIDE DEF o, i
<1>3. offers' \in [Orders -> Seq(OfferRow)] /\ OfferIs(o, i, "REJECTED")
  BY <1>1, <1>2, OfferSet
<1>4. RowsOK' /\ RowsKept /\ Unborn'
  BY <1>1, <1>2, <1>3 DEF BaseInv, TypeOK, RowsOK, RowsKept, Unborn, Born, OfferIs
<1>5. Step(h, "choose", loc[h]) /\ RedisOK'
  BY <1>1, RedisSame, GoStep
<1>6. scenario' = scenario /\ pc'[h] = "choose"
  BY <1>5, StepFacts DEF BaseInv
<1>7. Asked(h)'
  BY <1>1, <1>2, <1>6 DEF Asked, OfferStep, RedisStep
<1> QED
  BY <1>1, <1>4, <1>5, <1>7, Follows DEF Plain, RiderStep

\* The rider's waiting offers are accepted with the order; the others stay.
TakenOffers(o, r) ==
    [i \in DOMAIN offers[o] |-> IF offers[o][i].rider = r /\ offers[o][i].status = "SENT"
                                  THEN [offers[o][i] EXCEPT !.status = "ACCEPTED"]
                                  ELSE offers[o][i]]

OffersTaken(o, r) ==
    /\ DOMAIN offers'[o] = DOMAIN offers[o]
    /\ \A i \in DOMAIN offers[o] : /\ offers'[o][i].rider = offers[o][i].rider
                                   /\ offers'[o][i].status = "SENT" =>
                                         offers[o][i].status = "SENT" /\ offers[o][i].rider # r
    /\ \A p \in Orders \ {o} : offers'[p] = offers[p]

LEMMA TakeSets ==
    ASSUME BaseInv, NEW o \in Orders, NEW r,
           offers' = [offers EXCEPT ![o] = TakenOffers(o, r)]
    PROVE  offers' \in [Orders -> Seq(OfferRow)] /\ OffersTaken(o, r)
<1> DEFINE q == TakenOffers(o, r)
<1>1. offers[o] \in Seq(OfferRow)
  BY DEF BaseInv, TypeOK, RowsOK
<1>2. ASSUME NEW d \in OfferRow
      PROVE  /\ [d EXCEPT !.status = "ACCEPTED"] \in OfferRow
             /\ [d EXCEPT !.status = "ACCEPTED"].rider = d.rider
             /\ [d EXCEPT !.status = "ACCEPTED"].status = "ACCEPTED"
  BY DEF OfferRow
<1>3. \A i \in DOMAIN offers[o] : /\ q[i] \in OfferRow /\ q[i].rider = offers[o][i].rider
                                  /\ q[i].status = "SENT" =>
                                        offers[o][i].status = "SENT" /\ offers[o][i].rider # r
  <2> TAKE i \in DOMAIN offers[o]
  <2> DEFINE d == offers[o][i]
             n == [d EXCEPT !.status = "ACCEPTED"]
  <2>1. d \in OfferRow
    BY <1>1
  <2>2. n \in OfferRow /\ n.rider = d.rider /\ n.status = "ACCEPTED"
    BY <1>2, <2>1
  <2>3. q[i] = IF d.rider = r /\ d.status = "SENT" THEN n ELSE d
    BY DEF TakenOffers
  <2> HIDE DEF q, n
  <2> QED
    BY <2>1, <2>2, <2>3
<1>4. DOMAIN q = DOMAIN offers[o] /\ DOMAIN q = 1 .. Len(offers[o]) /\ Len(offers[o]) \in Nat
  BY <1>1 DEF TakenOffers
<1>5. q \in [1 .. Len(offers[o]) -> OfferRow]
  <2>1. q = [i \in 1 .. Len(offers[o]) |-> q[i]]
    BY <1>4 DEF TakenOffers
  <2> HIDE DEF q
  <2> QED
    BY <1>3, <1>4, <2>1
<1>6. q \in Seq(OfferRow)
  <2> HIDE DEF q
  <2> QED
    BY <1>4, <1>5
<1> HIDE DEF q
<1>7. offers' = [offers EXCEPT ![o] = q]
  BY DEF q
<1>8. offers' \in [Orders -> Seq(OfferRow)] /\ offers'[o] = q /\ \A p \in Orders \ {o} : offers'[p] = offers[p]
  BY <1>6, <1>7 DEF BaseInv, TypeOK, RowsOK
<1> QED
  BY <1>3, <1>4, <1>8 DEF OffersTaken

LEMMA TakeShape ==
    ASSUME BaseInv, NEW h \in Requests, TakeWrite(h)
    PROVE  /\ pc[h] = "take" /\ Finish(h) /\ UNCHANGED <<quote, commission>>
           /\ loc[h].order \in Orders /\ Born(loc[h].order) /\ loc[h].rider \in Riders
           /\ Sole(h)
           /\ offers' \in [Orders -> Seq(OfferRow)] /\ OffersTaken(loc[h].order, loc[h].rider)
           /\ order' \in [Orders -> OrderRow]
           /\ HolderIs(loc[h].order, "ACEPTADO", loc[h].rider)
<1> DEFINE o == loc[h].order
           r == loc[h].rider
<1>1. /\ pc[h] = "take" /\ Finish(h) /\ UNCHANGED <<quote, commission>>
      /\ SetOrder(o, "ACEPTADO", r)
  BY DEF TakeWrite, At
<1>2. /\ o \in Orders /\ Born(o) /\ Sole(h) /\ r \in Riders
  BY <1>1, Working DEF RiderStep
<1>3. offers' = [offers EXCEPT ![o] = TakenOffers(o, r)]
  BY DEF TakeWrite, TakenOffers
<1> HIDE DEF o, r
<1>4. offers' \in [Orders -> Seq(OfferRow)] /\ OffersTaken(o, r)
  BY <1>2, <1>3, TakeSets
<1>5. order' \in [Orders -> OrderRow] /\ HolderIs(o, "ACEPTADO", r)
  BY <1>1, <1>2, OrderSet DEF Statuses, ActiveStatus
<1> QED
  BY <1>1, <1>2, <1>4, <1>5 DEF o, r

LEMMA BaseTakeWrite ==
    ASSUME BaseInv, NEW h \in Requests, TakeWrite(h)
    PROVE  BaseInv'
<1> DEFINE o == loc[h].order
           r == loc[h].rider
<1>1. /\ pc[h] = "take" /\ Finish(h) /\ UNCHANGED <<quote, commission>>
      /\ o \in Orders /\ Born(o) /\ r \in Riders /\ Sole(h)
      /\ offers' \in [Orders -> Seq(OfferRow)] /\ OffersTaken(o, r)
      /\ order' \in [Orders -> OrderRow] /\ HolderIs(o, "ACEPTADO", r)
  BY TakeShape
<1> HIDE DEF o, r
<1>2. RowsOK'
  BY <1>1 DEF BaseInv, TypeOK, RowsOK
<1>3. RowsKept
  BY <1>1 DEF RowsKept, Born, OffersTaken, HolderIs
<1>4. Unborn'
  BY <1>1 DEF BaseInv, Unborn, Born, OffersTaken, HolderIs
<1> QED
  BY <1>1, <1>2, <1>3, <1>4, RedisSame, Ends DEF Finish, Go

\* The statuses written by updateStatus and the geofence are those of the work.
LEMMA StatusWriteShape ==
    ASSUME BaseInv, NEW h \in Requests, StatusWrite(h)
    PROVE  /\ pc[h] = "status" /\ UNCHANGED <<offers, quote, commission>>
           /\ loc[h].order \in Orders /\ Born(loc[h].order)
           /\ RowsOK' /\ RowsKept /\ Unborn' /\ StatusIs(loc[h].order, loc[h].status)
<1>1. /\ pc[h] = "status" /\ SetStatus(loc[h].order, loc[h].status)
      /\ UNCHANGED <<offers, quote, commission>>
  BY DEF StatusWrite, At
<1>2. /\ loc[h].order \in Orders /\ Born(loc[h].order)
      /\ loc[h].status \in Statuses \ {"NONE"}
  BY <1>1, Working DEF OwnWork, Work
<1> QED
  BY <1>1, <1>2, StatusSet

LEMMA BaseStatusWrite ==
    ASSUME BaseInv, NEW h \in Requests, StatusWrite(h)
    PROVE  BaseInv'
<1>1. pc[h] = "status" /\ RowsOK' /\ RowsKept /\ Unborn' /\ Sole(h)
  BY StatusWriteShape, Working
<1>2. CASE Go(h, "remember", loc[h]) /\ Redis
  <2>1. Step(h, "remember", loc[h]) /\ RedisOK'
    BY <1>2, RedisSame, GoStep
  <2>2. scenario' = scenario /\ pc'[h] = "remember"
    BY <2>1, StepFacts DEF BaseInv
  <2>3. Asked(h)'
    BY <1>2, <2>2 DEF Asked, OfferStep, RedisStep, Redis
  <2> QED
    BY <1>1, <2>1, <2>3, Follows DEF Plain, RiderStep
<1>3. CASE Go(h, "commission", loc[h])
  <2>1. Step(h, "commission", loc[h]) /\ RedisOK'
    BY <1>3, RedisSame, GoStep
  <2>2. pc'[h] = "commission"
    BY <2>1, StepFacts DEF BaseInv
  <2>3. Asked(h)'
    BY <2>2 DEF Asked, OfferStep, RedisStep
  <2> QED
    BY <1>1, <2>1, <2>3, Follows DEF Plain, RiderStep
<1>4. CASE Finish(h)
  BY <1>1, <1>4, RedisSame, Ends DEF Finish, Go
<1> QED
  BY <1>2, <1>3, <1>4 DEF StatusWrite

LEMMA ForgetTyped ==
    ASSUME BaseInv, NEW o, Forget(o)
    PROVE  RedisOK'
<1>1. NoMeta \in OrderRow
  BY DEF NoMeta, OrderRow, Statuses
<1> QED
  BY <1>1 DEF Forget, BaseInv, TypeOK, RedisOK

LEMMA MetaTyped ==
    ASSUME BaseInv, NEW o \in Orders
    PROVE  Meta(o) \in OrderRow
  BY DEF Meta, BaseInv, TypeOK, RedisOK, RowsOK

LEMMA MetaSet ==
    ASSUME BaseInv, NEW o \in Orders, NEW m \in OrderRow, meta' = [meta EXCEPT ![o] = m]
    PROVE  /\ meta' \in [Orders -> OrderRow] /\ meta'[o] = m
           /\ \A p \in Orders \ {o} : meta'[p] = meta[p]
  BY DEF BaseInv, TypeOK, RedisOK

LEMMA BaseStatusRemember ==
    ASSUME BaseInv, NEW h \in Requests, StatusRemember(h)
    PROVE  BaseInv'
<1> DEFINE o == loc[h].order
           s == loc[h].status
<1>1. pc[h] = "remember" /\ UNCHANGED rows
  BY DEF StatusRemember, At
<1>2. o \in Orders /\ s \in Statuses /\ Sole(h)
  BY <1>1, Working DEF Work
<1>3. RowsOK' /\ RowsKept /\ Unborn'
  BY <1>1, RowsSame
<1>4. RedisOK'
  <2>1. CASE Forget(o)
    BY <2>1, ForgetTyped
  <2>2. CASE meta' = [meta EXCEPT ![o] = Told(o, s)] /\ UNCHANGED fence
    <3>1. Told(o, s) \in OrderRow
      BY <1>2, MetaTyped DEF Told, OrderRow
    <3>2. meta' \in [Orders -> OrderRow]
      BY <1>2, <2>2, <3>1, MetaSet
    <3> QED
      BY <2>2, <3>2 DEF BaseInv, TypeOK, RedisOK
  <2> QED
    BY <2>1, <2>2 DEF StatusRemember
<1>5. CASE Step(h, "commission", loc[h])
  <2>1. pc'[h] = "commission"
    BY <1>5, StepFacts DEF BaseInv
  <2>2. Asked(h)'
    BY <2>1 DEF Asked, OfferStep, RedisStep
  <2> QED
    BY <1>1, <1>3, <1>4, <1>5, <2>2, Follows DEF Plain, RiderStep
<1>6. CASE Step(h, "idle", NoWork)
  BY <1>2, <1>3, <1>4, <1>6, Ends
<1> QED
  BY <1>5, <1>6 DEF StatusRemember

LEMMA BaseCommissionWrite ==
    ASSUME BaseInv, NEW h \in Requests, CommissionWrite(h)
    PROVE  BaseInv'
<1>1. /\ pc[h] = "commission" /\ Finish(h) /\ UNCHANGED <<order, offers, quote>>
      /\ commission' = commission \cup {loc[h].order}
  BY DEF CommissionWrite, At
<1>2. loc[h].order \in Orders /\ Sole(h)
  BY <1>1, Working
<1>3. RowsOK' /\ RowsKept /\ Unborn'
  BY <1>1, <1>2 DEF BaseInv, TypeOK, RowsOK, RowsKept, Unborn, Born
<1> QED
  BY <1>1, <1>2, <1>3, RedisSame, Ends DEF Finish, Go

LEMMA BaseCancelForget ==
    ASSUME BaseInv, NEW h \in Requests, CancelForget(h)
    PROVE  BaseInv'
<1>1. pc[h] = "forget" /\ UNCHANGED rows /\ Forget(loc[h].order) /\ Step(h, "idle", NoWork)
  BY DEF CancelForget, At
<1> QED
  BY <1>1, Working, RowsSame, ForgetTyped, Ends

LEMMA BaseGeofenceRead ==
    ASSUME BaseInv, NEW h \in Requests, GeofenceRead(h)
    PROVE  BaseInv'
<1>1. PICK o \in Orders, a \in Arrivals :
         /\ MayStart(h, "geofence") /\ Born(o)
         /\ meta' = [meta EXCEPT ![o] = Meta(o)]
         /\ IF Meta(o).rider # None /\ Meta(o).status = a[1] /\ a \notin fence[o]
              THEN /\ fence' = [fence EXCEPT ![o] = @ \cup {a}]
                   /\ Step(h, "arrive", [order |-> o, rider |-> Meta(o).rider, offer |-> 0,
                                         status |-> a[2]])
              ELSE UNCHANGED fence /\ Step(h, "idle", NoWork)
         /\ UNCHANGED rows
  BY DEF GeofenceRead, Born
<1>2. Sole(h) /\ Redis
  BY <1>1, RoomSole DEF MayStart, Room, Sole, Redis
<1>3. RowsOK' /\ RowsKept /\ Unborn'
  BY <1>1, RowsSame
<1>4. meta' \in [Orders -> OrderRow] /\ Meta(o) \in OrderRow
  BY <1>1, MetaTyped, MetaSet
<1>5. CASE /\ fence' = [fence EXCEPT ![o] = @ \cup {a}]
           /\ Step(h, "arrive", [order |-> o, rider |-> Meta(o).rider, offer |-> 0,
                                 status |-> a[2]])
  <2> DEFINE w == [order |-> o, rider |-> Meta(o).rider, offer |-> 0, status |-> a[2]]
  <2>1. fence' \in [Orders -> SUBSET Arrivals]
    BY <1>5 DEF BaseInv, TypeOK, RedisOK
  <2>2. RedisOK'
    BY <1>4, <2>1 DEF RedisOK
  <2>3. a[2] \in ActiveStatus /\ Meta(o).rider \in Riders \cup {None}
    BY <1>4 DEF Arrivals, ActiveStatus, OrderRow
  <2>4. w \in Work /\ w.order = o /\ w.status = a[2]
    BY <2>3 DEF Work, Statuses
  <2>5. Step(h, "arrive", w) /\ "arrive" \in Steps
    BY <1>5 DEF Steps, RedisStep
  <2> HIDE DEF w
  <2>6. scenario' = scenario /\ pc'[h] = "arrive" /\ loc'[h] = w
    BY <2>5, StepFacts DEF BaseInv
  <2>7. OwnWork(h)' /\ Asked(h)'
    BY <1>1, <1>2, <1>3, <2>3, <2>4, <2>6
       DEF OwnWork, Asked, RiderStep, OfferStep, Redis, RowsKept, Born
  <2> QED
    BY <1>2, <1>3, <2>2, <2>4, <2>5, <2>7, StepKeeps
<1>6. CASE UNCHANGED fence /\ Step(h, "idle", NoWork)
  <2>1. RedisOK'
    BY <1>4, <1>6 DEF BaseInv, TypeOK, RedisOK
  <2> QED
    BY <1>2, <1>3, <1>6, <2>1, Ends
<1> QED
  BY <1>1, <1>5, <1>6

LEMMA BaseGeofenceWrite ==
    ASSUME BaseInv, NEW h \in Requests, GeofenceWrite(h)
    PROVE  BaseInv'
<1>1. /\ pc[h] = "arrive" /\ SetStatus(loc[h].order, loc[h].status)
      /\ UNCHANGED <<offers, quote, commission>> /\ Go(h, "arrived", loc[h])
  BY DEF GeofenceWrite, At
<1>2. /\ loc[h].order \in Orders /\ Born(loc[h].order) /\ Asked(h)
      /\ loc[h].status \in Statuses \ {"NONE"}
  BY <1>1, Working DEF OwnWork, Work, ActiveStatus
<1>3. RowsOK' /\ RowsKept /\ Unborn'
  BY <1>1, <1>2, StatusSet
<1>4. Step(h, "arrived", loc[h]) /\ RedisOK'
  BY <1>1, RedisSame, GoStep
<1>5. scenario' = scenario /\ pc'[h] = "arrived"
  BY <1>4, StepFacts DEF BaseInv
<1>6. Asked(h)'
  BY <1>1, <1>2, <1>5 DEF Asked, OfferStep, RedisStep, Redis
<1> QED
  BY <1>1, <1>3, <1>4, <1>6, Follows DEF Plain, RiderStep

LEMMA BaseGeofenceRemember ==
    ASSUME BaseInv, NEW h \in Requests, GeofenceRemember(h)
    PROVE  BaseInv'
<1> DEFINE m == [status |-> loc[h].status, rider |-> loc[h].rider]
<1>1. /\ pc[h] = "arrived" /\ UNCHANGED <<rows, fence>> /\ Step(h, "idle", NoWork)
      /\ meta' = [meta EXCEPT ![loc[h].order] = m]
  BY DEF GeofenceRemember, At
<1>2. loc[h].order \in Orders /\ Sole(h) /\ m \in OrderRow
  BY <1>1, Working DEF Work, OrderRow
<1>3. RedisOK'
  BY <1>1, <1>2, MetaSet DEF BaseInv, TypeOK, RedisOK
<1> QED
  BY <1>1, <1>2, <1>3, RowsSame, Ends

\* What a write of one proposal changes.
QuoteIs(o, r, s) ==
    /\ quote'[o][r] = s
    /\ \A q \in Riders \ {r} : quote'[o][q] = quote[o][q]
    /\ \A p \in Orders \ {o} : quote'[p] = quote[p]

LEMMA QuoteSet ==
    ASSUME BaseInv, NEW o \in Orders, Born(o), NEW r \in Riders, NEW s \in QuoteRow,
           SetQuote(o, r, s), UNCHANGED <<order, offers, commission>>
    PROVE  RowsOK' /\ RowsKept /\ Unborn' /\ QuoteIs(o, r, s)
<1> DEFINE q == [quote[o] EXCEPT ![r] = s]
<1>1. /\ q \in [Riders -> QuoteRow] /\ q[r] = s
      /\ \A p \in Riders \ {r} : q[p] = quote[o][p]
  BY DEF BaseInv, TypeOK, RowsOK
<1>2. quote' = [quote EXCEPT ![o] = q]
  BY DEF SetQuote
<1> HIDE DEF q
<1>3. /\ quote' \in [Orders -> [Riders -> QuoteRow]] /\ quote'[o] = q
      /\ \A p \in Orders \ {o} : quote'[p] = quote[p]
  BY <1>1, <1>2 DEF BaseInv, TypeOK, RowsOK
<1>4. RowsOK' /\ RowsKept
  BY <1>3 DEF BaseInv, TypeOK, RowsOK, RowsKept, Born
<1>5. Unborn'
  BY <1>3 DEF BaseInv, Unborn, Born
<1>6. QuoteIs(o, r, s)
  BY <1>1, <1>3 DEF QuoteIs
<1> QED
  BY <1>4, <1>5, <1>6

LEMMA QuoteInsertShape ==
    ASSUME BaseInv, NEW h \in Requests, QuoteInsert(h), quote[loc[h].order][loc[h].rider] = "NONE"
    PROVE  /\ RowsOK' /\ RowsKept /\ Unborn' /\ QuoteIs(loc[h].order, loc[h].rider, "PENDING")
           /\ IF loc[h].status = "PENDIENTE" THEN Go(h, "quoteMark", loc[h]) ELSE Finish(h)
<1>1. /\ pc[h] = "quote" /\ UNCHANGED <<order, offers, commission>>
      /\ SetQuote(loc[h].order, loc[h].rider, "PENDING")
      /\ IF loc[h].status = "PENDIENTE" THEN Go(h, "quoteMark", loc[h]) ELSE Finish(h)
  BY DEF QuoteInsert, At
<1>2. loc[h].order \in Orders /\ Born(loc[h].order) /\ loc[h].rider \in Riders
  BY <1>1, Working DEF RiderStep
<1> QED
  BY <1>1, <1>2, QuoteSet DEF QuoteRow, LiveQuote

LEMMA BaseQuoteInsert ==
    ASSUME BaseInv, NEW h \in Requests, QuoteInsert(h)
    PROVE  BaseInv'
<1>1. pc[h] = "quote" /\ UNCHANGED <<order, offers, commission>> /\ Sole(h)
  BY Working DEF QuoteInsert, At
<1>2. CASE quote[loc[h].order][loc[h].rider] = "NONE"
  <2>1. /\ RowsOK' /\ RowsKept /\ Unborn'
        /\ IF loc[h].status = "PENDIENTE" THEN Go(h, "quoteMark", loc[h]) ELSE Finish(h)
    BY <1>2, QuoteInsertShape
  <2>2. CASE Go(h, "quoteMark", loc[h])
    <3>1. Step(h, "quoteMark", loc[h]) /\ RedisOK'
      BY <2>2, RedisSame, GoStep
    <3>2. scenario' = scenario /\ pc'[h] = "quoteMark"
      BY <3>1, StepFacts DEF BaseInv
    <3>3. Asked(h)'
      BY <1>1, <3>2, Working DEF Asked, OfferStep, RedisStep
    <3> QED
      BY <1>1, <2>1, <3>1, <3>3, Follows DEF Plain, RiderStep
  <2>3. CASE Finish(h)
    BY <1>1, <2>1, <2>3, RedisSame, Ends DEF Finish, Go
  <2> QED
    BY <2>1, <2>2, <2>3
<1>3. CASE quote[loc[h].order][loc[h].rider] # "NONE"
  <2>1. UNCHANGED rows /\ Finish(h)
    BY <1>1, <1>3 DEF QuoteInsert, rows
  <2> QED
    BY <1>1, <2>1, RowsSame, RedisSame, Ends DEF Finish, Go
<1> QED
  BY <1>2, <1>3

LEMMA HaggleWriteShape ==
    ASSUME BaseInv, NEW h \in Requests, HaggleWrite(h)
    PROVE  /\ pc[h] = "haggle" /\ Finish(h) /\ UNCHANGED <<order, offers, commission>>
           /\ loc[h].order \in Orders /\ loc[h].rider \in Riders /\ Sole(h)
           /\ RowsOK' /\ RowsKept /\ Unborn'
           /\ QuoteIs(loc[h].order, loc[h].rider, "NEGOTIATING")
<1>1. /\ pc[h] = "haggle" /\ Finish(h) /\ UNCHANGED <<order, offers, commission>>
      /\ SetQuote(loc[h].order, loc[h].rider, "NEGOTIATING")
  BY DEF HaggleWrite, At
<1>2. loc[h].order \in Orders /\ Born(loc[h].order) /\ loc[h].rider \in Riders /\ Sole(h)
  BY <1>1, Working DEF RiderStep
<1> QED
  BY <1>1, <1>2, QuoteSet DEF QuoteRow, LiveQuote

LEMMA BaseHaggleWrite ==
    ASSUME BaseInv, NEW h \in Requests, HaggleWrite(h)
    PROVE  BaseInv'
  BY HaggleWriteShape, RedisSame, Ends DEF Finish, Go

LEMMA CancelQuoteShape ==
    ASSUME BaseInv, NEW h \in Requests, CancelQuoteWrite(h)
    PROVE  /\ pc[h] = "cancelQuote" /\ Go(h, "recount", loc[h])
           /\ UNCHANGED <<order, offers, commission>>
           /\ loc[h].order \in Orders /\ loc[h].rider \in Riders /\ Asked(h)
           /\ RowsOK' /\ RowsKept /\ Unborn'
           /\ QuoteIs(loc[h].order, loc[h].rider, "CANCELLED")
<1>1. /\ pc[h] = "cancelQuote" /\ Go(h, "recount", loc[h])
      /\ UNCHANGED <<order, offers, commission>>
      /\ SetQuote(loc[h].order, loc[h].rider, "CANCELLED")
  BY DEF CancelQuoteWrite, At
<1>2. loc[h].order \in Orders /\ Born(loc[h].order) /\ loc[h].rider \in Riders /\ Asked(h)
  BY <1>1, Working DEF RiderStep
<1> QED
  BY <1>1, <1>2, QuoteSet DEF QuoteRow

LEMMA BaseCancelQuoteWrite ==
    ASSUME BaseInv, NEW h \in Requests, CancelQuoteWrite(h)
    PROVE  BaseInv'
<1>1. /\ pc[h] = "cancelQuote" /\ Go(h, "recount", loc[h]) /\ Asked(h)
      /\ RowsOK' /\ RowsKept /\ Unborn'
  BY CancelQuoteShape
<1>2. Step(h, "recount", loc[h]) /\ RedisOK'
  BY <1>1, RedisSame, GoStep
<1>3. scenario' = scenario /\ pc'[h] = "recount"
  BY <1>2, StepFacts DEF BaseInv
<1>4. Asked(h)'
  BY <1>1, <1>3 DEF Asked, OfferStep, RedisStep
<1> QED
  BY <1>1, <1>2, <1>4, Follows DEF Plain, RiderStep

LEMMA BaseCancelQuoteRecount ==
    ASSUME BaseInv, NEW h \in Requests, CancelQuoteRecount(h)
    PROVE  BaseInv'
<1>1. pc[h] = "recount" /\ UNCHANGED rows
  BY DEF CancelQuoteRecount, At
<1>2. RowsOK' /\ RowsKept /\ Unborn' /\ Sole(h) /\ Asked(h)
  BY <1>1, RowsSame, Working
<1>3. CASE Go(h, "reopen", loc[h])
  <2>1. Step(h, "reopen", loc[h]) /\ RedisOK'
    BY <1>3, RedisSame, GoStep
  <2>2. scenario' = scenario /\ pc'[h] = "reopen"
    BY <2>1, StepFacts DEF BaseInv
  <2>3. Asked(h)'
    BY <1>1, <1>2, <2>2 DEF Asked, OfferStep, RedisStep
  <2> QED
    BY <1>1, <1>2, <2>1, <2>3, Follows DEF Plain, RiderStep
<1>4. CASE Finish(h)
  BY <1>2, <1>4, RedisSame, Ends DEF Finish, Go
<1> QED
  BY <1>3, <1>4 DEF CancelQuoteRecount

\* What accepting a proposal does to the proposals of its order.
QuoteChosen(o, r) ==
    /\ quote'[o][r] = "ACCEPTED"
    /\ \A q \in Riders \ {r} : /\ quote'[o][q] \notin LiveQuote
                               /\ quote[o][q] \notin LiveQuote => quote'[o][q] = quote[o][q]
                               /\ quote'[o][q] = "ACCEPTED" => quote[o][q] = "ACCEPTED"
    /\ \A p \in Orders \ {o} : quote'[p] = quote[p]

LEMMA AcceptQuoteShape ==
    ASSUME BaseInv, NEW h \in Requests, AcceptQuoteWrite(h)
    PROVE  /\ pc[h] = "acceptQuote" /\ Finish(h) /\ UNCHANGED <<offers, commission>>
           /\ loc[h].order \in Orders /\ Born(loc[h].order) /\ loc[h].rider \in Riders
           /\ Sole(h) /\ Asked(h)
           /\ quote' \in [Orders -> [Riders -> QuoteRow]] /\ QuoteChosen(loc[h].order, loc[h].rider)
           /\ order' \in [Orders -> OrderRow] /\ HolderIs(loc[h].order, "ACEPTADO", loc[h].rider)
<1> DEFINE o == loc[h].order
           r == loc[h].rider
           q == OneAccepted(o, r)
<1>1. /\ pc[h] = "acceptQuote" /\ Finish(h) /\ UNCHANGED <<offers, commission>>
      /\ quote' = [quote EXCEPT ![o] = q] /\ SetOrder(o, "ACEPTADO", r)
  BY DEF AcceptQuoteWrite, At
<1>2. o \in Orders /\ Born(o) /\ r \in Riders /\ Sole(h) /\ Asked(h)
  BY <1>1, Working DEF RiderStep
<1> HIDE DEF o, r
<1>3. order' \in [Orders -> OrderRow] /\ HolderIs(o, "ACEPTADO", r)
  BY <1>1, <1>2, OrderSet DEF Statuses, ActiveStatus
<1>4. quote[o] \in [Riders -> QuoteRow]
  BY <1>2 DEF BaseInv, TypeOK, RowsOK
<1>5. /\ q \in [Riders -> QuoteRow] /\ q[r] = "ACCEPTED"
      /\ \A p \in Riders \ {r} : q[p] = IF quote[o][p] \in LiveQuote THEN "REJECTED" ELSE quote[o][p]
  BY <1>2, <1>4 DEF OneAccepted, QuoteRow, Live
<1> HIDE DEF q
<1>6. /\ quote' \in [Orders -> [Riders -> QuoteRow]] /\ quote'[o] = q
      /\ \A p \in Orders \ {o} : quote'[p] = quote[p]
  BY <1>1, <1>2, <1>5 DEF BaseInv, TypeOK, RowsOK
<1>7. QuoteChosen(o, r)
  BY <1>5, <1>6 DEF QuoteChosen, LiveQuote
<1> QED
  BY <1>1, <1>2, <1>3, <1>6, <1>7 DEF o, r

LEMMA BaseAcceptQuoteWrite ==
    ASSUME BaseInv, NEW h \in Requests, AcceptQuoteWrite(h)
    PROVE  BaseInv'
<1> DEFINE o == loc[h].order
<1>1. /\ Finish(h) /\ UNCHANGED <<offers, commission>> /\ o \in Orders /\ Born(o) /\ Sole(h)
      /\ quote' \in [Orders -> [Riders -> QuoteRow]] /\ \A p \in Orders \ {o} : quote'[p] = quote[p]
      /\ order' \in [Orders -> OrderRow] /\ HolderIs(o, "ACEPTADO", loc[h].rider)
  BY AcceptQuoteShape DEF QuoteChosen
<1> HIDE DEF o
<1>2. RowsOK'
  BY <1>1 DEF BaseInv, TypeOK, RowsOK
<1>3. RowsKept
  BY <1>1 DEF RowsKept, Born, HolderIs
<1>4. Unborn'
  BY <1>1 DEF BaseInv, Unborn, Born, HolderIs
<1> QED
  BY <1>1, <1>2, <1>3, <1>4, RedisSame, Ends DEF Finish, Go

LEMMA BaseExpire ==
    ASSUME BaseInv, NEW o \in Orders, NEW i \in DOMAIN offers[o], Expire(o, i)
    PROVE  /\ BaseInv' /\ UNCHANGED <<scenario, order, quote, pc, loc>>
           /\ DOMAIN offers'[o] = DOMAIN offers[o]
           /\ \A j \in DOMAIN offers[o] : /\ offers'[o][j].rider = offers[o][j].rider
                                          /\ offers'[o][j].status = offers[o][j].status
           /\ \A p \in Orders \ {o} : offers'[p] = offers[p]
<1> DEFINE d == offers[o][i]
           n == [d EXCEPT !.late = Later(@)]
           q == [offers[o] EXCEPT ![i] = n]
<1>1. UNCHANGED <<scenario, order, quote, commission, redis, crashes, pc, loc>>
  BY DEF Expire
<1>2. offers[o] \in Seq(OfferRow) /\ d \in OfferRow
  BY DEF BaseInv, TypeOK, RowsOK
<1>3. Later(d.late) \in Nat
  BY <1>2 DEF OfferRow, Later
<1>4. n \in OfferRow /\ n.status = d.status /\ n.rider = d.rider
  BY <1>2, <1>3 DEF OfferRow
<1>5. offers' = [offers EXCEPT ![o] = q]
  BY DEF Expire
<1>6. /\ q \in Seq(OfferRow) /\ DOMAIN q = DOMAIN offers[o] /\ q[i] = n
      /\ \A j \in DOMAIN offers[o] : j # i => q[j] = offers[o][j]
  BY <1>2, <1>4
<1> HIDE DEF q, n
<1>7. /\ offers' \in [Orders -> Seq(OfferRow)] /\ offers'[o] = q
      /\ \A p \in Orders \ {o} : offers'[p] = offers[p]
  BY <1>5, <1>6 DEF BaseInv, TypeOK, RowsOK
<1>8. \A j \in DOMAIN offers[o] : q[j].rider = offers[o][j].rider /\ q[j].status = offers[o][j].status
  BY <1>4, <1>6
<1>9. Born(o)
  BY LiveBorn
<1>10. RowsOK' /\ RedisOK' /\ RowsKept
  BY <1>1, <1>6, <1>7 DEF BaseInv, TypeOK, RowsOK, RedisOK, RowsKept, Born, redis
<1>11. Unborn'
  BY <1>1, <1>7, <1>9 DEF BaseInv, Unborn, Born
<1>12. TypeOK' /\ Alone'
  BY <1>1, <1>10 DEF BaseInv, TypeOK, Alone, InFlight
<1>13. \A g \in Requests : OwnWork(g)' /\ Asked(g)'
  BY <1>1, <1>10, OwnKept DEF BaseInv
<1> QED
  BY <1>1, <1>6, <1>7, <1>8, <1>11, <1>12, <1>13 DEF BaseInv

LEMMA BaseRedisForgets ==
    ASSUME BaseInv, NEW o \in Orders, RedisForgets(o)
    PROVE  BaseInv' /\ UNCHANGED <<scenario, rows, pc, loc>>
<1>1. UNCHANGED <<scenario, rows, crashes, pc, loc>> /\ Forget(o)
  BY DEF RedisForgets
<1>2. RowsOK' /\ RedisOK' /\ RowsKept /\ Unborn'
  BY <1>1, RowsSame, ForgetTyped
<1>3. TypeOK' /\ Alone'
  BY <1>1, <1>2 DEF BaseInv, TypeOK, Alone, InFlight
<1>4. \A g \in Requests : OwnWork(g)' /\ Asked(g)'
  BY <1>1, <1>2, OwnKept DEF BaseInv
<1> QED
  BY <1>1, <1>2, <1>3, <1>4 DEF BaseInv

LEMMA BaseCrash ==
    ASSUME BaseInv, Crash
    PROVE  /\ BaseInv' /\ UNCHANGED <<scenario, rows, redis>> /\ scenario.crash
           /\ \A h \in Requests : pc'[h] = "idle"
<1>1. /\ UNCHANGED <<scenario, rows, redis>> /\ scenario.crash /\ crashes' \in Nat
      /\ pc' = [h \in Requests |-> "idle"] /\ loc' = [h \in Requests |-> NoWork]
  BY DEF Crash, BaseInv, TypeOK
<1>2. RowsOK' /\ RedisOK' /\ Unborn'
  BY <1>1, RowsSame, RedisSame
<1>3. TypeOK'
  BY <1>1, <1>2, NoWorkTyped DEF BaseInv, TypeOK
<1>4. \A h \in Requests : pc'[h] = "idle"
  BY <1>1
<1>5. InFlight' = {}
  BY <1>4 DEF InFlight
<1>6. Alone'
  BY <1>4, <1>5, FS_EmptySet DEF Alone
<1>7. \A g \in Requests : OwnWork(g)' /\ Asked(g)'
  BY <1>4 DEF OwnWork, Asked, RiderStep, RedisStep, OfferStep
<1> QED
  BY <1>1, <1>2, <1>3, <1>4, <1>6, <1>7 DEF BaseInv

LEMMA BaseInit == Init => BaseInv
<1> SUFFICES ASSUME Init PROVE BaseInv
  OBVIOUS
<1>1. /\ order = [o \in Orders |-> [status |-> "NONE", rider |-> None]]
      /\ offers = [o \in Orders |-> << >>]
      /\ quote = [o \in Orders |-> [r \in Riders |-> "NONE"]]
      /\ commission = {} /\ meta = [o \in Orders |-> NoMeta] /\ fence = [o \in Orders |-> {}]
      /\ pc = [h \in Requests |-> "idle"] /\ loc = [h \in Requests |-> NoWork]
      /\ scenario \in Scenarios /\ crashes = 0
  BY DEF Init
<1>2. [status |-> "NONE", rider |-> None] \in OrderRow /\ NoMeta \in OrderRow
  BY DEF OrderRow, Statuses, NoMeta
<1>3. RowsOK
  BY <1>1, <1>2 DEF RowsOK, QuoteRow
<1>4. RedisOK
  BY <1>1, <1>2 DEF RedisOK
<1>5. TypeOK
  BY <1>1, <1>3, <1>4, NoWorkTyped DEF TypeOK
<1>6. \A h \in Requests : pc[h] = "idle"
  BY <1>1
<1>7. InFlight = {}
  BY <1>6 DEF InFlight
<1>8. Alone
  BY <1>6, <1>7, FS_EmptySet DEF Alone
<1>9. Unborn
  BY <1>1 DEF Unborn
<1>10. \A h \in Requests : OwnWork(h) /\ Asked(h)
  BY <1>6 DEF OwnWork, Asked, RiderStep, RedisStep, OfferStep
<1> QED
  BY <1>5, <1>8, <1>9, <1>10 DEF BaseInv

\* A step of a handler.
Handles(h) ==
    \/ Create(h) \/ AcceptRead(h) \/ RejectRead(h) \/ TakeRead(h)
    \/ CancelOrder(h) \/ StatusRead(h) \/ GeofenceRead(h) \/ QuoteRead(h)
    \/ HaggleRead(h) \/ AcceptQuoteRead(h) \/ CancelQuoteRead(h)
    \/ Continue(h) \/ \E o \in Orders : TimeoutClaim(h, o)

Around ==
    \/ \E o \in Orders : \E i \in DOMAIN offers[o] : Expire(o, i)
    \/ \E o \in Orders : RedisForgets(o)
    \/ Crash

LEMMA NextCases == Next => (\E h \in Requests : Handles(h)) \/ Around
  BY DEF Next, Handles, Around, Timeout, TimePasses

LEMMA BaseHandles ==
    ASSUME BaseInv, NEW h \in Requests, Handles(h)
    PROVE  BaseInv'
<1>1. Continue(h) => BaseInv'
  BY BaseNextChoose, BaseMarks, BaseNextOffer, BaseTimeoutReread, BaseAcceptWrite,
     BaseRejectWrite, BaseTakeWrite, BaseStatusWrite, BaseStatusRemember, BaseCommissionWrite,
     BaseCancelForget, BaseGeofenceWrite, BaseGeofenceRemember, BaseQuoteInsert,
     BaseHaggleWrite, BaseAcceptQuoteWrite, BaseCancelQuoteWrite, BaseCancelQuoteRecount
     DEF Continue
<1> QED
  BY <1>1, BaseCreate, BaseReads, BaseCancelOrder, BaseGeofenceRead, BaseTimeoutClaim DEF Handles

LEMMA BaseStutter ==
    ASSUME BaseInv, UNCHANGED vars
    PROVE  BaseInv'
  BY DEF BaseInv, TypeOK, RowsOK, RedisOK, Unborn, Born, Alone, InFlight, OwnWork, Asked,
         Redis, vars, redis

LEMMA BaseNext == BaseInv /\ [Next]_vars => BaseInv'
<1> SUFFICES ASSUME BaseInv, [Next]_vars PROVE BaseInv'
  OBVIOUS
<1>1. CASE \E h \in Requests : Handles(h)
  BY <1>1, BaseHandles
<1>2. CASE Around
  BY <1>2, BaseExpire, BaseRedisForgets, BaseCrash DEF Around
<1>3. CASE UNCHANGED vars
  BY <1>3, BaseStutter
<1> QED
  BY <1>1, <1>2, <1>3, NextCases

\* The rows keep their types; a handler works on an order that exists and on
\* an offer that is there; an order that does not exist has neither offers nor
\* proposals; and with one request at a time no two handlers are in flight.
THEOREM BaseHolds == Spec => []BaseInv
  BY BaseInit, BaseNext, PTL DEF Spec

\* Whoever takes a step is in flight or finds room to start.
LEMMA HandlesSole ==
    ASSUME BaseInv, NEW h \in Requests, Handles(h)
    PROVE  Sole(h)
<1>1. Continue(h) => pc[h] # "idle"
  BY DEF Continue, At, NextChoose, NextGiveUp, NextOffer, NextMark, TimeoutReread, AcceptWrite,
         RejectWrite, TakeWrite, StatusWrite, StatusRemember, CommissionWrite, CancelForget,
         GeofenceWrite, GeofenceRemember, QuoteInsert, QuoteMark, HaggleWrite, AcceptQuoteWrite,
         CancelQuoteWrite, CancelQuoteRecount, CancelQuoteReopen
<1>2. ~Continue(h) => Room
  BY DEF Handles, Room, MayStart, Create, AcceptRead, RejectRead, TakeRead, CancelOrder,
         StatusRead, GeofenceRead, QuoteRead, HaggleRead, AcceptQuoteRead, CancelQuoteRead,
         QuoteStep, TimeoutClaim
<1> QED
  BY <1>1, <1>2, RoomSole, BusySole DEF Sole

\* The others do not move.
OthersStay(h) == /\ scenario' = scenario
                 /\ \A g \in Requests \ {h} : pc'[g] = pc[g] /\ loc'[g] = loc[g]

LEMMA HandlesStays ==
    ASSUME BaseInv, NEW h \in Requests, Handles(h)
    PROVE  OthersStay(h)
<1>a. \A step, w : Step(h, step, w) => OthersStay(h)
  BY StepFacts DEF BaseInv, OthersStay
<1>b. \A step, w : Go(h, step, w) => OthersStay(h)
  BY <1>a, GoStep
<1>c. Finish(h) => OthersStay(h)
  BY <1>b DEF Finish
<1>1. Create(h) => OthersStay(h)
  BY <1>b, <1>c DEF Create
<1>2. AcceptRead(h) \/ RejectRead(h) \/ TakeRead(h) => OthersStay(h)
  BY <1>b DEF AcceptRead, RejectRead, TakeRead
<1>3. CancelOrder(h) \/ StatusRead(h) \/ GeofenceRead(h) \/ QuoteRead(h) => OthersStay(h)
  BY <1>a, <1>b, <1>c DEF CancelOrder, StatusRead, GeofenceRead, QuoteRead
<1>4. HaggleRead(h) \/ AcceptQuoteRead(h) \/ CancelQuoteRead(h) => OthersStay(h)
  BY <1>b DEF HaggleRead, AcceptQuoteRead, CancelQuoteRead, QuoteStep
<1>5. \A o \in Orders : TimeoutClaim(h, o) => OthersStay(h)
  BY <1>b DEF TimeoutClaim
<1>6. NextChoose(h) \/ NextGiveUp(h) \/ NextOffer(h) \/ NextMark(h) \/ TimeoutReread(h) => OthersStay(h)
  BY <1>b, <1>c DEF NextChoose, NextGiveUp, NextOffer, NextMark, TimeoutReread
<1>7. AcceptWrite(h) \/ RejectWrite(h) \/ TakeWrite(h) => OthersStay(h)
  BY <1>b, <1>c DEF AcceptWrite, RejectWrite, TakeWrite
<1>8. StatusWrite(h) \/ StatusRemember(h) \/ CommissionWrite(h) \/ CancelForget(h) => OthersStay(h)
  BY <1>a, <1>b, <1>c DEF StatusWrite, StatusRemember, CommissionWrite, CancelForget
<1>9. GeofenceWrite(h) \/ GeofenceRemember(h) => OthersStay(h)
  BY <1>a, <1>b, <1>c DEF GeofenceWrite, GeofenceRemember
<1>10. QuoteInsert(h) \/ QuoteMark(h) \/ HaggleWrite(h) \/ AcceptQuoteWrite(h) => OthersStay(h)
  BY <1>b, <1>c DEF QuoteInsert, QuoteMark, HaggleWrite, AcceptQuoteWrite
<1>11. CancelQuoteWrite(h) \/ CancelQuoteRecount(h) \/ CancelQuoteReopen(h) => OthersStay(h)
  BY <1>b, <1>c DEF CancelQuoteWrite, CancelQuoteRecount, CancelQuoteReopen
<1>12. Continue(h) => OthersStay(h)
  BY <1>6, <1>7, <1>8, <1>9, <1>10, <1>11 DEF Continue
<1> QED
  BY <1>1, <1>2, <1>3, <1>4, <1>5, <1>12 DEF Handles

(***************************************************************************)
(* Offers.  An order has one offer that waits or one handler that is about *)
(* to make the next one, never two: who claims the offer takes its place.  *)
(***************************************************************************)
\* A rejection offers the order again without a claim on the offer (rejectDispatch).
OneAsker(sc) == sc.width = 1 \/ "reject" \notin sc.kinds

TokenStep == {"reread", "choose", "offer"}

Sent(o) == {i \in DOMAIN offers[o] : offers[o][i].status = "SENT"}

OfferPart ==
    \A o \in Orders : \A i, j \in DOMAIN offers[o] : i # j =>
        /\ offers[o][i].rider # offers[o][j].rider
        /\ ~(offers[o][i].status = "SENT" /\ offers[o][j].status = "SENT")

Token(h) == LET o == loc[h].order IN
    /\ pc[h] \in TokenStep => Sent(o) = {}
    /\ pc[h] = "offer" => loc[h].rider \notin Tried(o)
    /\ pc[h] = "reject" /\ scenario.width = 1 => loc[h].offer \in Sent(o)

Tokens == \A g, h \in Requests :
    g # h /\ pc[g] \in TokenStep /\ pc[h] \in TokenStep => loc[g].order # loc[h].order

OfferInv == /\ BaseInv
            /\ OneAsker(scenario) => /\ OfferPart /\ Tokens
                                     /\ \A h \in Requests : Token(h)

\* No offer is made, and none that was answered waits again.
Fewer == \A o \in Orders :
    /\ DOMAIN offers'[o] = DOMAIN offers[o]
    /\ \A i \in DOMAIN offers[o] :
          /\ offers'[o][i].rider = offers[o][i].rider
          /\ offers'[o][i].status = "SENT" => offers[o][i].status = "SENT"

LEMMA FewerFacts ==
    ASSUME Fewer
    PROVE  /\ OfferPart => OfferPart'
           /\ \A o \in Orders : Sent(o)' \subseteq Sent(o) /\ Tried(o)' = Tried(o)
<1>1. OfferPart => OfferPart'
  BY DEF Fewer, OfferPart
<1>2. ASSUME NEW o \in Orders
      PROVE  Sent(o)' \subseteq Sent(o) /\ Tried(o)' = Tried(o)
  BY DEF Fewer, Sent, Tried
<1> QED
  BY <1>1, <1>2

\* A step of the handler h that makes no offer: the others keep their part, and
\* h does not become a second handler that is about to ask a rider.
LEMMA OfferKeeps ==
    ASSUME OfferInv, OneAsker(scenario), BaseInv', NEW h \in Requests, OthersStay(h), Sole(h),
           Fewer, Token(h)',
           pc'[h] \in TokenStep =>
               \A g \in Requests \ {h} : pc[g] \in TokenStep => loc[g].order # loc'[h].order
    PROVE  OfferInv'
<1>1. OfferPart' /\ \A o \in Orders : Sent(o)' \subseteq Sent(o) /\ Tried(o)' = Tried(o)
  BY FewerFacts DEF OfferInv
<1>2. Tokens'
  BY DEF OfferInv, Tokens, OthersStay
<1>3. \A g \in Requests : Token(g)'
  <2> TAKE g \in Requests
  <2>1. CASE g = h
    BY <2>1
  <2>2. CASE g # h
    <3>1. pc'[g] = pc[g] /\ loc'[g] = loc[g] /\ scenario' = scenario
      BY <2>2 DEF OthersStay
    <3>2. pc[g] # "idle" => loc[g].order \in Orders
      BY DEF OfferInv, BaseInv, OwnWork
    <3>3. pc[g] = "reject" => scenario.width # 1
      BY <2>2 DEF Sole
    <3> QED
      BY <1>1, <3>1, <3>2, <3>3 DEF OfferInv, Token, TokenStep
  <2> QED
    BY <2>1, <2>2
<1> QED
  BY <1>1, <1>2, <1>3 DEF OfferInv

LEMMA OfferQuiet ==
    ASSUME OfferInv, BaseInv', NEW h \in Requests, OthersStay(h), Sole(h),
           Fewer, pc'[h] \notin TokenStep \cup {"reject"}
    PROVE  OfferInv'
<1>1. Token(h)'
  BY DEF Token, TokenStep
<1>2. scenario' = scenario
  BY DEF OthersStay
<1> QED
  BY <1>1, <1>2, OfferKeeps DEF OfferInv

\* The handlers that change no offer and are not about to.
LEMMA QuietHandlers ==
    ASSUME BaseInv, NEW h \in Requests,
           \/ AcceptRead(h) \/ TakeRead(h) \/ CancelOrder(h) \/ StatusRead(h) \/ GeofenceRead(h)
           \/ QuoteRead(h) \/ HaggleRead(h) \/ AcceptQuoteRead(h) \/ CancelQuoteRead(h)
           \/ NextGiveUp(h) \/ NextMark(h) \/ StatusWrite(h) \/ StatusRemember(h)
           \/ CommissionWrite(h) \/ CancelForget(h) \/ GeofenceWrite(h) \/ GeofenceRemember(h)
           \/ QuoteInsert(h) \/ QuoteMark(h) \/ HaggleWrite(h) \/ AcceptQuoteWrite(h)
           \/ CancelQuoteWrite(h) \/ CancelQuoteRecount(h) \/ CancelQuoteReopen(h)
    PROVE  offers' = offers /\ pc'[h] \notin TokenStep \cup {"reject"}
<1> DEFINE Calm == pc'[h] \notin TokenStep \cup {"reject"}
<1>a. \A w : \A step : Step(h, step, w) /\ step \notin TokenStep \cup {"reject"} => Calm
  BY StepFacts DEF BaseInv
<1>b. \A w : \A step : Go(h, step, w) /\ step \notin TokenStep \cup {"reject"} => Calm
  BY <1>a, GoStep
<1>c. Finish(h) => Calm
  BY <1>b DEF Finish, TokenStep
<1>d. \A step : step \in {"idle", "accept", "take", "forget", "status", "arrive", "quote", "haggle",
                          "acceptQuote", "cancelQuote", "remember", "commission", "arrived",
                          "quoteMark", "recount", "reopen"} => step \notin TokenStep \cup {"reject"}
  BY DEF TokenStep
<1> HIDE DEF Calm
<1>1. AcceptRead(h) \/ TakeRead(h) => offers' = offers /\ Calm
  BY <1>b, <1>d DEF AcceptRead, TakeRead, rows
<1>2. CancelOrder(h) => offers' = offers /\ Calm
  BY <1>b, <1>c, <1>d DEF CancelOrder
<1>3. StatusRead(h) => offers' = offers /\ Calm
  BY <1>b, <1>d DEF StatusRead, rows
<1>4. GeofenceRead(h) => offers' = offers /\ Calm
  BY <1>a, <1>d DEF GeofenceRead, rows
<1>5. QuoteRead(h) \/ HaggleRead(h) \/ AcceptQuoteRead(h) \/ CancelQuoteRead(h) => offers' = offers /\ Calm
  BY <1>b, <1>d DEF QuoteRead, HaggleRead, AcceptQuoteRead, CancelQuoteRead, QuoteStep, rows
<1>6. NextGiveUp(h) \/ NextMark(h) \/ CommissionWrite(h) \/ QuoteMark(h) \/ HaggleWrite(h)
      \/ AcceptQuoteWrite(h) \/ CancelQuoteReopen(h) => offers' = offers /\ Calm
  BY <1>c DEF NextGiveUp, NextMark, CommissionWrite, QuoteMark, HaggleWrite, AcceptQuoteWrite,
              CancelQuoteReopen
<1>7. StatusWrite(h) => offers' = offers /\ Calm
  BY <1>b, <1>c, <1>d DEF StatusWrite
<1>8. StatusRemember(h) \/ CancelForget(h) \/ GeofenceRemember(h) => offers' = offers /\ Calm
  BY <1>a, <1>d DEF StatusRemember, CancelForget, GeofenceRemember, rows
<1>9. GeofenceWrite(h) \/ CancelQuoteWrite(h) => offers' = offers /\ Calm
  BY <1>b, <1>d DEF GeofenceWrite, CancelQuoteWrite
<1>10. QuoteInsert(h) \/ CancelQuoteRecount(h) => offers' = offers /\ Calm
  BY <1>b, <1>c, <1>d DEF QuoteInsert, CancelQuoteRecount, rows
<1> QED
  BY <1>1, <1>2, <1>3, <1>4, <1>5, <1>6, <1>7, <1>8, <1>9, <1>10 DEF Calm

LEMMA OfferCreate ==
    ASSUME OfferInv, BaseInv', OneAsker(scenario), NEW h \in Requests, Create(h)
    PROVE  OfferInv'
<1>1. PICK o \in scenario.orders :
         /\ order[o].status = "NONE" /\ pc[h] = "idle" /\ offers' = offers
         /\ IF "dispatch" \in scenario.kinds
              THEN Go(h, "choose", [NoWork EXCEPT !.order = o])
              ELSE Finish(h)
  BY DEF Create
<1>2. o \in Orders /\ ~Born(o) /\ offers[o] = << >>
  BY <1>1, ScenarioAssumption DEF OfferInv, BaseInv, TypeOK, Born, Unborn
<1>3. OthersStay(h) /\ Sole(h) /\ Fewer
  BY <1>1, HandlesStays, HandlesSole DEF Handles, OfferInv, Fewer
<1>4. CASE "dispatch" \in scenario.kinds
  <2> DEFINE w == [NoWork EXCEPT !.order = o]
  <2>1. w.order = o
    BY DEF NoWork
  <2>2. Go(h, "choose", w)
    BY <1>1, <1>4
  <2> HIDE DEF w
  <2>3. pc'[h] = "choose" /\ loc'[h] = w
    BY <2>2, GoStep, StepFacts DEF OfferInv, BaseInv
  <2>4. Token(h)'
    BY <1>1, <1>2, <2>1, <2>3 DEF Token, Sent
  <2>5. \A g \in Requests \ {h} : pc[g] \in TokenStep => loc[g].order # loc'[h].order
    BY <1>2, <2>1, <2>3 DEF OfferInv, BaseInv, OwnWork, TokenStep
  <2> QED
    BY <1>3, <2>4, <2>5, OfferKeeps
<1>5. CASE "dispatch" \notin scenario.kinds
  <2>1. pc'[h] = "idle"
    BY <1>1, <1>5, GoStep, StepFacts DEF OfferInv, BaseInv, Finish
  <2> QED
    BY <1>3, <2>1, OfferQuiet DEF TokenStep
<1> QED
  BY <1>4, <1>5

LEMMA OfferNextChoose ==
    ASSUME OfferInv, BaseInv', OneAsker(scenario), NEW h \in Requests, NextChoose(h)
    PROVE  OfferInv'
<1>1. pc[h] = "choose" /\ offers' = offers
  BY DEF NextChoose, At, rows
<1>2. OthersStay(h) /\ Sole(h) /\ Fewer
  BY <1>1, HandlesStays, HandlesSole DEF Handles, Continue, OfferInv, Fewer
<1>3. Token(h) /\ loc[h] \in Work
  BY DEF OfferInv, BaseInv, TypeOK
<1>4. CASE Go(h, "giveUp", loc[h])
  <2>1. pc'[h] = "giveUp"
    BY <1>4, GoStep, StepFacts DEF OfferInv, BaseInv
  <2> QED
    BY <1>2, <2>1, OfferQuiet DEF TokenStep
<1>5. CASE \E r \in Eligible(loc[h].order) : Go(h, "offer", [loc[h] EXCEPT !.rider = r])
  <2> PICK r \in Eligible(loc[h].order) : Go(h, "offer", [loc[h] EXCEPT !.rider = r])
    BY <1>5
  <2> DEFINE w == [loc[h] EXCEPT !.rider = r]
  <2>1. w.order = loc[h].order /\ w.rider = r
    BY <1>3 DEF Work
  <2>2. Go(h, "offer", w)
    OBVIOUS
  <2> HIDE DEF w
  <2>3. pc'[h] = "offer" /\ loc'[h] = w
    BY <2>2, GoStep, StepFacts DEF OfferInv, BaseInv
  <2>4. r \notin Tried(loc[h].order)
    BY DEF Eligible
  <2>5. Token(h)'
    BY <1>1, <1>3, <2>1, <2>3, <2>4 DEF Token, Sent, Tried, TokenStep
  <2>6. \A g \in Requests \ {h} : pc[g] \in TokenStep => loc[g].order # loc'[h].order
    BY <1>1, <2>1, <2>3 DEF OfferInv, Tokens, TokenStep
  <2> QED
    BY <1>2, <2>5, <2>6, OfferKeeps
<1> QED
  BY <1>4, <1>5 DEF NextChoose

\* The rider was not asked before, and nobody else is being asked.
LEMMA OfferNextOffer ==
    ASSUME OfferInv, BaseInv', OneAsker(scenario), NEW h \in Requests, NextOffer(h)
    PROVE  OfferInv'
<1> DEFINE o == loc[h].order
           n == [rider |-> loc[h].rider, status |-> "SENT", late |-> 0]
           q == Append(offers[o], n)
<1>1. pc[h] = "offer" /\ offers' = [offers EXCEPT ![o] = q]
  BY DEF NextOffer, At
<1>2. OthersStay(h) /\ Sole(h)
  BY HandlesStays, HandlesSole DEF Handles, Continue, OfferInv
<1>3. o \in Orders /\ offers \in [Orders -> Seq(OfferRow)] /\ offers[o] \in Seq(OfferRow)
  BY <1>1 DEF OfferInv, BaseInv, TypeOK, RowsOK, OwnWork
<1>4. Sent(o) = {} /\ loc[h].rider \notin Tried(o)
  BY <1>1 DEF OfferInv, Token, TokenStep
<1>5. pc'[h] = "mark" /\ scenario' = scenario
  BY GoStep, StepFacts DEF OfferInv, BaseInv, NextOffer
<1>6. n.rider = loc[h].rider /\ n.status = "SENT"
  OBVIOUS
<1> DEFINE k == Len(offers[o]) + 1
<1>7. /\ k \in Nat /\ DOMAIN offers[o] = 1 .. k - 1 /\ DOMAIN q = 1 .. k /\ q[k] = n
      /\ \A i \in 1 .. k - 1 : q[i] = offers[o][i]
  BY <1>3
<1>8. \A i \in 1 .. k : i # k => i \in 1 .. k - 1
  BY <1>7
<1> HIDE DEF n, q, k
<1>9. offers'[o] = q /\ \A p \in Orders \ {o} : offers'[p] = offers[p]
  BY <1>1, <1>3
<1>10. \A i \in DOMAIN offers[o] : offers[o][i].rider # n.rider /\ offers[o][i].status # "SENT"
  BY <1>4, <1>6 DEF Sent, Tried
<1>11. OfferPart'
  <2> SUFFICES ASSUME NEW p \in Orders, NEW i \in DOMAIN offers'[p], NEW j \in DOMAIN offers'[p], i # j
               PROVE  /\ offers'[p][i].rider # offers'[p][j].rider
                      /\ ~(offers'[p][i].status = "SENT" /\ offers'[p][j].status = "SENT")
    BY DEF OfferPart
  <2>1. CASE p # o
    BY <1>9, <2>1 DEF OfferInv, OfferPart
  <2>2. CASE p = o
    <3>1. i \in 1 .. k /\ j \in 1 .. k
      BY <1>7, <1>9, <2>2
    <3>2. CASE i = k
      BY <1>7, <1>8, <1>9, <1>10, <2>2, <3>1, <3>2
    <3>3. CASE j = k
      BY <1>7, <1>8, <1>9, <1>10, <2>2, <3>1, <3>3
    <3>4. CASE i # k /\ j # k
      <4>1. i \in DOMAIN offers[o] /\ j \in DOMAIN offers[o] /\ q[i] = offers[o][i] /\ q[j] = offers[o][j]
        BY <1>7, <1>8, <3>1, <3>4
      <4> QED
        BY <1>3, <1>9, <2>2, <4>1 DEF OfferInv, OfferPart
    <3> QED
      BY <3>2, <3>3, <3>4
  <2> QED
    BY <2>1, <2>2
<1>12. Tokens'
  BY <1>2, <1>5 DEF OfferInv, Tokens, OthersStay, TokenStep
<1>13. \A g \in Requests : Token(g)'
  <2> TAKE g \in Requests
  <2>1. CASE g = h
    BY <1>5, <2>1 DEF Token, TokenStep
  <2>2. CASE g # h
    <3>1. pc'[g] = pc[g] /\ loc'[g] = loc[g]
      BY <1>2, <2>2 DEF OthersStay
    <3>2. pc[g] # "idle" => loc[g].order \in Orders
      BY DEF OfferInv, BaseInv, OwnWork
    <3>3. pc[g] = "reject" => scenario.width # 1
      BY <1>2, <2>2 DEF Sole
    <3>4. pc[g] \in TokenStep => loc[g].order # o
      BY <1>1, <2>2 DEF OfferInv, Tokens, TokenStep
    <3>5. pc[g] \in TokenStep => offers'[loc[g].order] = offers[loc[g].order]
      BY <1>9, <3>2, <3>4 DEF TokenStep
    <3> QED
      BY <1>5, <3>1, <3>3, <3>5 DEF OfferInv, Token, Sent, Tried, TokenStep
  <2> QED
    BY <2>1, <2>2
<1> QED
  BY <1>5, <1>11, <1>12, <1>13 DEF OfferInv

\* Whoever claims the offer takes its place: nobody else was about to ask.
LEMMA OfferTimeoutClaim ==
    ASSUME OfferInv, BaseInv', OneAsker(scenario), NEW h \in Requests, NEW o \in Orders,
           TimeoutClaim(h, o)
    PROVE  OfferInv'
<1>1. PICK i \in DOMAIN offers[o] :
         /\ TimedOut(offers[o][i])
         /\ offers' = [offers EXCEPT ![o][i].status = "TIMEOUT"]
         /\ Go(h, "reread", [NoWork EXCEPT !.order = o])
  BY DEF TimeoutClaim
<1>2. OfferIs(o, i, "TIMEOUT")
  BY <1>1, OfferSet DEF OfferInv
<1>3. OthersStay(h) /\ Sole(h)
  BY HandlesStays, HandlesSole DEF Handles, OfferInv
<1>4. Fewer
  BY <1>2 DEF OfferIs, Fewer
<1> DEFINE w == [NoWork EXCEPT !.order = o]
<1>5. w.order = o
  BY DEF NoWork
<1>6. Go(h, "reread", w)
  BY <1>1
<1> HIDE DEF w
<1>7. pc'[h] = "reread" /\ loc'[h] = w
  BY <1>6, GoStep, StepFacts DEF OfferInv, BaseInv
<1>8. i \in Sent(o) /\ \A j \in DOMAIN offers[o] : j # i => offers[o][j].status # "SENT"
  BY <1>1 DEF Sent, TimedOut, OfferInv, OfferPart
<1>9. Sent(o)' = {}
  BY <1>2, <1>8 DEF OfferIs, Sent
<1>10. Token(h)'
  BY <1>5, <1>7, <1>9 DEF Token
<1>11. \A g \in Requests \ {h} : pc[g] \in TokenStep => loc[g].order # loc'[h].order
  BY <1>5, <1>7, <1>8 DEF OfferInv, Token
<1> QED
  BY <1>3, <1>4, <1>10, <1>11, OfferKeeps

LEMMA OfferTimeoutReread ==
    ASSUME OfferInv, BaseInv', OneAsker(scenario), NEW h \in Requests, TimeoutReread(h)
    PROVE  OfferInv'
<1>1. pc[h] = "reread" /\ offers' = offers
  BY DEF TimeoutReread, At, rows
<1>2. OthersStay(h) /\ Sole(h) /\ Fewer
  BY <1>1, HandlesStays, HandlesSole DEF Handles, Continue, OfferInv, Fewer
<1>3. CASE Go(h, "choose", loc[h])
  <2>1. pc'[h] = "choose" /\ loc'[h] = loc[h]
    BY <1>3, GoStep, StepFacts DEF OfferInv, BaseInv
  <2>2. Token(h)'
    BY <1>1, <2>1 DEF OfferInv, Token, Sent, TokenStep
  <2>3. \A g \in Requests \ {h} : pc[g] \in TokenStep => loc[g].order # loc'[h].order
    BY <1>1, <2>1 DEF OfferInv, Tokens, TokenStep
  <2> QED
    BY <1>2, <2>2, <2>3, OfferKeeps
<1>4. CASE Finish(h)
  <2>1. pc'[h] = "idle"
    BY <1>4, GoStep, StepFacts DEF OfferInv, BaseInv, Finish
  <2> QED
    BY <1>2, <2>1, OfferQuiet DEF TokenStep
<1> QED
  BY <1>3, <1>4 DEF TimeoutReread

LEMMA OfferRejectRead ==
    ASSUME OfferInv, BaseInv', OneAsker(scenario), NEW h \in Requests, RejectRead(h)
    PROVE  OfferInv'
<1>1. PICK o \in Orders : \E i \in DOMAIN offers[o] :
         /\ offers[o][i].status = "SENT"
         /\ Go(h, "reject", [NoWork EXCEPT !.order = o, !.offer = i])
         /\ UNCHANGED rows
  BY DEF RejectRead
<1>2. PICK i \in DOMAIN offers[o] :
         /\ offers[o][i].status = "SENT"
         /\ Go(h, "reject", [NoWork EXCEPT !.order = o, !.offer = i])
         /\ UNCHANGED rows
  BY <1>1
<1>3. offers' = offers /\ i \in Sent(o)
  BY <1>2 DEF rows, Sent
<1>4. OthersStay(h) /\ Sole(h) /\ Fewer
  BY <1>3, HandlesStays, HandlesSole DEF Handles, OfferInv, Fewer
<1> DEFINE w == [NoWork EXCEPT !.order = o, !.offer = i]
<1>5. w.order = o /\ w.offer = i
  BY DEF NoWork
<1>6. Go(h, "reject", w)
  BY <1>2
<1> HIDE DEF w
<1>7. pc'[h] = "reject" /\ loc'[h] = w
  BY <1>6, GoStep, StepFacts DEF OfferInv, BaseInv
<1>8. Token(h)'
  BY <1>3, <1>5, <1>7 DEF Token, Sent, TokenStep
<1> QED
  BY <1>4, <1>7, <1>8, OfferKeeps DEF TokenStep

LEMMA OfferRejectWrite ==
    ASSUME OfferInv, BaseInv', OneAsker(scenario), NEW h \in Requests, RejectWrite(h)
    PROVE  OfferInv'
<1> DEFINE o == loc[h].order
           i == loc[h].offer
<1>1. /\ pc[h] = "reject" /\ Go(h, "choose", loc[h])
      /\ offers' = [offers EXCEPT ![o][i].status = "REJECTED"]
  BY DEF RejectWrite, At
<1>2. o \in Orders /\ i \in DOMAIN offers[o] /\ Asked(h)
  BY <1>1, Working DEF OwnWork, OfferInv
<1>3. scenario.width = 1
  BY <1>1, <1>2 DEF OneAsker, Asked
<1>4. OthersStay(h) /\ Sole(h)
  BY HandlesStays, HandlesSole DEF Handles, Continue, OfferInv
<1>5. pc'[h] = "choose" /\ loc'[h] = loc[h]
  BY <1>1, GoStep, StepFacts DEF OfferInv, BaseInv
<1>6. i \in Sent(o)
  BY <1>1, <1>3 DEF OfferInv, Token
<1> HIDE DEF i
<1>7. OfferIs(o, i, "REJECTED")
  BY <1>1, <1>2, OfferSet DEF OfferInv
<1>8. Fewer
  BY <1>7 DEF OfferIs, Fewer
<1>9. \A j \in DOMAIN offers[o] : j # i => offers[o][j].status # "SENT"
  BY <1>2, <1>6 DEF Sent, OfferInv, OfferPart
<1>10. \A j \in DOMAIN offers'[o] : offers'[o][j].status # "SENT"
  BY <1>7, <1>9 DEF OfferIs
<1>11. Token(h)'
  BY <1>5, <1>10 DEF Token, Sent
<1>12. \A g \in Requests \ {h} : pc[g] \notin TokenStep
  BY <1>3, <1>4 DEF Sole, TokenStep
<1> QED
  BY <1>4, <1>8, <1>11, <1>12, OfferKeeps

LEMMA OfferAnswered ==
    ASSUME OfferInv, BaseInv', NEW h \in Requests, AcceptWrite(h) \/ TakeWrite(h)
    PROVE  OfferInv'
<1>1. OthersStay(h) /\ Sole(h)
  BY HandlesStays, HandlesSole DEF Handles, Continue, OfferInv
<1>2. Finish(h)
  BY DEF AcceptWrite, TakeWrite
<1>3. pc'[h] = "idle"
  BY <1>2, GoStep, StepFacts DEF OfferInv, BaseInv, Finish
<1>4. CASE AcceptWrite(h)
  <2> DEFINE o == loc[h].order
             i == loc[h].offer
  <2>1. pc[h] = "accept" /\ offers' = [offers EXCEPT ![o][i].status = "ACCEPTED"]
    BY <1>4 DEF AcceptWrite, At
  <2>2. o \in Orders /\ i \in DOMAIN offers[o]
    BY <2>1, Working DEF OwnWork, OfferInv
  <2>3. OfferIs(o, i, "ACCEPTED")
    BY <2>1, <2>2, OfferSet DEF OfferInv
  <2>4. Fewer
    BY <2>3 DEF OfferIs, Fewer
  <2> QED
    BY <1>1, <1>3, <2>4, OfferQuiet DEF TokenStep
<1>5. CASE TakeWrite(h)
  <2>1. OffersTaken(loc[h].order, loc[h].rider)
    BY <1>5, TakeShape DEF OfferInv
  <2>2. Fewer
    BY <2>1 DEF OffersTaken, Fewer
  <2> QED
    BY <1>1, <1>3, <2>2, OfferQuiet DEF TokenStep
<1> QED
  BY <1>4, <1>5

\* Time, a Redis that forgets, a restart.
LEMMA OfferAround ==
    ASSUME OfferInv, BaseInv', Around
    PROVE  OfferInv'
<1>1. ASSUME NEW o \in Orders, NEW i \in DOMAIN offers[o], Expire(o, i)
      PROVE  OfferInv'
  <2>1. /\ UNCHANGED <<scenario, pc, loc>> /\ DOMAIN offers'[o] = DOMAIN offers[o]
        /\ \A j \in DOMAIN offers[o] : /\ offers'[o][j].rider = offers[o][j].rider
                                       /\ offers'[o][j].status = offers[o][j].status
        /\ \A p \in Orders \ {o} : offers'[p] = offers[p]
    BY <1>1, BaseExpire DEF OfferInv
  <2>2. Fewer
    BY <2>1 DEF Fewer
  <2>3. \A p \in Orders : Sent(p)' = Sent(p) /\ Tried(p)' = Tried(p)
    BY <2>1, <2>2, FewerFacts DEF Sent
  <2>4. OneAsker(scenario) => OfferPart' /\ Tokens'
    BY <2>1, <2>2, FewerFacts DEF OfferInv, Tokens
  <2>5. OneAsker(scenario) => \A g \in Requests : Token(g)'
    BY <2>1, <2>3 DEF OfferInv, BaseInv, OwnWork, Token, TokenStep
  <2> QED
    BY <2>1, <2>4, <2>5 DEF OfferInv
<1>2. ASSUME NEW o \in Orders, RedisForgets(o)
      PROVE  OfferInv'
  <2>1. UNCHANGED <<scenario, offers, pc, loc>>
    BY <1>2 DEF RedisForgets, rows
  <2> QED
    BY <2>1 DEF OfferInv, OfferPart, Tokens, Token, Sent, Tried
<1>3. CASE Crash
  <2>1. UNCHANGED <<scenario, offers>> /\ \A h \in Requests : pc'[h] = "idle"
    BY <1>3, BaseCrash DEF OfferInv, rows
  <2> QED
    BY <2>1 DEF OfferInv, OfferPart, Tokens, Token, TokenStep
<1> QED
  BY <1>1, <1>2, <1>3 DEF Around

LEMMA OfferInit == Init => OfferInv
<1> SUFFICES ASSUME Init PROVE OfferInv
  OBVIOUS
<1>1. (\A h \in Requests : pc[h] = "idle") /\ \A o \in Orders : offers[o] = << >>
  BY DEF Init
<1> QED
  BY <1>1, BaseInit DEF OfferInv, OfferPart, Tokens, Token, TokenStep

LEMMA OfferNext == OfferInv /\ [Next]_vars => OfferInv'
<1> SUFFICES ASSUME OfferInv, [Next]_vars PROVE OfferInv'
  OBVIOUS
<1>1. BaseInv /\ BaseInv'
  BY BaseNext DEF OfferInv
<1>2. ASSUME NEW h \in Requests, Handles(h)
      PROVE  OfferInv'
  <2>1. OthersStay(h) /\ Sole(h)
    BY <1>1, <1>2, HandlesStays, HandlesSole
  <2>2. CASE ~OneAsker(scenario)
    BY <1>1, <2>1, <2>2 DEF OfferInv, OthersStay
  <2>3. CASE OneAsker(scenario)
    <3>1. CASE offers' = offers /\ pc'[h] \notin TokenStep \cup {"reject"}
      BY <1>1, <2>1, <3>1, OfferQuiet DEF Fewer
    <3>2. \/ Create(h) \/ NextChoose(h) \/ NextOffer(h) \/ TimeoutReread(h)
          \/ RejectRead(h) \/ RejectWrite(h) \/ AcceptWrite(h) \/ TakeWrite(h)
          \/ \E o \in Orders : TimeoutClaim(h, o)
          \/ (offers' = offers /\ pc'[h] \notin TokenStep \cup {"reject"})
      BY <1>1, <1>2, QuietHandlers DEF Handles, Continue
    <3> QED
      BY <1>1, <2>3, <3>1, <3>2, OfferCreate, OfferNextChoose, OfferNextOffer, OfferTimeoutReread,
         OfferRejectRead, OfferRejectWrite, OfferAnswered, OfferTimeoutClaim
  <2> QED
    BY <2>2, <2>3
<1>3. CASE Around
  BY <1>1, <1>3, OfferAround
<1>4. CASE UNCHANGED vars
  BY <1>1, <1>4 DEF vars, OfferInv, OfferPart, Tokens, Token, Sent, Tried
<1> QED
  BY <1>2, <1>3, <1>4, NextCases

(***************************************************************************)
(* Proposals, where one request follows another.                           *)
(***************************************************************************)
\* acceptQuote writes an order it read earlier, and updateStatus may open it again.
Settles(sc) == sc.width = 1 /\ "reject" \notin sc.kinds /\ sc.targets \cap Opened = {}

QuotePart ==
    \A o \in Orders, r \in Riders : quote[o][r] = "ACCEPTED" =>
        /\ order[o].rider = r
        /\ \A q \in Riders \ {r} : quote[o][q] \notin LiveQuote \cup {"ACCEPTED"}

Accepted(o) == \E r \in Riders : quote[o][r] = "ACCEPTED"

AcceptedCloses == \A o \in Orders : Accepted(o) => order[o].status \notin Opened

Dealing(h) == LET o == loc[h].order IN
    /\ pc[h] \in OfferStep \cup {"quote", "quoteMark", "take"} => order[o].status \in Opened
    /\ pc[h] \in {"haggle", "acceptQuote", "cancelQuote"} => loc[h].rider \in Live(o)
    /\ pc[h] \in {"recount", "reopen"} => ~Accepted(o)
    /\ pc[h] = "take" => order[o].rider = None
    /\ pc[h] = "accept" => order[o].rider \in {None, loc[h].rider}
    /\ pc[h] = "status" => loc[h].status \notin Opened

QuoteInv ==
    /\ BaseInv
    /\ "acceptQuote" \notin scenario.kinds => \A o \in Orders : ~Accepted(o)
    /\ Settles(scenario) => /\ QuotePart /\ AcceptedCloses
                            /\ \A h \in Requests : Dealing(h)

\* Steps at which a handler relies on nothing about the proposals.
FreeStep == {"idle", "reread", "reject", "commission"} \cup RedisStep

LEMMA FreeDeals == ASSUME NEW h, pc[h] \in FreeStep PROVE Dealing(h)
  BY DEF Dealing, FreeStep, RedisStep, OfferStep

LEMMA FreeNext == ASSUME NEW h, pc'[h] \in FreeStep PROVE Dealing(h)'
  BY DEF Dealing, FreeStep, RedisStep, OfferStep

LEMMA QuoteKeeps ==
    ASSUME QuoteInv, BaseInv', NEW h \in Requests, OthersStay(h), Sole(h),
           "acceptQuote" \notin scenario.kinds => \A o \in Orders : ~Accepted(o)',
           Settles(scenario) => QuotePart' /\ AcceptedCloses' /\ Dealing(h)'
    PROVE  QuoteInv'
<1>1. scenario' = scenario
  BY DEF OthersStay
<1>2. ASSUME Settles(scenario), NEW g \in Requests \ {h}
      PROVE  Dealing(g)'
  <2>1. pc'[g] = "idle"
    BY <1>2 DEF OthersStay, Sole, Settles
  <2> QED
    BY <2>1, FreeNext DEF FreeStep
<1>3. Settles(scenario) => \A g \in Requests : Dealing(g)'
  BY <1>2
<1> QED
  BY <1>1, <1>3 DEF QuoteInv

LEMMA DealsSame ==
    ASSUME QuoteInv, BaseInv', NEW h \in Requests, OthersStay(h), Sole(h),
           UNCHANGED <<order, quote>>, Settles(scenario) => Dealing(h)'
    PROVE  QuoteInv'
<1>1. QuotePart => QuotePart'
  BY DEF QuotePart
<1>2. AcceptedCloses => AcceptedCloses'
  BY DEF AcceptedCloses, Accepted
<1>3. \A o \in Orders : Accepted(o)' => Accepted(o)
  BY DEF Accepted
<1> QED
  BY <1>1, <1>2, <1>3, QuoteKeeps DEF QuoteInv

LEMMA DealsStatus ==
    ASSUME QuoteInv, BaseInv', NEW h \in Requests, OthersStay(h), Sole(h),
           NEW o \in Orders, NEW s, StatusIs(o, s), quote' = quote, pc'[h] \in FreeStep,
           Settles(scenario) => s \notin Opened \/ ~Accepted(o)
    PROVE  QuoteInv'
<1>1. Settles(scenario) => QuotePart'
  BY DEF QuoteInv, QuotePart, StatusIs
<1>2. Settles(scenario) => AcceptedCloses'
  BY DEF QuoteInv, AcceptedCloses, Accepted, StatusIs
<1>3. \A p \in Orders : Accepted(p)' => Accepted(p)
  BY DEF Accepted
<1> QED
  BY <1>1, <1>2, <1>3, FreeNext, QuoteKeeps DEF QuoteInv

\* While a proposal is open none is accepted.
LEMMA LiveNotAccepted ==
    ASSUME QuotePart, NEW o \in Orders, NEW r \in Live(o)
    PROVE  ~Accepted(o)
  BY DEF QuotePart, Accepted, Live, LiveQuote

\* The handlers that write neither orders nor proposals.
LEMMA DealsRead ==
    ASSUME QuoteInv, BaseInv', NEW h \in Requests, Settles(scenario),
           \/ AcceptRead(h) \/ TakeRead(h) \/ StatusRead(h) \/ QuoteRead(h)
           \/ HaggleRead(h) \/ AcceptQuoteRead(h) \/ CancelQuoteRead(h)
           \/ NextChoose(h) \/ NextOffer(h) \/ TimeoutReread(h) \/ CancelQuoteRecount(h)
    PROVE  Dealing(h)'
<1>a. \A step, w : Go(h, step, w) => pc'[h] = step /\ loc'[h] = w
  BY GoStep, StepFacts DEF QuoteInv, BaseInv
<1>b. Finish(h) => Dealing(h)'
  BY <1>a, FreeNext DEF Finish, FreeStep
<1>c. loc[h] \in Work
  BY DEF QuoteInv, BaseInv, TypeOK
<1>1. CASE AcceptRead(h)
  <2>1. PICK o \in Orders, r \in Riders : \E i \in DOMAIN offers[o] :
           /\ order[o].rider \in {None, r} /\ order' = order
           /\ Go(h, "accept", [NoWork EXCEPT !.order = o, !.rider = r, !.offer = i])
    BY <1>1 DEF AcceptRead, Acceptable, rows
  <2>2. PICK i \in DOMAIN offers[o] : Go(h, "accept", [NoWork EXCEPT !.order = o, !.rider = r, !.offer = i])
    BY <2>1
  <2> DEFINE w == [NoWork EXCEPT !.order = o, !.rider = r, !.offer = i]
  <2>3. w.order = o /\ w.rider = r
    BY DEF NoWork
  <2>4. Go(h, "accept", w)
    BY <2>2
  <2> HIDE DEF w
  <2> QED
    BY <1>a, <2>1, <2>3, <2>4 DEF Dealing, OfferStep
<1>2. CASE TakeRead(h)
  <2>1. PICK o \in Orders, r \in Riders :
           /\ Takeable(o) /\ order' = order
           /\ Go(h, "take", [NoWork EXCEPT !.order = o, !.rider = r])
    BY <1>2 DEF TakeRead, rows
  <2> DEFINE w == [NoWork EXCEPT !.order = o, !.rider = r]
  <2>3. w.order = o
    BY DEF NoWork
  <2>4. Go(h, "take", w)
    BY <2>1
  <2> HIDE DEF w
  <2> QED
    BY <1>a, <2>1, <2>3, <2>4 DEF Dealing, Takeable, Opened, OfferStep
<1>3. CASE StatusRead(h)
  <2>1. PICK o \in Orders, next \in scenario.targets :
           Go(h, "status", [NoWork EXCEPT !.order = o, !.status = next])
    BY <1>3 DEF StatusRead
  <2> DEFINE w == [NoWork EXCEPT !.order = o, !.status = next]
  <2>3. w.order = o /\ w.status = next /\ next \notin Opened
    BY DEF NoWork, Settles
  <2>4. Go(h, "status", w)
    BY <2>1
  <2> HIDE DEF w
  <2> QED
    BY <1>a, <2>3, <2>4 DEF Dealing, OfferStep
<1>4. CASE QuoteRead(h)
  <2>1. PICK o \in Orders, r \in Riders :
           /\ order[o].status \in {"PENDIENTE", "COTIZANDO"} /\ order' = order
           /\ Go(h, "quote", [NoWork EXCEPT !.order = o, !.rider = r, !.status = order[o].status])
    BY <1>4 DEF QuoteRead, rows
  <2> DEFINE w == [NoWork EXCEPT !.order = o, !.rider = r, !.status = order[o].status]
  <2>3. w.order = o
    BY DEF NoWork
  <2>4. Go(h, "quote", w)
    BY <2>1
  <2> HIDE DEF w
  <2> QED
    BY <1>a, <2>1, <2>3, <2>4 DEF Dealing, OfferStep, Opened
<1>5. ASSUME NEW k \in {"haggle", "acceptQuote", "cancelQuote"}, QuoteStep(h, k, k)
      PROVE  Dealing(h)'
  <2>1. PICK o \in Orders : \E r \in Live(o) :
           /\ Go(h, k, [NoWork EXCEPT !.order = o, !.rider = r])
           /\ UNCHANGED rows
    BY <1>5 DEF QuoteStep
  <2>2. PICK r \in Live(o) :
           /\ Go(h, k, [NoWork EXCEPT !.order = o, !.rider = r])
           /\ UNCHANGED rows
    BY <2>1
  <2> DEFINE w == [NoWork EXCEPT !.order = o, !.rider = r]
  <2>3. w.order = o /\ w.rider = r /\ quote' = quote
    BY <2>2 DEF NoWork, rows
  <2>4. Go(h, k, w)
    BY <2>2
  <2> HIDE DEF w
  <2> QED
    BY <1>a, <2>3, <2>4 DEF Dealing, OfferStep, Live
<1>6. CASE NextChoose(h)
  <2>1. pc[h] = "choose" /\ order' = order
    BY <1>6 DEF NextChoose, At, rows
  <2>2. order[loc[h].order].status \in Opened
    BY <2>1 DEF QuoteInv, Dealing, OfferStep
  <2>3. pc'[h] \in {"giveUp", "offer"} /\ loc'[h].order = loc[h].order
    BY <1>6, <1>a, <1>c DEF NextChoose, Work
  <2> QED
    BY <2>1, <2>2, <2>3 DEF Dealing, OfferStep
<1>7. CASE NextOffer(h)
  <2>1. pc[h] = "offer" /\ order' = order /\ pc'[h] = "mark" /\ loc'[h] = loc[h]
    BY <1>7, <1>a DEF NextOffer, At
  <2> QED
    BY <2>1 DEF QuoteInv, Dealing, OfferStep
<1>8. CASE TimeoutReread(h)
  <2>1. CASE Finish(h)
    BY <1>b, <2>1
  <2>2. CASE Go(h, "choose", loc[h]) /\ StillWaiting(loc[h].order)
    <3>1. pc'[h] = "choose" /\ loc'[h] = loc[h] /\ order' = order
      BY <1>8, <1>a, <2>2 DEF TimeoutReread, rows
    <3> QED
      BY <2>2, <3>1 DEF Dealing, StillWaiting, Opened
  <2> QED
    BY <1>8, <2>1, <2>2 DEF TimeoutReread
<1>9. CASE CancelQuoteRecount(h)
  <2>1. CASE Finish(h)
    BY <1>b, <2>1
  <2>2. CASE Go(h, "reopen", loc[h])
    <3>1. pc'[h] = "reopen" /\ loc'[h] = loc[h] /\ quote' = quote /\ pc[h] = "recount"
      BY <1>9, <1>a, <2>2 DEF CancelQuoteRecount, rows, At
    <3> QED
      BY <3>1 DEF QuoteInv, Dealing, OfferStep, Accepted
  <2> QED
    BY <1>9, <2>1, <2>2 DEF CancelQuoteRecount
<1> QED
  BY <1>1, <1>2, <1>3, <1>4, <1>5, <1>6, <1>7, <1>8, <1>9
     DEF HaggleRead, AcceptQuoteRead, CancelQuoteRead

\* The remaining handlers that write neither orders nor proposals.
LEMMA DealsFree ==
    ASSUME QuoteInv, NEW h \in Requests,
           \/ RejectRead(h) \/ GeofenceRead(h) \/ StatusRemember(h) \/ CommissionWrite(h)
           \/ CancelForget(h) \/ GeofenceRemember(h) \/ \E o \in Orders : TimeoutClaim(h, o)
    PROVE  UNCHANGED <<order, quote>> /\ pc'[h] \in FreeStep
<1>a. \A w : \A step : Step(h, step, w) /\ step \in FreeStep => pc'[h] \in FreeStep
  BY StepFacts DEF QuoteInv, BaseInv
<1>b. \A w : \A step : Go(h, step, w) /\ step \in FreeStep => pc'[h] \in FreeStep
  BY <1>a, GoStep
<1>c. \A step : step \in {"idle", "reread", "reject", "arrive", "commission"} => step \in FreeStep
  BY DEF FreeStep, RedisStep
<1> DEFINE Free == pc'[h] \in FreeStep
<1> HIDE DEF Free
<1>d. \A w : \A step : Step(h, step, w) /\ step \in {"idle", "arrive", "commission"} => Free
  BY <1>a, <1>c DEF Free
<1>e. \A w : \A step : Go(h, step, w) /\ step \in {"idle", "reject", "reread"} => Free
  BY <1>b, <1>c DEF Free
<1>1. RejectRead(h) => UNCHANGED <<order, quote>> /\ Free
  BY <1>e DEF RejectRead, rows
<1>2. GeofenceRead(h) => UNCHANGED <<order, quote>> /\ Free
  BY <1>d DEF GeofenceRead, rows
<1>3. StatusRemember(h) => UNCHANGED <<order, quote>> /\ Free
  BY <1>d DEF StatusRemember, rows
<1>4. CommissionWrite(h) => UNCHANGED <<order, quote>> /\ Free
  BY <1>e DEF CommissionWrite, Finish
<1>5. CancelForget(h) => UNCHANGED <<order, quote>> /\ Free
  BY <1>d DEF CancelForget, rows
<1>6. GeofenceRemember(h) => UNCHANGED <<order, quote>> /\ Free
  BY <1>d DEF GeofenceRemember, rows
<1>7. \A o \in Orders : TimeoutClaim(h, o) => UNCHANGED <<order, quote>> /\ Free
  BY <1>e DEF TimeoutClaim
<1> QED
  BY <1>1, <1>2, <1>3, <1>4, <1>5, <1>6, <1>7 DEF Free

\* The handlers that write the status of an order and nothing else of it.
StatusHandlers(h) ==
    \/ CancelOrder(h) \/ NextGiveUp(h) \/ NextMark(h) \/ QuoteMark(h) \/ CancelQuoteReopen(h)
    \/ StatusWrite(h) \/ GeofenceWrite(h)

\* The order whose status is written, and the status.
Writes(h, o, s) ==
    /\ StatusIs(o, s) /\ quote' = quote /\ offers' = offers /\ pc'[h] \in FreeStep
    /\ \/ pc[h] = "idle" /\ CancelOrder(h) /\ s = "CANCELADO"
       \/ /\ loc[h].order = o
          /\ \/ pc[h] \in {"giveUp", "mark", "quoteMark", "reopen"} /\ s \in Opened
             \/ pc[h] \in {"status", "arrive"} /\ s = loc[h].status

LEMMA StatusWrites ==
    ASSUME BaseInv, NEW h \in Requests, StatusHandlers(h)
    PROVE  \E o \in Orders, s \in Statuses : Writes(h, o, s)
<1>a. \A w : \A step : Go(h, step, w) => pc'[h] = step
  BY GoStep, StepFacts DEF BaseInv
<1>b. Finish(h) => pc'[h] \in FreeStep
  BY <1>a DEF Finish, FreeStep
<1>1. CASE CancelOrder(h)
  <2>1. PICK o \in Orders :
           /\ pc[h] = "idle" /\ Born(o) /\ SetStatus(o, "CANCELADO")
           /\ IF Redis THEN Go(h, "forget", [NoWork EXCEPT !.order = o]) ELSE Finish(h)
           /\ UNCHANGED <<offers, quote, commission>>
    BY <1>1 DEF CancelOrder, Born, MayStart
  <2>2. StatusIs(o, "CANCELADO") /\ "CANCELADO" \in Statuses
    BY <2>1, StatusSet DEF Statuses
  <2>3. pc'[h] \in FreeStep
    BY <1>a, <1>b, <2>1 DEF FreeStep, RedisStep
  <2> QED
    BY <1>1, <2>1, <2>2, <2>3 DEF Writes
<1>2. CASE NextGiveUp(h) \/ NextMark(h) \/ QuoteMark(h) \/ CancelQuoteReopen(h)
  <2>1. /\ pc[h] \in {"giveUp", "mark", "quoteMark", "reopen"}
        /\ Finish(h) /\ UNCHANGED <<offers, quote, commission>>
        /\ \E s \in Opened : SetStatus(loc[h].order, s)
    BY <1>2 DEF NextGiveUp, NextMark, QuoteMark, CancelQuoteReopen, At, Opened, WithoutRiders
  <2>2. PICK s \in Opened : SetStatus(loc[h].order, s)
    BY <2>1
  <2>3. loc[h].order \in Orders /\ Born(loc[h].order)
    BY <2>1, Working
  <2>4. s \in Statuses \ {"NONE"}
    BY DEF Statuses, Opened
  <2>5. StatusIs(loc[h].order, s)
    BY <2>1, <2>2, <2>3, <2>4, StatusSet
  <2> QED
    BY <1>b, <2>1, <2>3, <2>4, <2>5 DEF Writes
<1>3. CASE StatusWrite(h)
  <2>1. /\ pc[h] = "status" /\ UNCHANGED <<offers, quote, commission>>
        /\ loc[h].order \in Orders /\ StatusIs(loc[h].order, loc[h].status)
    BY <1>3, StatusWriteShape
  <2>2. pc'[h] \in FreeStep
    BY <1>3, <1>a, <1>b DEF StatusWrite, FreeStep, RedisStep
  <2>3. loc[h].status \in Statuses
    BY DEF BaseInv, TypeOK, Work
  <2> QED
    BY <2>1, <2>2, <2>3 DEF Writes
<1>4. CASE GeofenceWrite(h)
  <2>1. /\ pc[h] = "arrive" /\ SetStatus(loc[h].order, loc[h].status)
        /\ UNCHANGED <<offers, quote, commission>> /\ Go(h, "arrived", loc[h])
    BY <1>4 DEF GeofenceWrite, At
  <2>2. loc[h].order \in Orders /\ Born(loc[h].order) /\ loc[h].status \in Statuses \ {"NONE"}
    BY <2>1, Working DEF OwnWork, Work, ActiveStatus
  <2>3. StatusIs(loc[h].order, loc[h].status)
    BY <2>1, <2>2, StatusSet
  <2>4. pc'[h] \in FreeStep
    BY <1>a, <2>1 DEF FreeStep, RedisStep
  <2> QED
    BY <2>1, <2>2, <2>3, <2>4 DEF Writes
<1> QED
  BY <1>1, <1>2, <1>3, <1>4 DEF StatusHandlers

LEMMA DealsWrites ==
    ASSUME QuoteInv, BaseInv', NEW h \in Requests, OthersStay(h), Sole(h), StatusHandlers(h)
    PROVE  QuoteInv'
<1>1. PICK o \in Orders, s \in Statuses : Writes(h, o, s)
  BY StatusWrites DEF QuoteInv
<1>2. ASSUME Settles(scenario)
      PROVE  s \notin Opened \/ ~Accepted(o)
  <2>1. AcceptedCloses /\ Dealing(h)
    BY <1>2 DEF QuoteInv
  <2>2. CASE s = "CANCELADO"
    BY <2>2 DEF Opened
  <2>3. CASE pc[h] \in {"giveUp", "mark", "quoteMark", "reopen"} /\ loc[h].order = o
    BY <2>1, <2>3 DEF Dealing, AcceptedCloses, OfferStep
  <2>4. CASE pc[h] = "status" /\ loc[h].order = o /\ s = loc[h].status
    BY <2>1, <2>4 DEF Dealing
  <2>5. CASE pc[h] = "arrive" /\ loc[h].order = o /\ s = loc[h].status
    BY <2>5 DEF QuoteInv, BaseInv, OwnWork, ActiveStatus, Opened
  <2> QED
    BY <1>1, <2>2, <2>3, <2>4, <2>5 DEF Writes
<1>3. StatusIs(o, s) /\ quote' = quote /\ pc'[h] \in FreeStep
  BY <1>1 DEF Writes
<1> QED
  BY <1>2, <1>3, DealsStatus

\* The handlers that give an order to a rider.
LEMMA DealsHolder ==
    ASSUME QuoteInv, BaseInv', NEW h \in Requests, OthersStay(h), Sole(h),
           AcceptWrite(h) \/ TakeWrite(h)
    PROVE  QuoteInv'
<1> DEFINE o == loc[h].order
           r == loc[h].rider
<1>1. pc[h] \in {"accept", "take"} /\ quote' = quote /\ SetOrder(o, "ACEPTADO", r) /\ Finish(h)
  BY DEF AcceptWrite, TakeWrite, At
<1>2. o \in Orders /\ r \in Riders
  BY <1>1, Working DEF RiderStep, QuoteInv
<1>3. HolderIs(o, "ACEPTADO", r)
  BY <1>1, <1>2, OrderSet DEF Statuses, ActiveStatus, QuoteInv
<1>4. pc'[h] = "idle"
  BY <1>1, GoStep, StepFacts DEF QuoteInv, BaseInv, Finish
<1>5. \A p \in Orders : Accepted(p)' => Accepted(p)
  BY <1>1 DEF Accepted
<1>6. ASSUME Settles(scenario)
      PROVE  QuotePart' /\ AcceptedCloses'
  <2>1. QuotePart /\ AcceptedCloses /\ Dealing(h)
    BY <1>6 DEF QuoteInv
  <2>2. order[o].rider \in {None, r}
    BY <1>1, <2>1 DEF Dealing
  <2> HIDE DEF o, r
  <2>3. \A q \in Riders : quote[o][q] = "ACCEPTED" => q = r
    BY <1>2, <2>1, <2>2, BoundAssumption DEF QuotePart
  <2>4. QuotePart'
    BY <1>1, <1>2, <1>3, <2>1, <2>3 DEF QuotePart, HolderIs
  <2>5. AcceptedCloses'
    BY <1>1, <1>3, <1>5, <2>1 DEF AcceptedCloses, Opened, HolderIs
  <2> QED
    BY <2>4, <2>5
<1>7. Dealing(h)'
  BY <1>4, FreeNext DEF FreeStep
<1> QED
  BY <1>5, <1>6, <1>7, QuoteKeeps DEF QuoteInv

LEMMA DealsCreate ==
    ASSUME QuoteInv, BaseInv', NEW h \in Requests, OthersStay(h), Sole(h), Create(h)
    PROVE  QuoteInv'
<1>1. PICK o \in scenario.orders :
         /\ order[o].status = "NONE" /\ SetOrder(o, "PENDIENTE", None) /\ quote' = quote
         /\ IF "dispatch" \in scenario.kinds
              THEN Go(h, "choose", [NoWork EXCEPT !.order = o])
              ELSE Finish(h)
  BY DEF Create
<1>2. o \in Orders
  BY <1>1, ScenarioAssumption DEF QuoteInv, BaseInv, TypeOK
<1>3. HolderIs(o, "PENDIENTE", None)
  BY <1>1, <1>2, OrderSet DEF Statuses, Opened, QuoteInv
<1>4. \A r \in Riders : quote[o][r] = "NONE"
  BY <1>1, <1>2 DEF QuoteInv, BaseInv, Unborn, Born
<1>5. \A p \in Orders : Accepted(p)' => Accepted(p) /\ p # o
  BY <1>1, <1>4 DEF Accepted
<1>6. Settles(scenario) => QuotePart' /\ AcceptedCloses'
  <2>1. Settles(scenario) => QuotePart'
    BY <1>1, <1>3, <1>4 DEF QuoteInv, QuotePart, HolderIs
  <2>2. Settles(scenario) => AcceptedCloses'
    BY <1>3, <1>5 DEF QuoteInv, AcceptedCloses, HolderIs
  <2> QED
    BY <2>1, <2>2
<1>7. Dealing(h)'
  <2>1. CASE Go(h, "choose", [NoWork EXCEPT !.order = o])
    <3> DEFINE w == [NoWork EXCEPT !.order = o]
    <3>1. w.order = o
      BY DEF NoWork
    <3> HIDE DEF w
    <3>2. pc'[h] = "choose" /\ loc'[h] = w
      BY <2>1, GoStep, StepFacts DEF QuoteInv, BaseInv, w
    <3> QED
      BY <1>3, <3>1, <3>2 DEF Dealing, HolderIs, Opened
  <2>2. CASE Finish(h)
    BY <2>2, GoStep, StepFacts, FreeNext DEF QuoteInv, BaseInv, Finish, FreeStep
  <2> QED
    BY <1>1, <2>1, <2>2
<1> QED
  BY <1>5, <1>6, <1>7, QuoteKeeps DEF QuoteInv

\* A proposal is made, haggled over or withdrawn: none of its order is accepted.
LEMMA DealsQuote ==
    ASSUME QuoteInv, BaseInv', NEW h \in Requests, OthersStay(h), Sole(h),
           NEW o \in Orders, NEW r \in Riders, NEW s \in QuoteRow \ {"ACCEPTED"},
           QuoteIs(o, r, s), order' = order,
           Settles(scenario) => ~Accepted(o) /\ Dealing(h)'
    PROVE  QuoteInv'
<1>1. \A p \in Orders : Accepted(p)' => Accepted(p)
  BY DEF Accepted, QuoteIs
<1>2. ASSUME Settles(scenario)
      PROVE  QuotePart' /\ AcceptedCloses'
  <2>1. \A q \in Riders : quote'[o][q] # "ACCEPTED"
    BY <1>2 DEF Accepted, QuoteIs
  <2>2. QuotePart'
    BY <1>2, <2>1 DEF QuoteInv, QuotePart, QuoteIs
  <2>3. AcceptedCloses'
    BY <1>1, <1>2 DEF QuoteInv, AcceptedCloses
  <2> QED
    BY <2>2, <2>3
<1> QED
  BY <1>1, <1>2, QuoteKeeps DEF QuoteInv

LEMMA DealsProposal ==
    ASSUME QuoteInv, BaseInv', NEW h \in Requests, OthersStay(h), Sole(h),
           QuoteInsert(h) \/ HaggleWrite(h) \/ CancelQuoteWrite(h)
    PROVE  QuoteInv'
<1> DEFINE o == loc[h].order
           r == loc[h].rider
<1>a. \A step, w : Go(h, step, w) => pc'[h] = step /\ loc'[h] = w
  BY GoStep, StepFacts DEF QuoteInv, BaseInv
<1>b. Finish(h) => Dealing(h)'
  BY <1>a, FreeNext DEF Finish, FreeStep
<1>1. CASE QuoteInsert(h)
  <2>1. pc[h] = "quote" /\ order' = order
    BY <1>1 DEF QuoteInsert, At
  <2>2. o \in Orders /\ r \in Riders
    BY <2>1, Working DEF RiderStep, QuoteInv
  <2>3. Settles(scenario) => order[o].status \in Opened /\ ~Accepted(o)
    BY <2>1, <2>2 DEF QuoteInv, Dealing, AcceptedCloses
  <2>4. CASE quote[o][r] = "NONE"
    <3>1. /\ QuoteIs(o, r, "PENDING") /\ "PENDING" \in QuoteRow \ {"ACCEPTED"}
          /\ Go(h, "quoteMark", loc[h]) \/ Finish(h)
      BY <1>1, <2>4, QuoteInsertShape DEF QuoteInv, QuoteRow, LiveQuote
    <3>2. CASE Finish(h)
      BY <1>b, <2>1, <2>2, <2>3, <3>1, <3>2, DealsQuote
    <3>3. CASE Go(h, "quoteMark", loc[h])
      <4>1. pc'[h] = "quoteMark" /\ loc'[h] = loc[h]
        BY <1>a, <3>3
      <4>2. Settles(scenario) => Dealing(h)'
        BY <2>1, <2>3, <4>1 DEF Dealing
      <4> QED
        BY <2>1, <2>2, <2>3, <3>1, <4>2, DealsQuote
    <3> QED
      BY <3>1, <3>2, <3>3
  <2>5. CASE quote[o][r] # "NONE"
    <3>1. quote' = quote /\ Finish(h)
      BY <1>1, <2>5 DEF QuoteInsert
    <3> QED
      BY <1>b, <2>1, <3>1, DealsSame
  <2> QED
    BY <2>4, <2>5
<1>2. CASE HaggleWrite(h)
  <2>1. /\ pc[h] = "haggle" /\ Finish(h) /\ order' = order /\ o \in Orders /\ r \in Riders
        /\ QuoteIs(o, r, "NEGOTIATING") /\ "NEGOTIATING" \in QuoteRow \ {"ACCEPTED"}
    BY <1>2, HaggleWriteShape DEF QuoteInv, QuoteRow, LiveQuote
  <2>2. Settles(scenario) => ~Accepted(o)
    BY <2>1, LiveNotAccepted DEF QuoteInv, Dealing
  <2> QED
    BY <1>b, <2>1, <2>2, DealsQuote
<1>3. CASE CancelQuoteWrite(h)
  <2>1. /\ pc[h] = "cancelQuote" /\ Go(h, "recount", loc[h]) /\ order' = order
        /\ o \in Orders /\ r \in Riders
        /\ QuoteIs(o, r, "CANCELLED") /\ "CANCELLED" \in QuoteRow \ {"ACCEPTED"}
    BY <1>3, CancelQuoteShape DEF QuoteInv, QuoteRow
  <2>2. Settles(scenario) => ~Accepted(o)
    BY <2>1, LiveNotAccepted DEF QuoteInv, Dealing
  <2>3. pc'[h] = "recount" /\ loc'[h] = loc[h]
    BY <1>a, <2>1
  <2>4. Settles(scenario) => \A q \in Riders : quote'[o][q] # "ACCEPTED"
    BY <2>1, <2>2 DEF Accepted, QuoteIs
  <2>5. Settles(scenario) => Dealing(h)'
    BY <2>3, <2>4 DEF Dealing, OfferStep, Accepted
  <2> QED
    BY <2>1, <2>2, <2>5, DealsQuote
<1> QED
  BY <1>1, <1>2, <1>3

\* The proposal that is accepted was open, so none was accepted before it; the
\* others are closed with it.
LEMMA DealsAccepted ==
    ASSUME QuoteInv, BaseInv', NEW h \in Requests, OthersStay(h), Sole(h), AcceptQuoteWrite(h)
    PROVE  QuoteInv'
<1> DEFINE o == loc[h].order
           r == loc[h].rider
<1>1. /\ pc[h] = "acceptQuote" /\ Finish(h) /\ o \in Orders /\ r \in Riders /\ Asked(h)
      /\ QuoteChosen(o, r) /\ HolderIs(o, "ACEPTADO", r)
  BY AcceptQuoteShape DEF QuoteInv
<1>2. "acceptQuote" \in scenario.kinds
  BY <1>1 DEF Asked
<1>3. Dealing(h)'
  BY <1>1, GoStep, StepFacts, FreeNext DEF QuoteInv, BaseInv, Finish, FreeStep
<1>4. ASSUME Settles(scenario)
      PROVE  QuotePart' /\ AcceptedCloses'
  <2>1. QuotePart /\ AcceptedCloses /\ r \in Live(o)
    BY <1>1, <1>4 DEF QuoteInv, Dealing
  <2>2. ~Accepted(o)
    BY <1>1, <2>1, LiveNotAccepted
  <2> HIDE DEF o, r
  <2>3. \A q \in Riders \ {r} : quote'[o][q] \notin LiveQuote \cup {"ACCEPTED"}
    BY <1>1, <2>2 DEF QuoteChosen, Accepted
  <2>4. QuotePart'
    <3>1. \A p \in Orders \ {o} : quote'[p] = quote[p] /\ order'[p] = order[p]
      BY <1>1 DEF QuoteChosen, HolderIs
    <3>2. order'[o].rider = r
      BY <1>1 DEF HolderIs
    <3> QED
      BY <2>1, <2>3, <3>1, <3>2 DEF QuotePart
  <2>5. AcceptedCloses'
    <3>1. \A p \in Orders \ {o} : quote'[p] = quote[p] /\ order'[p] = order[p]
      BY <1>1 DEF QuoteChosen, HolderIs
    <3>2. order'[o].status \notin Opened
      BY <1>1 DEF HolderIs, Opened
    <3> QED
      BY <2>1, <3>1, <3>2 DEF AcceptedCloses, Accepted
  <2> QED
    BY <2>4, <2>5
<1> QED
  BY <1>2, <1>3, <1>4, QuoteKeeps

LEMMA DealsAround ==
    ASSUME QuoteInv, BaseInv', Around
    PROVE  QuoteInv'
<1>1. UNCHANGED <<scenario, order, quote>>
  BY DEF Around, Expire, RedisForgets, Crash, rows
<1>2. UNCHANGED <<pc, loc>> \/ \A h \in Requests : pc'[h] = "idle"
  BY DEF Around, Expire, RedisForgets, Crash
<1>3. QuotePart => QuotePart'
  BY <1>1 DEF QuotePart
<1>4. AcceptedCloses => AcceptedCloses'
  BY <1>1 DEF AcceptedCloses, Accepted
<1>5. \A o \in Orders : Accepted(o)' => Accepted(o)
  BY <1>1 DEF Accepted
<1>6. ASSUME NEW h \in Requests, Dealing(h)
      PROVE  Dealing(h)'
  <2>1. CASE UNCHANGED <<pc, loc>>
    BY <1>1, <1>6, <2>1 DEF Dealing, Live, Accepted
  <2>2. CASE pc'[h] = "idle"
    BY <2>2, FreeNext DEF FreeStep
  <2> QED
    BY <1>2, <2>1, <2>2
<1> QED
  BY <1>1, <1>3, <1>4, <1>5, <1>6 DEF QuoteInv

LEMMA QuoteInit == Init => QuoteInv
<1> SUFFICES ASSUME Init PROVE QuoteInv
  OBVIOUS
<1>1. (\A h \in Requests : pc[h] = "idle") /\ \A o \in Orders, r \in Riders : quote[o][r] = "NONE"
  BY DEF Init
<1>2. \A h \in Requests : Dealing(h)
  BY <1>1, FreeDeals DEF FreeStep
<1> QED
  BY <1>1, <1>2, BaseInit DEF QuoteInv, QuotePart, AcceptedCloses, Accepted

LEMMA QuoteNext == QuoteInv /\ [Next]_vars => QuoteInv'
<1> SUFFICES ASSUME QuoteInv, [Next]_vars PROVE QuoteInv'
  OBVIOUS
<1>1. BaseInv /\ BaseInv'
  BY BaseNext DEF QuoteInv
<1>2. ASSUME NEW h \in Requests, Handles(h)
      PROVE  QuoteInv'
  <2>1. OthersStay(h) /\ Sole(h)
    BY <1>1, <1>2, HandlesStays, HandlesSole
  <2>2. CASE \/ RejectRead(h) \/ GeofenceRead(h) \/ StatusRemember(h) \/ CommissionWrite(h)
             \/ CancelForget(h) \/ GeofenceRemember(h) \/ \E o \in Orders : TimeoutClaim(h, o)
    BY <1>1, <2>1, <2>2, DealsFree, FreeNext, DealsSame
  <2>3. CASE \/ AcceptRead(h) \/ TakeRead(h) \/ StatusRead(h) \/ QuoteRead(h)
             \/ HaggleRead(h) \/ AcceptQuoteRead(h) \/ CancelQuoteRead(h)
             \/ NextChoose(h) \/ NextOffer(h) \/ TimeoutReread(h) \/ CancelQuoteRecount(h)
    <3>1. UNCHANGED <<order, quote>>
      BY <2>3 DEF AcceptRead, TakeRead, StatusRead, QuoteRead, HaggleRead, AcceptQuoteRead,
                  CancelQuoteRead, QuoteStep, NextChoose, NextOffer, TimeoutReread,
                  CancelQuoteRecount, rows
    <3> QED
      BY <1>1, <2>1, <2>3, <3>1, DealsRead, DealsSame
  <2>4. CASE RejectWrite(h)
    <3>1. UNCHANGED <<order, quote>> /\ pc[h] = "reject"
      BY <2>4 DEF RejectWrite, At
    <3>2. ~Settles(scenario)
      BY <1>1, <3>1, Working DEF Asked, Settles
    <3> QED
      BY <1>1, <2>1, <3>1, <3>2, DealsSame
  <2>5. CASE StatusHandlers(h)
    BY <1>1, <2>1, <2>5, DealsWrites
  <2>6. CASE \/ AcceptWrite(h) \/ TakeWrite(h) \/ Create(h) \/ QuoteInsert(h) \/ HaggleWrite(h)
             \/ CancelQuoteWrite(h) \/ AcceptQuoteWrite(h)
    BY <1>1, <2>1, <2>6, DealsHolder, DealsCreate, DealsProposal, DealsAccepted
  <2> QED
    BY <1>2, <2>2, <2>3, <2>4, <2>5, <2>6 DEF Handles, Continue, StatusHandlers
<1>3. CASE Around
  BY <1>1, <1>3, DealsAround
<1>4. CASE UNCHANGED vars
  BY <1>1, <1>4 DEF vars, QuoteInv, QuotePart, AcceptedCloses, Accepted, Dealing, Live
<1> QED
  BY <1>2, <1>3, <1>4, NextCases

(***************************************************************************)
(* One offer at a time, one proposal accepted.                             *)
(***************************************************************************)
\* Riders reject offers, and proposals are answered, one request at a time; no
\* request sends an order back to where proposals are made.
Orderly(sc) == OneAsker(sc) /\ ("acceptQuote" \in sc.kinds => Settles(sc))

LEMMA OneOfferHolds ==
    ASSUME OfferInv, QuoteInv, Orderly(scenario)
    PROVE  OneOffer
<1>1. \A o \in Orders : \A i, j \in DOMAIN offers[o] : i # j =>
          /\ offers[o][i].rider # offers[o][j].rider
          /\ ~(offers[o][i].status = "SENT" /\ offers[o][j].status = "SENT")
  BY DEF OfferInv, OfferPart, Orderly
<1>2. \A o \in Orders, r \in Riders : quote[o][r] = "ACCEPTED" =>
          /\ order[o].rider = r
          /\ \A q \in Riders \ {r} : quote[o][q] \notin LiveQuote \cup {"ACCEPTED"}
  <2>1. CASE "acceptQuote" \notin scenario.kinds
    BY <2>1 DEF QuoteInv, Accepted
  <2>2. CASE Settles(scenario)
    BY <2>2 DEF QuoteInv, QuotePart
  <2> QED
    BY <2>1, <2>2 DEF Orderly
<1> QED
  BY <1>1, <1>2 DEF OneOffer

\* The offers of an order go to one rider after the other, one at a time and
\* never to the same rider twice, however many timers and crons see them expire
\* (dispatchToNextRider, handleTimeout); of its proposals at most one is
\* accepted, and the order is with its rider (acceptQuote).
THEOREM OffersInTurn == Spec => [](Orderly(scenario) => OneOffer)
<1>1. OfferInv /\ QuoteInv => (Orderly(scenario) => OneOffer)
  BY OneOfferHolds
<1> QED
  BY <1>1, OfferInit, OfferNext, QuoteInit, QuoteNext, PTL DEF Spec

(***************************************************************************)
(* The way of an order, where one request follows another.                 *)
(***************************************************************************)
Answers == {"acceptQuote", "cancelQuote"}

\* Orders are taken, cancelled and moved on; nothing is offered or proposed.
Direct(sc) == sc.kinds \subseteq {"take", "status", "cancel", "geofence"}

\* No handler comes between the statements of another, and none finds what an order
\* that went another way left open: an offer, a proposal, a status in Redis.  Beside
\* offers and proposals, which outlive what is done to their order, updateStatus is
\* not asked to open, accept or cancel one; elsewhere it is asked for any status.
Steady(sc) ==
    /\ sc.width = 1
    /\ Direct(sc) \/ sc.targets \cap (Opened \cup {"ACEPTADO", "CANCELADO"}) = {}
    /\ "reject" \in sc.kinds => sc.kinds \cap {"take", "cancel"} = {}
    /\ sc.kinds \cap Answers # {} =>
          sc.kinds \cap {"take", "accept", "reject", "cancel"} = {}
    /\ "geofence" \in sc.kinds =>
          ~sc.crash /\ sc.kinds \subseteq {"take", "status", "cancel", "geofence"}

Loose(o) == ~UnderWay(o) /\ order[o].status # "CANCELADO"

\* What updateStatus may do to an order of status s, and what else beside offers
\* and proposals.
Passes(s, next) ==
    s \in ActiveStatus => /\ next \notin Opened
                          /\ \/ Place(next) >= Place(s)
                             \/ next \in {"CANCELADO", "INCIDENCIA"}

Quiet(s, next) == /\ next # "CANCELADO"
                  /\ s \notin ActiveStatus => next \notin ActiveStatus

LooseStep == OfferStep \cup {"accept", "reject", "take", "quote", "quoteMark", "acceptQuote",
                            "cancelQuote", "recount", "reopen"}

Travel(h) == LET o == loc[h].order IN
    /\ pc[h] \in LooseStep => Loose(o)
    /\ pc[h] = "take" => order[o].rider = None
    /\ pc[h] = "accept" => /\ loc[h].offer \in Sent(o)
                           /\ offers[o][loc[h].offer].rider = loc[h].rider
    /\ pc[h] = "status" => /\ Passes(order[o].status, loc[h].status)
                           /\ Direct(scenario) \/ Quiet(order[o].status, loc[h].status)
    /\ pc[h] = "arrive" => /\ <<order[o].status, loc[h].status>> \in Arrivals
                           /\ order[o].rider = loc[h].rider
    /\ pc[h] = "remember" => order[o].status = loc[h].status
    /\ pc[h] = "arrived" => order[o].status = loc[h].status /\ order[o].rider = loc[h].rider

\* Where offers are rejected or proposals answered nothing else ends them.
NoneCancelled ==
    scenario.kinds \cap (Answers \cup {"reject"}) # {} =>
        \A o \in Orders : order[o].status # "CANCELADO"

OffersLoose == "reject" \in scenario.kinds =>
                   \A o \in Orders : Sent(o) # {} => ~UnderWay(o)

OfferElsewhere == "accept" \in scenario.kinds =>
    \A o \in Orders : UnderWay(o) => \A i \in Sent(o) : offers[o][i].rider # order[o].rider

QuotesLoose == scenario.kinds \cap Answers # {} =>
                   \A o \in Orders : Live(o) # {} => ~UnderWay(o)

\* A handler has written the order and is about to tell Redis.
Telling(h, o) == pc[h] \in {"forget", "remember", "arrived"} /\ loc[h].order = o

\* What Redis remembers of an order that has a rider is true, or is being corrected.
Remembered ==
    \A o \in Orders : meta[o].rider # None =>
        /\ Born(o) /\ order[o].rider = meta[o].rider
        /\ order[o].status = meta[o].status \/ \E h \in Requests : Telling(h, o)

SteadyRows == NoneCancelled /\ OffersLoose /\ OfferElsewhere /\ QuotesLoose

SteadyInv ==
    /\ OfferInv /\ QuoteInv
    /\ Steady(scenario) =>
          /\ SteadyRows
          /\ "geofence" \in scenario.kinds => Remembered
          /\ \A h \in Requests : Travel(h)
\* What a step may do to an order.
Moves(o) ==
    UnderWay(o) => /\ order'[o].rider = order[o].rider
                   /\ order'[o].status \notin Opened
                   /\ \/ Place(order'[o].status) >= Place(order[o].status)
                      \/ order'[o].status \in {"CANCELADO", "INCIDENCIA"}

LEMMA StaysPut ==
    ASSUME NEW o, order'[o] = order[o]
    PROVE  Moves(o)
<1>1. Place(order'[o].status) >= Place(order[o].status)
  BY Places
<1>2. UnderWay(o) => order'[o].status \notin Opened
  BY DEF UnderWay, ActiveStatus, Opened
<1> QED
  BY <1>1, <1>2 DEF Moves

\* Whatever the status that is asked for.
LEMMA AllPassable ==
    ASSUME NEW s, NEW next, NEW role, Transition(s, next, role)
    PROVE  Passes(s, next)
<1> SUFFICES ASSUME s \in ActiveStatus
             PROVE  /\ next \notin Opened
                    /\ Place(next) >= Place(s) \/ next \in {"CANCELADO", "INCIDENCIA"}
  BY DEF Passes
<1>1. Place(s) \in 2 .. 7 /\ Place(next) \in 0 .. 9
  BY PlaceOf, Places DEF ActiveStatus
<1>2. CASE s = next
  BY <1>1, <1>2 DEF ActiveStatus, Opened
<1>3. CASE next \in {"CANCELADO", "INCIDENCIA"}
  BY <1>3 DEF Opened
<1>4. <<s, next>> \notin Shortcuts
  BY DEF Shortcuts, ActiveStatus
<1>5. CASE Place(next) = Place(s) + 1
  BY <1>1, <1>5, PlaceOf DEF Opened
<1>6. CASE s = "EN_CAMINO" /\ next = "VERIFICANDO_ENTREGA"
  BY <1>6, PlaceOf DEF Opened
<1> QED
  BY <1>2, <1>3, <1>4, <1>5, <1>6 DEF Transition

\* What is asked for beside offers and proposals makes no order active.
LEMMA AllQuiet ==
    ASSUME NEW s, NEW next \in scenario.targets, NEW role, Steady(scenario), ~Direct(scenario),
           Transition(s, next, role)
    PROVE  Quiet(s, next)
<1>1. next \notin Opened \cup {"ACEPTADO", "CANCELADO"}
  BY DEF Steady
<1>2. SUFFICES ASSUME s \notin ActiveStatus, next \in ActiveStatus PROVE FALSE
  BY <1>1 DEF Quiet
<1>3. Place(s) \in 0 .. 9 /\ Place(next) \in 3 .. 7
  BY <1>1, <1>2, PlaceOf, Places DEF ActiveStatus
<1>4. <<s, next>> \notin Shortcuts /\ next # "INCIDENCIA"
  BY <1>1, <1>2 DEF Shortcuts, Opened, ActiveStatus
<1>5. s # next /\ s # "EN_CAMINO"
  BY <1>2 DEF ActiveStatus
<1>6. Place(next) = Place(s) + 1
  BY <1>1, <1>4, <1>5 DEF Transition
<1>7. Place(s) \in 2 .. 6 /\ s = Flow[Place(s)]
  BY <1>3, <1>6, Places
<1>8. s \in {"PENDIENTE", "ENTREGADO", "CERRADO"}
  BY <1>2, <1>7, FlowShape
<1> QED
  BY <1>7, <1>8, PlaceOf

LEMMA SteadySettles ==
    ASSUME Steady(scenario)
    PROVE  /\ OneAsker(scenario) /\ scenario.width = 1
           /\ scenario.kinds \cap Answers # {} => Settles(scenario)
  BY DEF Steady, Direct, Answers, OneAsker, Settles

(***************************************************************************)
(* What the steps do to the rows.                                          *)
(***************************************************************************)
NoNewQuote == scenario.kinds \cap Answers # {} =>
    \A o \in Orders, r \in Riders : quote'[o][r] \in LiveQuote => quote[o][r] \in LiveQuote

LEMMA FewerSent ==
    ASSUME Fewer, NEW o \in Orders, NEW i \in DOMAIN offers'[o], offers'[o][i].status = "SENT"
    PROVE  i \in Sent(o) /\ offers'[o][i].rider = offers[o][i].rider
  BY DEF Fewer, Sent

LEMMA RowsStill ==
    ASSUME SteadyRows, scenario' = scenario, order' = order, Fewer, NoNewQuote
    PROVE  SteadyRows' /\ \A o \in Orders : Moves(o)
<1>1. NoneCancelled'
  BY DEF SteadyRows, NoneCancelled, UnderWay
<1>2. OffersLoose'
  BY FewerSent DEF SteadyRows, OffersLoose, UnderWay, Sent
<1>3. OfferElsewhere'
  BY FewerSent DEF SteadyRows, OfferElsewhere, UnderWay, Sent
<1>4. QuotesLoose'
  BY DEF SteadyRows, QuotesLoose, NoNewQuote, UnderWay, Live
<1> QED
  BY <1>1, <1>2, <1>3, <1>4, StaysPut DEF SteadyRows

LEMMA RowsStatus ==
    ASSUME SteadyRows, scenario' = scenario, NEW o \in Orders, NEW s, StatusIs(o, s),
           offers' = offers, quote' = quote,
           Direct(scenario) \/ (s \in ActiveStatus => order[o].status \in ActiveStatus),
           s = "CANCELADO" => scenario.kinds \cap (Answers \cup {"reject"}) = {}
    PROVE  SteadyRows'
<1>1. \A p \in Orders : /\ order'[p].rider = order[p].rider
                        /\ UnderWay(p)' => Direct(scenario) \/ UnderWay(p)
  BY DEF StatusIs, UnderWay
<1>2. NoneCancelled'
  BY DEF SteadyRows, NoneCancelled, StatusIs
<1>3. CASE Direct(scenario)
  BY <1>2, <1>3 DEF Direct, SteadyRows, OffersLoose, OfferElsewhere, QuotesLoose, Answers
<1>4. CASE ~Direct(scenario)
  <2>1. OffersLoose'
    BY <1>1, <1>4 DEF SteadyRows, OffersLoose, Sent
  <2>2. OfferElsewhere'
    BY <1>1, <1>4 DEF SteadyRows, OfferElsewhere, Sent
  <2>3. QuotesLoose'
    BY <1>1, <1>4 DEF SteadyRows, QuotesLoose, Live
  <2> QED
    BY <1>2, <2>1, <2>2, <2>3 DEF SteadyRows
<1> QED
  BY <1>3, <1>4

LEMMA RowsHolder ==
    ASSUME SteadyRows, scenario' = scenario, NEW o \in Orders, NEW r \in Riders,
           HolderIs(o, "ACEPTADO", r), Fewer, NoNewQuote, Loose(o),
           "reject" \in scenario.kinds =>
               \A i \in DOMAIN offers'[o] : offers'[o][i].status # "SENT",
           "accept" \in scenario.kinds =>
               \A i \in DOMAIN offers'[o] : offers'[o][i].status = "SENT" => offers'[o][i].rider # r,
           scenario.kinds \cap Answers # {} => \A q \in Riders : quote'[o][q] \notin LiveQuote
    PROVE  SteadyRows' /\ \A p \in Orders : Moves(p)
<1>2. NoneCancelled'
  BY DEF SteadyRows, NoneCancelled, HolderIs
<1>3. OffersLoose'
  BY FewerSent DEF SteadyRows, OffersLoose, UnderWay, Sent, HolderIs
<1>4. OfferElsewhere'
  BY FewerSent DEF SteadyRows, OfferElsewhere, UnderWay, Sent, HolderIs
<1>5. QuotesLoose'
  BY DEF SteadyRows, QuotesLoose, NoNewQuote, UnderWay, Live, HolderIs
<1>6. Moves(o)
  BY DEF Moves, Loose
<1>7. \A p \in Orders \ {o} : Moves(p)
  BY StaysPut DEF HolderIs
<1> QED
  BY <1>2, <1>3, <1>4, <1>5, <1>6, <1>7 DEF SteadyRows

LEMMA RowsBorn ==
    ASSUME SteadyRows, scenario' = scenario, NEW o \in Orders, ~Born(o),
           HolderIs(o, "PENDIENTE", None), offers' = offers, quote' = quote
    PROVE  SteadyRows' /\ \A p \in Orders : Moves(p)
<1>1. order'[o].status \notin ActiveStatus \cup {"CANCELADO"}
  BY DEF HolderIs, ActiveStatus
<1>2. \A p \in Orders : order'[p].status \in ActiveStatus \cup {"CANCELADO"} => order'[p] = order[p]
  BY <1>1 DEF HolderIs
<1>3. NoneCancelled'
  BY <1>2 DEF SteadyRows, NoneCancelled, UnderWay
<1>4. OffersLoose' /\ OfferElsewhere' /\ QuotesLoose'
  BY <1>2 DEF SteadyRows, OffersLoose, OfferElsewhere, QuotesLoose, UnderWay, Sent, Live
<1>5. Moves(o)
  BY DEF Moves, UnderWay, Born, ActiveStatus
<1>6. \A p \in Orders \ {o} : Moves(p)
  BY StaysPut DEF HolderIs
<1> QED
  BY <1>3, <1>4, <1>5, <1>6 DEF SteadyRows

\* An order that nobody has may be offered and may receive proposals.
LEMMA RowsLoose ==
    ASSUME SteadyRows, scenario' = scenario, NEW o \in Orders, Loose(o), order' = order,
           \A p \in Orders \ {o} : offers'[p] = offers[p] /\ quote'[p] = quote[p]
    PROVE  SteadyRows' /\ \A p \in Orders : Moves(p)
<1>1. NoneCancelled'
  BY DEF SteadyRows, NoneCancelled, UnderWay
<1>2. OffersLoose' /\ OfferElsewhere' /\ QuotesLoose'
  BY DEF SteadyRows, OffersLoose, OfferElsewhere, QuotesLoose, UnderWay, Sent, Live, Loose
<1> QED
  BY <1>1, <1>2, StaysPut DEF SteadyRows

(***************************************************************************)
(* Action by action.                                                       *)
(***************************************************************************)
\* What a step of the handler h brings about.
Advances(h) == SteadyRows' /\ Travel(h)' /\ \A o \in Orders : Moves(o)

AtEase == {"idle", "reread", "forget", "commission", "haggle"}

LEMMA EaseTravels == ASSUME NEW h, pc'[h] \in AtEase PROVE Travel(h)'
  BY DEF Travel, AtEase, LooseStep, OfferStep

LEMMA SteadyFacts ==
    ASSUME SteadyInv, Steady(scenario), NEW h \in Requests
    PROVE  /\ BaseInv /\ OfferInv /\ QuoteInv /\ SteadyRows /\ Travel(h)
           /\ loc[h] \in Work
           /\ pc[h] # "idle" => loc[h].order \in Orders
           /\ \A step, w : Go(h, step, w) => pc'[h] = step /\ loc'[h] = w
           /\ \A step, w : Step(h, step, w) => pc'[h] = step /\ loc'[h] = w
<1>1. BaseInv /\ OfferInv /\ QuoteInv /\ SteadyRows /\ Travel(h)
  BY DEF SteadyInv, OfferInv
<1>2. loc[h] \in Work /\ (pc[h] # "idle" => loc[h].order \in Orders)
  BY <1>1 DEF BaseInv, TypeOK, OwnWork
<1>3. \A step, w : Step(h, step, w) => pc'[h] = step /\ loc'[h] = w
  BY <1>1, StepFacts DEF BaseInv
<1> QED
  BY <1>1, <1>2, <1>3, GoStep

\* A handler that has changed neither orders nor offers nor proposals.
LEMMA ReadAdvances ==
    ASSUME SteadyInv, Steady(scenario), NEW h \in Requests, OthersStay(h),
           UNCHANGED <<order, offers, quote>>, Travel(h)'
    PROVE  Advances(h)
<1>1. Fewer /\ NoNewQuote
  BY DEF Fewer, NoNewQuote
<1> QED
  BY <1>1, RowsStill, SteadyFacts DEF Advances, OthersStay

LEMMA AdvanceReads ==
    ASSUME SteadyInv, Steady(scenario), NEW h \in Requests, OthersStay(h),
           AcceptRead(h) \/ RejectRead(h) \/ TakeRead(h) \/ StatusRead(h) \/ QuoteRead(h)
    PROVE  Advances(h)
<1>0. /\ SteadyRows /\ \A step, w : Go(h, step, w) => pc'[h] = step /\ loc'[h] = w
  BY SteadyFacts
<1>1. UNCHANGED <<order, offers, quote>>
  BY DEF AcceptRead, RejectRead, TakeRead, StatusRead, QuoteRead, rows
<1>2. CASE AcceptRead(h)
  <2>1. PICK o \in Orders, r \in Riders : \E i \in DOMAIN offers[o] :
           /\ MayStart(h, "accept") /\ Acceptable(o, r, i)
           /\ Go(h, "accept", [NoWork EXCEPT !.order = o, !.rider = r, !.offer = i])
    BY <1>2 DEF AcceptRead
  <2>2. PICK i \in DOMAIN offers[o] :
           /\ MayStart(h, "accept") /\ Acceptable(o, r, i)
           /\ Go(h, "accept", [NoWork EXCEPT !.order = o, !.rider = r, !.offer = i])
    BY <2>1
  <2> DEFINE w == [NoWork EXCEPT !.order = o, !.rider = r, !.offer = i]
  <2>3. w.order = o /\ w.rider = r /\ w.offer = i
    BY DEF NoWork
  <2>4. Go(h, "accept", w)
    BY <2>2
  <2> HIDE DEF w
  <2>5. i \in Sent(o) /\ offers[o][i].rider = r
    BY <2>2 DEF Acceptable, IsLast, OffersTo, Sent
  <2>6. ~UnderWay(o)
    <3>1. order[o].rider = r => ~UnderWay(o)
      BY <1>0, <2>2, <2>5 DEF MayStart, SteadyRows, OfferElsewhere
    <3>2. order[o].rider = None => ~UnderWay(o)
      BY DEF UnderWay
    <3> QED
      BY <2>2, <3>1, <3>2 DEF Acceptable
  <2>7. Loose(o)
    BY <2>2, <2>6 DEF Loose, Acceptable
  <2>8. pc'[h] = "accept" /\ loc'[h] = w
    BY <1>0, <2>4
  <2>9. Travel(h)'
    BY <1>1, <2>3, <2>5, <2>7, <2>8 DEF Travel, LooseStep, Loose, UnderWay, Sent
  <2> QED
    BY <1>1, <2>9, ReadAdvances
<1>3. CASE RejectRead(h)
  <2>1. PICK o \in Orders : \E i \in DOMAIN offers[o] :
           /\ MayStart(h, "reject") /\ offers[o][i].status = "SENT"
           /\ Go(h, "reject", [NoWork EXCEPT !.order = o, !.offer = i])
    BY <1>3 DEF RejectRead
  <2>2. PICK i \in DOMAIN offers[o] :
           /\ MayStart(h, "reject") /\ offers[o][i].status = "SENT"
           /\ Go(h, "reject", [NoWork EXCEPT !.order = o, !.offer = i])
    BY <2>1
  <2> DEFINE w == [NoWork EXCEPT !.order = o, !.offer = i]
  <2>3. w.order = o
    BY DEF NoWork
  <2>4. Go(h, "reject", w)
    BY <2>2
  <2> HIDE DEF w
  <2>5. i \in Sent(o)
    BY <2>2 DEF Sent
  <2>6. Loose(o)
    BY <1>0, <2>2, <2>5 DEF SteadyRows, OffersLoose, NoneCancelled, MayStart, Loose
  <2>7. pc'[h] = "reject" /\ loc'[h] = w
    BY <1>0, <2>4
  <2>8. Travel(h)'
    BY <1>1, <2>3, <2>6, <2>7 DEF Travel, LooseStep, Loose, UnderWay
  <2> QED
    BY <1>1, <2>8, ReadAdvances
<1>4. CASE TakeRead(h)
  <2>1. PICK o \in Orders, r \in Riders :
           Takeable(o) /\ Go(h, "take", [NoWork EXCEPT !.order = o, !.rider = r])
    BY <1>4 DEF TakeRead
  <2> DEFINE w == [NoWork EXCEPT !.order = o, !.rider = r]
  <2>2. w.order = o
    BY DEF NoWork
  <2>3. Go(h, "take", w)
    BY <2>1
  <2> HIDE DEF w
  <2>4. Loose(o) /\ order[o].rider = None
    BY <2>1 DEF Takeable, Loose, UnderWay
  <2>5. pc'[h] = "take" /\ loc'[h] = w
    BY <1>0, <2>3
  <2>6. Travel(h)'
    BY <1>1, <2>2, <2>4, <2>5 DEF Travel, LooseStep, Loose, UnderWay
  <2> QED
    BY <1>1, <2>6, ReadAdvances
<1>5. CASE StatusRead(h)
  <2>1. PICK o \in Orders, role \in {"REPARTIDOR", "ENCARGADO"}, next \in scenario.targets :
           /\ Transition(order[o].status, next, role)
           /\ Go(h, "status", [NoWork EXCEPT !.order = o, !.status = next])
    BY <1>5 DEF StatusRead
  <2> DEFINE w == [NoWork EXCEPT !.order = o, !.status = next]
  <2>2. w.order = o /\ w.status = next
    BY DEF NoWork
  <2>3. Go(h, "status", w)
    BY <2>1
  <2> HIDE DEF w
  <2>4. /\ Passes(order[o].status, next)
        /\ Direct(scenario) \/ Quiet(order[o].status, next)
    BY <2>1, AllPassable, AllQuiet
  <2>5. pc'[h] = "status" /\ loc'[h] = w /\ scenario' = scenario
    BY <1>0, <2>3 DEF OthersStay
  <2>6. Travel(h)'
    BY <1>1, <2>2, <2>4, <2>5 DEF Travel, LooseStep, OfferStep
  <2> QED
    BY <1>1, <2>6, ReadAdvances
<1>6. CASE QuoteRead(h)
  <2>1. PICK o \in Orders, r \in Riders :
           /\ order[o].status \in {"PENDIENTE", "COTIZANDO"}
           /\ Go(h, "quote", [NoWork EXCEPT !.order = o, !.rider = r, !.status = order[o].status])
    BY <1>6 DEF QuoteRead
  <2> DEFINE w == [NoWork EXCEPT !.order = o, !.rider = r, !.status = order[o].status]
  <2>2. w.order = o
    BY DEF NoWork
  <2>3. Go(h, "quote", w)
    BY <2>1
  <2> HIDE DEF w
  <2>4. Loose(o)
    BY <2>1 DEF Loose, UnderWay, ActiveStatus
  <2>5. pc'[h] = "quote" /\ loc'[h] = w
    BY <1>0, <2>3
  <2>6. Travel(h)'
    BY <1>1, <2>2, <2>4, <2>5 DEF Travel, LooseStep, Loose, UnderWay
  <2> QED
    BY <1>1, <2>6, ReadAdvances
<1> QED
  BY <1>2, <1>3, <1>4, <1>5, <1>6

LEMMA AdvanceProposalReads ==
    ASSUME SteadyInv, Steady(scenario), NEW h \in Requests, OthersStay(h),
           NEW k \in {"haggle", "acceptQuote", "cancelQuote"}, QuoteStep(h, k, k)
    PROVE  Advances(h)
<1>0. /\ SteadyRows /\ \A step, w : Go(h, step, w) => pc'[h] = step /\ loc'[h] = w
  BY SteadyFacts
<1>1. PICK o \in Orders : \E r \in Live(o) :
         /\ MayStart(h, k) /\ Go(h, k, [NoWork EXCEPT !.order = o, !.rider = r])
         /\ UNCHANGED rows
  BY DEF QuoteStep
<1>2. PICK r \in Live(o) :
         /\ MayStart(h, k) /\ Go(h, k, [NoWork EXCEPT !.order = o, !.rider = r])
         /\ UNCHANGED rows
  BY <1>1
<1> DEFINE w == [NoWork EXCEPT !.order = o, !.rider = r]
<1>3. w.order = o /\ UNCHANGED <<order, offers, quote>>
  BY <1>2 DEF NoWork, rows
<1>4. Go(h, k, w)
  BY <1>2
<1> HIDE DEF w
<1>5. pc'[h] = k /\ loc'[h] = w
  BY <1>0, <1>4
<1>6. CASE k = "haggle"
  BY <1>3, <1>5, <1>6, EaseTravels, ReadAdvances DEF AtEase
<1>7. CASE k \in Answers
  <2>1. Loose(o)
    BY <1>0, <1>2, <1>7 DEF SteadyRows, QuotesLoose, NoneCancelled, MayStart, Loose
  <2>2. Travel(h)'
    BY <1>3, <1>5, <1>7, <2>1 DEF Travel, LooseStep, Loose, UnderWay, Answers
  <2> QED
    BY <1>3, <2>2, ReadAdvances
<1> QED
  BY <1>6, <1>7 DEF Answers

\* The geofence acts on what is true of the order: no other handler is under way.
LEMMA AdvanceGeofenceRead ==
    ASSUME SteadyInv, Steady(scenario), NEW h \in Requests, OthersStay(h), Sole(h), GeofenceRead(h)
    PROVE  Advances(h)
<1>0. /\ BaseInv /\ \A step, w : Step(h, step, w) => pc'[h] = step /\ loc'[h] = w
  BY SteadyFacts
<1>1. PICK o \in Orders, a \in Arrivals :
         /\ MayStart(h, "geofence") /\ Born(o)
         /\ IF Meta(o).rider # None /\ Meta(o).status = a[1] /\ a \notin fence[o]
              THEN Step(h, "arrive", [order |-> o, rider |-> Meta(o).rider, offer |-> 0,
                                      status |-> a[2]])
              ELSE Step(h, "idle", NoWork)
         /\ UNCHANGED rows
  BY DEF GeofenceRead, Born
<1>2. UNCHANGED <<order, offers, quote>>
  BY <1>1 DEF rows
<1>3. CASE Step(h, "idle", NoWork)
  BY <1>0, <1>2, <1>3, EaseTravels, ReadAdvances DEF AtEase
<1>4. CASE /\ Meta(o).rider # None /\ Meta(o).status = a[1]
           /\ Step(h, "arrive", [order |-> o, rider |-> Meta(o).rider, offer |-> 0, status |-> a[2]])
  <2> DEFINE w == [order |-> o, rider |-> Meta(o).rider, offer |-> 0, status |-> a[2]]
  <2>1. w.order = o /\ w.rider = Meta(o).rider /\ w.status = a[2]
    OBVIOUS
  <2>2. Step(h, "arrive", w)
    BY <1>4
  <2> HIDE DEF w
  <2>3. pc'[h] = "arrive" /\ loc'[h] = w
    BY <1>0, <2>2
  <2>4. \A g \in Requests : pc[g] = "idle"
    BY <1>1, SteadySettles DEF MayStart, Sole
  <2>5. Remembered
    BY <1>1 DEF MayStart, SteadyInv
  <2>6. order[o].status = Meta(o).status /\ order[o].rider = Meta(o).rider
    <3>1. CASE meta[o] = NoMeta
      BY <3>1 DEF Meta
    <3>2. CASE meta[o] # NoMeta
      <4>1. Meta(o) = meta[o]
        BY <3>2 DEF Meta
      <4> QED
        BY <1>4, <2>4, <2>5, <4>1 DEF Remembered, Telling
    <3> QED
      BY <3>1, <3>2
  <2>7. <<order[o].status, a[2]>> \in Arrivals
    BY <1>4, <2>6 DEF Arrivals
  <2>8. Travel(h)'
    BY <1>2, <2>1, <2>3, <2>6, <2>7 DEF Travel, LooseStep, OfferStep
  <2> QED
    BY <1>2, <2>8, ReadAdvances
<1> QED
  BY <1>1, <1>3, <1>4

\* The handlers that go on without writing orders, offers or proposals.
LEMMA AdvanceGoesOn ==
    ASSUME SteadyInv, Steady(scenario), NEW h \in Requests, OthersStay(h),
           \/ NextChoose(h) \/ TimeoutReread(h) \/ CancelQuoteRecount(h)
           \/ StatusRemember(h) \/ CommissionWrite(h) \/ CancelForget(h) \/ GeofenceRemember(h)
    PROVE  Advances(h)
<1>0. /\ Travel(h) /\ loc[h] \in Work
      /\ \A step, w : Go(h, step, w) => pc'[h] = step /\ loc'[h] = w
      /\ \A step, w : Step(h, step, w) => pc'[h] = step /\ loc'[h] = w
  BY SteadyFacts
<1>1. UNCHANGED <<order, offers, quote>>
  BY DEF NextChoose, TimeoutReread, CancelQuoteRecount, StatusRemember, CommissionWrite,
         CancelForget, GeofenceRemember, rows
<1>2. CASE pc'[h] \in AtEase
  BY <1>1, <1>2, EaseTravels, ReadAdvances
<1>3. CASE \/ StatusRemember(h) \/ CommissionWrite(h) \/ CancelForget(h) \/ GeofenceRemember(h)
  <2>1. pc'[h] \in {"idle", "commission"}
    BY <1>0, <1>3 DEF StatusRemember, CommissionWrite, CancelForget, GeofenceRemember, Finish
  <2> QED
    BY <1>2, <2>1 DEF AtEase
<1>4. CASE NextChoose(h)
  <2>1. pc[h] = "choose"
    BY <1>4 DEF NextChoose, At
  <2>2. pc'[h] \in {"giveUp", "offer"} /\ loc'[h].order = loc[h].order
    BY <1>0, <1>4 DEF NextChoose, Work
  <2>3. Travel(h)'
    BY <1>0, <1>1, <2>1, <2>2 DEF Travel, LooseStep, OfferStep, Loose, UnderWay
  <2> QED
    BY <1>1, <2>3, ReadAdvances
<1>5. CASE TimeoutReread(h)
  <2>1. CASE Finish(h)
    BY <1>0, <1>2, <2>1 DEF Finish, AtEase
  <2>2. CASE Go(h, "choose", loc[h]) /\ StillWaiting(loc[h].order)
    <3>1. pc'[h] = "choose" /\ loc'[h] = loc[h]
      BY <1>0, <2>2
    <3>2. Loose(loc[h].order)
      BY <2>2 DEF StillWaiting, Loose, UnderWay, ActiveStatus
    <3>3. Travel(h)'
      BY <1>1, <3>1, <3>2 DEF Travel, Loose, UnderWay
    <3> QED
      BY <1>1, <3>3, ReadAdvances
  <2> QED
    BY <1>5, <2>1, <2>2 DEF TimeoutReread
<1>6. CASE CancelQuoteRecount(h)
  <2>1. CASE Finish(h)
    BY <1>0, <1>2, <2>1 DEF Finish, AtEase
  <2>2. CASE Go(h, "reopen", loc[h])
    <3>1. pc'[h] = "reopen" /\ loc'[h] = loc[h] /\ pc[h] = "recount"
      BY <1>0, <1>6, <2>2 DEF CancelQuoteRecount, At
    <3>2. Travel(h)'
      BY <1>0, <1>1, <3>1 DEF Travel, LooseStep, Loose, UnderWay
    <3> QED
      BY <1>1, <3>2, ReadAdvances
  <2> QED
    BY <1>6, <2>1, <2>2 DEF CancelQuoteRecount
<1> QED
  BY <1>3, <1>4, <1>5, <1>6

\* Offers that expire or are rejected, proposals that are haggled over or withdrawn.
LEMMA AdvanceLess ==
    ASSUME SteadyInv, Steady(scenario), NEW h \in Requests, OthersStay(h),
           \/ RejectWrite(h) \/ HaggleWrite(h) \/ CancelQuoteWrite(h)
           \/ \E o \in Orders : TimeoutClaim(h, o)
    PROVE  Advances(h)
<1>0. /\ BaseInv /\ QuoteInv /\ SteadyRows /\ Travel(h)
      /\ \A step, w : Go(h, step, w) => pc'[h] = step /\ loc'[h] = w
  BY SteadyFacts
<1>1. order' = order
  BY DEF RejectWrite, HaggleWrite, CancelQuoteWrite, TimeoutClaim
<1>2. ASSUME Fewer, NoNewQuote, Travel(h)'
      PROVE  Advances(h)
  BY <1>0, <1>1, <1>2, RowsStill DEF Advances, OthersStay
<1>3. ASSUME NEW o \in Orders, TimeoutClaim(h, o)
      PROVE  Advances(h)
  <2>1. PICK i \in DOMAIN offers[o] :
           /\ offers' = [offers EXCEPT ![o][i].status = "TIMEOUT"]
           /\ Go(h, "reread", [NoWork EXCEPT !.order = o])
    BY <1>3 DEF TimeoutClaim
  <2>2. OfferIs(o, i, "TIMEOUT")
    BY <1>0, <2>1, OfferSet
  <2>3. Fewer
    BY <2>2 DEF OfferIs, Fewer
  <2>4. Travel(h)'
    BY <1>0, <2>1, EaseTravels DEF AtEase
  <2>5. NoNewQuote
    BY <1>3 DEF TimeoutClaim, NoNewQuote
  <2> QED
    BY <1>2, <2>3, <2>4, <2>5
<1>4. CASE RejectWrite(h)
  <2> DEFINE o == loc[h].order
             i == loc[h].offer
  <2>1. /\ pc[h] = "reject" /\ Go(h, "choose", loc[h]) /\ quote' = quote
        /\ offers' = [offers EXCEPT ![o][i].status = "REJECTED"]
    BY <1>4 DEF RejectWrite, At
  <2>2. o \in Orders /\ i \in DOMAIN offers[o]
    BY <1>0, <2>1, Working DEF OwnWork
  <2>3. OfferIs(o, i, "REJECTED")
    BY <1>0, <2>1, <2>2, OfferSet
  <2>4. Fewer /\ NoNewQuote
    BY <2>1, <2>3 DEF OfferIs, Fewer, NoNewQuote
  <2>5. pc'[h] = "choose" /\ loc'[h] = loc[h]
    BY <1>0, <2>1
  <2>6. Travel(h)'
    BY <1>0, <1>1, <2>1, <2>5 DEF Travel, LooseStep, OfferStep, Loose, UnderWay
  <2> QED
    BY <1>2, <2>4, <2>6
<1>5. CASE HaggleWrite(h)
  <2>1. /\ pc[h] = "haggle" /\ Finish(h) /\ offers' = offers
        /\ loc[h].order \in Orders /\ loc[h].rider \in Riders
        /\ QuoteIs(loc[h].order, loc[h].rider, "NEGOTIATING")
    BY <1>0, <1>5, HaggleWriteShape
  <2>2. scenario.kinds \cap Answers # {} => quote[loc[h].order][loc[h].rider] \in LiveQuote
    BY <1>0, <2>1, SteadySettles DEF QuoteInv, Dealing, Live
  <2>3. NoNewQuote
    BY <2>1, <2>2 DEF NoNewQuote, QuoteIs
  <2>4. Travel(h)'
    BY <1>0, <2>1, EaseTravels DEF AtEase, Finish
  <2>5. Fewer
    BY <2>1 DEF Fewer
  <2> QED
    BY <1>2, <2>3, <2>4, <2>5
<1>6. CASE CancelQuoteWrite(h)
  <2>1. /\ pc[h] = "cancelQuote" /\ Go(h, "recount", loc[h]) /\ offers' = offers
        /\ loc[h].order \in Orders /\ loc[h].rider \in Riders
        /\ QuoteIs(loc[h].order, loc[h].rider, "CANCELLED")
    BY <1>0, <1>6, CancelQuoteShape
  <2>2. Fewer /\ NoNewQuote
    BY <2>1 DEF Fewer, NoNewQuote, QuoteIs, LiveQuote
  <2>3. pc'[h] = "recount" /\ loc'[h] = loc[h]
    BY <1>0, <2>1
  <2>4. Travel(h)'
    BY <1>0, <1>1, <2>1, <2>3 DEF Travel, LooseStep, Loose, UnderWay
  <2> QED
    BY <1>2, <2>2, <2>4
<1> QED
  BY <1>3, <1>4, <1>5, <1>6

\* An offer or a proposal is made of an order that nobody has.
LEMMA AdvanceMore ==
    ASSUME SteadyInv, Steady(scenario), NEW h \in Requests, OthersStay(h),
           NextOffer(h) \/ QuoteInsert(h)
    PROVE  Advances(h)
<1>0. /\ BaseInv /\ SteadyRows /\ Travel(h) /\ scenario' = scenario
      /\ \A step, w : Go(h, step, w) => pc'[h] = step /\ loc'[h] = w
  BY SteadyFacts DEF OthersStay
<1>1. pc[h] \in {"offer", "quote"} /\ order' = order
  BY DEF NextOffer, QuoteInsert, At
<1>2. loc[h].order \in Orders /\ loc[h].rider \in Riders /\ Loose(loc[h].order)
  BY <1>0, <1>1, Working DEF Travel, LooseStep, OfferStep, RiderStep
<1>3. \A p \in Orders \ {loc[h].order} : offers'[p] = offers[p] /\ quote'[p] = quote[p]
  <2>1. CASE NextOffer(h)
    BY <1>0, <1>2, <2>1 DEF NextOffer, BaseInv, TypeOK, RowsOK
  <2>2. CASE QuoteInsert(h)
    BY <1>0, <1>2, <2>2 DEF QuoteInsert, SetQuote, BaseInv, TypeOK, RowsOK
  <2> QED
    BY <2>1, <2>2
<1>4. SteadyRows' /\ \A p \in Orders : Moves(p)
  BY <1>0, <1>1, <1>2, <1>3, RowsLoose
<1>5. Travel(h)'
  <2>1. \/ pc'[h] = "idle"
        \/ pc'[h] \in {"mark", "quoteMark"} /\ loc'[h] = loc[h]
    BY <1>0 DEF NextOffer, QuoteInsert, Finish
  <2>2. CASE pc'[h] = "idle"
    BY <2>2, EaseTravels DEF AtEase
  <2>3. CASE pc'[h] \in {"mark", "quoteMark"} /\ loc'[h] = loc[h]
    BY <1>1, <1>2, <2>3 DEF Travel, LooseStep, OfferStep, Loose, UnderWay
  <2> QED
    BY <2>1, <2>2, <2>3
<1> QED
  BY <1>4, <1>5 DEF Advances

LEMMA AdvanceCreate ==
    ASSUME SteadyInv, Steady(scenario), NEW h \in Requests, OthersStay(h), Create(h)
    PROVE  Advances(h)
<1>0. /\ BaseInv /\ SteadyRows /\ scenario' = scenario
      /\ \A step, w : Go(h, step, w) => pc'[h] = step /\ loc'[h] = w
  BY SteadyFacts DEF OthersStay
<1>1. PICK o \in scenario.orders :
         /\ ~Born(o) /\ SetOrder(o, "PENDIENTE", None) /\ UNCHANGED <<offers, quote>>
         /\ IF "dispatch" \in scenario.kinds
              THEN Go(h, "choose", [NoWork EXCEPT !.order = o])
              ELSE Finish(h)
  BY DEF Create, Born
<1>2. o \in Orders
  BY <1>0, <1>1, ScenarioAssumption DEF BaseInv, TypeOK
<1>3. HolderIs(o, "PENDIENTE", None)
  BY <1>0, <1>1, <1>2, OrderSet DEF Statuses, Opened
<1>4. SteadyRows' /\ \A p \in Orders : Moves(p)
  BY <1>0, <1>1, <1>2, <1>3, RowsBorn
<1>5. Travel(h)'
  <2>1. CASE Finish(h)
    BY <1>0, <2>1, EaseTravels DEF Finish, AtEase
  <2>2. CASE Go(h, "choose", [NoWork EXCEPT !.order = o])
    <3> DEFINE w == [NoWork EXCEPT !.order = o]
    <3>1. w.order = o
      BY DEF NoWork
    <3> HIDE DEF w
    <3>2. pc'[h] = "choose" /\ loc'[h] = w
      BY <1>0, <2>2 DEF w
    <3> QED
      BY <1>3, <3>1, <3>2 DEF Travel, Loose, UnderWay, HolderIs, ActiveStatus
  <2> QED
    BY <1>1, <2>1, <2>2
<1> QED
  BY <1>4, <1>5 DEF Advances

\* A rider gets an order that nobody has.
LEMMA AdvanceHolder ==
    ASSUME SteadyInv, Steady(scenario), NEW h \in Requests, OthersStay(h),
           AcceptWrite(h) \/ TakeWrite(h) \/ AcceptQuoteWrite(h)
    PROVE  Advances(h)
<1> DEFINE o == loc[h].order
           r == loc[h].rider
<1>0. /\ BaseInv /\ OfferInv /\ SteadyRows /\ Travel(h) /\ scenario' = scenario
      /\ \A step, w : Go(h, step, w) => pc'[h] = step /\ loc'[h] = w
  BY SteadyFacts DEF OthersStay
<1>1. /\ pc[h] \in {"accept", "take", "acceptQuote"} /\ SetOrder(o, "ACEPTADO", r) /\ Finish(h)
  BY DEF AcceptWrite, TakeWrite, AcceptQuoteWrite, At
<1>2. o \in Orders /\ r \in Riders /\ Asked(h) /\ Loose(o)
  BY <1>0, <1>1, Working DEF RiderStep, Travel, LooseStep
<1>3. HolderIs(o, "ACEPTADO", r)
  BY <1>0, <1>1, <1>2, OrderSet DEF Statuses, ActiveStatus
<1>4. Travel(h)'
  BY <1>0, <1>1, EaseTravels DEF Finish, AtEase
<1>5. CASE AcceptWrite(h)
  <2> DEFINE i == loc[h].offer
  <2>1. pc[h] = "accept" /\ offers' = [offers EXCEPT ![o][i].status = "ACCEPTED"] /\ quote' = quote
    BY <1>5 DEF AcceptWrite, At
  <2>2. i \in Sent(o) /\ i \in DOMAIN offers[o]
    BY <1>0, <2>1 DEF Travel, Sent
  <2>3. OfferIs(o, i, "ACCEPTED")
    BY <1>0, <1>2, <2>1, <2>2, OfferSet
  <2>4. \A j \in DOMAIN offers[o] : j # i => offers[o][j].status # "SENT"
    BY <1>0, <1>2, <2>2, SteadySettles DEF OfferInv, OfferPart, Sent
  <2> HIDE DEF o, r, i
  <2>5. Fewer /\ \A j \in DOMAIN offers'[o] : offers'[o][j].status # "SENT"
    BY <2>3, <2>4 DEF OfferIs, Fewer
  <2>6. scenario.kinds \cap Answers = {} /\ NoNewQuote
    BY <1>2, <2>1 DEF Asked, Steady, NoNewQuote
  <2>7. SteadyRows' /\ \A p \in Orders : Moves(p)
    BY <1>0, <1>2, <1>3, <2>5, <2>6, RowsHolder
  <2> QED
    BY <1>4, <2>7 DEF Advances
<1>6. CASE TakeWrite(h)
  <2>1. pc[h] = "take" /\ OffersTaken(o, r) /\ quote' = quote
    BY <1>0, <1>6, TakeShape
  <2>2. "reject" \notin scenario.kinds /\ scenario.kinds \cap Answers = {}
    BY <1>2, <2>1 DEF Asked, Steady
  <2> HIDE DEF o, r
  <2>3. Fewer /\ NoNewQuote
    BY <2>1, <2>2 DEF OffersTaken, Fewer, NoNewQuote
  <2>4. \A i \in DOMAIN offers'[o] : offers'[o][i].status = "SENT" => offers'[o][i].rider # r
    BY <2>1 DEF OffersTaken
  <2>5. SteadyRows' /\ \A p \in Orders : Moves(p)
    BY <1>0, <1>2, <1>3, <2>2, <2>3, <2>4, RowsHolder
  <2> QED
    BY <1>4, <2>5 DEF Advances
<1>7. CASE AcceptQuoteWrite(h)
  <2>1. pc[h] = "acceptQuote" /\ QuoteChosen(o, r) /\ offers' = offers
    BY <1>0, <1>7, AcceptQuoteShape
  <2>2. "reject" \notin scenario.kinds /\ "accept" \notin scenario.kinds
    BY <1>2, <2>1 DEF Asked, Steady, Answers
  <2> HIDE DEF o, r
  <2>3. Fewer /\ NoNewQuote
    BY <2>1 DEF QuoteChosen, Fewer, NoNewQuote, LiveQuote
  <2>4. \A q \in Riders : quote'[o][q] \notin LiveQuote
    BY <2>1 DEF QuoteChosen, LiveQuote
  <2>5. SteadyRows' /\ \A p \in Orders : Moves(p)
    BY <1>0, <1>2, <1>3, <2>2, <2>3, <2>4, RowsHolder
  <2> QED
    BY <1>4, <2>5 DEF Advances
<1> QED
  BY <1>5, <1>6, <1>7

\* A new status: of an order nobody has, one the flow allows, or the next place
\* on the way.
LEMMA AdvanceStatus ==
    ASSUME SteadyInv, Steady(scenario), NEW h \in Requests, OthersStay(h), StatusHandlers(h)
    PROVE  Advances(h)
<1>0. /\ BaseInv /\ SteadyRows /\ Travel(h) /\ scenario' = scenario
      /\ \A step, w : Go(h, step, w) => pc'[h] = step /\ loc'[h] = w
  BY SteadyFacts DEF OthersStay
<1>1. PICK o \in Orders, s \in Statuses : Writes(h, o, s)
  BY <1>0, StatusWrites
<1>2. StatusIs(o, s) /\ UNCHANGED <<offers, quote>>
  BY <1>1 DEF Writes
<1>3. \A p \in Orders \ {o} : Moves(p)
  BY <1>2, StaysPut DEF StatusIs
<1>4. ASSUME Moves(o), Travel(h)',
             Direct(scenario) \/ (s \in ActiveStatus => order[o].status \in ActiveStatus),
             s = "CANCELADO" => scenario.kinds \cap (Answers \cup {"reject"}) = {}
      PROVE  Advances(h)
  <2>1. SteadyRows'
    BY <1>0, <1>2, <1>4, RowsStatus
  <2> QED
    BY <1>3, <1>4, <2>1 DEF Advances
<1>5. CASE CancelOrder(h)
  <2>1. pc[h] = "idle" /\ s = "CANCELADO"
    BY <1>1, <1>5 DEF Writes, CancelOrder, MayStart
  <2>2. "cancel" \in scenario.kinds /\ pc'[h] \in {"idle", "forget"}
    BY <1>0, <1>5 DEF CancelOrder, MayStart, Finish
  <2>3. Moves(o)
    BY <1>2, <2>1 DEF Moves, StatusIs, Opened
  <2>4. Travel(h)'
    BY <2>2, EaseTravels DEF AtEase
  <2>5. scenario.kinds \cap (Answers \cup {"reject"}) = {}
    BY <2>2 DEF Steady
  <2> QED
    BY <1>4, <2>1, <2>3, <2>4, <2>5 DEF ActiveStatus
<1>6. CASE NextGiveUp(h) \/ NextMark(h) \/ QuoteMark(h) \/ CancelQuoteReopen(h)
  <2>1. pc[h] \in {"giveUp", "mark", "quoteMark", "reopen"} /\ pc'[h] = "idle"
    BY <1>0, <1>6 DEF NextGiveUp, NextMark, QuoteMark, CancelQuoteReopen, At, Finish
  <2>2. loc[h].order = o /\ s \in Opened
    BY <1>1, <2>1 DEF Writes
  <2>3. Moves(o)
    BY <1>0, <2>1, <2>2 DEF Moves, Travel, LooseStep, OfferStep, Loose
  <2>4. Travel(h)'
    BY <2>1, EaseTravels DEF AtEase
  <2> QED
    BY <1>4, <2>2, <2>3, <2>4 DEF Opened, ActiveStatus
<1>7. CASE StatusWrite(h)
  <2>1. pc[h] = "status"
    BY <1>7 DEF StatusWrite, At
  <2>2. loc[h].order = o /\ s = loc[h].status
    BY <1>1, <2>1 DEF Writes
  <2>3. Passes(order[o].status, s) /\ (Direct(scenario) \/ Quiet(order[o].status, s))
    BY <1>0, <2>1, <2>2 DEF Travel
  <2>4. Moves(o)
    BY <1>2, <2>3 DEF Moves, Passes, StatusIs, UnderWay
  <2>5. \/ pc'[h] \in {"idle", "commission"}
        \/ pc'[h] = "remember" /\ loc'[h] = loc[h]
    BY <1>0, <1>7 DEF StatusWrite, Finish
  <2>6. Travel(h)'
    <3>1. CASE pc'[h] \in {"idle", "commission"}
      BY <3>1, EaseTravels DEF AtEase
    <3>2. CASE pc'[h] = "remember" /\ loc'[h] = loc[h]
      BY <1>2, <2>2, <3>2 DEF Travel, StatusIs, LooseStep, OfferStep
    <3> QED
      BY <2>5, <3>1, <3>2
  <2>7. s = "CANCELADO" => scenario.kinds \cap (Answers \cup {"reject"}) = {}
    BY <2>3 DEF Direct, Quiet, Answers
  <2> QED
    BY <1>4, <2>3, <2>4, <2>6, <2>7 DEF Quiet
<1>8. CASE GeofenceWrite(h)
  <2>1. pc[h] = "arrive" /\ Go(h, "arrived", loc[h])
    BY <1>8 DEF GeofenceWrite, At
  <2>2. loc[h].order = o /\ s = loc[h].status
    BY <1>1, <2>1 DEF Writes
  <2>3. <<order[o].status, s>> \in Arrivals /\ order[o].rider = loc[h].rider
    BY <1>0, <2>1, <2>2 DEF Travel
  <2>4. \/ order[o].status = "EN_CAMINO_AL_NEGOCIO" /\ s = "EN_EL_NEGOCIO"
        \/ order[o].status = "EN_CAMINO" /\ s = "CERCA_DEL_DESTINO"
    BY <2>3 DEF Arrivals
  <2>5. order[o].status \in ActiveStatus /\ s \notin Opened /\ Place(s) >= Place(order[o].status) /\ s # "CANCELADO"
    BY <2>4, PlaceOf DEF ActiveStatus, Opened
  <2>6. Moves(o)
    BY <1>2, <2>4, <2>5 DEF Moves, StatusIs
  <2>7. pc'[h] = "arrived" /\ loc'[h] = loc[h]
    BY <1>0, <2>1
  <2>8. Travel(h)'
    BY <1>2, <2>2, <2>3, <2>7 DEF Travel, StatusIs, LooseStep, OfferStep
  <2> QED
    BY <1>4, <2>5, <2>6, <2>8
<1> QED
  BY <1>5, <1>6, <1>7, <1>8 DEF StatusHandlers

LEMMA AdvanceHandles ==
    ASSUME SteadyInv, Steady(scenario), NEW h \in Requests, OthersStay(h), Sole(h), Handles(h)
    PROVE  Advances(h)
  BY AdvanceReads, AdvanceProposalReads, AdvanceGeofenceRead, AdvanceGoesOn, AdvanceLess,
     AdvanceMore, AdvanceCreate, AdvanceHolder, AdvanceStatus
     DEF Handles, Continue, StatusHandlers, HaggleRead, AcceptQuoteRead, CancelQuoteRead

(***************************************************************************)
(* What Redis remembers.                                                   *)
(***************************************************************************)
\* Where the geofence works, these are the steps at which handlers stand.
LEMMA FewKinds ==
    ASSUME SteadyInv, Steady(scenario), "geofence" \in scenario.kinds, NEW h \in Requests
    PROVE  /\ pc[h] \notin OfferStep \cup {"reread", "accept", "reject", "quote", "quoteMark",
                                           "acceptQuote", "cancelQuote", "recount", "reopen"}
           /\ Redis /\ ~scenario.crash
           /\ \A k \in {"dispatch", "accept", "reject", "quote", "acceptQuote"} : k \notin scenario.kinds
<1>1. scenario.kinds \subseteq {"take", "status", "cancel", "geofence"} /\ ~scenario.crash
  BY DEF Steady
<1>2. Asked(h)
  BY DEF SteadyInv, OfferInv, BaseInv
<1> QED
  BY <1>1, <1>2 DEF Asked, Redis

\* Who changes neither the order nor what Redis remembers leaves things so.
LEMMA RecallsSame ==
    ASSUME Remembered, NEW h \in Requests, OthersStay(h), UNCHANGED <<order, meta>>,
           pc[h] \notin {"forget", "remember", "arrived"}
    PROVE  Remembered'
<1>1. \A o \in Orders, g \in Requests : Telling(g, o) => pc'[g] = pc[g] /\ loc'[g] = loc[g]
  BY DEF Telling, OthersStay
<1>2. ASSUME NEW o \in Orders, meta'[o].rider # None
      PROVE  /\ order'[o].status # "NONE" /\ order'[o].rider = meta'[o].rider
             /\ order'[o].status = meta'[o].status
                \/ \E g \in Requests : pc'[g] \in {"forget", "remember", "arrived"} /\ loc'[g].order = o
  BY <1>1, <1>2 DEF Remembered, Born, Telling
<1> QED
  BY <1>2 DEF Remembered, Born, Telling

\* With one handler in flight: what is remembered of an order that it is not
\* about to correct is true.
LEMMA RecallsTrue ==
    ASSUME SteadyInv, Steady(scenario), "geofence" \in scenario.kinds, NEW h \in Requests, Sole(h),
           NEW o \in Orders, ~Telling(h, o), meta[o].rider # None
    PROVE  Born(o) /\ order[o].rider = meta[o].rider /\ order[o].status = meta[o].status
<1>1. Remembered
  BY DEF SteadyInv
<1>2. \A g \in Requests : ~Telling(g, o)
  BY SteadySettles DEF Sole, Telling
<1> QED
  BY <1>1, <1>2 DEF Remembered

\* The order o is the only one whose row or memory changes.
LEMMA RecallsOne ==
    ASSUME SteadyInv, Steady(scenario), "geofence" \in scenario.kinds, NEW h \in Requests, Sole(h),
           NEW o \in Orders, \A p \in Orders \ {o} : ~Telling(h, p),
           \A p \in Orders \ {o} : order'[p] = order[p] /\ meta'[p] = meta[p],
           meta'[o].rider # None => /\ order'[o].status # "NONE"
                                    /\ order'[o].rider = meta'[o].rider
                                    /\ \/ order'[o].status = meta'[o].status
                                       \/ /\ pc'[h] \in {"forget", "remember", "arrived"}
                                          /\ loc'[h].order = o
    PROVE  Remembered'
<1>1. \A p \in Orders \ {o} : meta'[p].rider # None =>
         order'[p].status # "NONE" /\ order'[p].rider = meta'[p].rider /\ order'[p].status = meta'[p].status
  BY RecallsTrue DEF Born
<1>2. ASSUME NEW p \in Orders, meta'[p].rider # None
      PROVE  /\ order'[p].status # "NONE" /\ order'[p].rider = meta'[p].rider
             /\ order'[p].status = meta'[p].status
                \/ \E g \in Requests : pc'[g] \in {"forget", "remember", "arrived"} /\ loc'[g].order = p
  BY <1>1, <1>2
<1> QED
  BY <1>2 DEF Remembered, Born, Telling

\* The handlers that change no order: what Redis remembers is taken from it.
LEMMA RecallsTold ==
    ASSUME SteadyInv, Steady(scenario), "geofence" \in scenario.kinds, NEW h \in Requests, Sole(h),
           StatusRemember(h) \/ CancelForget(h) \/ GeofenceRead(h) \/ GeofenceRemember(h)
    PROVE  Remembered'
<1>0. /\ BaseInv /\ Travel(h) /\ meta \in [Orders -> OrderRow] /\ NoMeta.rider = None
  BY SteadyFacts DEF BaseInv, TypeOK, RedisOK, NoMeta
<1>1. order' = order
  BY DEF StatusRemember, CancelForget, GeofenceRead, GeofenceRemember, rows
<1>2. CASE GeofenceRead(h)
  <2>1. PICK o \in Orders : pc[h] = "idle" /\ Born(o) /\ meta' = [meta EXCEPT ![o] = Meta(o)]
    BY <1>2 DEF GeofenceRead, Born, MayStart
  <2>2. meta'[o] = Meta(o) /\ \A p \in Orders \ {o} : meta'[p] = meta[p]
    BY <1>0, <2>1
  <2>3. \A p \in Orders : ~Telling(h, p)
    BY <2>1 DEF Telling
  <2>4. CASE meta[o] = NoMeta
    <3>1. meta'[o] = order[o]
      BY <2>2, <2>4 DEF Meta
    <3> QED
      BY <1>1, <2>1, <2>2, <2>3, <3>1, RecallsOne DEF Born
  <2>5. CASE meta[o] # NoMeta
    <3>1. meta'[o] = meta[o]
      BY <2>2, <2>5 DEF Meta
    <3>2. meta'[o].rider # None => /\ order'[o].status # "NONE" /\ order'[o].rider = meta'[o].rider
                                   /\ order'[o].status = meta'[o].status
      BY <1>1, <2>3, <3>1, RecallsTrue DEF Born
    <3> QED
      BY <1>1, <2>2, <2>3, <3>2, RecallsOne
  <2> QED
    BY <2>4, <2>5
<1> DEFINE o == loc[h].order
           s == loc[h].status
<1>3. CASE StatusRemember(h) \/ CancelForget(h) \/ GeofenceRemember(h)
  <2>1. pc[h] \in {"remember", "forget", "arrived"}
    BY <1>3 DEF StatusRemember, CancelForget, GeofenceRemember, At
  <2>2. o \in Orders /\ Born(o)
    BY <1>0, <2>1, Working
  <2>3. \A p \in Orders \ {o} : ~Telling(h, p)
    BY DEF Telling
  <2>4. CASE Forget(o)
    <3>1. meta'[o] = NoMeta /\ \A p \in Orders \ {o} : meta'[p] = meta[p]
      BY <1>0, <2>2, <2>4 DEF Forget
    <3> HIDE DEF o, s
    <3> QED
      BY <1>0, <1>1, <2>2, <2>3, <3>1, RecallsOne
  <2>5. CASE pc[h] = "remember" /\ meta' = [meta EXCEPT ![o] = Told(o, s)]
    <3>1. order[o].status = s
      BY <1>0, <2>5 DEF Travel
    <3>2. Meta(o) \in OrderRow
      BY <1>0, <2>2, MetaTyped
    <3>3. Told(o, s).rider = Meta(o).rider /\ Told(o, s).status = s
      BY <3>2 DEF Told, OrderRow
    <3>4. Meta(o).rider # None => order[o].rider = Meta(o).rider
      BY <2>2 DEF Meta, SteadyInv, Remembered
    <3> DEFINE t == Told(o, s)
    <3>5. meta' = [meta EXCEPT ![o] = t]
      BY <2>5
    <3> HIDE DEF o, s, t
    <3>6. meta'[o] = t /\ \A p \in Orders \ {o} : meta'[p] = meta[p]
      BY <1>0, <2>2, <3>5
    <3>7. t.rider = Meta(o).rider /\ t.status = s
      BY <3>3 DEF t
    <3> QED
      BY <1>1, <2>2, <2>3, <3>1, <3>4, <3>6, <3>7, RecallsOne DEF Born
  <2>6. CASE /\ pc[h] = "arrived"
             /\ meta' = [meta EXCEPT ![o] = [status |-> s, rider |-> loc[h].rider]]
    <3> DEFINE t == [status |-> s, rider |-> loc[h].rider]
    <3>1. order[o].status = s /\ order[o].rider = loc[h].rider
      BY <1>0, <2>6 DEF Travel
    <3>2. meta' = [meta EXCEPT ![o] = t] /\ t.status = s /\ t.rider = loc[h].rider
      BY <2>6
    <3> HIDE DEF o, s, t
    <3>3. meta'[o] = t /\ \A p \in Orders \ {o} : meta'[p] = meta[p]
      BY <1>0, <2>2, <3>2
    <3> QED
      BY <1>1, <2>2, <2>3, <3>1, <3>2, <3>3, RecallsOne DEF Born
  <2> QED
    BY <1>3, <2>4, <2>5, <2>6 DEF StatusRemember, CancelForget, GeofenceRemember, At
<1> QED
  BY <1>2, <1>3

\* Who writes the status of an order is about to tell Redis.
LEMMA RecallsLater ==
    ASSUME SteadyInv, Steady(scenario), "geofence" \in scenario.kinds, NEW h \in Requests, Sole(h),
           NEW o \in Orders, NEW s, s # "NONE", StatusIs(o, s), meta' = meta,
           pc[h] \notin {"forget", "remember", "arrived"},
           pc'[h] \in {"forget", "remember", "arrived"}, loc'[h].order = o
    PROVE  Remembered'
<1>1. \A p \in Orders : ~Telling(h, p)
  BY DEF Telling
<1>2. meta[o].rider # None => order[o].rider = meta[o].rider
  BY <1>1, RecallsTrue
<1>3. /\ order'[o].status # "NONE" /\ order'[o].rider = order[o].rider
      /\ \A p \in Orders \ {o} : order'[p] = order[p]
  BY DEF StatusIs
<1> QED
  BY <1>1, <1>2, <1>3, RecallsOne

LEMMA RecallsWritten ==
    ASSUME SteadyInv, Steady(scenario), "geofence" \in scenario.kinds, NEW h \in Requests, Sole(h),
           CancelOrder(h) \/ StatusWrite(h) \/ GeofenceWrite(h)
    PROVE  Remembered'
<1>0. /\ BaseInv /\ Redis /\ meta' = meta
      /\ \A step, w : Go(h, step, w) => pc'[h] = step /\ loc'[h] = w
  BY SteadyFacts, FewKinds DEF CancelOrder, StatusWrite, GeofenceWrite, Go, Finish, redis
<1>1. CASE CancelOrder(h)
  <2>1. PICK p \in Orders : /\ SetStatus(p, "CANCELADO") /\ pc[h] = "idle"
                            /\ Go(h, "forget", [NoWork EXCEPT !.order = p])
                            /\ Born(p) /\ UNCHANGED <<offers, quote, commission>>
    BY <1>0, <1>1 DEF CancelOrder, Born, MayStart
  <2> DEFINE w == [NoWork EXCEPT !.order = p]
  <2>2. w.order = p
    BY DEF NoWork
  <2>3. StatusIs(p, "CANCELADO")
    BY <1>0, <2>1, StatusSet DEF Statuses
  <2>4. Go(h, "forget", w)
    BY <2>1
  <2> HIDE DEF w
  <2>5. pc'[h] = "forget" /\ loc'[h].order = p
    BY <1>0, <2>2, <2>4
  <2> QED
    BY <1>0, <2>1, <2>3, <2>5, RecallsLater
<1>2. CASE StatusWrite(h) \/ GeofenceWrite(h)
  <2>1. PICK o \in Orders, s \in Statuses : Writes(h, o, s)
    BY <1>0, <1>2, StatusWrites DEF StatusHandlers
  <2>2. pc[h] \in {"status", "arrive"} /\ pc'[h] \in {"remember", "arrived"} /\ loc'[h] = loc[h]
    BY <1>0, <1>2 DEF StatusWrite, GeofenceWrite, At
  <2>3. StatusIs(o, s) /\ loc[h].order = o /\ s = loc[h].status
    BY <2>1, <2>2 DEF Writes
  <2>4. s # "NONE"
    BY <1>0, <2>2, <2>3 DEF BaseInv, OwnWork, ActiveStatus
  <2> QED
    BY <1>0, <2>2, <2>3, <2>4, RecallsLater
<1> QED
  BY <1>1, <1>2

\* An order that is born or taken had no rider, and Redis knew of none.
LEMMA RecallsGiven ==
    ASSUME SteadyInv, Steady(scenario), "geofence" \in scenario.kinds, NEW h \in Requests, Sole(h),
           Create(h) \/ TakeWrite(h)
    PROVE  Remembered'
<1>0. BaseInv /\ QuoteInv /\ meta' = meta
  BY SteadyFacts DEF Create, TakeWrite, Go, Finish, redis
<1>1. CASE Create(h)
  <2>1. PICK o \in scenario.orders : ~Born(o) /\ pc[h] = "idle" /\ SetOrder(o, "PENDIENTE", None)
    BY <1>1 DEF Create, Born
  <2>2. o \in Orders
    BY <1>0, <2>1, ScenarioAssumption DEF BaseInv, TypeOK
  <2>3. HolderIs(o, "PENDIENTE", None)
    BY <1>0, <2>1, <2>2, OrderSet DEF Statuses, Opened
  <2>4. \A p \in Orders : ~Telling(h, p)
    BY <2>1 DEF Telling
  <2>5. meta[o].rider = None
    BY <2>1, <2>2, <2>4, RecallsTrue
  <2> QED
    BY <1>0, <2>2, <2>3, <2>4, <2>5, RecallsOne DEF HolderIs
<1>2. CASE TakeWrite(h)
  <2> DEFINE o == loc[h].order
  <2>1. pc[h] = "take" /\ o \in Orders /\ HolderIs(o, "ACEPTADO", loc[h].rider)
    BY <1>0, <1>2, TakeShape
  <2>2. order[o].rider = None
    BY <2>1, SteadyFacts DEF Travel
  <2>3. \A p \in Orders : ~Telling(h, p)
    BY <2>1 DEF Telling
  <2> HIDE DEF o
  <2>4. meta[o].rider = None
    BY <2>1, <2>2, <2>3, RecallsTrue
  <2> QED
    BY <1>0, <2>1, <2>3, <2>4, RecallsOne DEF HolderIs
<1> QED
  BY <1>1, <1>2

LEMMA RecallsHandles ==
    ASSUME SteadyInv, Steady(scenario), "geofence" \in scenario.kinds, NEW h \in Requests,
           OthersStay(h), Sole(h), Handles(h)
    PROVE  Remembered'
<1>1. Remembered /\ BaseInv
  BY SteadyFacts DEF SteadyInv
<1>2. CASE pc[h] \in OfferStep \cup {"reread", "accept", "reject", "quote", "quoteMark",
                                     "acceptQuote", "cancelQuote", "recount", "reopen"}
  BY <1>2, FewKinds
<1>3. CASE CancelOrder(h) \/ StatusWrite(h) \/ GeofenceWrite(h)
  BY <1>3, RecallsWritten
<1>4. CASE StatusRemember(h) \/ CancelForget(h) \/ GeofenceRead(h) \/ GeofenceRemember(h)
  BY <1>4, RecallsTold
<1>5. CASE Create(h) \/ TakeWrite(h)
  BY <1>5, RecallsGiven
<1>6. CASE \/ AcceptRead(h) \/ RejectRead(h) \/ TakeRead(h) \/ StatusRead(h) \/ QuoteRead(h)
           \/ HaggleRead(h) \/ AcceptQuoteRead(h) \/ CancelQuoteRead(h)
           \/ CommissionWrite(h) \/ HaggleWrite(h) \/ \E o \in Orders : TimeoutClaim(h, o)
  <2>1. UNCHANGED <<order, meta>>
    BY <1>6 DEF AcceptRead, RejectRead, TakeRead, StatusRead, QuoteRead, HaggleRead, AcceptQuoteRead,
                CancelQuoteRead, QuoteStep, CommissionWrite, HaggleWrite, TimeoutClaim, Finish, Go,
                rows, redis
  <2>2. pc[h] \in {"idle", "commission", "haggle"}
    BY <1>6 DEF AcceptRead, RejectRead, TakeRead, StatusRead, QuoteRead, HaggleRead, AcceptQuoteRead,
                CancelQuoteRead, QuoteStep, CommissionWrite, HaggleWrite, TimeoutClaim, MayStart, At
  <2> QED
    BY <1>1, <2>1, <2>2, RecallsSame
<1>7. CASE \/ NextChoose(h) \/ NextGiveUp(h) \/ NextOffer(h) \/ NextMark(h) \/ TimeoutReread(h)
           \/ AcceptWrite(h) \/ RejectWrite(h) \/ QuoteInsert(h) \/ QuoteMark(h)
           \/ AcceptQuoteWrite(h) \/ CancelQuoteWrite(h) \/ CancelQuoteRecount(h)
           \/ CancelQuoteReopen(h)
  BY <1>2, <1>7 DEF NextChoose, NextGiveUp, NextOffer, NextMark, TimeoutReread, AcceptWrite,
     RejectWrite, QuoteInsert, QuoteMark, AcceptQuoteWrite, CancelQuoteWrite, CancelQuoteRecount,
     CancelQuoteReopen, At, OfferStep
<1> QED
  BY <1>3, <1>4, <1>5, <1>6, <1>7 DEF Handles, Continue

(***************************************************************************)
(* The steady invariant.                                                   *)
(***************************************************************************)
LEMMA SteadyHandles ==
    ASSUME SteadyInv, Steady(scenario), OfferInv', QuoteInv', NEW h \in Requests, Handles(h)
    PROVE  SteadyInv' /\ \A o \in Orders : Moves(o)
<1>1. OthersStay(h) /\ Sole(h)
  BY HandlesStays, HandlesSole DEF SteadyInv, OfferInv
<1>2. Advances(h)
  BY <1>1, AdvanceHandles
<1>3. "geofence" \in scenario.kinds => Remembered'
  BY <1>1, RecallsHandles
<1>4. \A g \in Requests : Travel(g)'
  <2> TAKE g \in Requests
  <2>1. CASE g = h
    BY <1>2, <2>1 DEF Advances
  <2>2. CASE g # h
    <3>1. pc'[g] = "idle"
      BY <1>1, <2>2, SteadySettles DEF OthersStay, Sole
    <3> QED
      BY <3>1, EaseTravels DEF AtEase
  <2> QED
    BY <2>1, <2>2
<1>5. scenario' = scenario
  BY <1>1 DEF OthersStay
<1> QED
  BY <1>2, <1>3, <1>4, <1>5 DEF SteadyInv, Advances

LEMMA SteadyAround ==
    ASSUME SteadyInv, Steady(scenario), OfferInv', QuoteInv', Around
    PROVE  SteadyInv' /\ \A o \in Orders : Moves(o)
<1>0. /\ BaseInv /\ SteadyRows /\ \A h \in Requests : Travel(h)
      /\ "geofence" \in scenario.kinds => Remembered
  BY DEF SteadyInv, OfferInv
<1>1. scenario' = scenario /\ UNCHANGED <<order, quote>> /\ NoNewQuote
  BY DEF Around, Expire, RedisForgets, Crash, rows, NoNewQuote
<1>2. ASSUME Fewer, \A h \in Requests : Travel(h)', "geofence" \in scenario.kinds => Remembered'
      PROVE  SteadyInv' /\ \A o \in Orders : Moves(o)
  BY <1>0, <1>1, <1>2, RowsStill DEF SteadyInv
<1>3. ASSUME NEW o \in Orders, NEW i \in DOMAIN offers[o], Expire(o, i)
      PROVE  SteadyInv' /\ \A p \in Orders : Moves(p)
  <2>1. /\ UNCHANGED <<scenario, order, pc, loc, meta>> /\ DOMAIN offers'[o] = DOMAIN offers[o]
        /\ \A j \in DOMAIN offers[o] : /\ offers'[o][j].rider = offers[o][j].rider
                                       /\ offers'[o][j].status = offers[o][j].status
        /\ \A p \in Orders \ {o} : offers'[p] = offers[p]
    BY <1>0, <1>3, BaseExpire DEF Expire, redis
  <2>2. Fewer
    BY <2>1 DEF Fewer
  <2>3. \A p \in Orders : /\ Sent(p)' = Sent(p)
                          /\ \A j \in DOMAIN offers[p] : offers'[p][j].rider = offers[p][j].rider
    BY <2>1 DEF Sent
  <2>4. ASSUME NEW h \in Requests
        PROVE  Travel(h)'
    <3>1. pc[h] = "accept" => loc[h].order \in Orders
      BY <1>0 DEF BaseInv, OwnWork
    <3>2. pc[h] = "accept" => loc[h].offer \in DOMAIN offers[loc[h].order]
      BY <1>0 DEF BaseInv, OwnWork
    <3> QED
      BY <1>0, <2>1, <2>3, <3>1, <3>2 DEF Travel, Loose, UnderWay
  <2>5. Remembered => Remembered'
    BY <2>1 DEF Remembered, Telling, Born
  <2> QED
    BY <1>0, <1>2, <2>2, <2>4, <2>5
<1>4. ASSUME NEW o \in Orders, RedisForgets(o)
      PROVE  SteadyInv' /\ \A p \in Orders : Moves(p)
  <2>1. UNCHANGED <<scenario, rows, pc, loc>> /\ meta' = [meta EXCEPT ![o] = NoMeta]
    BY <1>4 DEF RedisForgets, Forget
  <2>2. meta'[o].rider = None /\ \A p \in Orders \ {o} : meta'[p] = meta[p]
    BY <1>0, <2>1 DEF BaseInv, TypeOK, RedisOK, NoMeta
  <2>3. Remembered => Remembered'
    BY <2>1, <2>2 DEF Remembered, Telling, Born, rows
  <2>4. \A h \in Requests : Travel(h)'
    BY <1>0, <2>1 DEF Travel, Loose, UnderWay, Sent, rows
  <2>5. Fewer
    BY <2>1 DEF Fewer, rows
  <2> QED
    BY <1>0, <1>2, <2>3, <2>4, <2>5
<1>5. CASE Crash
  <2>1. UNCHANGED rows /\ scenario.crash /\ \A h \in Requests : pc'[h] = "idle"
    BY <1>0, <1>5, BaseCrash
  <2>2. \A h \in Requests : Travel(h)'
    BY <2>1, EaseTravels DEF AtEase
  <2>3. "geofence" \notin scenario.kinds
    BY <2>1 DEF Steady
  <2>4. Fewer
    BY <2>1 DEF Fewer, rows
  <2> QED
    BY <1>2, <2>2, <2>3, <2>4
<1> QED
  BY <1>3, <1>4, <1>5 DEF Around

LEMMA SteadyInit == Init => SteadyInv
<1> SUFFICES ASSUME Init PROVE SteadyInv
  OBVIOUS
<1>1. /\ \A h \in Requests : pc[h] = "idle"
      /\ \A o \in Orders : /\ order[o].status = "NONE" /\ offers[o] = << >>
                           /\ meta[o].rider = None
                           /\ \A r \in Riders : quote[o][r] = "NONE"
  BY DEF Init, NoMeta
<1>2. \A h \in Requests : Travel(h)
  BY <1>1 DEF Travel, LooseStep, OfferStep
<1>3. SteadyRows
  BY <1>1 DEF SteadyRows, NoneCancelled, OffersLoose, OfferElsewhere, QuotesLoose,
              UnderWay, ActiveStatus
<1>4. Remembered
  BY <1>1 DEF Remembered
<1> QED
  BY <1>2, <1>3, <1>4, OfferInit, QuoteInit DEF SteadyInv

LEMMA SteadyStutter ==
    ASSUME SteadyInv, OfferInv', QuoteInv', UNCHANGED vars
    PROVE  SteadyInv'
<1>1. UNCHANGED <<scenario, order, offers, quote, meta, pc, loc>>
  BY DEF vars, redis
<1>2. SteadyRows => SteadyRows'
  BY <1>1 DEF SteadyRows, NoneCancelled, OffersLoose, OfferElsewhere, QuotesLoose,
              UnderWay, Sent, Live
<1>3. Remembered => Remembered'
  BY <1>1 DEF Remembered, Telling, Born
<1>4. \A h \in Requests : Travel(h) => Travel(h)'
  BY <1>1 DEF Travel, Loose, UnderWay, Sent
<1> QED
  BY <1>1, <1>2, <1>3, <1>4 DEF SteadyInv

LEMMA SameScenario == BaseInv /\ [Next]_vars => scenario' = scenario
<1> SUFFICES ASSUME BaseInv, [Next]_vars PROVE scenario' = scenario
  OBVIOUS
<1>1. CASE \E h \in Requests : Handles(h)
  BY <1>1, HandlesStays DEF OthersStay
<1>2. CASE Around
  BY <1>2 DEF Around, Expire, RedisForgets, Crash
<1>3. CASE UNCHANGED vars
  BY <1>3 DEF vars
<1> QED
  BY <1>1, <1>2, <1>3, NextCases

LEMMA SteadyNext == SteadyInv /\ [Next]_vars => SteadyInv'
<1> SUFFICES ASSUME SteadyInv, [Next]_vars PROVE SteadyInv'
  OBVIOUS
<1>1. OfferInv' /\ QuoteInv' /\ scenario' = scenario
  BY OfferNext, QuoteNext, SameScenario DEF SteadyInv, OfferInv
<1>2. CASE UNCHANGED vars
  BY <1>1, <1>2, SteadyStutter
<1>3. CASE Next /\ Steady(scenario)
  BY <1>1, <1>3, NextCases, SteadyHandles, SteadyAround
<1>4. CASE ~Steady(scenario)
  BY <1>1, <1>4 DEF SteadyInv
<1> QED
  BY <1>2, <1>3, <1>4

LEMMA SteadyStays == SteadyInv /\ Steady(scenario) /\ [Next]_vars => Steady(scenario)'
  BY SameScenario DEF SteadyInv, OfferInv, Steady

\* An order under way and what a step may do to it.
LEMMA SteadyMoves ==
    ASSUME SteadyInv, Steady(scenario), [Next]_vars, NEW o \in Orders
    PROVE  Moves(o)
<1>1. CASE Next
  BY <1>1, NextCases, OfferNext, QuoteNext, SteadyHandles, SteadyAround DEF SteadyInv
<1>2. CASE UNCHANGED vars
  BY <1>2, StaysPut DEF vars
<1> QED
  BY <1>1, <1>2

\* With one request at a time, of the kinds that Steady allows beside each other:
\* an order under way stays with its rider and is not opened again until it is
\* delivered, cancelled or reported, whatever status updateStatus is asked for where
\* there are no offers and proposals, and where there are, unless it is asked to open,
\* accept or cancel an order.
THEOREM RidersKeepOrders == Spec /\ Steady(scenario) => HolderKeeps
<1>1. SteadyInv /\ Steady(scenario) /\ [Next]_vars =>
         [\A o \in Orders : UnderWay(o) =>
             /\ order'[o].rider = order[o].rider
             /\ order'[o].status \notin {"PENDIENTE", "OFERTADO", "COTIZANDO"}]_vars
  BY SteadyMoves DEF Moves, Opened
<1> QED
  BY <1>1, SteadyInit, SteadyNext, SteadyStays, PTL DEF Spec, HolderKeeps

\* Under the same conditions an order under way never goes back along the flow,
\* whether riders, managers or the geofence move it: the geofence, which writes the
\* status that follows the one it remembers, remembers no other than the order's.
THEOREM OrdersMoveForward == Spec /\ Steady(scenario) => OnlyForward
<1>1. SteadyInv /\ Steady(scenario) /\ [Next]_vars =>
         [\A o \in Orders : UnderWay(o) =>
             \/ Place(order'[o].status) >= Place(order[o].status)
             \/ order'[o].status \in {"CANCELADO", "INCIDENCIA"}]_vars
  BY SteadyMoves DEF Moves
<1> QED
  BY <1>1, SteadyInit, SteadyNext, SteadyStays, PTL DEF Spec, OnlyForward

=============================================================================
