------------------------------- MODULE Salon -------------------------------
(***************************************************************************)
(* The floor of a restaurant or workshop: its tables (in a workshop, the   *)
(* vehicles received), which of them have an order open, and the           *)
(* technicians who have it, from                                           *)
(* src/src/modules/pos/tables/tables.service.ts; and the bill of a divided *)
(* order as its screen shows it.  TableOrders looks inside one order; here *)
(* an order is its head.                                                   *)
(*                                                                         *)
(* As there, a handler reads (seen), decides and writes rows by id later.  *)
(*                                                                         *)
(* Restrictions: a reception names no technician or asks for AUTO (naming  *)
(* one is an assignment after it); technicians are not deactivated; the    *)
(* vehicle and customer cards are left out, no failure of which stops a    *)
(* reception; nor does a zone disappear.                                   *)
(***************************************************************************)
EXTENDS TableOrders

CONSTANTS
    TableIds, OrderIds,   \* rows that may be created, in this order
    Names,                \* identifiers of tables, as they are written
    Fold,                 \* of an identifier: itself without case
    Zones, Cells,         \* a cell is a place of the grid of a zone
    Techs                 \* technicians, numbered in order of creation
                          \* A setting of the floor says which profile the business
                          \* has, which rows and zones it uses, and what a reception
                          \* says of the technician (techs)

ASSUME SalonAssumption ==
    /\ TableIds \cup OrderIds \cup Techs \subseteq Nat \ {0}
    /\ IsFiniteSet(TableIds) /\ IsFiniteSet(OrderIds) /\ IsFiniteSet(Techs)
    /\ DOMAIN Fold = Names
    /\ Nothing \notin Names /\ Nothing \notin Zones /\ Nothing \notin Techs
    /\ \A sc \in Settings : /\ sc.rows \subseteq TableIds /\ sc.zones \subseteq Zones
                           /\ sc.techs \subseteq {Nothing, 0}

VARIABLES
    spot,    \* RestaurantTable rows
    head,    \* TableOrder rows, without what is in them
    task     \* each handler: its request, and the floor as it read it

floor == <<spot, head>>
salonVars == <<tableVars, spot, head, task>>

Same == "Same"   \* a field that the request does not change
AutoTech == 0        \* technicianId AUTO

NoSpot == [number |-> Nothing, zone |-> Nothing, cell |-> Nothing, active |-> FALSE]
NoHead == [status |-> "NONE", spot |-> 0, tech |-> Nothing]
NoTask == [kind |-> "idle"]

SalonInit == /\ TableInit
             /\ spot = [t \in TableIds |-> NoSpot]
             /\ head = [h \in OrderIds |-> NoHead]
             /\ task = [r \in Handlers |-> NoTask]

-----------------------------------------------------------------------------
(* Reading the floor.  f is the floor as some handler read it.              *)

Floor == [spot |-> spot, head |-> head]

Active(f)    == {t \in TableIds : f.spot[t].active}
Heads(f, t)  == {h \in OrderIds : f.head[h].spot = t}
OpenAt(f, t) == {h \in Heads(f, t) : f.head[h].status = "OPEN"}

\* getTablesStatus: the active tables, each with its last open order.
StatusOf(f, t) == IF OpenAt(f, t) = {} THEN 0 ELSE Greatest(OpenAt(f, t))

Like(f, n) == {t \in TableIds : f.spot[t].number \in Names
                                /\ Fold[f.spot[t].number] = Fold[n]}

Taken(f, n)       == Like(f, n) \cap Active(f)
TakenCell(f, z, c) == {t \in Active(f) : f.spot[t].zone = z /\ f.spot[t].cell = c}

\* The unique index on the identifier knows nothing of case.
NumberFree(t, n) == \A u \in TableIds \ {t} : spot[u].number # n

Workshop == setting.profile = "TALLER"

\* findFirstAvailableTechnician: the fewest open orders; among equals, whose last
\* order is the oldest; then the first one created.
AllOrders(f, w) == Cardinality({h \in OrderIds : f.head[h].tech = w})

OpenOrders(f, w) == Cardinality({h \in OrderIds : f.head[h].tech = w
                                                  /\ f.head[h].status = "OPEN"})

LastOrder(f, w) == LET own == {h \in OrderIds : f.head[h].tech = w}
                   IN  IF own = {} THEN 0 ELSE Greatest(own)

Sooner(f, v, w) ==
    \/ OpenOrders(f, v) < OpenOrders(f, w)
    \/ OpenOrders(f, v) = OpenOrders(f, w)
       /\ \/ LastOrder(f, v) < LastOrder(f, w)
          \/ LastOrder(f, v) = LastOrder(f, w) /\ v <= w

FirstAvailable(f) == CHOOSE v \in Techs : \A w \in Techs : Sooner(f, v, w)

\* resolveTechnician
Technician(f, tech) == IF tech = AutoTech THEN FirstAvailable(f) ELSE tech

-----------------------------------------------------------------------------
(* What a handler accepts, given the floor it read, and what it writes.     *)

NoMove(f, t, z) == FALSE

\* A table that changes cell or zone needs a free cell there.
Moves(f, t, z) == z # f.spot[t].zone

Zone(f, q) == IF q.zone = Same THEN f.spot[q.table].zone ELSE q.zone
Cell(f, q) == IF q.cell = Same THEN f.spot[q.table].cell ELSE q.cell

\* A workshop needs no cell, but one that is given must be free.
CanCreate(f, q) ==
    /\ q.cell = Nothing => Workshop
    /\ q.cell # Nothing => TakenCell(f, q.zone, q.cell) = {}
    /\ Taken(f, q.number) = {}

\* The number is compared when it changes more than its case.
CanRenumber(f, q) ==
    q.number # Same =>
        (Fold[q.number] = Fold[f.spot[q.table].number] \/ Taken(f, q.number) \ {q.table} = {})

CanPlace(f, q) ==
    LET asked == q.cell # Same
        free  == TakenCell(f, Zone(f, q), Cell(f, q)) \ {q.table} = {}
    IN  IF Workshop THEN asked /\ Cell(f, q) # Nothing => free
        ELSE asked \/ Moves(f, q.table, Zone(f, q)) => Cell(f, q) # Nothing /\ free

CanUpdateTable(f, q) == q.table \in Active(f) /\ CanRenumber(f, q) /\ CanPlace(f, q)

\* updateTable with isActive false asks nothing about the order.
CanHide(f, q) == q.table \in Active(f)

AnyOrder(f, t) == TRUE
NoOrderAt(f, t) == OpenAt(f, t) = {}

CanDelete(f, q) == q.table \in Active(f) /\ NoOrderAt(f, q.table)

CanOpen(f, q) == q.table \in Active(f) /\ NoOrderAt(f, q.table)

\* The last table with this number, active or not, for receiveVehicle.
Received(f, n) == IF Like(f, n) = {} THEN 0 ELSE Greatest(Like(f, n))

CanReceive(f, q) == /\ Workshop
                    /\ Received(f, q.number) # 0 => NoOrderAt(f, Received(f, q.number))

CanAssign(f, q) == q.table \in Active(f) /\ OpenAt(f, q.table) # {}

\* checkoutTableOrder: only the last order of the table can be charged;
\* cancelTableOrder takes the open one.
CanClose(f, q) == OpenAt(f, q.table) # {} /\ StatusOf(f, q.table) = Greatest(Heads(f, q.table))

CanCancelOrder(f, q) == OpenAt(f, q.table) # {}

Accepts(f, q) ==
    CASE q.kind = "create"  -> CanCreate(f, q)
      [] q.kind = "change"  -> CanUpdateTable(f, q)
      [] q.kind = "hide"    -> CanHide(f, q)
      [] q.kind = "delete"  -> CanDelete(f, q)
      [] q.kind = "open"    -> CanOpen(f, q)
      [] q.kind = "receive" -> CanReceive(f, q)
      [] q.kind = "assign"  -> CanAssign(f, q)
      [] q.kind = "close"   -> CanClose(f, q)
      [] q.kind = "free"    -> CanCancelOrder(f, q)

NextSpot == Least({t \in TableIds : spot[t] = NoSpot})
NextHead == Least({h \in OrderIds : head[h] = NoHead})

NewSpot(q) == [number |-> q.number, zone |-> q.zone, cell |-> q.cell, active |-> TRUE]

Changed(f, q) ==
    [spot[q.table] EXCEPT !.number = IF q.number = Same THEN @ ELSE q.number,
                          !.zone = Zone(f, q), !.cell = Cell(f, q)]

\* A table that comes back does so in the zone asked for, at its old cell.
Arrived(f, q) ==
    LET t == Received(f, q.number)
    IN  IF t = 0 THEN [spot EXCEPT ![NextSpot] = NewSpot(q)]
        ELSE [spot EXCEPT ![t] = [@ EXCEPT !.active = TRUE, !.zone = q.zone]]

Leaving(q) == [spot EXCEPT ![q.table].active = FALSE]

\* The vehicle of a workshop leaves when its order is charged, and keeps its
\* number; when it is cancelled it stays.
Charged(q) == IF Workshop THEN Leaving(q) ELSE spot

SpotsAfter(f, q) ==
    CASE q.kind = "create"  -> [spot EXCEPT ![NextSpot] = NewSpot(q)]
      [] q.kind = "change"  -> [spot EXCEPT ![q.table] = Changed(f, q)]
      [] q.kind = "hide"    -> Leaving(q)
      [] q.kind = "delete"  -> [spot EXCEPT ![q.table].active = FALSE, ![q.table].number = Nothing]
      [] q.kind = "receive" -> Arrived(f, q)
      [] q.kind = "close"   -> Charged(q)
      [] OTHER              -> spot

\* The order of a table that opens, or of a vehicle received.
NewHead(f, q) ==
    [status |-> "OPEN", tech |-> Technician(f, q.tech),
     spot |-> IF q.kind = "open" THEN q.table
              ELSE IF Received(f, q.number) = 0 THEN NextSpot ELSE Received(f, q.number)]

Assigned(f, q) == [head EXCEPT ![StatusOf(f, q.table)].tech = Technician(f, q.tech)]

\* A reception looks at the customer's name (q.valid) after it wrote the table.
HeadsAfter(f, q) ==
    CASE q.kind \in {"open", "receive"} /\ q.valid -> [head EXCEPT ![NextHead] = NewHead(f, q)]
      [] q.kind = "assign" -> Assigned(f, q)
      [] q.kind = "close"  -> [head EXCEPT ![StatusOf(f, q.table)].status = "CLOSED"]
      [] q.kind = "free"   -> [head EXCEPT ![StatusOf(f, q.table)].status = "CANCELLED"]
      [] OTHER             -> head

-----------------------------------------------------------------------------
(* The handlers *)

AtWork == {r \in Handlers : task[r] # NoTask}

\* The rows are bounded.
SpotLeft == \E t \in setting.rows : spot[t] = NoSpot
HeadLeft == \E h \in OrderIds : head[h] = NoHead

NeedsSpot(f, q) == \/ q.kind = "create"
                   \/ q.kind = "receive" /\ Received(f, q.number) = 0

Reads(r, q) ==
    /\ task[r] = NoTask /\ q.kind \in setting.kinds
    /\ AtWork = {} \/ \A k \in {q.kind} \cup {task[s].q.kind : s \in AtWork} :
                          k \in setting.together
    /\ Accepts(Floor, q)
    /\ NeedsSpot(Floor, q) => SpotLeft
    /\ q.kind \in {"open", "receive"} => HeadLeft
    /\ task' = [task EXCEPT ![r] = [kind |-> "write", q |-> q, seen |-> Floor]]
    /\ UNCHANGED <<tableVars, floor>>

\* A new number that the index refuses fails the request.
IndexRefuses(q) ==
    \/ q.kind = "create" /\ ~NumberFree(0, q.number)
    \/ q.kind = "change" /\ q.number # Same /\ ~NumberFree(q.table, q.number)
    \/ q.kind = "receive" /\ Received(Floor, q.number) = 0 /\ ~NumberFree(0, q.number)

Writes(r) ==
    LET w == task[r] IN
    /\ w.kind = "write"
    /\ IF IndexRefuses(w.q) THEN UNCHANGED floor
       ELSE /\ spot' = SpotsAfter(w.seen, w.q)
            /\ head' = HeadsAfter(w.seen, w.q)
    /\ task' = [task EXCEPT ![r] = NoTask]
    /\ UNCHANGED tableVars

Plain(kind, t) == [kind |-> kind, table |-> t, number |-> Same, zone |-> Same,
                   cell |-> Same, tech |-> Nothing, valid |-> TRUE]

SalonReads(r) ==
    \/ \E n \in Names, z \in setting.zones :
          \/ \E c \in Cells \cup {Nothing} :
                Reads(r, [Plain("create", 0) EXCEPT !.number = n, !.zone = z, !.cell = c])
          \/ \E tech \in setting.techs, valid \in BOOLEAN :
                Reads(r, [Plain("receive", 0) EXCEPT !.number = n, !.zone = z, !.cell = Nothing,
                                                     !.tech = tech, !.valid = valid])
    \/ \E t \in TableIds :
          \/ \E kind \in {"hide", "delete", "open", "close", "free"} : Reads(r, Plain(kind, t))
          \/ \E n \in Names \cup {Same}, z \in setting.zones \cup {Same}, c \in Cells \cup {Same} :
                Reads(r, [Plain("change", t) EXCEPT !.number = n, !.zone = z, !.cell = c])
          \/ \E tech \in Techs \cup {Nothing, AutoTech} :
                Reads(r, [Plain("assign", t) EXCEPT !.tech = tech])

FloorKinds == {"create", "change", "hide", "delete", "open", "receive", "assign", "close",
               "free"}

\* A setting is about one order or about the floor.
SalonNext == IF setting.kinds \cap FloorKinds = {} THEN TableNext /\ UNCHANGED <<floor, task>>
             ELSE \E r \in Handlers : SalonReads(r) \/ Writes(r)

SalonSpec == SalonInit /\ [][SalonNext]_salonVars

-----------------------------------------------------------------------------
(* formatOrderResponse: the bill of a divided order on the screen           *)

RoundedItems(o, a) ==
    Subtotal(o, OfAcct(o, a)) - IF Discount(o) = 0 THEN 0
                                ELSE Share(Discount(o), Subtotal(o, OfAcct(o, a)),
                                           Subtotal(o, Rows(o)))

\* By items, every account has its part of the discount and the last the rest.
ShownItems(o, a) == Positive(Subtotal(o, OfAcct(o, a)) - ItemsPart(o, a))

ShownEqual(o, a) == o.accts[a].fixed

Shown(o, a) == IF o.mode = "ITEMS" THEN ShownItems(o, a) ELSE ShownEqual(o, a)

ShownTotal(o) == Due(o)

-----------------------------------------------------------------------------
(* Properties *)

\* formatOrderResponse, startSplitOrder, addSubAccount, mergeSubAccounts,
\* checkoutTableOrder: what a divided order has charged and what its open accounts
\* show add up, to the cent, to the total it shows.  (An empty account at the end
\* would take, and lose, the rest of the discount.)
NoEmptyAccount(o) == o.mode = "ITEMS" => \A a \in Accounts(o) : OfAcct(o, a) # {}

ShownAddsUp ==
    order.status = "OPEN" /\ Accounts(order) # {} /\ NoEmptyAccount(order) =>
        charged.cents + SumFunctionOnSet([a \in AcctIds |-> Shown(order, a)], OpenAccts(order))
            = ShownTotal(order)

\* No two active tables have the same number, whatever its case, nor, in a
\* restaurant, the same cell of a zone.
OneTablePerPlace ==
    \A t, u \in Active(Floor) : t # u =>
        /\ Fold[spot[t].number] # Fold[spot[u].number]
        /\ Workshop \/ <<spot[t].zone, spot[t].cell>> # <<spot[u].zone, spot[u].cell>>

\* A workshop that renumbers tables and receives those again that left it.  There
\* the index lets a table be renumbered to the number of one that left in another
\* case, which then comes back beside it.
Renumbers(sc) ==
    /\ sc.profile = "TALLER" /\ {"change", "receive"} \subseteq sc.kinds
    /\ sc.kinds \cap {"hide", "close"} # {}

\* createTable, updateTable, deleteTable, openTableOrder, receiveVehicle,
\* checkoutTableOrder, cancelTableOrder: the screen of the floor shows every open
\* order, so that it can be charged, unless updateTable hid its table; and each
\* table at a place of its own, unless one was renumbered (Renumbers), however
\* tables were moved, deleted, charged, left and were received again.
OrdersShown ==
    /\ ~Renumbers(setting) => OneTablePerPlace
    /\ "hide" \notin setting.kinds =>
          \A h \in OrderIds : head[h].status = "OPEN" =>
             head[h].spot \in Active(Floor) /\ StatusOf(Floor, head[h].spot) = h

\* receiveVehicle with AUTO: the vehicle goes to a technician than whom no other
\* has fewer open orders, whatever was assigned by hand or closed before.
Load(w) == Cardinality({h \in OrderIds : head[h].tech = w /\ head[h].status = "OPEN"})

FairReception ==
    [][\A h \in OrderIds : head[h] = NoHead /\ head'[h].tech \in Techs =>
          \A w \in Techs : Load(head'[h].tech) <= Load(w)]_salonVars
=============================================================================
