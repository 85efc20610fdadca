--------------------------- MODULE PresaleTickets ---------------------------
(***************************************************************************)
(* Two-step sales: tickets that sellers send to the register and the stock *)
(* they reserve (src/src/modules/pos/presale-tickets), with the direct     *)
(* sales that compete for the stock (sales.service.ts) and the sweep that  *)
(* follows the close of a shift (cash-register.service.ts).                *)
(*                                                                         *)
(* A handler that locks the rows it reads is one action.  One that reads a *)
(* row without a lock and writes later is two, with what it read in loc;   *)
(* the locks it holds in between are TicketFree and BusinessFree.          *)
(*                                                                         *)
(* Restrictions: every product tracks its stock and is no recipe; a ticket *)
(* has one line per product, so a line's reservation is its quantity;      *)
(* negative stock is not allowed; an edit is one change of one line;       *)
(* prices are left out.                                                    *)
(***************************************************************************)
EXTENDS Integers, FiniteSets, Functions

CONSTANTS
    Tickets,     \* tickets, one for each clientRequestId
    Products,    \* products
    Cashiers,    \* users at the registers
    None,        \* nobody, nothing
    Requests,    \* handlers that may be in flight together
    Scenarios,   \* what clients do: requests of these kinds, at most width at once;
                 \* bounds: tickets made, units of a product in one
    Stock        \* stock of each product at first

Kinds == {"create", "claim", "remove", "reduce", "add", "charge", "cancel", "sweep",
          "close", "sale"}

ASSUME ScenarioAssumption ==
    \A sc \in Scenarios : /\ sc.kinds \subseteq Kinds /\ sc.width \in Nat \ {0}
                         /\ sc.units \in Nat
ASSUME RowAssumption == IsFiniteSet(Tickets) /\ None \notin Tickets
ASSUME StockAssumption == Stock \in Nat

VARIABLES
    scenario,  \* one of Scenarios, fixed from the start
    ticket,    \* PresaleTicket rows: status, claimedById, past expiresAt
    line,      \* quantity of each product in a ticket; 0 for a removed line
    stock,     \* Product.stock
    reserved,  \* Product.reservedStock
    pc, loc    \* where each handler stands, and what it has read

vars == <<scenario, ticket, line, stock, reserved, pc, loc>>

NoWork == [ticket |-> None, product |-> None, quantity |-> 0, todo |-> {},
           sums |-> [p \in Products |-> 0]]

Init == /\ scenario \in Scenarios
        /\ ticket = [t \in Tickets |->
                       [status |-> "NONE", claimed |-> None, late |-> FALSE]]
        /\ line = [t \in Tickets |-> [p \in Products |-> 0]]
        /\ stock = [p \in Products |-> Stock]
        /\ reserved = [p \in Products |-> 0]
        /\ pc = [h \in Requests |-> "idle"]
        /\ loc = [h \in Requests |-> NoWork]

-----------------------------------------------------------------------------
Busy == {h \in Requests : pc[h] # "idle"}

MayStart(h, k) == /\ pc[h] = "idle"
                  /\ k \in scenario.kinds
                  /\ Cardinality(Busy) < scenario.width

Go(h, step, work) == /\ pc' = [pc EXCEPT ![h] = step]
                     /\ loc' = [loc EXCEPT ![h] = work]
                     /\ UNCHANGED scenario

Finish(h) == Go(h, "idle", NoWork)

\* A handler of kind k that is one action.
AtOnce(h, k) == MayStart(h, k) /\ UNCHANGED <<scenario, pc, loc>>

\* SELECT ... FOR UPDATE of the ticket: no other handler holds it.
TicketFree(t) == \A h \in Requests : pc[h] \in {"add", "charge"} => loc[h].ticket # t

\* Sales, offline ones too (OfflineSync), update the row of the business before
\* they look at the stock.
BusinessFree == \A h \in Requests : pc[h] \notin {"charge", "sale", "sync"}

Pending(t) == ticket[t].status = "PENDING"

SetTicket(t, status) == ticket' = [ticket EXCEPT ![t].status = status]

Available(p) == stock[p] - reserved[p]

\* What a ticket reserved is given back, line by line.
Released(t) == [p \in Products |-> reserved[p] - line[t][p]]

(***************************************************************************)
(* create and claim.                                                       *)
(***************************************************************************)

\* The products are locked before they are read.
Create(h) ==
    \E t \in Tickets, want \in [Products -> 0 .. scenario.units] :
       /\ AtOnce(h, "create")
       /\ ticket[t].status = "NONE"
       /\ Cardinality({o \in Tickets : ticket[o].status # "NONE"}) < scenario.tickets
       /\ \E p \in Products : want[p] > 0
       /\ \A p \in Products : want[p] > 0 => want[p] <= Available(p)
       /\ reserved' = [p \in Products |-> reserved[p] + want[p]]
       /\ line' = [line EXCEPT ![t] = want]
       /\ SetTicket(t, "PENDING")
       /\ UNCHANGED stock

\* Another cashier's claim is respected for two minutes.
Mine(t, u) == ticket[t].claimed \in {None, u}

Claim(h) ==
    \E t \in Tickets, u \in Cashiers :
       /\ AtOnce(h, "claim")
       /\ TicketFree(t)
       /\ Pending(t) /\ Mine(t, u)
       /\ ticket' = [ticket EXCEPT ![t].claimed = u]
       /\ UNCHANGED <<line, stock, reserved>>

ClaimLapses(t) ==
    /\ ticket[t].claimed # None
    /\ ticket' = [ticket EXCEPT ![t].claimed = None]
    /\ UNCHANGED <<scenario, line, stock, reserved, pc, loc>>

Expires(t) ==
    /\ Pending(t) /\ ~ticket[t].late
    /\ ticket' = [ticket EXCEPT ![t].late = TRUE]
    /\ UNCHANGED <<scenario, line, stock, reserved, pc, loc>>

(***************************************************************************)
(* updateItems.                                                            *)
(***************************************************************************)

\* A line is removed, or left with fewer units, and its reservation with it.
LowerTo(h, kind, t, p, quantity) ==
    /\ AtOnce(h, kind)
    /\ TicketFree(t)
    /\ Pending(t) /\ line[t][p] > 0
    /\ line' = [line EXCEPT ![t][p] = quantity]
    /\ reserved' = [reserved EXCEPT ![p] = @ - (line[t][p] - quantity)]
    /\ UNCHANGED <<ticket, stock>>

Remove(h) == \E t \in Tickets, p \in Products : LowerTo(h, "remove", t, p, 0)

Reduce(h) == \E t \in Tickets, p \in Products : \E quantity \in 1 .. line[t][p] - 1 :
                LowerTo(h, "reduce", t, p, quantity)

\* The product is read without a lock.
AddRead(h) ==
    \E t \in Tickets, p \in Products : \E quantity \in 1 .. Available(p) :
       /\ MayStart(h, "add")
       /\ TicketFree(t)
       /\ Pending(t) /\ line[t][p] = 0
       /\ Go(h, "add", [NoWork EXCEPT !.ticket = t, !.product = p, !.quantity = quantity])
       /\ UNCHANGED <<ticket, line, stock, reserved>>

AddCommit(h) ==
    LET w == loc[h] IN
    /\ pc[h] = "add"
    /\ reserved' = [reserved EXCEPT ![w.product] = @ + w.quantity]
    /\ line' = [line EXCEPT ![w.ticket][w.product] = w.quantity]
    /\ Finish(h)
    /\ UNCHANGED <<ticket, stock>>

(***************************************************************************)
(* charge, cancel, and direct sales.                                       *)
(***************************************************************************)

\* The sale of a ticket looks at the whole stock, reserved or not.
ChargeRead(h) ==
    \E t \in Tickets, u \in Cashiers :
       /\ MayStart(h, "charge")
       /\ TicketFree(t) /\ BusinessFree
       /\ Pending(t) /\ ~ticket[t].late /\ Mine(t, u)
       /\ \E p \in Products : line[t][p] > 0
       /\ \A p \in Products : line[t][p] <= stock[p]
       /\ Go(h, "charge", [NoWork EXCEPT !.ticket = t])
       /\ UNCHANGED <<ticket, line, stock, reserved>>

ChargeCommit(h) ==
    LET t == loc[h].ticket IN
    /\ pc[h] = "charge"
    /\ stock' = [p \in Products |-> stock[p] - line[t][p]]
    /\ reserved' = Released(t)
    /\ SetTicket(t, "CHARGED")
    /\ Finish(h)
    /\ UNCHANGED line

Cancel(h) ==
    \E t \in Tickets :
       /\ AtOnce(h, "cancel")
       /\ TicketFree(t)
       /\ Pending(t)
       /\ reserved' = Released(t)
       /\ SetTicket(t, "CANCELLED")
       /\ UNCHANGED <<line, stock>>

SaleRead(h) ==
    \E p \in Products : \E quantity \in 1 .. Available(p) :
       /\ MayStart(h, "sale")
       /\ BusinessFree
       /\ Go(h, "sale", [NoWork EXCEPT !.product = p, !.quantity = quantity])
       /\ UNCHANGED <<ticket, line, stock, reserved>>

SaleCommit(h) ==
    LET w == loc[h] IN
    /\ pc[h] = "sale"
    /\ stock' = [stock EXCEPT ![w.product] = @ - w.quantity]
    /\ Finish(h)
    /\ UNCHANGED <<ticket, line, reserved>>

(***************************************************************************)
(* The two sweeps of expired tickets: sweepExpirations locks each ticket   *)
(* and looks at it again, the one after the close of a shift does not.     *)
(***************************************************************************)
Overdue == {t \in Tickets : Pending(t) /\ ticket[t].late}

SweepRead(h) ==
    /\ MayStart(h, "sweep")
    /\ Overdue # {}
    /\ Go(h, "sweep", [NoWork EXCEPT !.todo = Overdue])
    /\ UNCHANGED <<ticket, line, stock, reserved>>

StillPending(t) == Pending(t)

ExpireTicket(t) == /\ reserved' = Released(t)
                   /\ SetTicket(t, "EXPIRED")

SweepOne(h) ==
    \E t \in loc[h].todo :
       LET rest == loc[h].todo \ {t} IN
       /\ pc[h] = "sweep"
       /\ TicketFree(t)
       /\ IF StillPending(t) THEN ExpireTicket(t) ELSE UNCHANGED <<ticket, reserved>>
       /\ IF rest = {} THEN Finish(h) ELSE Go(h, "sweep", [loc[h] EXCEPT !.todo = rest])
       /\ UNCHANGED <<line, stock>>

CloseRead(h) ==
    /\ MayStart(h, "close")
    /\ Go(h, IF Overdue = {} THEN "rebuild" ELSE "close", [NoWork EXCEPT !.todo = Overdue])
    /\ UNCHANGED <<ticket, line, stock, reserved>>

CloseOne(h) ==
    \E t \in loc[h].todo :
       LET rest == loc[h].todo \ {t} IN
       /\ pc[h] = "close"
       /\ TicketFree(t)
       /\ ExpireTicket(t)
       /\ Go(h, IF rest = {} THEN "rebuild" ELSE "close", [loc[h] EXCEPT !.todo = rest])
       /\ UNCHANGED <<line, stock>>

\* Units that pending tickets hold of a product.
Held(p) == SumFunction([t \in Tickets |-> IF Pending(t) THEN line[t][p] ELSE 0])

\* The UPDATE that sets every reservation anew sums on its own snapshot, and
\* writes that sum on products that change while it waits for them.
RebuildRead(h) ==
    /\ pc[h] = "rebuild"
    /\ Go(h, "write", [NoWork EXCEPT !.sums = [p \in Products |-> Held(p)]])
    /\ UNCHANGED <<ticket, line, stock, reserved>>

RebuildWrite(h) ==
    /\ pc[h] = "write"
    /\ reserved' = loc[h].sums
    /\ Finish(h)
    /\ UNCHANGED <<ticket, line, stock>>

-----------------------------------------------------------------------------
Next ==
    \/ \E h \in Requests :
          \/ Create(h) \/ Claim(h) \/ Remove(h) \/ Reduce(h) \/ AddRead(h) \/ AddCommit(h)
          \/ ChargeRead(h) \/ ChargeCommit(h) \/ Cancel(h) \/ SaleRead(h) \/ SaleCommit(h)
          \/ SweepRead(h) \/ SweepOne(h)
          \/ CloseRead(h) \/ CloseOne(h) \/ RebuildRead(h) \/ RebuildWrite(h)
    \/ \E t \in Tickets : ClaimLapses(t) \/ Expires(t)

Spec == Init /\ [][Next]_vars

-----------------------------------------------------------------------------
(***************************************************************************)
(* Properties.                                                             *)
(***************************************************************************)

\* The reservation of a product is what its pending tickets hold, however
\* tickets are made, edited, charged, cancelled and swept.
ReservedMatches == \A p \in Products : reserved[p] = Held(p)

=============================================================================
