---------------------------- MODULE OfflineSync ----------------------------
(***************************************************************************)
(* Registers that sell while they have no connection                       *)
(* (src/src/modules/pos/offline), beside the two-step sales of             *)
(* PresaleTickets that compete for the stock and whose tickets they may    *)
(* charge; the requests repeated under one Idempotency-Key                 *)
(* (src/src/modules/pos/idempotency); and the bill of a sale (SaleTotals). *)
(*                                                                         *)
(* The register itself is not in the repository: it sells when it was told *)
(* it may, keeps each sale until the server reports it stored, and sends   *)
(* what it keeps as often as it likes.  A transaction of the               *)
(* synchronisation holds the row of the business while it is at "sync".    *)
(*                                                                         *)
(* Restrictions: as in PresaleTickets; an offline sale is one line, or the *)
(* lines of a ticket; lots, shifts, channels' amounts and customers are    *)
(* left out, a refused channel is a sale that is not valid.                *)
(***************************************************************************)
EXTENDS PresaleTickets, SaleTotals

CONSTANTS
    Terminals,   \* devices
    OffSales,    \* sales made offline, by clientGeneratedId
    Recipes,     \* units of each product in one unit of each recipe
    Bodies,      \* bodies of requests sent under the key
    Baskets, Discounts, Tax,   \* inputs of the bills that are computed
    MaxEdits     \* bound: edits of the catalogue

ASSUME OfflineAssumption ==
    /\ MaxEdits \in Nat /\ None \notin Bodies
    /\ IsFiniteSet(OffSales)
    /\ \A r \in DOMAIN Recipes : Recipes[r] \in [Products -> Nat]
    \* discounts leave a basket worth something, or nothing
    /\ \A b \in Baskets : b \in Seq(BasketLines) /\ Len(b) > 0 /\ Subtotal(b) >= 0
    /\ Discounts \subseteq Int

VARIABLES
    terminal,  \* PosTerminal rows: known, active, seller; pending: it reported sales
    device,    \* the registers: told they may sell; queue; reported in their last report
    offsale,   \* what each offline sale holds, made FALSE while it does not exist
    row,       \* Sale rows of offline sales, with what their discrepancies tell
    syn,       \* what each synchronisation works on
    catalog,   \* of each product, the stamp of its row (updatedAt), 0 once deactivated,
               \* and the change it is as
    edits,     \* changes of the catalogue so far
    writing,   \* edits whose transaction is open
    copy,      \* a register's copy of the catalogue and its snapshotVersion; asked
               \* for since the last change
    untold,    \* products whose last change no version tells that was answered before
    key,       \* the IdempotencyKey row
    try,       \* the body of each request under the key
    ran,       \* times the handler ran for each body since the key was last free
    missed,    \* requests, since then, whose expired row another one had deleted
    bill       \* a bill that was computed, with its input

offlineVars == <<terminal, device, offsale, row, syn>>
catalogVars == <<catalog, edits, writing, copy, untold>>
keyVars == <<key, try, ran, missed>>
dataVars == <<ticket, line, stock, reserved>>
allVars == <<vars, offlineVars, catalogVars, keyVars, bill>>

NoSale == [made |-> FALSE, ticket |-> None, units |-> [p \in Products |-> 0],
           valid |-> TRUE]
NoRow == [saved |-> FALSE, review |-> FALSE, short |-> {}]
NoSync == [terminal |-> None, batch |-> {}, todo |-> {}, sale |-> None, status |-> None,
           failed |-> {}]
NoKey == [status |-> "none", body |-> None, expired |-> FALSE]
NoBill == [none |-> TRUE]

OfflineInit ==
    /\ Init
    /\ terminal = [m \in Terminals |->
                     [known |-> FALSE, active |-> FALSE, seller |-> FALSE, pending |-> FALSE]]
    \* without "terminal", the registers were told before
    /\ device = [m \in Terminals |-> [told |-> "terminal" \notin scenario.offline,
                                      queue |-> {}, reported |-> {}]]
    /\ offsale = [s \in OffSales |-> NoSale]
    /\ row = [s \in OffSales |-> NoRow]
    /\ syn = [h \in Requests |-> NoSync]
    /\ catalog = [p \in Products |-> [stamp |-> 0, is |-> 0]]
    /\ edits = 0 /\ writing = {} /\ untold = {}
    /\ copy = [rows |-> [p \in Products |-> 0], since |-> 0, asked |-> FALSE]
    /\ key = NoKey /\ try = [h \in Requests |-> None] /\ ran = [b \in Bodies |-> 0]
    /\ missed = 0
    /\ bill = NoBill

MayBegin(h, k) == /\ pc[h] = "idle"
                  /\ k \in scenario.offline
                  /\ Cardinality(Busy) < scenario.width

\* Nothing but the state of one request, or none.
Still == UNCHANGED <<scenario, pc, loc>>
Step(h, step) == pc' = [pc EXCEPT ![h] = step] /\ UNCHANGED <<scenario, loc>>
OnlyOffline == UNCHANGED <<dataVars, catalogVars, keyVars, bill>>

(***************************************************************************)
(* Terminals.                                                              *)
(***************************************************************************)

Registers == {m \in Terminals : terminal[m].active /\ ~terminal[m].seller}
Told(m, yes) == [device EXCEPT ![m].told = yes, ![m].reported = device[m].queue]

\* checkEligibility: the count of pending sales is noted, and the business may
\* sell offline while at most one register is active.
CheckEligibility(h) ==
    \E m \in Terminals :
       /\ MayBegin(h, "terminal")
       /\ terminal' = IF terminal[m].known
                      THEN [terminal EXCEPT ![m].pending = device[m].queue # {}] ELSE terminal
       /\ device' = IF terminal[m].known THEN Told(m, Cardinality(Registers) <= 1)
                    ELSE [device EXCEPT ![m].told = Cardinality(Registers) <= 1]
       /\ Still /\ OnlyOffline /\ UNCHANGED <<offsale, row, syn>>

\* validateNoPendingOfflineSales
NoPendingElsewhere(m) == \A n \in Terminals \ {m} : ~(terminal[n].active /\ terminal[n].pending)

\* A known, active terminal only changes its kind.
RegisterTerminal(h) ==
    \E m \in Terminals, seller, on \in BOOLEAN :
       /\ MayBegin(h, "terminal")
       /\ IF terminal[m].known /\ terminal[m].active
          THEN terminal' = [terminal EXCEPT ![m].seller = @ \/ seller]
          ELSE /\ seller \/ ~on \/ NoPendingElsewhere(m)
               /\ terminal' = [terminal EXCEPT ![m].known = TRUE, ![m].active = on,
                                               ![m].seller = @ \/ seller]
       /\ Still /\ OnlyOffline /\ UNCHANGED <<device, offsale, row, syn>>

\* Switched on or off by hand.
UpdateTerminal(h) ==
    \E m \in Terminals, on \in BOOLEAN :
       /\ MayBegin(h, "terminal")
       /\ terminal[m].known
       /\ on /\ ~terminal[m].active => NoPendingElsewhere(m)
       /\ terminal' = [terminal EXCEPT ![m].active = on]
       /\ Still /\ OnlyOffline /\ UNCHANGED <<device, offsale, row, syn>>

(***************************************************************************)
(* Sales at a register without connection.                                 *)
(***************************************************************************)

\* A line of a recipe takes its components.
UnitsOf(item, n) == IF item \in Products THEN [p \in Products |-> IF p = item THEN n ELSE 0]
                    ELSE [p \in Products |-> n * Recipes[item][p]]

SellOffline(m) ==
    \E s \in OffSales, t \in Tickets \cup {None}, valid \in BOOLEAN :
       /\ "offline" \in scenario.offline
       /\ valid \/ "refused" \in scenario.offline
       /\ device[m].told /\ ~offsale[s].made
       /\ \E units \in IF t = None
                       THEN {UnitsOf(item, 1) : item \in Products \cup DOMAIN Recipes}
                       ELSE {line[t]} :
             /\ \E p \in Products : units[p] > 0
             /\ offsale' = [offsale EXCEPT ![s] =
                              [made |-> TRUE, ticket |-> t, units |-> units, valid |-> valid]]
       /\ device' = [device EXCEPT ![m].queue = @ \cup {s}]
       /\ Still /\ OnlyOffline /\ UNCHANGED <<terminal, row, syn>>

(***************************************************************************)
(* syncOfflineSales: one sale after the other, a transaction for each.     *)
(***************************************************************************)

SyncStart(h) ==
    \E m \in Terminals :
       /\ MayBegin(h, "sync") /\ device[m].queue # {}
       /\ syn' = [syn EXCEPT ![h] = 
                     [NoSync EXCEPT !.terminal = m, !.batch = device[m].queue,
                                    !.todo = device[m].queue]]
       /\ Step(h, "look")
       /\ OnlyOffline /\ UNCHANGED <<terminal, device, offsale, row>>

\* With one sale less to do.
Done(h, s, failed) == [syn EXCEPT ![h].todo = @ \ {s}, ![h].sale = None, ![h].status = None,
                                  ![h].failed = @ \cup failed]

\* A sale that is there already is reported without a transaction.
Look(h) ==
    \E s \in syn[h].todo :
       /\ pc[h] = "look"
       /\ IF row[s].saved THEN syn' = Done(h, s, {}) /\ Step(h, "look")
          ELSE syn' = [syn EXCEPT ![h].sale = s] /\ Step(h, "begin")
       /\ OnlyOffline /\ UNCHANGED <<terminal, device, offsale, row>>

\* What the sale's discrepancies tell: the products there were too few of.
Shortage(units) == {p \in Products : units[p] > stock[p]}

\* The channel is unknown or closed, or lacks what it asks for.
ChannelRefused(s) == ~offsale[s].valid

\* The row of the business is updated, and held; then the ticket is read.
TakeBusiness(h) ==
    LET s == syn[h].sale t == offsale[s].ticket IN
    /\ pc[h] = "begin" /\ BusinessFree
    /\ IF ChannelRefused(s)
       THEN syn' = Done(h, s, {s}) /\ Step(h, "look")
       ELSE /\ syn' = [syn EXCEPT ![h].status = IF t = None THEN None ELSE ticket[t].status]
            /\ Step(h, "sync")
    /\ OnlyOffline /\ UNCHANGED <<terminal, device, offsale, row>>

NeedsReview(status) == status \in {"CHARGED", "CANCELLED", "EXPIRED"}

\* The ticket is charged as it was read, and what it reserved given back.
ChargeOffline(t, status) ==
    IF t # None /\ ~NeedsReview(status)
    THEN SetTicket(t, "CHARGED") /\ reserved' = Released(t)
    ELSE UNCHANGED <<ticket, reserved>>

\* Mutant: no index.
Admitted(s) == FALSE

\* The unique index on clientGeneratedId, when another synchronisation was faster.
Duplicate(s) == row[s].saved

\* Stock is taken whether it is there or not.
SyncCommit(h) ==
    LET s == syn[h].sale w == offsale[s] IN
    /\ pc[h] = "sync"
    /\ IF Duplicate(s)
       THEN syn' = Done(h, s, {s}) /\ UNCHANGED <<dataVars, row>>
       ELSE /\ stock' = [p \in Products |-> stock[p] - w.units[p]]
            /\ ChargeOffline(w.ticket, syn[h].status)
            /\ row' = [row EXCEPT ![s] =
                         [saved |-> TRUE, short |-> Shortage(w.units),
                          review |-> NeedsReview(syn[h].status)]]
            /\ syn' = Done(h, s, {}) /\ UNCHANGED line
    /\ Step(h, "look")
    /\ UNCHANGED <<terminal, device, offsale, catalogVars, keyVars, bill>>

\* Mutant: a sale that failed is reported like the others.
AllStored(w) == w.batch

\* The sales the reply reports as stored, now or before.
ReportedStored(w) == w.batch \ w.failed

\* The terminal has nothing pending, whatever failed; the reply may be lost.
SyncReply(h) ==
    LET w == syn[h] m == w.terminal IN
    /\ pc[h] = "look" /\ w.todo = {}
    /\ terminal' = IF terminal[m].known THEN [terminal EXCEPT ![m].pending = FALSE] ELSE terminal
    /\ \E lost \in BOOLEAN :
          device' = IF lost THEN device
                    ELSE [device EXCEPT ![m].queue = @ \ ReportedStored(w)]
    /\ syn' = [syn EXCEPT ![h] = NoSync]
    /\ Step(h, "idle")
    /\ OnlyOffline /\ UNCHANGED <<offsale, row>>

\* The server stops: what it committed stays, an open transaction is gone.
SyncCrash(h) ==
    /\ pc[h] \in {"look", "begin", "sync"} /\ "crash" \in scenario.offline
    /\ syn' = [syn EXCEPT ![h] = NoSync]
    /\ Step(h, "idle")
    /\ OnlyOffline /\ UNCHANGED <<terminal, device, offsale, row>>

(***************************************************************************)
(* getCatalogSnapshot.                                                     *)
(***************************************************************************)
OnlyCatalog == UNCHANGED <<vars, offlineVars, keyVars, bill>>

\* An edit stamps the row with the moment of its statement; its transaction commits
\* later, as all that the same transaction does.
EditWrite(p) ==
    /\ "catalog" \in scenario.offline /\ edits < MaxEdits
    /\ edits' = edits + 1
    /\ \E active \in BOOLEAN :
          writing' = writing \cup {[product |-> p, stamp |-> edits + 1, active |-> active]}
    /\ OnlyCatalog /\ UNCHANGED <<catalog, copy, untold>>

\* p is as the change n left it, with this stamp.
Changed(p, stamp, n) == /\ catalog' = [catalog EXCEPT ![p] = [stamp |-> stamp, is |-> n]]
                        /\ copy' = [copy EXCEPT !.asked = FALSE]

EditCommit ==
    \E e \in writing :
       /\ Changed(e.product, IF e.active THEN e.stamp ELSE 0, e.stamp)
       /\ writing' = writing \ {e}
       /\ untold' = IF e.stamp <= copy.since THEN untold \cup {e.product}
                    ELSE untold \ {e.product}
       /\ OnlyCatalog /\ UNCHANGED edits

\* What the answers show of a product also changes without a stamp: what tickets
\* reserve, rebuilt by a raw statement when a shift closes, and its lots.
ChangeUnstamped(p) ==
    /\ "catalog" \in scenario.offline /\ edits < MaxEdits
    /\ edits' = edits + 1
    /\ Changed(p, catalog[p].stamp, edits + 1)
    /\ untold' = untold \cup {p}
    /\ OnlyCatalog /\ UNCHANGED writing

Listed == {p \in Products : catalog[p].stamp # 0}

\* Mutant: the oldest edit counts.
FirstEdit == IF Listed = {} THEN 0
             ELSE CHOOSE n \in 0 .. MaxEdits :
                     /\ \E p \in Listed : catalog[p].stamp = n
                     /\ \A p \in Listed : catalog[p].stamp >= n

\* The last stamp of the products that are active.
LatestUpdate == IF Listed = {} THEN 0
                ELSE CHOOSE n \in 0 .. MaxEdits :
                        /\ \E p \in Listed : catalog[p].stamp = n
                        /\ \A p \in Listed : catalog[p].stamp <= n

NotModified == copy.since > 0 /\ copy.since >= LatestUpdate

\* Nothing but the version is sent to a register that has seen the last stamp.
FetchCatalog ==
    /\ "catalog" \in scenario.offline
    /\ copy' = [rows |-> IF NotModified THEN copy.rows ELSE [p \in Products |-> catalog[p].is],
                since |-> LatestUpdate, asked |-> TRUE]
    /\ untold' = IF NotModified THEN untold ELSE {}
    /\ OnlyCatalog /\ UNCHANGED <<catalog, edits, writing>>

(***************************************************************************)
(* The interceptor of requests that carry an Idempotency-Key.              *)
(***************************************************************************)
OnlyKey == UNCHANGED <<dataVars, offlineVars, catalogVars, bill>>
KeyStep(h, step) == Step(h, step) /\ OnlyKey
NotRun == UNCHANGED <<ran, missed>>
Runs(h) == ran' = [ran EXCEPT ![try[h]] = @ + 1]
Slow == "slow" \in scenario.offline

\* The key is looked up; one that did not expire, but was used with another body, or
\* answered, ends here.
KeyFind(h) ==
    \E b \in Bodies :
       /\ MayBegin(h, "key")
       /\ key.expired \/ (key.status # "done" /\ key.body \in {None, b})
       /\ try' = [try EXCEPT ![h] = b]
       /\ KeyStep(h, IF key.status = "none" THEN "insert"
                     ELSE IF key.expired THEN "delete" ELSE "wait")
       /\ NotRun /\ UNCHANGED key

\* Mutant: no unique index, every request stores its key.
InsertsAnyway == TRUE

KeyFree == key.status = "none"

KeyInsert(h) ==
    /\ pc[h] = "insert"
    /\ IF KeyFree THEN key' = [status |-> "busy", body |-> try[h], expired |-> FALSE]
       ELSE UNCHANGED key
    /\ KeyStep(h, IF KeyFree THEN "handle" ELSE "lost")
    /\ NotRun /\ UNCHANGED try

KeyEnds(h) == try' = [try EXCEPT ![h] = None] /\ KeyStep(h, "idle")

\* The row that was found expired is deleted, by its id.  Where another request
\* deleted it before, the statement fails, and the handler runs without the key.
KeyDelete(h) ==
    /\ pc[h] = "delete"
    /\ IF key.expired
       THEN /\ key' = NoKey /\ ran' = [b \in Bodies |-> 0] /\ missed' = 0
            /\ KeyStep(h, "insert") /\ UNCHANGED try
       ELSE Runs(h) /\ missed' = missed + 1 /\ KeyEnds(h) /\ UNCHANGED key

\* The handler commits; then its answer is kept.
KeyHandle(h) ==
    /\ pc[h] = "handle"
    /\ Runs(h)
    /\ KeyStep(h, "store") /\ UNCHANGED <<key, try, missed>>

KeyStore(h) ==
    /\ pc[h] = "store"
    /\ key' = [key EXCEPT !.status = "done"]
    /\ KeyEnds(h) /\ NotRun

\* The handler throws: the key is free again.
KeyFail(h) ==
    /\ pc[h] = "handle" /\ "fail" \in scenario.offline
    /\ key' = NoKey
    /\ KeyEnds(h) /\ NotRun

\* The server stops in the handler, or before the answer is kept.
KeyCrash(h) ==
    /\ pc[h] \in {"handle", "store"} /\ "crash" \in scenario.offline
    /\ KeyEnds(h) /\ NotRun /\ UNCHANGED key

\* Who finds the key in use waits for the answer, and gives up without one.
KeyWait(h) ==
    /\ pc[h] = "wait"
    /\ key.status # "busy" \/ Slow
    /\ KeyEnds(h) /\ NotRun /\ UNCHANGED key

\* Who lost the insert waits, too; without an answer to this very body the
\* handler runs, and no key tells of it.
KeyLost(h) ==
    /\ pc[h] = "lost"
    /\ key.status # "busy" \/ Slow
    /\ IF key.status = "done" /\ key.body = try[h] THEN NotRun
       ELSE Runs(h) /\ UNCHANGED missed
    /\ KeyEnds(h) /\ UNCHANGED key

\* A day passes; no request lasts so long.
KeyExpires ==
    /\ key.status # "none" /\ ~key.expired /\ \A h \in Requests : try[h] = None
    /\ key' = [key EXCEPT !.expired = TRUE]
    /\ UNCHANGED <<vars, offlineVars, catalogVars, bill, try, ran, missed>>

\* A bill is computed.
ComputeBill ==
    /\ "bill" \in scenario.offline /\ bill = NoBill
    /\ \E b \in Baskets, asked \in Discounts, biz \in Tax, perLine \in BOOLEAN :
          bill' = [none |-> FALSE, basket |-> b, asked |-> asked, biz |-> biz,
                   is |-> Bill(b, asked, biz, perLine)]
    /\ UNCHANGED <<vars, offlineVars, catalogVars, keyVars>>

-----------------------------------------------------------------------------
OfflineNext ==
    \/ Next /\ UNCHANGED <<offlineVars, catalogVars, keyVars, bill>>
    \/ \E h \in Requests :
          \/ CheckEligibility(h) \/ RegisterTerminal(h) \/ UpdateTerminal(h)
          \/ SyncStart(h) \/ Look(h) \/ TakeBusiness(h) \/ SyncCommit(h)
          \/ SyncReply(h) \/ SyncCrash(h)
          \/ KeyFind(h) \/ KeyDelete(h) \/ KeyInsert(h) \/ KeyHandle(h) \/ KeyStore(h)
          \/ KeyFail(h) \/ KeyCrash(h) \/ KeyWait(h) \/ KeyLost(h)
    \/ \E m \in Terminals : SellOffline(m)
    \/ \E p \in Products : EditWrite(p) \/ ChangeUnstamped(p)
    \/ EditCommit \/ FetchCatalog \/ KeyExpires \/ ComputeBill

OfflineSpec == OfflineInit /\ [][OfflineNext]_allVars

-----------------------------------------------------------------------------
(***************************************************************************)
(* Properties.                                                             *)
(***************************************************************************)

Saved == {s \in OffSales : row[s].saved}

\* The tickets the synchronisation charged, and those the register did.
ChargedHere(t) == \E s \in Saved : offsale[s].ticket = t /\ ~row[s].review
ChargedThere(t) == ticket[t].status = "CHARGED" /\ ~ChargedHere(t)

\* Units of a product on the sales that arrived, and on the tickets the register charged.
Arrived(p) == SumFunction([s \in OffSales |-> IF row[s].saved THEN offsale[s].units[p] ELSE 0])
Charged(p) == SumFunction([t \in Tickets |-> IF ChargedThere(t) THEN line[t][p] ELSE 0])

\* Each unit that left the stock is on one sale.  (Without direct sales, which
\* leave no trace in this model.)
UnitsSold ==
    "sale" \notin scenario.kinds =>
       \A p \in Products : stock[p] + Arrived(p) + Charged(p) = Stock

\* All but one of the sales that name a ticket are marked for review.
TicketChargedOnce ==
    \A t \in Tickets :
       Cardinality({s \in Saved : offsale[s].ticket = t /\ ~row[s].review}) <= 1

\* Stock that is short is told in a discrepancy.
ShortageTold ==
    \A p \in Products :
       /\ stock[p] < 0 => \E s \in Saved : p \in row[s].short
       /\ stock[p] < reserved[p] => \E s \in Saved : offsale[s].units[p] > 0

\* A synchronisation that was repeated, overlapped, cut short, or whose reply was
\* lost, takes no unit twice, charges no ticket twice, gives no reservation back
\* twice, and tells what was short, in whatever order sales reach the server.
StockExplained == UnitsSold /\ TicketChargedOnce /\ ReservedMatches /\ ShortageTold

\* A register forgets a sale only once the server has it.
NothingLost ==
    \A s \in OffSales : offsale[s].made /\ ~row[s].saved =>
       \E m \in Terminals : s \in device[m].queue

\* After an answer of the catalogue each product that is listed is in the copy as the
\* server has it, though products come and go between answers and edits overlap them;
\* but for a product whose last change carried no stamp, or one no later than an answer
\* that was given before the change was committed: that one may stay stale.
CopyFollows == copy.asked => \A p \in Listed \ untold : copy.rows[p] = catalog[p].is

\* One key, one run of the handler for the body it is kept for: repeated requests,
\* also those that meet in the insert, while handlers answer within the wait; and one
\* more run for each request that found the same expired row as another and lost its
\* deletion.  (When the winner of the insert fails or stops, or had another body, the
\* loser runs outside the key.)
HandledOnce == key.status # "none" => ran[key.body] <= 1 + missed

Parts(is, basket) ==
    SumFunction([i \in DOMAIN basket |-> Net(basket[i]) - is.share[i] + is.lineTax[i]])
Distance(a, b) == IF a < b THEN b - a ELSE a - b

\* What returns repay line by line sums to what was paid; a line's part of the
\* cashier's discount is its proportion, but for the rounding of the lines before
\* it; the tax is 15% of what is taxed, but for half a cent a line.
BillAddsUp ==
    ~bill.none /\ bill.is.model = "PER_LINE" =>
       LET is == bill.is b == bill.basket n == Len(b)
           base == [i \in DOMAIN b |->
                      IF b[i].taxable THEN Greater(0, Net(b[i]) - is.share[i]) ELSE 0]
       IN /\ Parts(is, b) = is.total
          /\ is.total >= 0
          /\ \A i \in DOMAIN b :
                2 * Distance(is.share[i] * is.subtotal, is.discount * Net(b[i]))
                   <= (IF i < n THEN 1 ELSE n - 1) * is.subtotal
          /\ Distance(100 * is.tax, 15 * SumFunction(base)) <= 50 * n
=============================================================================
