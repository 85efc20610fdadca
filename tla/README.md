# A verification model of trackdeli-api

TrackDeli is a NestJS service over PostgreSQL (Prisma, READ COMMITTED) that
serves three products: delivery orders that are offered to riders; a point of
sale with stock, cash shifts, credit, two-step sales, restaurant tables, a
workshop and registers that sell offline; and appointments. An administration
part sells memberships to the businesses. This directory models the parts whose
correctness depends on the order in which requests, cron jobs, retries and
restarts happen, or on rounding, checks them with TLC, and proves the core of
the point of sale, of its register, its credit and its offline terminals, of who may work
where, of the appointments, of the delivery orders and of the lots of the stock with
TLAPS.

    tlc -workers 2 -config PosSales.cfg MCPosSales.tla
    tlapm SumTheorems.tla
    tlapm PosSalesProofs.tla
    tlapm MoneyProofs.tla
    tlapm OfflineProofs.tla
    tlapm AccessProofs.tla
    tlapm BookingProofs.tla
    tlapm DeliveriesProofs.tla
    tlapm StockLotsProofs.tla

`PROJECT.json` lists every run, the lines of code behind each definition
("map"), a mutation of the code that each checked property detects, the hazards
of the code and the theorems. A line such as `sales:2392` below is in
`sales.service.ts` of the module of that name under `src/src/modules`.

## 1. The system

### Components

| component | state | operations | what makes it hard | what makes it correct |
|---|---|---|---|---|
| Counter sales (`pos/sales`) | Sale, SaleItem, Payment, SaleReturn, Product.stock, StockMovement, CashMovement, invoice counter | create, voidSale, createReturn | reads before locks, rounding of partial refunds, two currencies | refunds never exceed what was paid, one road of reversal, stock and cash add up, no oversell |
| Bill of a sale (`sales/utils`) | none | calculateSaleTotals | the discount and the tax are split by rounding | the lines' parts add up to the total |
| Approval tokens (`pos/approvals`) | PosApprovalToken | createToken, consumeToken | read and mark are two statements | none is claimed: two reversals can consume one token (section 6) |
| Credit (`pos/credit`) | CreditAccount, CreditInstallment, CreditPayment, CreditStatement and its items | registerPayment, reconciliation, statements created, settled, cancelled | absolute and relative updates of one balance, rounding of installments and interest | money is conserved, installments ask for the balance, PAID exactly when nothing is owed |
| Cash register, expenses (`pos/cash-register`, `pos/expenses`) | CashRegister, CashMovement, Expense | open, getCurrent (adopts), addMovement, close; create and void an expense | no transaction; snapshot, then conditional update | one open shift per computer, a close stands and is explained, an expense takes its cash once |
| Presale tickets (`pos/presale-tickets`) | PresaleTicket, its items and events, Product.reservedStock | create, claim, updateItems, charge, cancel, sweep | reservations in a counter next to the stock, two sweeps | reservations are what pending tickets hold, a final ticket stays final |
| Offline and idempotency (`pos/offline`, `pos/idempotency`) | PosTerminal, Sale.clientGeneratedId, discrepancies, IdempotencyKey | eligibility, sync, catalogue snapshot; claim, replay, expire a key | batches that overlap, fail in part, or whose answer is lost | a sale is stored once and forgotten only then; one run for each key that has not expired |
| Tables and kitchen (`pos/tables`, `pos/kitchen`) | RestaurantTable, TableOrder, items, sub-accounts, KitchenRound | place, open, add, send, void, split by items or equally, move, merge, discount, charge; claim and mark a print | handlers that read an order and write rows later; rounding of shares; two printers | what is on the bill is charged once and shown right; the kitchen is told what is on the order |
| Workshop (`tables.service`: receiveVehicle, assignTechnician) | tables as vehicles, technician of an order | receive, assign | choice of the technician | AUTO is fair, a vehicle's order is reachable |
| Purchases, payables, lots, adjustments (`pos/purchases`, `payables`, `batches`, `inventory`, `products`) | Purchase, AccountPayable, SupplierPayment, ProductBatch, Product.stock | receive, annul, pay, annul a payment, FEFO, refund to lots, adjust, count, import | absolute writes of lots, two orders of locking, sums read before they are written | stock is the sum of the lots, units are explained, debts equal purchases less payments |
| Orders, offers, proposals (`orders`, `dispatch`, `quotes`) | Order, OrderDispatch, OrderQuote, in-memory timers | create, takeOrder, updateStatus, cancelOrder, accept, reject, timeout, propose, counter, accept | long sequences of statements without transaction, timers and cron at once, restarts | one rider asked at a time, an order under way keeps its rider, an offer moves on |
| Geofence (`tracking`) | status of an order in Redis for two hours | arrival of a rider | a stale status | an order under way never goes back |
| Commissions (`commissions`) | OrderCommission, CommissionStatement | register on delivery, monthly statement | registered by a promise nobody awaits | each delivery earns one |
| Booking (`booking`) | AppointmentHold, Appointment, strikes | hold, confirm, cancel, reschedule, decide, reassign, checkout, no-show | advisory locks, expiring holds, three computations of who is free | no slot twice, one appointment for a hold, what is offered can be held |
| Memberships, agreements (`superadmin`, `business-products`) | Membership, BusinessProductSubscription, CommercialAgreement, installments, payments | register, edit, activate, deactivate, hourly cron; terms, payments, voids | billing dates, coverage by several memberships, a cron in steps | periods follow one another, what lapsed is cut, settled means clear |
| Users, devices, trials, codes (`auth`, `users`, `pos/users`, `pos/waiters`, `pos/devices`, `superadmin`, `invite-codes`) | Business, User, access to branches, Waiter, PosDevice, trial clock, InviteCode | grant, move, sign in, PINs, roles, register, revoke, extend | checks in handlers that do not know each other | no access comes back by itself, PINs and limits hold, a trial is as long as it was given |
| Start-up (`prisma.service`) | the schema, rows to fill | ensureSchemaSynced, ensure…Schema, backfills | crashes between statements, two instances | two boots bring any database to the schema and fill its rows |

Components without state of their own (reports, receipts, configuration, one-row
CRUD, messages) are listed in `PROJECT.json` with the reason they are left out.

### Interactions

* `presale.charge` calls `sales.create` inside its own transaction, so a ticket
  and its sale commit together; `cash-register.close` sweeps tickets afterwards
  with statements of its own; an offline sale may name a ticket and charge it.
  OfflineSync extends PresaleTickets and checks them together.
* `sales.create`, `voidSale` and `createReturn` look up a shift, consume approval
  tokens and write the credit account of the sale; `credit.service` writes the
  same accounts from abonos, statements and a half-hourly cron.
* Sales, presale, purchases, inventory and tables all write `Product.stock`; with
  lots it is written as the sum of the lots by all of them (StockLots).
* Supplier payments, expenses, voids and returns take cash from a shift that may
  close meanwhile.
* `checkoutTableOrder` calls `sales.create` for one account of the bill
  (TableOrders); Salon puts the orders on tables and shows their bill.
* `orders.create` starts `dispatchToNextRider`, which arms a timer; riders
  answer over HTTP; a cron calls the same `handleTimeout`. `acceptQuote` writes
  an order through `orders.service`. A delivery starts the commission, and the
  geofence writes the status of the same order.
* `createBusiness`, `createMembership` and the agreement write the product
  subscriptions of a business; the cron of memberships cuts them.
* Row locks (`FOR UPDATE`), advisory locks, conditional updates (`updateMany` with
  the status expected) and unique indexes are the only synchronisation.
  Everything else is a read that may be stale when it is used.

### Hazards

`PROJECT.json` lists 40, each at its line with the properties that would notice
it. The classes: a read that no lock protects and a write that trusts it (token,
balance, shift totals, order status, lots, periods); an actor listed by a cron and
changed before its turn (overdue accounts, expired tickets, lapsed products); two
handlers of one event (timer and cron, two closes, two printers, two requests with
one key); rounding over a sequence of partial operations (refunds, installments,
divided bills); a restart between two statements (offers, synchronisation,
start-up); long legal sequences over handlers that do not know each other (tables,
users, trials, agreements).

## 2. How the code becomes a model

* **One action per atomic step.** A transaction at READ COMMITTED is split at
  each read that no lock of its own protects and that a later write depends on.
  What it read waits in `loc[request]`, `pc[request]` says where it stands, and
  its writes appear together when it commits. A handler that locks the rows it
  reads is one action. Code without a transaction (offers, the cash register,
  the tables, the crons, most of the administration) has an action for each
  statement that writes, or for the group of writes that nothing can tell apart.
* **Locks** are guards: a row is free if no request in a step that holds it does
  (`SaleFree`, `CutFree`, `BusinessFree`, `TicketFree`, `RowFree`, `LockFree`,
  `HoldLockFree`, `ProductFree`). A request that waits for a lock is a request
  whose action is not enabled yet.
* **Conditional updates and unique indexes** are evaluated on the rows as they are
  when they run.
* **Refusals** (exceptions) are actions that are not enabled, or handlers that
  end without writing.
* **Scenarios.** Modules with many handlers have a constant `Scenarios` and a
  variable `scenario`, chosen by `Init` and fixed: which kinds of request clients
  make and which may be in flight together. It is how one run covers every handler
  one at a time and the interesting ones concurrently. A property that does not
  survive some overlap is checked in the scenarios without it, and section 6 and
  the hazard list name the overlap: the models do reach it, and nothing is claimed
  of it.
* **Money** is counted in the unit the code rounds to; `RoundDiv`, `Share` and
  `Round` are `Math.round` of a quotient.

## 3. Modules

### PosSales, SaleLedger (`pos/sales`, `pos/approvals`)

| model | code |
|---|---|
| `SaleResolve`, `SaleCheck`, `SaleInsert` | `create`: shift and invoice counter read; business row locked, stock checked, payments and change computed; rows written |
| `VoidCheck`, `VoidCommit` | `voidSale`: lock of the sale, status, shift and token; stock back, cash out, token consumed |
| `ReturnCheck`, `ReturnCommit` | `createReturn`: lock of sale and lines, quantities, refund of each line, limit of each method; the same writes |
| `IssueToken`, `ExpireToken`, `OpenShift`, `CloseShift` | the tokens and shifts that those read |
| `Rollback` | a transaction that times out, or a process that dies |

`sale[s]` is the Sale row with its line, payments and returns. `uses` counts the
transactions each token authorised. `cashOut`, `voidPaid` and `restocked` add up
the movements written for shifts and sales.

`SaleLedger` is what a ledger promises of each sale, without requests, locks,
shifts or tokens: rung up once, then either voided or refunded in parts that
never pass its total, and settled to the cent when everything came back.
`ImplementsLedger` checks that PosSales refines it under
`total <- sale[s].total`, `refunded <- SumRefunded(sale[s])`.

### CreditAccounts (`pos/credit`, credit part of `pos/sales`)

`acct`, `inst`, `paid` are CreditAccount, CreditInstallment and CreditPayment;
`cut` and `item` the statement of a company and its items. Abonos pay the oldest
installment first (`AbonoRead` computes interest and installments, `AbonoCommit`
is the conditional decrement of the balance); returns take from the last
installment (`ForgiveLifo`) and write the balance as an absolute value; voids
(`SaleVoidRead`, `SaleVoidCommit`) cancel the account; statements are created, settled and cancelled under their
row lock; `ReconcileRead` lists the live accounts and `ReconcileWrite` marks them
OVERDUE one by one. `Tick` makes an installment fall due.

### Shifts (`pos/cash-register`, `pos/expenses`)

`shift` and `drawer` are the CashRegister row and the cash its sales and
movements add up to. `OpenRead`, `CurrentRead`, `LegacyRead`, `AdoptWrite` and
`CreateWrite` are the statements of open and getCurrent; `DeviceFree` is the
partial unique index on the open shift of a computer. `SaleRead`/`SaleCommit` is
the shift a sale finds or adopts. `CloseRead` takes the snapshot and decides the
`Ground` of the close (balanced, forced with a reason, by a manager, by PIN after
the recounts, or a recount); `RecountWrite` and `CloseWrite` write; `StillOpen` is
the condition of the `updateMany`. `ExpenseRead`/`ExpenseCommit` is an expense
with deductFromCurrentShift, `VoidRead`/`VoidWrite` its void under the lock of
its row; `spent` adds up the movements both write.

### PresaleTickets, SaleTotals, OfflineSync (`pos/presale-tickets`, `pos/offline`, `pos/idempotency`, `sales/utils`)

In PresaleTickets `ticket`, `line`, `stock` and `reserved` are the ticket, its lines
and the two counters of a product. Handlers that lock the ticket and write by
increment are one action; charging and adding a line are two, since they read
products without a lock. `SweepRead`/`SweepOne` is the sweep that looks again under
a lock, `CloseRead`/`CloseOne`/`RebuildRead`/`RebuildWrite` the one of
cash-register.close, which does not.

OfflineSync EXTENDS it with what registers do without a connection. The register
is not in the repository and is modelled by what the server asks of it: it keeps a
sale in `device[m].queue` until a reply reports it stored. `SyncStart`, `Look`,
`TakeBusiness`, `SyncCommit`, `SyncReply` are the loop of syncOfflineSales with one
transaction for each sale; `Duplicate` is the unique index on clientGeneratedId,
`ChargeOffline` what becomes of a ticket, `Shortage` the discrepancies. `SyncCrash`
stops the server anywhere; a reply may be lost. `CheckEligibility`,
`RegisterTerminal` and `UpdateTerminal` decide who may sell offline. `FetchCatalog`
is getCatalogSnapshot with its version. A product is edited by a statement that
stamps the row (`EditWrite`: @updatedAt) and seen when its transaction commits
(`EditCommit`); `ChangeUnstamped` is a change of what the answer shows that moves no
stamp, and `untold` keeps the products whose last change no version tells. `KeyFind`
… `KeyLost` are the branches of the idempotency interceptor: finding, deleting an
expired row and creating are three statements, and `missed` counts the requests whose
deletion found the row gone. `KeyExpires` is a day that passes. `ComputeBill` evaluates the operators
of SaleTotals, which compute a bill line by line as the code does, for each of the
instance's baskets.

### TableOrders, Salon (`pos/tables`, `split-equal.util`, `pos/kitchen`)

TableOrders is one order: `order` with its items and accounts, `round` the kitchen's
rounds, `charged` what its sales add up to. `Begin(r, …)` is a handler that reads
the order and is accepted (`Can…`), `Commit(r)` its writes computed from what it
read on the rows as they are by then (`Adding`, `Updating`, `Voiding`, `Splitting`,
`MoveDishes`, `Growing`, `Merging`, `Undoing`, `Charging`), and only checkout holds a
lock. `SendCommit` and `VoidTell` write a round; `TokenFree` is the unique index on
clientRequestId. `ItemsCharge` and `EqualCharge` are the parts of a divided bill,
`ItemsPart` and `EqualPart` their parts of the discount, `Residual` the rule that the
last takes the rest, `Net` the total that calculateSaleTotals makes of them;
`WholeCharge` takes the discount of an undivided order from the request, as checkout
does, and not the stored one. `ClaimPrint`, `MarkPrint`,
`ClaimLapses` and `Reprint` are the claims of the printing stations.

Salon EXTENDS it with the floor: `spot` is RestaurantTable, `head` the orders with
table and technician. `Reads`/`Writes` are the two halves of each handler; `Accepts`
has the conditions of createTable, updateTable, deleteTable, openTableOrder,
receiveVehicle, assignTechnician, checkoutTableOrder (`Charged`: a workshop's table
goes out of use and keeps its number) and cancelTableOrder. `ShownItems` and `ShownEqual` are
formatOrderResponse's computation of each account, which is code of its own and is
checked against what checkout charges.

### StockLots (`pos/batches`, `purchases`, `payables`, `inventory`, `products`)

A request is a transaction in steps: it begins and reads (`Buy`, `Unbuy`, `Sell`,
`SellOffline`, `Refund`, `AdjustStock`, `Count`, `Import`), writes and locks lots
(`Change`, with `AllocateFefo`, `AllocateOffline`, `Receive`, `Refill`, `OneLot`,
`Adjust`, `UnbuyLots`), adds the lots up (`AddUp`) and commits, writing the sum to
the product (`Commit`); `RollBack` ends it at any step. `LocksProduct` says which
handlers lock the product before they read. A request finds at its beginning whether
the product controls lots (`tracks`): without control only the stock changes
(`Untracked`). `Tracks`: a row of a catalogue with a lot or a date turns control on, and
its lot gets the difference to the stock read in the list of products (`Listed`), or none.
`EditStock`, `TrackLots`, `UntrackLots`, `EditLot` are the handlers on a single row; control
ends with the rows of lots kept, and a second beginning gives no lot INICIAL beside them. `payable`, `payment` and `drawer` are the debts,
their payments and the cash of the shifts (`RegisterPayment`, `VoidPayment`).

### Deliveries (`orders`, `dispatch`, `quotes`, `commissions`, `tracking`)

`order`, `offers`, `quote`, `commission` are the rows, `meta` and `fence` what Redis
remembers of an order and of its rider's arrivals. `NextChoose`, `NextGiveUp`, `NextOffer`, `NextMark` are the
statements of `dispatchToNextRider`; `TimeoutClaim` is the conditional update that
timer and cron compete for, `TimeoutReread` the look at the order before asking the
next rider; `…Read`/`…Write` pairs are the other handlers. `Expire(o, i)` is time
passing for an offer. `GeofenceRead`, `GeofenceWrite`, `GeofenceRemember` move an
order whose rider arrives; `RedisForgets` is the end of the two hours. `Crash` loses
every handler in flight and every timer. A scenario names what clients ask: kinds of
requests, how many at once, and the statuses asked of updateStatus (`targets`, any of the
13 of OrderStatus).

### Booking (`booking`)

`hold`, `appt`, `sold`, `strikes`, `blocked` are the rows; a lane is a specialist.
createHold is `HoldAppts`, `HoldHolds`, `HoldInsert`: the query of appointments, that
of holds, the insert, under the advisory lock of its target (`LockName`).
`ConfirmRead`/`ConfirmCheck`/`ConfirmWrite` make an appointment of a hold;
`RescheduleRead` or `ReassignRead`, then `MoveCheck` and `MoveWrite`, move one;
`CheckoutRead`, `CheckoutSale`, `CheckoutDone` charge one. `AvailableLane` is
getAvailability, compared with `Lanes` of createHold by a property; `Barred` are the
customers createAppointment refuses. `Lapse` ends a
hold's minutes, `Stop` any handler.

### Memberships (`superadmin`, `business-products`, `superadmin/commercial`)

Days are numbers, months have the lengths of `MonthDays`, and `AddMonths`,
`DueDate`, `GraceEnd` are the functions of membership-billing.util. `mems`, `sub`
and `flag` are memberships, subscriptions and the flags of the business.
`BeginMembership`/`CommitMembership` read outside and write inside the transaction;
`ActivateProduct`, `DeactivateProduct`, `DeactivateNow` are done by hand, and `Sync` writes the flag
of the business with the subscription; `Runs` is what the guards serve and `Shown`
what the panel lists, in code of their own; `CronRead`, `CronExpire`, `CronLook`,
`CronCut`, `CronFlag` are the statements of the hourly cron, `CronDies` its crash.
`agr`, `inst`, `pays` are the agreement: `Upsert` (terms), `BeginPayment`,
`CommitPayment`, `VoidPayment`, with `Settling` what counts for a settled agreement.

### Access (`superadmin`, `auth`, `users`, `pos/users`, `pos/waiters`, `pos/devices`, `invite-codes`)

Five parts that share the business and the login, one per scenario: branches
(`BeginMove`, `DropAccesses`, `MoveBusiness` are the reads and the two writes of a move;
`SetIndustry`, `Grant`, `Revoke`, `Enter`), collaborators
(`BeginUser`, `Deactivate`, `Activate` check and `CommitUser` writes; `SetPin`, `SetRole`,
`SetWaiter`), devices (`LoginDevice`, `RegisterWeb`, `WriteDevice`, `UpdateDevice`,
`RevokeWeb`, `SetLimits`), the clock of a trial (`Login`, `Refresh`, `SocialLogin` with
the `TokenEnd` of what they issue, `SetHours`, `ExtendClock`,
`ResetClock`, `TerminateTrial`, `SetPaid`, `Tick`) and invite codes (`BeginJoin`,
`CommitJoin`, `LeaveRider`).

### Bootstrap (`prisma.service`)

`Ddl` lists every schema statement as what it uses and what it adds, in order;
`Steps` the ensure steps with their commits; `Fills` nine backfills. An instance
boots (`Boot`), goes through commits (`CommitStep`, `RefusedStep`), fills rows
(`StartFills`, `ReadFill`, `WriteRow`, `LoseRow`, `EndFill`) and serves; `Stop` is a
crash. `Register` and `SetByHand` are what users do meanwhile.

## 4. Runs

| run | instance | shows |
|---|---|---|
| `pos_sales` | 2 requests, 2 sales, 1 shift, 1 token, 2 units at 2, discount 0 or 1, cash and card 0 or 3, stock 3 | no interleaving refunds more than was paid or reverses twice; a settled sale is settled to the cent; stock and cash add up; no oversell; refinement of SaleLedger |
| `credit` | 1 account serially with 4 plans (with and without interest, prima, remainder) and 2 statements; 2 accounts with 2 requests in flight | money is conserved and the status tells it; installments ask for the balance and the plan's interest; statements cover what they say and stand once settled |
| `shifts` | 2 users, 1 computer, 2 shifts, tolerance 1, 1 recount, 2 expenses | one open shift per computer whichever path adopts one; a close stands and is explained; an expense takes its cash once |
| `offline` | 2 tickets, 2 products, 2 registers, 2 offline sales, 2 requests; a key with 2 bodies; 4 edits of the catalogue; some 2000 bills | units sold, tickets, reservations and reported shortages agree with the stock; no sale is forgotten before it is stored; one run for each key; the copy of the catalogue is current; bills add up |
| `tables` | 3 rows of a bill, up to 4 accounts, 3 rounds, 2 printers; a discount stored or sent; 2 tables and 3 orders, 2 zones and cells, identifiers that differ in case, 2 technicians, a restaurant and a workshop | each account is charged once and together they pay the bill; the screen adds up; the kitchen is told what is on the order; open orders can be reached; AUTO is fair |
| `stock` | 3 lots, 2 batch numbers and expiries, 2 days, 2 purchases, 2 sales, 3 payments, 2 shifts, 3 units | stock is the sum of the lots (one transaction at a time); units of lots and movements agree also when transactions overlap; debts equal purchases less payments |
| `booking` | 2 specialists, 3 overlapping slots, 2 customers, 2 holds, 2 appointments | no slot twice; one appointment for a hold; what is offered can be held |
| `deliveries` | 2 riders, 1 or 2 orders, 6 scenarios, 1 restart | one offer at a time although timer and cron race; orders under way keep their rider and never go back; offers and commissions progress |
| `memberships` | 2 products, 4 months of 4, 3, 4, 4 days, 3 memberships, an agreement with 2 installments | periods follow one another from the anchor day; what lapsed is cut; settled means clear |
| `access` | 3 businesses in 2 companies, 3 users, 2 waiters, 2 PINs, 3 devices, 6 hours | accesses come by grant alone; PINs, quotas, device limits, an industry for a company, a boss for a business; no trial longer than given |
| `boot` | 4 older schemas; 2 rows, 1 or 2 instances, 2 boots each | two boots reach the schema and an instance serves with its rows filled, whatever was cut |

One violation is expected, a disagreement between the code and its own comment
("findings" quotes the line): `stock_stale`, in which a purchase commits between
a sale's sum of the lots and its write of the sum, against "Invariante estricto:
Product.stock = SUM(ProductBatch.quantity)" (batches:563).

### Bounds, and why they are enough

* *Two requests in flight.* Every race above is between two handlers that share
  one row; a third request only repeats one of them. The proofs remove the bound
  for the properties they are about.
* *Two sales, accounts, orders, tickets, holds or expenses*: one to be acted on and
  one that must not be touched, or that competes for stock, riders, slots, cash.
  Three rows of a bill let an account have two while another has one; three lots
  let an allocation take one whole, one in part and none of the last.
* *Amounts.* Price 2 with discounts of 1 over 2 units makes shares that do not
  divide, so rounding happens; 5 over 3 installments leaves a remainder; interest
  2 over 3 and 4 is prorated with rounding at each abono; a dish of 5 with discounts
  of 1 and 4 over up to 4 accounts; baskets of up to 3 lines of 0, 10 or 33 cents.
* *Calendar.* The second month lacks the fourth day, as February lacks the 31st; the
  anchor day is lost in it and must come back. `MaxMonths` and the length of
  `MonthDays` end a run; `Grace` is 1 day.
* `MaxQty`, `MaxCash`, `Counts`, `Openings`, `MaxUnits`: the smallest values with a
  partial return, a drawer that is short, exact and over, a lot taken in part. A
  drawer below zero is cut off by the bound, although the code would accept such a
  withdrawal.
* `MaxActive` is 1 in the instance (2 in the code): the limit is reached with two
  orders. `MaxCrashes` is 1: a restart leaves rows only, so the second starts
  from a state of the same kind. Offers last minutes and handlers milliseconds;
  `Expire` therefore waits for a handler that is creating that offer.
* `targets`: the scenario of the geofence asks updateStatus for every status, reopening
  included; the one with offers asks for the way to the customer and for INCIDENCIA (see
  `Steady` in section 5 for what else would break there).
* `late` is 0..2: an offer in time, expired, and expired for the cron too.
* `MaxHours`, `MaxEdits`, `MaxBoots`: enough hours for a trial to end, be extended
  and end again; for a product to leave and come back between two other edits; for
  a boot that is cut, one that ends, and the other instance's.

`CHECK_DEADLOCK FALSE` appears in every cfg: when all rows of the instance are
used up and no request is made, nothing remains to do. Permutations of
interchangeable model values are symmetry; `deliveries`, which checks liveness,
uses none.

### Fairness

Only Deliveries states fairness, only its liveness properties need it, and all
of it comes from the runtime: a handler that began goes on (`WF` of `Continue`:
Node runs every continuation), time passes (`WF` of `TimePasses`), and the cron
looks for expired offers every 30 seconds (`SF` of `Timeout(o)`: strong, because
the bound on handlers in flight disables it for moments at which the real cron
would merely run later). No fairness is assumed of riders or clients. Both
liveness properties are conditional on no restart: a restart between the claim of
an expired offer and the next offer leaves an order OFERTADO that nothing moves,
and one before `registerCommission` loses the commission.

## 5. Proofs

`SumTheorems` has what the ledgers rest on: how `SumFunctionOnSet` of the community
modules changes when an element joins the set (`SumAdd`) or one value of the function
does (`SumChange`), that equal functions have equal sums (`SumSame`), that a sum of
bounded terms is bounded (`SumWithin`), and the like.
The operator is defined by a fold, about which the provers know nothing; the lemmas
show that its recursive function exists and is unique (`SumIsRec`, `RecAgree`,
`RecExists`) and argue by the smallest counterexample among the subsets of a finite set
(`WFMin` with `FS_StrictSubsetOrderingWellFounded`, which take sets and no operator),
in place of an induction theorem. `FillInOrder` is the lemma under all allocations
(lots of a product, installments of an account): those who come first give first, and
together they give all that is asked, or all they have.

`PosSalesProofs` proves, for every number of requests, sales, shifts and tokens
and all prices, payments and stocks that satisfy the assumptions of PosSales
(`QuantityAssumption`: naturals, and a discount of a unit is at most its price;
`SwitchAssumption`: `None` is none of the other values; `RowAssumption`: sales and
shifts are finite sets):

* `TypeCorrect`: `Spec => []TypeOK`, which is left to the proof and not repeated in
  a run;
* `RefundSafety`: `Spec => []RefundsWithinPaid`;
* `ReversalSafety`: `Spec => []ReversedOnce`;
* `Invariance`: `Spec => []IInv`, from which the others follow.

None of the three is inductive alone: `VoidCommit` and `ReturnCommit` write what
an earlier action computed, so it has to be known that it still fits the row.
`IInv` adds

* `OneHolder`: two requests never reverse one sale at once (the row lock);
* `OneInserter`: one request at a time is between stock check and insert (the
  lock of the business row);
* `DraftHeld`: the sale about to be inserted is still free and its draft sound;
* `RowsHeld`: what a reversal read under its lock still holds of the row: its
  status, whether a void has cash to pay out, and that a refund passes neither
  what is left of the method's payment nor what is left of the total;
* `RowsSound`: the rows themselves (change at most tendered, units of a rung sale
  positive, nothing returned of a sale in a status without returns, nothing paid
  out for a sale that is not voided).

`TypeStep` shows that each action keeps the types; one lemma per kind of step
(`SaleReadStep`, `SaleInsertStep`, `ReversalCheckStep`, `VoidCommitStep`,
`ReturnCommitStep`, `RollbackStep`, `OutsideStep`) shows that it keeps the rest.
Arithmetic is in lemmas of its own: `RoundDivBounded`, `LineRefundNat`,
`RefundAmountNat`.

The same module proves `Implementation`: `Spec => ImplementsLedger`, under the
assumptions of PosSales alone. The ledger's row of a sale is computed from the row
of the code (status, total, the sum of what its methods gave back), so the proof
shows that the insert of a sale is `Ring`, that `VoidCommit` is `Void`, that
`ReturnCommit` is `RefundPart` or `RefundRest`, and that every other step leaves the
ledger alone. `IInv` is not enough for this, and `RInv` adds what two requests in
flight are told: `TotalsHeld` (the total about to be inserted is an amount of the
ledger) and `FullHeld` (a return that found it completes the sale still takes all
that is left when it commits, since the row was locked in between).

The two ledgers follow from `LInv`, which is `RInv` with what they need:

* `StockSafety`: `Spec => []StockLedger`. The stock that a sale has checked is still
  there when it is inserted (`StockPart`), since it holds the business row and
  reversals only add; each commit moves the stock and one term of the sum together
  (`StockMoves`).
* `DrawerSafety`: `Spec => []DrawersMatch`, the first conjunct of `CashLedger`: the cash
  out of all drawers is what voids and returns gave back, whatever the lines of the
  returns. A return has a shift to take cash from exactly when it gives cash
  (`CashPart`).
* `CashSafety`: `Spec => []CashLedger` where a return names a sale item once
  (`ReturnLines` within {1}). With two lines of one item the second conjunct is false,
  which section 6 lists. `RowPart` says that a return in flight fits the units left
  and knows whether it takes all of them.

`MoneyProofs` proves of Shifts, for every set of cashiers, computers, expenses and requests,
any number of shifts and every discrepancy policy of `AmountAssumption`
(`ScenarioAssumption`: scenarios use kinds and shifts there are; `NoneAssumption`:
`None` is no computer and no cashier):

* `DeviceSafety`: `Spec => []OneShiftPerDevice`;
* `CloseSafety`: `Spec => ClosedStands`, an action property: a closed shift keeps its
  totals, count and grounds, and a shift is closed only with its count explained;
* `Invariance`: `Spec => []IInv`, from which both follow.

`OneShiftPerDevice` is a statement about cardinalities; `IInv` has it as `DeviceUnique`
(two open shifts of one computer are one shift), which each step keeps because the
unique index refuses a creation or an adoption that would give the computer a second
one, whatever the handler read before. The handlers of the register run without a transaction, so `IInv` also says
what a handler holds between its reads and its write: `Named` (the row it is about to
write exists) and `ClosesJustified` (the count a close is about to write is explained
by the snapshot it took). `Explained` says the same of the rows that are closed.

`StepChangesRows` puts the sixteen steps down to four ways in which a row may change
(`RowChange`: a shift is opened, adopted, recounted or closed); `DeviceStep` and
`ClosedStep` then reason about those four, and `GroundJustifies` about the grounds of
a count. `LeastExists`, `FirstUnused` and `LatestExists` justify the choices by number
(`orderBy` with `findFirst`) without an induction.

`ExpenseSafety`: `Spec => []ExpensesInDrawer`, from `ExpenseInv`: an expense a void is
about to write is still active and no other void has its row (`VoidsHeld`, `OneVoid`),
so the drawer gets its cash back once. Expenses are a finite set (`RowAssumption`).

`MoneyProofs` also proves of CreditAccounts, for every finite set of accounts, every set
of statements and requests, all plans of `PlanAssumption` (a prima below the total, at
least one installment) and any number of requests, under the hypothesis that every
setting is an `OrderlySetting`: one request of any kind at a time, or any number of
abonos, statements, settlements and cancellations together. Without it the statements
are false: an abono and a credit return in flight together do lose the abono.

* `CreditTyped`: `CreditSpec => []CreditTypeOK`;
* `CreditLedgerHolds`: `CreditSpec => []CreditLedger`;
* `CutLedgerHolds`: `CreditSpec => []CutLedger`;
* `InstallmentsHold`: `CreditSpec => []InstallmentsMatch`, if also plans with interest
  are in settings of one request at a time (`SerialInterest`): two abonos in flight
  compute the interest they contain from the same balance.

`CreditInv` relates the rows one account at a time (`BookOf`, `EntryOf`) and the statements
by sums over their items (`StatementOf`), and says what a request in flight may rely on
(`InHand`): the balance a statement has read may have fallen but not risen, a
settlement finds its statement and items as it read them since it holds their lock,
and a return finds the very balance it read. A settlement pays its items in an
order the code does not fix; `PayFacts` shows that, whatever the order and whatever
balances fell meanwhile, it never pays more than it received, by looking at the item
that comes last among those paid. `MatchInv` adds the installments: `FifoPays` and `LifoForgives`
say that an amount taken installment by installment, oldest or last first, is taken
whole (`Spread`, from `FillInOrder` of SumTheorems), `CuotasAddUp` that the parts of a plan
with its remainder add up to what is financed, `PortionNat` and `PortionPaysOff`
that the rounded portions of interest stay within the plan's and end in it.

`OfflineProofs` proves all five properties of OfflineSync for every set of registers,
products and requests, finite sets of offline sales and tickets, every bound on edits
and all baskets and discounts (`OfflineAssumption` and the assumptions it extends; a
basket has a line and its lines come to nothing less than zero):

* `SalesKept`: `OfflineSpec => []NothingLost`, from `SyncInv`: besides the shape of the
  rows, each sale of a batch in flight is still to do, has failed, or is on the
  server (`BatchesAnswered`), so the reply names no sale the server lacks;
* `CopyTrue`: `OfflineSpec => []CopyFollows`, from `CopyInv`: the moment a register asks
  from is the greatest stamp of what was active, which goes back when a product is
  deactivated, so its copy has to be right for every listed product stamped by then
  and not in `untold` (`RightSoFar`). `untold` is exact about what the code misses: a
  change without a stamp, or an edit committed after an answer with a later one;
* `KeyedOnce`: `OfflineSpec => [](Prompt => HandledOnce)`, from `KeyInv`. `Prompt` says
  that in the scenario no handler fails, stops, or answers after the wait is over,
  which are the cases the code gives up the guarantee for. One request holds the key
  at most, it runs the body the key is kept for, a key that is free has run nothing
  but for those who missed the deletion of the expired row, and while a row is expired
  requests only delete it (`KeyHeld`);
* `StockAccounted`: `OfflineSpec => [](Careful(scenario) => StockExplained)`, from
  `StockInv`: no sale is in a queue, a batch or on the server that was not made
  (`MadeFirst`), one sale that is not for review charged its ticket and the ticket is
  charged (`ChargedOnce`, which is `TicketChargedOnce` made inductive), one request
  holds the row of the business (`OneSale`), and what a request has read and is about
  to write still holds (`InHand`). `Careful` says what may overlap: handlers that read a
  row without its lock and write it later, and the sweep after a close, stand alone
  (`width = 1`), and no ticket is cancelled or swept beside a synchronisation, which
  charges what it read as PENDING. Both conditions are needed, and TLC breaks
  `StockExplained` without either one: handlers then write over each other's
  reservations, or charge a ticket whose reservation was given back (section 6). Every scenario of the instance is `Careful`;
* `BillRight`: `OfflineSpec => []BillAddsUp`. The rounded shares sum to the discount
  because the last line takes the rest (`RestNear`, `SharesRight`), which puts the
  errors of the other lines, half a cent each, on the last one; `LineTaxNear` and
  `TaxesNear` do the same for the tax, and `PartsAddUp` joins them. `BillInput` carries
  that a bill that is there was computed from a basket.

`AccessProofs` proves all of Access and of Memberships. Access first, for every set of
users, waiters, devices, PINs, branches and companies and every limit (`LimitAssumption`,
`HomeAssumption`, `ScenarioAssumption`, and `PeopleAssumption`: users and devices are
finite sets, there is a user, and nobody is both user and waiter):

* `TrialKept`: `Spec => []TrialBound`, from `TrialInv`: the hours worked and what is
  left of the trial (`HoursLeft`: the hours of a clock that has not started and those
  of one that runs, which an ended clock may both have) are no more than was given;
* `GrantsOnly`: `Spec => OnlyByGrant`, from `GrantInv`: with one request of the superadmin
  at a time every access is to a branch that has a company (`AccessHeld`), and a move
  that is about to write has left none behind (`MovesHeld`);
* `RulesHold`: `Spec => []RulesKept`, from `RulesInv`. A limit alone is not inductive,
  because a request that counted below it writes later; what is there and what the open
  requests will add together pass it by at most one less than the requests that may be
  open (`QuotaHeld`, `DevicesHeld`, `CodeHeld`). The user a request will create is not
  there yet and no other request creates it (`FreshHeld`, `Apart`). With one request at a
  time, what it has checked still holds when it writes: another ENCARGADO (`BossHeld`), a
  free PIN (`PinHeld`), the industry of the company a business joins (`IndustryHeld`).
  `PartsApart` shows that a step of one part leaves the others alone.

The same module proves all of Memberships, for every calendar whose months are longer
than the grace by two days at least (`CalendarAssumption`, as 28 days and a grace of 3
are), all terms and amounts (`TermAssumption`) and settings within the calendar
(`SettingAssumption`):

* `MembershipsTyped`: `MembershipSpec => []MembershipTypes`, with no condition. It is
  more than shapes: a period starts on a day that has a month after it, and a business
  without an anchor day has no membership. It rests on lemmas about the calendar: each
  day is in one month (`MonthOfDay`), and the anchor day of a month, or its last, is a
  day of that month.
* `PeriodsFollow`: `MembershipSpec => []PeriodsInOrder`, from `OrderInv`: a membership ends
  on the anchor day of the month after it starts (`Dated`), which is where the next one
  begins, and the request in flight has read the end of the last one (`StartsNext`). The
  property itself names the two conditions it needs, one superadmin (the last membership
  is read outside the transaction, superadmin:2378) and no date edited.
* `LapsedAreCut`: `MembershipSpec => []LapsedIsCut` where no request runs during the cron
  (`apart`), since the cron cuts on what it looked at before. `LapsedInv` says what each
  statement of the cron may rely on: the ids it has read are the memberships whose grace
  is over (`ReadIds`), a product that is on is paid by a membership still in its grace or
  the cron has yet to look at it (`ServedIsPaid`), and flag and subscription differ only
  between the two writes for one product (`FlagsAgree`).
* `SettledIsClear`: `MembershipSpec => []SettledMeansClear` for one superadmin and
  `CompleteTerms`. The balance a payment is compared with is read before the transaction
  (commercial:577), so two superadmins pay past it; and what a body leaves out passes the
  lock of the terms and is then overwritten (commercial:446). `SettledInv` says that the
  paid part of the installments is what the payments settle, first installment first
  (`InstOk`), that the status follows the sum of the payments
  (`DealHolds`), and that an open payment fits what is left (`PaymentsFit`).

`BookingProofs` proves Booking for every set of specialists, customers, holds and
appointments, all times and durations. `BookingAssumption` asks that identifiers of
holds and appointments, the duration and the threshold of strikes be positive: 0 stands
for "no appointment is left out of the comparison" in `ApptConflict`, so an appointment
numbered 0 would be left out of every one.

* `BaseHolds`: `Spec => []BaseInv`, with no condition on what overlaps: the types, the
  rows each handler works on, the advisory lock that has one holder, and `FromOnce`, a
  hold becomes at most one appointment (`HeldOnceBookedOnce`): the delete of the hold
  in the transaction that books, and not the lock, keeps it.
* `HoldsNeverOverlap`: `Spec => [](Serial(scenario) => OneAppointmentPerHold)`. `Serial`
  says that requests come one at a time or that each names its specialist. `HoldInv`
  adds what a hold about to be inserted has found free (`InsertFree`), which stays true
  since who else would insert waits for the same lock. Where one request names a
  specialist and another lets the service choose, their locks differ and the theorem
  is false.
* `NobodyBookedTwice`: `Spec => [](Careful(scenario) => NoDoubleBooking)`. `Careful` is
  either one request at a time, with no action of the business on an appointment already
  settled (`Orderly`: it would bring a cancelled one back without looking at its slot),
  or overlapping holds, releases, confirmations and checkouts of named
  specialists whose holds do not lapse meanwhile (`ByName`). In the second, what keeps
  appointments apart is that their holds were (`Named`); in the first, that what the
  handler in flight compared with still stands (`ConfirmFree`, `Moving`, `Selling`).
* `OfferIsHonoured`: `Spec => []OfferedCanBeHeld`, without conditions.

The same module proves Salon and the kitchen of TableOrders, for every set of tables,
names, zones, technicians and orders, and every finite set of dishes, accounts and
rounds (`TableAssumption`, `SalonAssumption`):

* `FloorShown`: `SalonSpec => [](OneByOne(setting) => OrdersShown)`, from `FloorInv`.
  What a request has read of the floor still holds (`ReadHolds`, `OneRequest`). A table
  with an order open is active, and that order is its only open one and its last
  (`OpenSeen`); numbers are compared with their case folded but the index is not, so
  `Laid` says it of the active tables alone: of the rows with one number only the
  last is active where none is renumbered (`LastInUse`), and every row with a number
  where none goes out of use (`AllInUse`). `OneByOne` asks only that requests of the
  floor do not overlap. Numbers are not claimed where `Renumbers` holds: in a workshop
  that renumbers tables, receives vehicles, and hides or charges them (section 6).
* `ReceptionFair`: `SalonSpec => FairReception` where requests of the floor do not overlap:
  the order that `FirstAvailable` chooses by is total, so somebody comes first, and the
  floor on which he did is still the floor when the order is written (`AskInv`).
* `KitchenTold`: `SalonSpec => [](KitchenCalm(setting) => KitchenMatches)`, and without
  `KitchenCalm` that a round has one current claim. `KitchenInv` says that a station with
  a current claim has a round nobody may claim (`ClaimHolds`); that what was told, less
  what was told to be void, is what is marked as sent on the order, or less by
  exactly the void in flight (`Reported`); and that a request that counts dishes has
  read the rows as they are, or its token was used (`ToCount`, `ToSend`). `AllSent` and
  `AllUnsent` write both sides as sums over all rows, and one lemma per operator
  (`AddCounts`, `UpdateCounts`, `VoidCounts`, `MoveCounts`, `MarkCounts`, `OtherCounts`)
  says what it does to them. `KitchenCalm` asks that requests that change dishes do
  not overlap, that sends which do carry one token, and that no crash comes between a
  void and its round: voidOrderItem tells the kitchen after its transaction
  (tables:2408). Every setting of the run satisfies it.
* `BillPaidInFull`: `SalonSpec => [](BillCalm(setting) => ...)`: a closed order has
  charged every dish on it and, where `PartsFit(order)`, `ChargedInFull`, which compares
  the sales with `Owed`: divided, less the stored discount; undivided, less the one that
  the checkout came with.
  `BillShownInFull`: under both conditions, `ShownAddsUp`.
  `BillInv` says that `charged` is what the paid accounts of the order, as it is now,
  add up to (`BillCharged`); that dishes belong to accounts, that equal parts
  add up to what is due and that an order closes with its last account
  (`BillDivided`); and that a checkout in flight has read an order that charges the
  same, while any other request has read the very order (`BillSeen`). One lemma
  per operator (`AddBill`, `UpdateBill`, `VoidBill`, `MoveBill`, `SplitBill`,
  `MergeBill`, `GrowBill`, `UndoBill`, `DiscountBill`) keeps `BillDivided` on a bill of
  which nothing is paid, and `WholeBill` and `AcctBill` add a sale. `ResidualSum` says
  that rounded shares and the rest are the whole; `ItemsSums` and
  `EqualSums` apply it to the accounts, the latter dish by dish with the sums
  over dishes and accounts swapped (`SumSwap`). `BillCalm` asks that a paid part
  freezes the bill for edits, and that only checkouts and sends overlap; every setting of
  the run about an order satisfies it. `PartsFit` asks that the rest of the discount be neither
  negative nor, by items, more than the last account's dishes; it holds in every state of the
  run (TLC, on its constants), and where it does not the properties may fail
  (section 6).

`DeliveriesProofs` proves Deliveries for every set of orders, riders and handlers in
flight, every number of restarts and every set of statuses that clients ask for
(`Targets`).

* `BaseHolds`: `Spec => []BaseInv`, with no condition: types, the orders and offers
  that handlers work on, nothing offered or proposed of an order not yet created.
* `OffersInTurn`: `Spec => [](Orderly(scenario) => OneOffer)`, however timers, the
  cron, answers and takers overlap, in two steps. `OfferInv`: the right to make the
  next offer of an order is a token that is born when an offer stops waiting, is held by
  one handler (`Token`), and cannot be there beside an offer that waits (`Tokens`).
  `QuoteInv`: an accepted proposal is the only live one of its order, and its rider has
  the order. `Orderly` leaves out a rejection that overlaps another request, since it
  offers again without having claimed anything (dispatch:376), and proposals accepted
  while another request is in flight or while updateStatus may reopen an order.
* `RidersKeepOrders`, `OrdersMoveForward`: `Spec /\ Steady(scenario) => HolderKeeps`
  and `=> OnlyForward`, from `SteadyInv`. Both speak of an order under way, which has
  its rider (`UnderWay`); one that was cancelled or reported is not, and updateStatus may
  open it again. `Steady` has two conditions. Where nothing is offered or proposed
  (`Direct`) updateStatus may be asked for any of its 13 statuses; beside offers and
  proposals not for PENDIENTE, OFERTADO, COTIZANDO, ACEPTADO or CANCELADO, because an
  offer outlives what updateStatus does to its order (a rider may reject, and so put back
  on offer, an order the manager cancelled). And `Steady` is one request at a time whose
  handlers cannot fall between the statements of one another's: even then, a crash
  between two statements, or a proposal or an offer left open by an order that went
  another way, lets a later handler write blindly. It excludes rejections beside
  takers or cancellations, answers to proposals beside takers, offers or cancellations,
  and restarts of the geofence: each is a pair for which the property is false, or would be
  with a limit of two orders to a rider. The invariant says what makes the blind
  writes right: whoever is about to make an offer has an order that nobody holds
  (`Travel`), what waits for an answer is of such an order or of its rider
  (`OffersLoose`, `OfferElsewhere`, `QuotesLoose`), and what Redis remembers of an
  order is what the table says, but while somebody is about to tell it (`Remembered`).

`StockLotsProofs` proves StockLots for every number of lots, purchases, sales, payments
and transactions in flight, all quantities and expiries (`RowAssumption`: the rows are
finitely many; `ScenarioAssumption`: a product opens with a natural stock and requests
ask for positive units).

* `BaseHolds`: `Spec => []BaseInv`, whatever overlaps: types, of two requests in
  flight at most one locks the product and no lot is locked by both (`Apart`), and a
  product that never had control of lots has none (`Bare`). A transaction works on what it read before it had its locks, so the
  invariant says of which rows that is still right: of all while it holds the
  product, of the locked ones otherwise.
* `DebtsHold`: `Spec => []DebtsMatch`, whatever overlaps, from `DebtInv`: the purchase
  a request is about to record has no debt yet (`Buying`), a payment belongs to a debt
  and to a shift that was open (`PaymentsOK`), and no drawer counts a payment of a later shift (`Drawers`).
* `LotsHold`: `Spec => [](Careful(scenario) => LotsExplained)`, from `LotsInv`: what each
  request has computed and not yet saved changes its locked lots by exactly the
  units of its movement (`Explained`), and that survives what the others commit,
  since they lock other rows or wait for the product. `Careful` leaves out one thing:
  `adjustStock` (products:1351) beside another request writes what it computed from a
  row it read without the lock of the product. `aside` counts the units a handler
  knowingly takes past the lots (`Untracked`) or past the movements (`TrackIs`, the
  stock an import gives a new lot), so the sum holds across control of lots that
  begins, ends and begins again.
* `StockHolds`: `Spec => []StockIsLotsAlone`, from `StockInv`: with one request at a
  time what it read of the product still holds (`InHand`), and `syncProductStock`
  writes the sum of the lots; where it is not reached no lot changed (`StockCommit`).
  The property itself says where the sum is not claimed (`Unbroken`; section 6). A
  product that begins control with a stock below zero gets no lot (batches:536), and
  keeps that stock until a lot changes.

`FillInOrder` asks only for a strict order, which `Before` is on the ranks of lots
(`FEFO` by stock, expiry and age); one lemma per operator (`ReceiveFine`, `AdjustFine`, `ImportFine`, ...) then says that its
outcome is `Fine`, and the steps reason about outcomes alone.

The same module proves `RowsFilled` of Bootstrap: `BootSpec => []BackfillComplete` where
the payments are filled by one instance at a time, which is what the property's last
conjunct needs (section 6), for every number of instances, rows and boots. `FillInv` says
that whatever backfill an instance has passed without a warning has filled the rows it
found (`FilledSoFar`), the rows it is at included, since no row ever goes back a
stage: what another instance writes, or a crash leaves, only helps.

**Only model-checked:** `SchemaConverges` of Bootstrap, which is about one list of
statements, so that TLC checks all there is to say; and all liveness, which the prover
does not handle.

## 6. What is not modelled, and what is known but not claimed

### Left out of the modelled components

* Sales: recipes (but those of an offline sale), price lists, taxes in the flow of
  a sale (SaleTotals has them as an operator), PedidosYa settlements, dollars in a
  drawer.
* Credit: groups and limits, cut dates, the import of customers, returns of a credit
  sale paid in cash out of its prima.
* Cash register: the lock on wrong PINs, the other two discrepancy policies, totals
  by bank; expenses paid from a bank and their categories.
* Tables: taxes, several dishes, the versions clients send for a division, the
  editing of zones.
* Stock: costs and prices, purchases of several lines, approval tokens.
* Booking: weekly schedules, several services in one appointment, messages.
* Deliveries: restaurant handling of the same orders, amounts of proposals, messages.
* Offline: the shift a sale falls in, costs, credit sales, customers, the resolution
  of discrepancies. An idempotency lookup that fails in the database lets the
  handler run without a key.
* Administration: fees, audit entries, equipment, proofs of payment; passwords,
  profiles and photos; the seed of the industries, which writes the same rows at each
  boot.

### Not modelled at all

Reports, receipts and the back office are queries; the settings, channels, exchange
rates, clients, businesses, industries and ratings are rows written one at a time;
messages and uploads are calls to external services; the queue of print audits and
the comparison of client versions decide nothing else. `PROJECT.json` has the list.

### Known, and claimed by no property

The modules contain these behaviours, or would once a scenario lets the handlers
named overlap; no property claims that they do not occur.

*Point of sale.* Two reversals read one token unused and both consume it
(approvals:177). Voiding a dollar sale with change subtracts the change twice
(sales:2104). Two lines of one return that name the same item bring back more than
was sold (sales:2458). Two sales can print the same invoice number (sales:243). An
abono between read and write of a credit return is overwritten (sales:2673), two
abonos on a plan with interest prorate from the same balance, and the reconciliation
marks OVERDUE an account paid off after it was listed (credit:457).

*Register.* A sale or movement committed between the snapshot and the write of a
close belongs to the closed shift and is missing from its totals
(cash-register:626); closes in flight together count recounts beyond the policy; the
cash of a void that read its shift open goes back after the close.

*Tickets and offline.* A ticket cancelled or charged during the sweep that follows a
close becomes EXPIRED (cash-register:1051); one cancelled while a synchronisation has
read it as PENDING is charged all the same, and its reservation given back twice
(offline:737); a ticket line added, or a direct sale
made, while another handler reserves can reserve more than there is; a register is
allowed to sell while another keeps sales the server refused (offline:1084); the
loser of an idempotency key runs outside it when the winner fails, stops, or was sent
with another body; of two repeats that find one expired row the second fails to delete
it and runs without the key while the first runs under it (idempotency:58, :146).
A register's copy of the catalogue stays stale after a change without a stamp
(reservations rebuilt at a close, lots) and after an edit that commits later than an
answer with a later stamp (offline:483, :1193).

*Tables.* Two openings at once give a table two orders; accounts split or undone while
one is charged (tables:2503); `updateTable` hides a table with an open order
(tables:436); an empty account at the end of a bill by items takes, and loses, the
rest of the discount on the screen (tables:1794); two receptions at once choose the
same technician, and on reassignment the order counts itself (tables:2049). A table
that was hidden, or that a workshop charged, keeps its number; the index knows case, so
another may be renumbered to it in another spelling, and a vehicle received with
that number brings the first one back beside it (tables:1346, :1491). A discount stored
on an order that is not divided, as `undoSplit` leaves one (tables:3058), is in the
total of the screen, but is charged only if the client sends it again with the
checkout (tables:1298). Two sends in flight
without a clientRequestId both print the same dishes (tables:2132). With a discount near
the total and many accounts, the last account's rounded part can exceed its subtotal,
and the screen is off by a cent (tables:1794). When the other accounts of an equal
division round their part of a small discount up, the last one's is less than nothing
(a dish of 6 cents, 2 off, in four parts: 1, 1, 1 and -1); calculateSaleTotals takes
it for 0 (sale-calculation:108), and the sale is of less than the account's
fixedAmount, of which the comment says that the total is exactly it
(split-equal.util:156).

*Stock.* The sum of the lots goes stale between two transactions (run
`stock_stale`); the annulment of a purchase looks for payments without a lock
(purchases:605); `adjustStock` beside another request loses one of the two changes
(products:1381); a product below zero gets no lot when its control of lots begins, so its
stock and its lots part (batches:536). Without any overlap the sum also breaks where
control of lots ends, the stock moves and control begins again: the old lots are kept,
none is created beside them and nothing is added up (products:1050-1071, batches:527);
and where a row of a catalogue with a lot or a date turns control on: its lot gets only
the difference to the stock that was listed, or there is no lot
(products-import:673-684, 822-833). The difference is computed from a list read before
the transaction, so that an import beside other requests writes a stock they have
changed (products-import:692). The run has all three; no property claims the sum there,
and the units stay explained (`LotsExplained`). A credit purchase that cost nothing stays
PENDING with nothing to pay (purchases:462).

*Orders.* The rejection of an order cancelled meanwhile offers it again
(dispatch:376); a proposal is accepted for an order somebody took (quotes:359); two
answers of one rider in flight exceed his limit, and two riders who read an order
free both take it. PENDIENTE counts as the next status of a cancelled or reported order
(orders:782): the scenario of the geofence reopens orders that way, and no property says
that a cancelled order stays cancelled. updateStatus accepts an order without giving it a
rider (orders:753), and a rider may then still accept its offer and send it back to
ACEPTADO: HolderKeeps and OnlyForward are about orders that have a rider. OFERTADO written
by hand makes no offer and no timer ends it.

*Booking.* A hold that names its specialist and one that does not take different
locks (booking:663) and can both insert; two reschedules, or one and a hold, take one
slot.

*Administration.* Two admins pay one month twice (superadmin:2378); a crash of the cron
between its statements leaves a product running (superadmin:2792); terms of an
agreement that are locked are rewritten by an update without terms (commercial:446);
a user brought back keeps a PIN somebody else took (pos-users:323); requests in
flight pass a limit by their number; two ENCARGADOs who deactivate each other at once
leave none (pos-users:294 and :303); an access granted between the two writes of a move
outlives it (superadmin:3996 and :4001); the accesses of a business's own users come back
with it. The backfill of the taxes overwrites what an owner chose since the last
boot (prisma.service:5129), and two instances give one sale two payments
(prisma.service:5236).

## 7. What is left

1. **Proofs**: a condition on prices and discounts from which `PartsFit` follows.
2. **Deeper models**: taxes and several dishes in TableOrders; purchases of several
   lines; weekly schedules and several services in Booking; the sessions of customers.
3. **Abstract specifications** for StockLots (a bag of units) and OfflineSync (a log of
   sales, each stored once), with the refinement as a property in place of their
   ledgers.
