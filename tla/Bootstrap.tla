----------------------------- MODULE Bootstrap -----------------------------
(***************************************************************************)
(* What an instance does to the database each time it starts, translated   *)
(* from src/src/prisma/prisma.service.ts: the list of schema statements of *)
(* ensureSchemaSynced, the ensure...Schema steps that follow it, and the   *)
(* backfills that fill the rows older versions left empty.                 *)
(*                                                                         *)
(* A schema statement is a pair: what it uses and what it adds.  Statements *)
(* that follow each other, use the same things and succeed or fail         *)
(* together are one pair; the tables of the first deployments (BaseTables) *)
(* are always there and are not named in a pair.  A statement is atomic,   *)
(* and so is an ensure step that runs in a transaction under               *)
(* pg_advisory_xact_lock; one that runs under a session lock commits       *)
(* statement by statement.  A backfill is a read of the rows it will do    *)
(* and one write at a time; a row is a business, or the specialist,        *)
(* service, sale or product that stands for it.                            *)
(***************************************************************************)
EXTENDS Integers, Sequences, FiniteSets

CONSTANTS
    Instances,    \* processes of the API
    Rows,         \* the rows each backfill has to fill
    Setups,    \* what is run: instances, topics, tables at first, crashes
    MaxBoots      \* bound: boots of one instance

(***************************************************************************)
(* The schema statements, in order.                                        *)
(***************************************************************************)
Adds(t) == <<{}, t>>
Uses(u) == <<u, {}>>

\* Statement of line 320 adds the labels VOIDED, RETURNED and CANCELLED.
VoidLabels == "SaleStatus.VOIDED"

DdlBase == <<
    Adds({"BusinessType", "DispatchStatus", "CommissionStatus", "StatementStatus",
          "AuthProvider"}),
    Adds({"pos_policies"}), Adds({"pos_audit_logs"}), Adds({"audit_function"}),
    <<{"pos_audit_logs", "audit_function"}, {"audit_trigger"}>>,
    Adds({"pos_approval_tokens"}), Adds({"idempotency_keys"}) >>

DdlPayments == <<
    Adds({"pos_payments"}), Adds({"pos_exchange_rates"}),
    Uses({"pos_payments"}),
    <<{"CreditAccountStatus"}, {VoidLabels}>>,
    Adds({"pos_sale_returns"}),
    <<{"pos_sale_returns"}, {"pos_sale_return_items"}>> >>

DdlPurchases == <<
    Adds({"PurchaseStatus", "InventoryAdjustmentType"}),
    <<{"PurchaseStatus"}, {"pos_purchases"}>>,
    <<{"pos_purchases"}, {"pos_purchase_items", "pos_product_cost_history"}>>,
    <<{"InventoryAdjustmentType"}, {"pos_inventory_adjustments"}>>,
    Uses({"pos_purchase_items", "pos_product_cost_history", "pos_inventory_adjustments"}) >>

\* Line 567 corrects payments at every boot; it names the new labels.
DdlCredit == <<
    Uses({"pos_payments", "pos_policies", VoidLabels}),
    <<{"customers", "pos_policies"},
      {"pos_credit_groups", "pos_credit_statements", "pos_credit_statement_items"}>>,
    Uses({"customers", "pos_credit_groups"}),
    Uses({"AuthProvider"}), Uses({"BusinessType"}) >>

DdlDelivery == <<
    Adds({"business_clients"}), <<{"StatementStatus"}, {"monthly_statements"}>>,
    <<{"CommissionStatus", "monthly_statements"}, {"order_commissions"}>>,
    <<{"DispatchStatus"}, {"order_dispatches"}>>, Adds({"invite_codes"}),
    <<{"invite_codes"}, {"invite_code_usages"}>> >>

DdlTables == <<
    Adds({"customers"}), <<{"customers"}, {"customer_location_sessions"}>>,
    Adds({"PosVertical", "TableShape", "TableOrderStatus", "BusinessProductType",
          "BusinessProductStatus", "BusinessProductAction"}),
    Uses({"PosVertical"}), <<{"TableShape"}, {"pos_restaurant_tables"}>>,
    <<{"TableOrderStatus", "pos_restaurant_tables"}, {"pos_table_orders"}>> >>

DdlProducts == <<
    <<{"pos_table_orders"}, {"pos_table_order_items"}>>,
    <<{"BusinessProductType", "BusinessProductStatus", "PosVertical"},
      {"business_product_subscriptions"}>>,
    <<{"BusinessProductType", "BusinessProductAction"}, {"business_product_audit_logs"}>>,
    Adds({"pos_terminals"}), Uses({"pos_terminals"}),
    Adds({"pos_inventory_discrepancies"}) >>

DdlAccounts == <<
    Adds({"password_change_logs"}), Adds({"CreditAccountStatus"}), Uses({"customers"}),
    <<{"CreditAccountStatus", "customers"}, {"pos_credit_accounts"}>>,
    <<{"pos_credit_accounts"}, {"pos_credit_payments"}>>,
    Uses({"BusinessProductType"}), Uses({"business_product_subscriptions"}),
    <<{"business_product_subscriptions"}, {"membership_payment_products"}>> >>

DdlBooking == <<
    Adds({"AppointmentStatus"}), Uses({"business_product_subscriptions"}),
    Uses({"customers"}), Adds({"booking_services"}),
    <<{"booking_services"}, {"availability_schedules"}>>,
    Adds({"business_booking_settings"}),
    <<{"AppointmentStatus", "booking_services", "customers"}, {"appointments"}>> >>

DdlSpecialists == <<
    Adds({"appointment_holds"}), Adds({"specialists"}),
    Uses({"booking_services", "specialists"}), Adds({"businesses.slug"}),
    Adds({"services"}),
    <<{"services", "specialists"}, {"service_specialists"}>>,
    Uses({"appointments", "specialists"}), Adds({"professions"}) >>

DdlWaiters == <<
    Uses({"professions", "specialists"}), Uses({"appointments", "customers"}),
    Adds({"pos_waiters"}), Uses({"pos_table_orders"}), Uses({"pos_table_order_items"}),
    Uses({"service_specialists"}), <<{"appointments"}, {"appointment_service_items"}>>,
    Uses({"appointment_holds"}) >>

DdlIndustries == <<
    Adds({"NotificationChannel", "NotificationLogStatus"}),
    <<{"NotificationChannel", "NotificationLogStatus"}, {"notification_logs"}>>,
    Adds({"ProductFieldDataType"}), <<{"PosVertical"}, {"industries"}>>,
    <<{"ProductFieldDataType", "industries"}, {"industry_field_templates"}>>,
    <<{"ProductFieldDataType"}, {"product_field_definitions"}>> >>

DdlZones == <<
    <<{"product_field_definitions"}, {"pos_product_field_options"}>>,
    <<{"industries"}, {"businesses.industryId"}>>, Adds({"businesses.taxConfiguredAt"}),
    Adds({"platform_settings"}), Adds({"pos_salon_zones"}),
    <<{"pos_restaurant_tables", "pos_salon_zones"}, {"pos_restaurant_tables.zoneId"}>>,
    Adds({"PosDeviceStatus"}), <<{"PosDeviceStatus"}, {"pos_devices"}>> >>

DdlRecipes == <<
    Uses({"business_product_subscriptions"}), Uses({"pos_table_order_items"}),
    Uses({"pos_purchase_items"}), Uses({"pos_inventory_adjustments"}),
    Uses({"pos_inventory_discrepancies"}), Adds({"pos_product_components"}),
    Uses({"pos_restaurant_tables"}), Uses({"pos_table_orders"}) >>

DdlWorkshop == <<
    Uses({"pos_table_orders", "pos_waiters"}), Uses({"industries"}),
    Uses({"business_product_subscriptions"}), Adds({"workshop_vehicles"}),
    Uses({"pos_table_orders"}) >>

Ddl == DdlBase \o DdlPayments \o DdlPurchases \o DdlCredit \o DdlDelivery \o DdlTables
         \o DdlProducts \o DdlAccounts \o DdlBooking \o DdlSpecialists \o DdlWaiters
         \o DdlIndustries \o DdlZones \o DdlRecipes \o DdlWorkshop

(***************************************************************************)
(* The ensure steps: each is a sequence of commits, and a commit that      *)
(* fails ends its own ensure step only.                                    *)
(***************************************************************************)
ProductType == << Adds({"pos_products.type"}) >>
WebBilling == << Uses({"business_product_subscriptions", "pos_devices"}) >>
WebAdmin == << Uses({"business_product_subscriptions"}) >>
Kitchen == << <<{"pos_table_orders", "pos_restaurant_tables", "pos_table_order_items"},
                {"kitchen_rounds", "order_item_voids"}>> >>
SplitOrder == << <<{"pos_table_orders", "pos_table_order_items"},
                   {"order_sub_accounts", "order_split_log"}>> >>
MembershipBilling == << Adds({"175e_recompute_billing_anchors"}) >>
Wholesale == << Adds({"pos_sale_items.price_tier"}) >>
Finances == << <<{"pos_purchases"}, {"PayableAccountStatus", "pos_payable_accounts",
                   "pos_supplier_payments", "pos_expense_categories", "pos_expenses"}>> >>
PrintAudit == << Adds({"pos_print_events", "pos_receipt_settings"}) >>
Batches == << <<{"pos_purchase_items"},
                {"pos_product_batches", "pos_sale_item_batches"}>> >>
CreditInstallments == << <<{"pos_policies", "pos_credit_accounts", "pos_credit_payments"},
                           {"CreditInstallmentStatus", "pos_credit_installments"}>> >>
ReceiptLinks == << Adds({"pos_receipt_links"}) >>
TaxAndMarkup == << Adds({"pos_sales.taxModel"}) >>
TwoStepSale == << <<{"customers", "pos_terminals"},
                    {"pos_presale_counters", "pos_presale_tickets",
                     "pos_presale_ticket_items", "pos_presale_ticket_events"}>> >>
BankPayments == << <<{"pos_policies", "pos_payments", "pos_credit_payments"},
                     {"pos_banks"}>> >>

\* The unique index on PedidosYa order numbers is dropped and made again, with the
\* labels of voided sales in its condition.
SalesChannels == << Adds({"businesses.pedidosYa"}),
                    <<{"pos_banks"}, {"pos_pedidosya_settlements"}>>,
                    Uses({"pos_pedidosya_settlements"}),
                    <<{VoidLabels}, {"pedidosya_order_idx"}>> >>

\* The block of line 4044 opens with DO $ instead of DO $$: the server refuses it,
\* whatever the database holds, and the index after it is not reached.
Refused == "a statement the server parses"
CashCloseAuth == << <<{"pos_policies"}, {"cash_close_columns"}>>,
                    <<{Refused}, {"discrepancyAuthorizedById_fkey"}>>,
                    Adds({"discrepancyAuthorizedById_idx"}) >>

DeviceCashRegister == << Adds({"pos_cash_registers.deviceId"}),
                        Adds({"business_device_open_idx"}) >>
MultiBranch == << Adds({"organizations"}),
                  <<{"organizations"}, {"businesses.organization_id"}>>,
                  Adds({"user_business_access"}) >>
CommercialAgreements == << Adds({"CommercialTypes"}),
                           <<{"CommercialTypes"}, {"business_commercial_agreements"}>>,
                           <<{"business_commercial_agreements"},
                             {"commercial_installments", "commercial_payments",
                              "commercial_equipment"}>> >>
SaleItemCost == << Adds({"pos_sale_items.unit_cost"}) >>

\* Every schema step in the order it runs: the statements, each on its own, then the
\* ensure steps.
Steps == [n \in 1 .. Len(Ddl) |-> << Ddl[n] >>] \o
         << ProductType, WebBilling, WebAdmin, Kitchen, SplitOrder, MembershipBilling,
            Wholesale, Finances, PrintAudit, Batches, CreditInstallments, ReceiptLinks,
            TaxAndMarkup, TwoStepSale, BankPayments, SalesChannels, CashCloseAuth,
            DeviceCashRegister, MultiBranch, CommercialAgreements, SaleItemCost >>

Commits == UNION {{n} \X (1 .. Len(Steps[n])) : n \in 1 .. Len(Steps)}

PaymentsFix ==
    CHOOSE n \in 1 .. Len(Ddl) : Ddl[n] = Uses({"pos_payments", "pos_policies", VoidLabels})
TypeStep == Len(Ddl) + 1
BillingStep == Len(Ddl) + 6

\* Objects no statement but a first deployment makes.
Everything == UNION {Steps[c[1]][c[2]][2] : c \in Commits}

(***************************************************************************)
(* The backfills, in order.  A backfill may refuse a second row through a  *)
(* unique key (unique), write a row only where it is still empty           *)
(* (guarded), take two writes for a row and count it as done after the     *)
(* first or the second (writes, done), and lose the row or the rest of its *)
(* loop when a write fails (scope).                                        *)
(***************************************************************************)
Backfill(unique, guarded, writes, done, scope) ==
    [unique |-> unique, guarded |-> guarded, writes |-> writes, done |-> done,
     scope |-> scope]

FillProducts == Backfill(TRUE, FALSE, 2, 1, "loop")
FillSlugs == Backfill(FALSE, FALSE, 1, 1, "loop")
FillServices == Backfill(FALSE, TRUE, 2, 2, "loop")
FillProfessions == Backfill(FALSE, FALSE, 2, 2, "loop")
FillSectors == Backfill(FALSE, FALSE, 1, 1, "loop")
FillTax == Backfill(FALSE, FALSE, 1, 1, "loop")
FillPolicies == Backfill(TRUE, FALSE, 1, 1, "row")
FillPayments == Backfill(FALSE, FALSE, 1, 1, "row")
FillZones == Backfill(FALSE, TRUE, 2, 2, "loop")

Order == <<"products", "slugs", "services", "professions", "sectors", "tax", "policies",
           "payments", "zones">>

Fill(f) == CASE f = "products" -> FillProducts [] f = "slugs" -> FillSlugs
             [] f = "services" -> FillServices [] f = "professions" -> FillProfessions
             [] f = "sectors" -> FillSectors [] f = "tax" -> FillTax
             [] f = "policies" -> FillPolicies [] f = "payments" -> FillPayments
             [] f = "zones" -> FillZones

Fills == {Order[k] : k \in 1 .. Len(Order)}

\* What the schema steps write into rows: the type of a product, the end of a
\* membership and the amount of a payment in dollars.
Topics == Fills \cup {"type", "membership", "dollars"}

ASSUME SetupAssumption ==
    \A sc \in Setups :
        /\ sc.instances \subseteq Instances /\ sc.topics \subseteq Topics
        /\ sc.tables \subseteq Everything /\ {sc.synced, sc.crashes} \subseteq BOOLEAN
ASSUME BootAssumption == MaxBoots \in Nat \ {0}

None == "none"

VARIABLES
    setup,  \* one of Setups, fixed from the start
    pc, at,    \* where each instance stands: in the schema, in a backfill, serving
    ok,        \* whether the backfills of its boot have logged no warning
    boots,     \* boots it has completed
    seen, cur, \* rows its backfill has still to do, and the one it is in
    tables,    \* what the schema holds
    applied,   \* commits of the schema steps that took effect
    known, old,  \* rows there are, and rows there were when an instance booted
    stage,     \* writes made for each row of each topic
    by         \* who set the value of the row last

bootVars == <<setup, pc, at, ok, boots, seen, cur, tables, applied, known, old,
          stage, by>>

\* A commit has a number: ten times its step, plus its place in it.
Position(c) == 10 * c[1] + c[2]
Positions == {Position(c) : c \in Commits}
StepAt(p) == Steps[p \div 10][p % 10]
NeverMade == {p \in Positions : Steps[p \div 10] = CashCloseAuth /\ p % 10 > 1}
DataSteps == {10 * TypeStep + 1, 10 * BillingStep + 1}

Lowest(S) == CHOOSE p \in S : \A q \in S : p <= q

\* The next commit that still has something to do; one already made is passed over,
\* as its IF NOT EXISTS does, except the correction of payments, which runs each time.
After(p, made) ==
    LET later == {q \in Positions : q > p /\ (q \notin made \/ q = 10 * PaymentsFix + 1)}
    IN  IF later = {} THEN 0 ELSE Lowest(later)

BootInit ==
    /\ setup \in Setups
    /\ pc = [i \in Instances |-> "down"] /\ at = [i \in Instances |-> 0]
    /\ ok = [i \in Instances |-> TRUE] /\ boots = [i \in Instances |-> 0]
    /\ seen = [i \in Instances |-> {}] /\ cur = [i \in Instances |-> None]
    /\ applied = IF setup.synced THEN Positions \ (NeverMade \cup DataSteps) ELSE {}
    /\ tables = setup.tables \cup UNION {StepAt(p)[2] : p \in applied}
    /\ known \in SUBSET Rows /\ known # {} /\ old = [i \in Instances |-> {}]
    /\ stage = [t \in Topics |-> [r \in Rows |-> 0]]
    /\ by = [t \in Topics |-> [r \in Rows |-> None]]

\* onModuleInit: connect, then ensureSchemaSynced from its first statement.
Boot(i) ==
    /\ i \in setup.instances /\ pc[i] = "down" /\ boots[i] < MaxBoots
    /\ pc' = [pc EXCEPT ![i] = "schema"]
    /\ at' = [at EXCEPT ![i] = After(0, applied)]
    /\ ok' = [ok EXCEPT ![i] = TRUE]
    /\ old' = [old EXCEPT ![i] = known]
    /\ UNCHANGED <<setup, boots, seen, cur, tables, applied, known, stage, by>>

\* Rows a schema step rewrites: the type and the membership when it adds their
\* column or mark, the amount of a payment in dollars each time.
Rewrites(p) ==
    CASE p = 10 * TypeStep + 1 -> IF "pos_products.type" \in tables THEN {} ELSE {"type"}
      [] p = 10 * BillingStep + 1 ->
            IF "175e_recompute_billing_anchors" \in tables THEN {} ELSE {"membership"}
      [] p = 10 * PaymentsFix + 1 -> {"dollars"}
      [] OTHER -> {}

Rewritten(p, t, r) == t \in Rewrites(p) /\ r \in known /\ (t = "dollars" => stage[t][r] = 1)

\* A statement that succeeds.
CommitStep(i) ==
    LET p == at[i] IN
    /\ pc[i] = "schema" /\ p # 0 /\ StepAt(p)[1] \subseteq tables
    /\ tables' = tables \cup StepAt(p)[2]
    /\ applied' = applied \cup {p}
    /\ at' = [at EXCEPT ![i] = After(p, applied')]
    /\ stage' = [t \in Topics |-> [r \in Rows |->
                 IF Rewritten(p, t, r) THEN 1 ELSE stage[t][r]]]
    /\ by' = [t \in Topics |-> [r \in Rows |->
                 IF Rewritten(p, t, r) THEN "boot" ELSE by[t][r]]]
    /\ UNCHANGED <<setup, pc, ok, boots, seen, cur, known, old>>

NothingAfterFailure(p) == 0

\* What follows a failed statement: the step's catch logs it, and the next step runs.
AfterFailure(p) == After(10 * (p \div 10) + 9, applied)

RefusedStep(i) ==
    LET p == at[i] IN
    /\ pc[i] = "schema" /\ p # 0 /\ ~(StepAt(p)[1] \subseteq tables)
    /\ at' = [at EXCEPT ![i] = AfterFailure(p)]
    /\ UNCHANGED <<setup, pc, ok, boots, seen, cur, tables, applied, known, old, stage,
                   by>>

\* The schema is done: the backfills begin.
StartFills(i) ==
    /\ pc[i] = "schema" /\ at[i] = 0
    /\ pc' = [pc EXCEPT ![i] = "fill"] /\ at' = [at EXCEPT ![i] = 1]
    /\ UNCHANGED <<setup, ok, boots, seen, cur, tables, applied, known, old, stage, by>>

UnfilledFirst(f) == {r \in known : stage[f][r] < 1}

\* Rows a backfill's query finds: those it does not count as done.
Unfilled(f) == {r \in known : stage[f][r] < Fill(f).done}

ReadFill(i) ==
    /\ pc[i] = "fill"
    /\ pc' = [pc EXCEPT ![i] = "rows"]
    /\ seen' = [seen EXCEPT ![i] = IF Order[at[i]] \in setup.topics
                                   THEN Unfilled(Order[at[i]]) ELSE {}]
    /\ UNCHANGED <<setup, at, ok, boots, cur, tables, applied, known, old, stage, by>>

Bigger(a, b) == IF a >= b THEN a ELSE b

\* A payment has no key but its own: writing it again makes a second one.
Written(f, s, w) == IF f = "payments" THEN s + 1 ELSE Bigger(s, w)

Clash(f, r, w) == Fill(f).unique /\ w = 1 /\ stage[f][r] >= 1

\* One write for a row: the record it needs, or the value the backfill gives it.
WriteRow(i) ==
    LET f == Order[at[i]]
        w == IF cur[i] = None THEN 1 ELSE 2
    IN  /\ pc[i] = "rows"
        /\ \E r \in (IF cur[i] = None THEN seen[i] ELSE {cur[i]}) :
              /\ ~Clash(f, r, w)
              /\ stage' = [stage EXCEPT ![f][r] = Written(f, @, w)]
              /\ by' = IF w = Fill(f).done /\ ~(Fill(f).guarded /\ stage[f][r] >= w)
                       THEN [by EXCEPT ![f][r] = "boot"] ELSE by
              /\ IF w = Fill(f).writes
                 THEN /\ cur' = [cur EXCEPT ![i] = None]
                      /\ seen' = [seen EXCEPT ![i] = @ \ {r}]
                 ELSE cur' = [cur EXCEPT ![i] = r] /\ UNCHANGED seen
        /\ UNCHANGED <<setup, pc, at, ok, boots, tables, applied, known, old>>

\* The row is there already: the unique key refuses it, and the catch around the row
\* or around the loop goes on.
LoseRow(i) ==
    LET f == Order[at[i]] IN
    /\ pc[i] = "rows" /\ cur[i] = None
    /\ \E r \in seen[i] :
          /\ Clash(f, r, 1)
          /\ seen' = [seen EXCEPT ![i] = IF Fill(f).scope = "row" THEN @ \ {r} ELSE {}]
    /\ ok' = [ok EXCEPT ![i] = FALSE]
    /\ UNCHANGED <<setup, pc, at, boots, cur, tables, applied, known, old, stage, by>>

\* The next backfill, or the instance begins to serve.
EndFill(i) ==
    /\ pc[i] = "rows" /\ seen[i] = {}
    /\ IF at[i] < Len(Order)
       THEN /\ at' = [at EXCEPT ![i] = @ + 1]
            /\ pc' = [pc EXCEPT ![i] = "fill"] /\ UNCHANGED boots
       ELSE /\ pc' = [pc EXCEPT ![i] = "up"] /\ at' = [at EXCEPT ![i] = 0]
            /\ boots' = [boots EXCEPT ![i] = @ + 1]
    /\ UNCHANGED <<setup, ok, seen, cur, tables, applied, known, old, stage, by>>

\* A new version is deployed, or the process dies; what it committed stays.
Stop(i) ==
    /\ pc[i] = "up" \/ (setup.crashes /\ pc[i] \in {"schema", "fill", "rows"})
    /\ pc' = [pc EXCEPT ![i] = "down"] /\ at' = [at EXCEPT ![i] = 0]
    /\ seen' = [seen EXCEPT ![i] = {}] /\ cur' = [cur EXCEPT ![i] = None]
    /\ UNCHANGED <<setup, ok, boots, tables, applied, known, old, stage, by>>

\* Writes a request leaves for a row: the settings store what they were sent and
\* nothing else, so the mark of the tax backfill stays empty.
ByHand(t) == CASE t = "tax" -> 0
               [] t \in Fills -> Fill(t).writes
               [] OTHER -> 1

\* A business is registered, a sale made, a specialist or a table added.  A new
\* business has its product rows, and no slug, policies, sector or tax mark.
AtBirth(t) == CASE t \in {"slugs", "policies", "sectors", "tax"} -> 0
                [] t \in Fills -> Fill(t).done
                [] OTHER -> IF t = "dollars" THEN 1 ELSE 0

Register(r) ==
    /\ r \notin known /\ \E i \in setup.instances : pc[i] = "up"
    /\ known' = known \cup {r}
    /\ stage' = [t \in Topics |-> [stage[t] EXCEPT ![r] = AtBirth(t)]]
    /\ UNCHANGED <<setup, pc, at, ok, boots, seen, cur, tables, applied, old, by>>

Settable == Topics \ {"payments", "services"}

\* A request served by an instance that is up sets the value of a row.
SetByHand(t, r) ==
    /\ t \in setup.topics \cap Settable /\ r \in known /\ by[t][r] # "user"
    /\ \E i \in setup.instances : pc[i] = "up"
    /\ t = "type" => "pos_products.type" \in tables
    /\ t = "membership" => "175e_recompute_billing_anchors" \in tables
    /\ stage' = [stage EXCEPT ![t][r] = Bigger(@, ByHand(t))]
    /\ by' = [by EXCEPT ![t][r] = "user"]
    /\ UNCHANGED <<setup, pc, at, ok, boots, seen, cur, tables, applied, known, old>>

BootNext ==
    \/ \E i \in Instances :
          \/ Boot(i) \/ CommitStep(i) \/ RefusedStep(i) \/ StartFills(i)
          \/ ReadFill(i) \/ WriteRow(i) \/ LoseRow(i) \/ EndFill(i) \/ Stop(i)
    \/ \E r \in Rows : Register(r) \/ \E t \in Topics : SetByHand(t, r)

BootSpec == BootInit /\ [][BootNext]_bootVars

-----------------------------------------------------------------------------
(***************************************************************************)
(* Correctness.                                                            *)
(***************************************************************************)

\* Two complete boots bring any database to the whole schema, wherever earlier boots
\* were cut: a statement that ran before what it uses succeeds the second time.  What
\* the refused block of ensureCashCloseAuthSchema would make is never there.
SchemaConverges ==
    \A i \in Instances : boots[i] >= 2 => applied = Positions \ NeverMade

\* An instance whose backfills logged no warning serves with every row filled that it
\* found when it booted, its second write included where the row counts as done after it;
\* and no backfill gives a sale a second payment.
BackfillComplete ==
    /\ \A i \in Instances : (pc[i] = "up" /\ ok[i]) =>
          \A f \in setup.topics \cap Fills, r \in old[i] : stage[f][r] >= Fill(f).done
    /\ \A r \in Rows : stage["payments"][r] <= 1

=============================================================================
