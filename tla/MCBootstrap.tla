---------------------------- MODULE MCBootstrap ----------------------------
EXTENDS Bootstrap

Run(who, topics, had, synced, crashes) ==
    [instances |-> who, topics |-> topics, tables |-> had, synced |-> synced,
     crashes |-> crashes]

\* Databases of earlier versions: without customers and credit, with one of them.
OldSchemas ==
    {{}, {"customers"}, {"CreditAccountStatus"}, {"customers", "CreditAccountStatus"}}

Schemas == {Run({"a"}, {}, had, FALSE, TRUE) : had \in OldSchemas}
Alone == {Run({"a"}, {"type", "membership", f}, {}, TRUE, TRUE) :
             f \in {"slugs", "services", "professions", "sectors", "payments", "zones", "tax"}}
Both == {Run({"a", "b"}, {t}, {}, TRUE, TRUE) : t \in {"type", "membership", "products",
                                                       "policies", "zones"}}
BootScenarios == Schemas \cup Alone \cup Both

=============================================================================
