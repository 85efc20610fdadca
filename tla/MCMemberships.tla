--------------------------- MODULE MCMemberships ---------------------------
EXTENDS Memberships

Run(first, products, days, members) ==
    [first |-> first, products |-> products, days |-> days, members |-> members, pays |-> 0,
     admins |-> {"a"}, edits |-> FALSE, agreement |-> FALSE, apart |-> TRUE, crash |-> FALSE]

\* The second month has no fourth day.
Calendar == <<4, 3, 4, 4>>

Body(type, total, down, count, free) ==
    [type |-> type, total |-> total, down |-> down, count |-> count, free |-> free]

Full == {Body("CREDITO", 4, 1, 2, 1), Body("CREDITO", 4, 1, 2, 0), Body("CONTADO", 4, 0, 0, 1)}

P == {"POS"}
PC == {"POS", "CITAS"}

\* Two products; edited end dates; crashes of the cron, for a business without products
\* at first; an agreement with a membership; an agreement and its payments.
AllScenarios ==
    {Run(P, PC, 15, 3),
     [Run(P, P, 11, 2) EXCEPT !.edits = TRUE],
     [Run({}, P, 15, 3) EXCEPT !.crash = TRUE],
     [Run({}, P, 10, 1) EXCEPT !.agreement = TRUE, !.pays = 1],
     [Run({}, {}, 8, 0) EXCEPT !.agreement = TRUE, !.pays = 3]}

=============================================================================
