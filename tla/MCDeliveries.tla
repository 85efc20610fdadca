---------------------------- MODULE MCDeliveries ----------------------------
(* The scenarios of the small instances of Deliveries. *)
EXTENDS Deliveries

CONSTANTS o1, o2

FlowTargets == {"EN_CAMINO_AL_NEGOCIO", "EN_EL_NEGOCIO", "EN_CAMINO",
                "VERIFICANDO_ENTREGA", "ENTREGADO", "INCIDENCIA"}

Scenario(kinds, width, orders) == [kinds |-> kinds, width |-> width, orders |-> orders,
                                   targets |-> FlowTargets, crash |-> TRUE]

\* Offers that riders answer, and the way to the customer; orders that riders
\* accept and take and managers cancel; two orders that compete for riders;
\* the timer and the cron in flight together; proposals for two orders; the
\* geofence beside riders and managers who change the status themselves, to any
\* status, so that cancelled and reported orders are opened again.
OneAtATime ==
    {Scenario({"dispatch", "timeout", "accept", "reject", "status"}, 1, {o1}),
     Scenario({"dispatch", "timeout", "accept", "take", "cancel"}, 1, {o1}),
     Scenario({"dispatch", "timeout", "accept", "take"}, 1, {o1, o2}),
     Scenario({"dispatch", "timeout"}, 2, {o1}),
     Scenario({"quote", "haggle", "acceptQuote", "cancelQuote"}, 1, {o1, o2}),
     [Scenario({"take", "status", "cancel", "geofence"}, 1, {o1})
        EXCEPT !.targets = OrderStatus, !.crash = FALSE]}
=============================================================================
