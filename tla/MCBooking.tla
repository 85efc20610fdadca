----------------------------- MODULE MCBooking -----------------------------
(* The scenarios of the small instances of Booking. *)
EXTENDS Booking, TLC

CONSTANTS c1, c2, r1, r2

Scenario(kinds, times, width) ==
    [kinds |-> kinds, times |-> times, width |-> width,
     auto |-> TRUE, lapse |-> TRUE, late |-> FALSE]

Slots == {"hold", "release", "confirm"}

\* One request at a time: appointments moved and cancelled; settled, while the
\* specialists come and go.  Two at a time: holds that name their specialist,
\* their release and confirmation.
AloneAndRaces ==
    {Scenario({"hold", "confirm", "reschedule", "reassign", "cancel"}, {0, 1, 2}, 1),
     [Scenario({"hold", "confirm", "decide", "noShow", "checkout", "staff"}, {0}, 1)
         EXCEPT !.auto = FALSE, !.lapse = FALSE],
     [Scenario(Slots \cup {"checkout"}, {0, 1, 2}, 2) EXCEPT !.auto = FALSE, !.lapse = FALSE]}

Symmetry == Permutations({c1, c2}) \cup Permutations({r1, r2})
=============================================================================
