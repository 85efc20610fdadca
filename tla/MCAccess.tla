------------------------------ MODULE MCAccess ------------------------------
EXTENDS Access

Part1(part, open, revive, demote) ==
    [part |-> part, open |-> open, revive |-> revive, demote |-> demote,
     users |-> IF part = "branches" THEN {"u1", "u2"} ELSE {"u1", "u2", "u3"},
     waiters |-> {"w1"}]

TwoWaiters(sc) == [sc EXCEPT !.users = {"u1", "u2"}, !.waiters = {"w1", "w2"}]

\* Two users of a home business each, and a third business to be granted.
MainBranch == [u \in Users |-> IF u = "u1" THEN "b1" ELSE "b2"]

AllScenarios ==
    {Part1("branches", 1, FALSE, FALSE)}
    \cup {Part1("people", open, revive, FALSE) : open \in {1, 2}, revive \in BOOLEAN}
    \cup {Part1("people", 1, TRUE, TRUE), TwoWaiters(Part1("people", 1, FALSE, FALSE))}
    \cup {Part1("devices", open, FALSE, FALSE) : open \in {1, 2}}
    \cup {Part1("devices", 2, TRUE, FALSE), Part1("trial", 1, FALSE, FALSE),
          Part1("invites", 2, FALSE, FALSE)}

=============================================================================
