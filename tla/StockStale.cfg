SPECIFICATION Spec
CONSTANTS
    Slots = {1, 2, 3}
    Numbers = {1, 2}
    Adjusted = 3
    Initial = 4
    Purchases = {1, 2}
    Sales = {1, 2}
    Payments = {1, 2, 3}
    Shifts = {1, 2}
    Expiries = {1, 2}
    Days = {1, 2}
    MaxUnits = 3
    UnitCost = 2
    AllowNegative = FALSE
    p1 = p1  p2 = p2
    Procs = {p1, p2}
    Scenarios <- Stale
SYMMETRY Symmetry
INVARIANT StockIsLots
CHECK_DEADLOCK FALSE
