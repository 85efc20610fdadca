SPECIFICATION Spec
CONSTANTS
    MaxShifts = 2
    Expenses = {e1, e2}
    Cashiers = {u1, u2}
    Devices = {d1}
    None = None
    Requests = {h1, h2}
    Scenarios <- DayAndRaces
    u1 = u1  u2 = u2  h1 = h1  h2 = h2  e1 = e1  e2 = e2
    Openings = {1}
    Counts = {0, 2}
    Amounts <- InAndOut
    Tolerance = 1
    MaxRecounts = 1
    MaxCash = 2
SYMMETRY Symmetry
INVARIANTS OneShiftPerDevice ExpensesInDrawer
PROPERTY ClosedStands
CHECK_DEADLOCK FALSE
