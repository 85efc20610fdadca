SPECIFICATION Spec
CONSTANTS
    Specialists = {1, 2}
    Times = {0, 1, 2}
    Duration = 2
    HoldIds = {1, 2}
    ApptIds = {1, 2}
    Customers = {c1, c2}
    Requests = {r1, r2}
    None = None
    c1 = c1  c2 = c2  r1 = r1  r2 = r2
    Threshold = 2
    Scenarios <- AloneAndRaces
SYMMETRY Symmetry
INVARIANTS OneAppointmentPerHold NoDoubleBooking OfferedCanBeHeld
CHECK_DEADLOCK FALSE
