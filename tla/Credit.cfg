SPECIFICATION CreditSpec
CONSTANTS
    a1 = a1  a2 = a2  c1 = c1  c2 = c2  r1 = r1  r2 = r2
    NoRow = NoRow
    Accounts = {a1, a2}
    Cuts = {c1, c2}
    Transactions = {r1, r2}
    Settings <- SerialAndRaces
SYMMETRY Symmetry
INVARIANTS CreditLedger InstallmentsMatch CutLedger
CHECK_DEADLOCK FALSE
