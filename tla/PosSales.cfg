SPECIFICATION Spec
CONSTANTS
    r1 = r1  r2 = r2  s1 = s1  s2 = s2  h1 = h1  h2 = h2  t1 = t1
    None = None
    Requests <- MCRequests
    Sales <- MCSales
    Shifts <- MCShifts
    Tokens <- MCTokens
    MaxQty = 2
    UnitPrice = 2
    Discounts <- MCDiscounts
    CashAmounts <- MCCash
    CardAmounts <- MCCard
    Currencies = {"NIO"}
    ReturnLines = {1}
    InitialStock = 3
    AllowNegative = FALSE
SYMMETRY Symmetry
INVARIANTS RefundsWithinPaid ReversedOnce StockLedger CashLedger
PROPERTY ImplementsLedger
CHECK_DEADLOCK FALSE
