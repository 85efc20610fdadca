SPECIFICATION OfflineSpec
CONSTANTS
    t1 = t1  t2 = t2  p1 = p1  p2 = p2  h1 = h1  h2 = h2
    m1 = m1  m2 = m2  s1 = s1  s2 = s2
    Tickets = {t1, t2}
    Products = {p1, p2}
    Cashiers = {u1, u2}
    None = None
    Requests = {h1, h2}
    Stock = 2
    Terminals = {m1, m2}
    OffSales = {s1, s2}
    Recipes <- Combo
    Bodies = {b1, b2}
    Baskets <- SomeBaskets
    Discounts <- SomeDiscounts
    Tax <- SomeTax
    MaxEdits = 4
    Scenarios <- AllScenarios
SYMMETRY Symmetry
INVARIANTS StockExplained NothingLost HandledOnce BillAddsUp CopyFollows
CHECK_DEADLOCK FALSE
