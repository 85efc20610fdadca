SPECIFICATION SalonSpec
CONSTANTS
    ItemIds = {1, 2, 3}
    AcctIds = {1, 2, 3, 4}
    RoundIds = {1, 2, 3}
    Stations = {s1, s2}
    Nothing = Nothing
    Price = 5
    Unit = 10
    MaxDishes = 3
    Discounts = {1, 4}
    Handlers = {r1, r2}
    t1 = t1  r1 = r1  r2 = r2  s1 = s1  s2 = s2
    TableIds = {1, 2, 3}
    OrderIds = {1, 2, 3}
    Names <- Spellings
    Fold <- NoCase
    Zones = {z1, z2}
    Cells = {c1, c2}
    z1 = z1  z2 = z2  c1 = c1  c2 = c2
    Techs = {1, 2}
    Settings <- AllScenarios
SYMMETRY Symmetry
INVARIANTS ChargedInFull ShownAddsUp KitchenMatches OrdersShown
PROPERTY FairReception
CHECK_DEADLOCK FALSE
