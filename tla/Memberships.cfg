SPECIFICATION MembershipSpec
CONSTANTS
    Products = {"POS", "CITAS"}
    Admins = {"a", "b"}
    MonthDays <- Calendar
    Grace = 1
    FreeMonths = 1
    Terms <- Full
    Amounts = {1, 3}
    Settings <- AllScenarios
    MaxMonths = 2
INVARIANTS LapsedIsCut PeriodsInOrder SettledMeansClear
CHECK_DEADLOCK FALSE
