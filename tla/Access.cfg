SPECIFICATION Spec
CONSTANTS
    Users = {"u1", "u2", "u3"}
    Waiters = {"w1", "w2"}
    Businesses = {"b1", "b2", "b3"}
    Orgs = {"o1", "o2"}
    Industries = {"food", "shop"}
    Devices = {"d1", "d2", "d3"}
    Pins = {"p1", "p2"}
    Home <- MainBranch
    UserLimit = 2
    Limit = 1
    TrialHours = 2
    TokenHours = 3
    Scenarios <- AllScenarios
    MaxHours = 6
INVARIANTS TrialBound RulesKept
PROPERTY OnlyByGrant
CHECK_DEADLOCK FALSE
