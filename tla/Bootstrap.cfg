SPECIFICATION BootSpec
CONSTANTS
    Instances = {"a", "b"}
    Rows = {"r1", "r2"}
    Setups <- BootScenarios
    MaxBoots = 2
INVARIANTS SchemaConverges BackfillComplete
CHECK_DEADLOCK FALSE
