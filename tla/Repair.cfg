CONSTANTS
    Run = {r1}
    Module = {"a", "b"}
    Patch <- TwoPatches
    Touches <- SharedModule
    Acceptance = {1, 2}
    Budget = 1
    Installation = TRUE
    MaxUsed = 3
    MaxTickets = 3
    MaxCrashes = 1
    MaxFaults = 1
SPECIFICATION FairSpec
INVARIANTS
    WholeSets
    InstalledStands
    BudgetRestsOnPatch
PROPERTY
    DrainEnds
CHECK_DEADLOCK FALSE
