SPECIFICATION MCSpec
CONSTANTS
    Order <- MCOrder
    Needs <- MCNeeds
    Weight <- MCWeight
    Clash <- MCClash
    Gui <- MCGui
    GuiChecked <- MCGuiChecked
    AstraOnly = FALSE
    Serial = FALSE
    Workers = 2
    GuiSlots = 1
    Readings = {"none", "capped", "unlimited"}
    MaxRounds = 1
    Segment = {"x", "y"}
    Capital <- MCCapital
    MaxDepth = 3
    MaxParts = 2
INVARIANTS
    SelectedAcquire
    BundlesExclude
    FailClosed
PROPERTIES
    EveryTaskIsAccepted
CHECK_DEADLOCK FALSE
