SPECIFICATION FairSpec
CONSTANTS
    a = a  b = b  c = c
    Task <- ChainTask
    Deps <- ChainDeps
    Conflicts <- NoConflict
    Rank <- ChainRank
    Limits = {1}
    Slots = 1
    OnSurface = {}
    JudgedOnSurface = {}
    Checked = {b}
    MaxRevisions = 1
    TopEffort = 1
    SecondLeadEvery = 99
    MaxReading = 1
    MaxSurprises = 1
INVARIANTS TypeOK DependencyGate OneProducer AcceptedWorkWasJudged
PROPERTIES RetiredForGood RunFinishes
CHECK_DEADLOCK FALSE
