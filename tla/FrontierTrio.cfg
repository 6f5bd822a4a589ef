SPECIFICATION Spec
CONSTANTS
    a = a  b = b  c = c
    Task <- TrioTask
    Deps <- TrioDeps
    Conflicts <- TrioConflict
    Rank <- TrioRank
    Limits = {2}
    Slots = 1
    OnSurface = {c}
    JudgedOnSurface = {a}
    Checked = {}
    MaxRevisions = 1
    TopEffort = 0
    SecondLeadEvery = 5
    MaxReading = 1
    MaxSurprises = 1
INVARIANTS Exclusion
PROPERTIES BoardSpec
CHECK_DEADLOCK FALSE
