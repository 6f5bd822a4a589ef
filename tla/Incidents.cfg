CONSTANTS
    a = a
    b = b
    Plan <- OneTask
    StopKinds = {"ladder"}
    Unpromptable = {"orphan"}
    MaxTickets = 3
    MaxCrashes = 1
SPECIFICATION FairSpec
INVARIANTS RepairsAreBounded
PROPERTIES AnswersStand BlockedIsAnswerable
