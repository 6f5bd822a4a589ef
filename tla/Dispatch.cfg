CONSTANTS
    None = None
    MaxSessions <- TwoReservations
    MaxPids <- TwoProcesses
    MaxThreads = 2
    MaxCrashes = 1
    MaxSurprises = 1
SPECIFICATION DispatchFairSpec
CHECK_DEADLOCK FALSE
INVARIANTS OneTurnAtATime WorkedOnce
PROPERTIES EverySessionEnds
