SPECIFICATION Spec
CONSTANTS
    Task = {t1, t2}
    t1 = t1  t2 = t2  p1 = p1  p2 = p2  visitor = visitor
    Path = {p1, p2}
    Outside = visitor
    MaxEdits = 2
    MaxFaults = 2
    MaxOutside = 1
INVARIANTS AcceptedIsPromoted OnlyPromotedWork
PROPERTIES NoEditIsLost
CHECK_DEADLOCK FALSE
