SPECIFICATION Spec
CONSTANTS
    p = p  q = q
    Caller = {p, q}
    Evidence <- ToolAndPage
    MaxRecords = 2
    MaxConflicts = 2
INVARIANTS ExternalNeverBinds DisputesSettle
CHECK_DEADLOCK FALSE
