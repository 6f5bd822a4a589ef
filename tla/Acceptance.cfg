SPECIFICATION Spec
CONSTANTS
    a = a  b = b
    dispatcher = dispatcher  hook = hook
    Task = {a}
    Deliverer = {dispatcher, hook}
    MaxRejections = 1
    MaxTurns = 4
    MaxRecords = 3
INVARIANTS AcceptanceIsOnRecord
PROPERTIES HistoryStands RefusalsAreFair
CHECK_DEADLOCK FALSE
