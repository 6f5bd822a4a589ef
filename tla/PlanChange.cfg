SPECIFICATION FairSpec
CONSTANTS
    a = a  b = b  c = c  n = n
    Task <- AllTasks
    FirstGraph <- First
    Replacements <- Pick
    Limit = 2
    Allowance = 1
    MaxChanges = 1
    MaxSurprises = 2
INVARIANTS OneVersion
PROPERTIES DoneWorkSurvives LedgerSpec ChangeEnds CommitFinishes
CHECK_DEADLOCK FALSE
