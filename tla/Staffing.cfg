SPECIFICATION FairSpec
CONSTANTS
    a = a  b = b  c = c  w = w  x = x  y = y  pack = pack  market = market
    Task = {a, b, c}
    Role = {w, x, y}
    NoLead = NoLead
    NoTask = NoTask
    RoleOf <- MCRoleOf
    Pack = {pack}
    Market = {market}
    Starts <- MCStarts
INVARIANTS OneScreener PromptsFit KeepsItsLead NoDeadEnd
PROPERTIES HiringEnds
CHECK_DEADLOCK FALSE
