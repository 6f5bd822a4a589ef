SPECIFICATION Spec
CONSTANTS
    a = a  b = b  c = c  w = w  x = x  y = y  pack = pack  market = market
    Task = {a, b, c}
    Role = {w, x, y}
    NoLead = NoLead
    NoTask = NoTask
    RoleOf <- MCRoleOf
    Pack = {pack}
    Market = {market}
    Starts <- MCStarts
INVARIANT HiringNeverStops
CHECK_DEADLOCK FALSE
