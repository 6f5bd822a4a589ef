----------------------------- MODULE MCStaffing -----------------------------
EXTENDS Staffing

CONSTANTS a, b, c, w, x, y, pack, market

MCRoleOf == [t \in Task |-> w]

\* A plan as admission leaves it, hired for; and plans from before R30, some of their
\* work accepted, that are not (a lead y of a's is x by another name).
MCStarts ==
    {[plan |-> [t \in Task |-> x], settled |-> {c}, screening |-> TRUE, versions |-> 2]}
    \cup {[plan |-> p, settled |-> d, screening |-> FALSE, versions |-> 3] :
             p \in {q \in Plan : q[a] # y}, d \in {{}, {a}, {a, b}}}
=============================================================================
