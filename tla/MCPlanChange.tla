---------------------------- MODULE MCPlanChange ----------------------------
(***************************************************************************)
(* Small instances of PlanChange.                                          *)
(***************************************************************************)
EXTENDS PlanChange, TLC

CONSTANTS a, b, c, n

Entry(after, work, lead) == [after |-> after, work |-> work, lead |-> lead]

\* c builds on a; b is beside them.
First == a :> Entry({}, 1, "L") @@ b :> Entry({}, 1, "none") @@ c :> Entry({a}, 1, "L")

\* n comes before a, and b gets its lead; c is moved behind b, which gets another
\* contract; b is gone; a and n wait for each other.
Prerequisite == n :> Entry({}, 1, "L") @@ a :> Entry({n}, 1, "L")
                @@ b :> Entry({}, 1, "L") @@ c :> First[c]
Moves        == [First EXCEPT ![c].after = {b}, ![b].work = 2]
Without      == a :> First[a] @@ c :> First[c]
Circle       == n :> Entry({a}, 1, "L") @@ a :> Entry({n}, 1, "L")
                @@ b :> First[b] @@ c :> First[c]

AllTasks == {a, b, c, n}
Pick     == {Prerequisite, Moves, Without, Circle}
=============================================================================
