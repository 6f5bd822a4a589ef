----------------------------- MODULE MCFrontier -----------------------------
(***************************************************************************)
(* Small instances of Frontier.                                            *)
(***************************************************************************)
EXTENDS Frontier, TLC

CONSTANTS a, b, c

\* b builds on a.
ChainTask  == {a, b}
ChainDeps  == a :> {} @@ b :> {a}
ChainRank  == a :> 1 @@ b :> 2
NoConflict == [t \in Task |-> {}]

\* a and b want the same file; c, and the verifier of a, work on the screen.
TrioTask     == {a, b, c}
TrioDeps     == a :> {} @@ b :> {} @@ c :> {b}
TrioRank     == a :> 1 @@ b :> 2 @@ c :> 3
TrioConflict == a :> {b} @@ b :> {a} @@ c :> {}
=============================================================================
