----------------------------- MODULE PlanLedger -----------------------------
(***************************************************************************)
(* What a plan that changes under way promises, whatever rounds, crashes   *)
(* and recoveries it takes: a ledger of versions.  One amendment makes the *)
(* next version, takes no task away, and rewrites nothing that was         *)
(* accepted; what was accepted stays accepted.                             *)
(***************************************************************************)
EXTENDS Naturals

CONSTANT Task

VARIABLES
    version,    \* of the plan
    graph,      \* the tasks of the plan, and the entry of each
    accepted    \* the tasks accepted so far

vars == <<version, graph, accepted>>

Init == version = 1 /\ accepted = {}

Accept ==
    /\ \E t \in DOMAIN graph \ accepted : accepted' = accepted \cup {t}
    /\ UNCHANGED <<version, graph>>

Amend ==
    /\ version' = version + 1
    /\ DOMAIN graph \subseteq DOMAIN graph'
    /\ \A t \in accepted : graph'[t] = graph[t]
    /\ UNCHANGED accepted

Next == Accept \/ Amend

Spec == Init /\ [][Next]_vars
=============================================================================
