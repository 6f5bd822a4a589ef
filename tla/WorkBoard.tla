----------------------------- MODULE WorkBoard ------------------------------
(***************************************************************************)
(* What the Desktop frontier promises, with nothing of how: a board of     *)
(* tasks, at most one worker per task, workers that produce and workers    *)
(* that judge, and a set of accepted tasks that only grows.                *)
(***************************************************************************)
EXTENDS FiniteSets, Naturals

CONSTANTS
    Task, Deps, Conflicts,
    MaxWorkers      \* the most workers there ever are

VARIABLES
    accepted,   \* tasks whose work was accepted
    attempted,  \* tasks some worker has produced for
    worker      \* worker[t]: "none", "producer" or "judge"

boardVars == <<accepted, attempted, worker>>

Working(w) == {t \in Task : w[t] # "none"}

TypeInvariant ==
    /\ accepted \subseteq Task /\ attempted \subseteq Task
    /\ worker \in [Task -> {"none", "producer", "judge"}]

Init ==
    /\ accepted = {} /\ attempted = {}
    /\ worker = [t \in Task |-> "none"]

\* What a worker may be put on: work whose dependencies are accepted, for a judge
\* only work that was produced.
MayStart(t, w) ==
    /\ t \notin accepted'
    /\ Deps[t] \subseteq accepted'
    /\ w = "judge" => t \in attempted'

\* One step takes workers off, accepts at most one task that was being judged, and
\* puts workers on.
Step(off, won, on) ==
    /\ accepted' = accepted \cup won
    /\ attempted' = attempted \cup {t \in off : worker[t] = "producer"}
    /\ \A t \in Task :
          IF t \in on THEN worker'[t] \in {"producer", "judge"} /\ MayStart(t, worker'[t])
          ELSE worker'[t] = IF t \in off THEN "none" ELSE worker[t]
    /\ worker' \in [Task -> {"none", "producer", "judge"}]
    /\ \A t \in on : Conflicts[t] \cap Working(worker') = {}
    /\ on # {} => Cardinality(Working(worker')) <= MaxWorkers

Next ==
    \E off \in SUBSET Working(worker) :
        \E won \in SUBSET {t \in off : worker[t] = "judge"} :
            \E on \in SUBSET ((Task \ Working(worker)) \cup off) :
                Cardinality(won) <= 1 /\ Step(off, won, on)

Spec == Init /\ [][Next]_boardVars

\* No two workers are on conflicting work.
NoConflict == \A t \in Working(worker) : Conflicts[t] \cap Working(worker) = {}

\* Whoever works, works on accepted dependencies, and never on accepted work.
OnAcceptedGround ==
    /\ \A t \in Working(worker) : Deps[t] \subseteq accepted /\ t \notin accepted
    /\ accepted \subseteq attempted
=============================================================================
