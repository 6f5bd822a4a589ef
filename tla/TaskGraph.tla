----------------------------- MODULE TaskGraph -----------------------------
(***************************************************************************)
(* The task graph of a plan and the lifecycle of one task in it            *)
(* (task_state.py).  Everything here is a pure operator over a map from    *)
(* tasks to lifecycle states; the modules that have state EXTEND this one. *)
(***************************************************************************)
EXTENDS Naturals, FiniteSets

CONSTANTS
    Task,   \* the tasks of the plan
    Deps    \* Deps[t]: the tasks t depends on

\* plan_admission.py refuses a plan with a dependency cycle; a finite graph has
\* no cycle exactly when every non-empty set of tasks has a member that depends
\* on nothing inside the set.
ASSUME TaskGraphAssumption ==
    /\ IsFiniteSet(Task)
    /\ Deps \in [Task -> SUBSET Task]
    /\ \A S \in SUBSET Task : S # {} => \E t \in S : Deps[t] \cap S = {}

TaskState == {"WAITING", "READY", "RUNNING", "IMPLEMENTED", "VERIFYING",
              "REVISION_REQUIRED", "REVISING", "RETRY_WAIT", "VERIFIED",
              "BLOCKED", "FAILED", "CANCELLED"}

ActiveStates == {"RUNNING", "VERIFYING", "REVISING"}

\* States that claim nothing about the task's dependencies.
UngatedStates == {"WAITING", "BLOCKED", "CANCELLED"}

\* TASK_TRANSITIONS: the states one edge away.
Successors(state) ==
    CASE state = "WAITING"  -> {"READY", "BLOCKED", "CANCELLED"}
      [] state = "READY"    -> {"RUNNING", "BLOCKED", "CANCELLED"}
      [] state \in {"RUNNING", "REVISING"} ->
            {"IMPLEMENTED", "RETRY_WAIT", "BLOCKED", "FAILED", "CANCELLED"}
      [] state = "IMPLEMENTED" -> {"VERIFYING", "BLOCKED", "CANCELLED"}
      [] state = "VERIFYING" ->
            {"VERIFIED", "REVISION_REQUIRED", "IMPLEMENTED", "RETRY_WAIT",
             "BLOCKED", "FAILED", "CANCELLED"}
      [] state = "REVISION_REQUIRED" -> {"REVISING", "BLOCKED", "CANCELLED"}
      [] state = "RETRY_WAIT" -> {"READY", "BLOCKED", "CANCELLED"}
      [] state = "BLOCKED"  -> {"WAITING", "READY", "IMPLEMENTED", "CANCELLED"}
      [] state = "FAILED"   -> {"RETRY_WAIT", "CANCELLED"}
      [] OTHER -> {}

InitialTaskStates ==
    [t \in Task |-> IF Deps[t] = {} THEN "READY" ELSE "WAITING"]

\* (mutated: finished work counts before it is judged)
UnmetDependencies_Implemented(states, t) ==
    {d \in Deps[t] : states[d] \notin {"VERIFIED", "IMPLEMENTED"}}

UnmetDependencies(states, t) == {d \in Deps[t] : states[d] # "VERIFIED"}

DependenciesEligible(states, t) == UnmetDependencies(states, t) = {}

\* validate_transition: an edge of the table, and the gate on READY and RUNNING.
LegalTransition(states, t, target) ==
    /\ target \in Successors(states[t])
    /\ target \in {"READY", "RUNNING"} => DependenciesEligible(states, t)

\* validate_task_states: what every writer of the state map must leave true.
ValidTaskStates(states) ==
    \A t \in Task :
        states[t] \notin UngatedStates => DependenciesEligible(states, t)

\* transition_task: the changed map is validated as a whole before it is kept.
TransitionResults(states, t, target) ==
    LET updated == [states EXCEPT ![t] = target]
    IN  IF LegalTransition(states, t, target) /\ ValidTaskStates(updated)
        THEN {updated} ELSE {}

\* (mutated: whatever waits is ready)
ReadyTaskIds_Ungated(states) == {t \in Task : states[t] \in {"WAITING", "READY"}}

\* compute_ready_task_ids and the WAITING -> READY write of reconcile_ready_tasks.
ReadyTaskIds(states) ==
    {t \in Task : states[t] \in {"WAITING", "READY"} /\ DependenciesEligible(states, t)}

ReconcileReady(states) ==
    [t \in Task |-> IF t \in ReadyTaskIds(states) THEN "READY" ELSE states[t]]
=============================================================================
