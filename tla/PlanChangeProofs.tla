-------------------------- MODULE PlanChangeProofs --------------------------
(***************************************************************************)
(* Proofs about PlanChange, for every set of tasks, every first graph,     *)
(* every replacement a replanner may return, any number of changes and any *)
(* number of crashes.                                                      *)
(***************************************************************************)
EXTENDS PlanChange, FiniteSetTheorems, TLAPS

-----------------------------------------------------------------------------
(* The inductive invariant.                                                 *)

Changes == [status : OpenStatus \cup {"NONE", "APPLIED", "REJECTED"}, by : Task,
            proposal : Graphs \cup {NoGraph}, refused : Nat, revised : Nat, unreadable : Nat]

\* The states of a task; and, of the states under a graph, that what is past its gate
\* builds on accepted work.
LifeState == {"WAITING", "READY", "RUNNING", "IMPLEMENTED", "VERIFYING",
              "REVISION_REQUIRED", "REVISING", "RETRY_WAIT", "VERIFIED",
              "BLOCKED", "FAILED", "CANCELLED"}
Ungated == {"WAITING", "BLOCKED", "CANCELLED"}

Sure(g, states) ==
    \A t \in DOMAIN g : states[t] \notin Ungated => \A d \in g[t].after : states[d] = "VERIFIED"

States == UNION {[DOMAIN g -> LifeState] : g \in Graphs}

Runs == [version : 1..(MaxChanges + 1), task : States, sess : [Task -> SessionKind],
         begun : SUBSET Task, redone : SUBSET Task, change : Changes,
         asked : 0..MaxChanges, judged : Plans, wake : BOOLEAN, since : BOOLEAN,
         status : {"ARMED", "RUN", "PAUSED"}, held : SUBSET Task]

\* The state a task is in while it has a session of some kind.
Doing(kind) ==
    CASE kind = "producer" -> {"RUNNING", "REVISING"}
      [] kind = "verifier" -> {"VERIFYING"}
      [] OTHER -> {"RUNNING"}

Agrees(s, t) == s.sess[t] # "none" => t \in DOMAIN s.task /\ s.task[t] \in Doing(s.sess[t])

Stage(kind) == IF kind = "replanner" THEN "REPLANNER_RESERVED" ELSE "PLAN_VERIFYING"

\* A round of planning is alone, is the requester's, and finds the change at its stage.
Rounds(s) ==
    \A t \in Task : s.sess[t] \in Planning =>
        s.change.by = t /\ Active(s) = {t} /\ s.change.status = Stage(s.sess[t])

\* Every version but the first was asked for, and so will be that of the open change.
Counted(s) == s.version + (IF ChangeOpen(s) THEN 1 ELSE 0) <= s.asked + 1

Sound(s) ==
    /\ s \in Runs
    /\ s.begun \subseteq Active(s)
    /\ \A t \in Task : Agrees(s, t)
    /\ ChangeOpen(s) => s.change.by \in DOMAIN s.task
    /\ Rounds(s) /\ Counted(s)

\* What waits for a verdict is a graph that takes no task away.
Proposed(s, g) ==
    s.change.status \in {"PLAN_VERIFICATION_REQUIRED", "PLAN_VERIFYING"} =>
        s.change.proposal \in Replacements /\ DOMAIN g \subseteq DOMAIN s.change.proposal

Fit(s, p) ==
    /\ Sound(s) /\ p \in Plans
    /\ s.version = p.version /\ s.judged = p
    /\ s.task \in [DOMAIN p.graph -> LifeState] /\ Sure(p.graph, s.task)
    /\ s.held \subseteq DOMAIN s.task
    /\ Proposed(s, p.graph)

Accepted(s) == {t \in DOMAIN s.task : s.task[t] = "VERIFIED"}

WorkKept(s, r, exempt) ==
    \A t \in DOMAIN s.task \ exempt :
        s.task[t] \in Produced => t \in DOMAIN r.task /\ r.task[t] \in Produced

\* The two files are of one version; a redo record that is still there names it, and
\* until the state is saved again it is the state of the record.
Steady ==
    /\ Fit(run, plan)
    /\ redo # NoRedo =>
          /\ redo.toPlan = plan /\ Fit(redo.toRun, plan)
          /\ ~run.since => run.task = redo.toRun.task /\ run.sess = redo.toRun.sess

\* A commit was cut short before the state was replaced: the turn that made it is dead
\* and never retired, so nobody is at work, and nothing of the record is out of date
\* until the state is saved.
Behind ==
    /\ redo # NoRedo
    /\ Sound(run) /\ plan \in Plans /\ plan \in {redo.fromPlan, redo.toPlan}
    /\ run.version = redo.fromPlan.version
    /\ redo.toPlan \in Plans /\ Fit(redo.toRun, redo.toPlan)
    /\ alive = {}
    /\ DOMAIN run.task \cup run.held \subseteq DOMAIN redo.toRun.task
    /\ run.sess[run.change.by] = "plan_verifier" /\ run.change.by \in run.begun
    /\ ~run.since => /\ redo.toRun.begun = {}
                     /\ Accepted(redo.toRun) = Accepted(run)
                     /\ WorkKept(run, redo.toRun, {run.change.by})

IInv ==
    /\ pause \in BOOLEAN /\ surprises \in 0..MaxSurprises
    /\ alive \subseteq Active(run)
    /\ Steady \/ Behind

-----------------------------------------------------------------------------
(* The operators of the task graph.                                         *)

LEMMA Shape ==
    /\ Task # {}
    /\ \A g \in Graphs : /\ DOMAIN g \subseteq Task
                         /\ \A t \in DOMAIN g : g[t].after \subseteq DOMAIN g
BY PlanChangeAssumption DEF IsGraph, Graphs

LEMMA LifeStates == \A g : Over(g)!TaskState = LifeState
BY DEF Over!TaskState, LifeState

LEMMA SureIsValid ==
    ASSUME NEW g, NEW states
    PROVE  Over(g)!ValidTaskStates(states) <=> Sure(g, states)
BY DEF Over!ValidTaskStates, Over!DependenciesEligible, Over!UnmetDependencies,
       Over!UngatedStates, Sure, Ungated

\* A state whose move goes on is never the last one, and the move leaves the map valid.
LEMMA MoveMeans ==
    ASSUME NEW s \in Runs, NEW p \in Plans, NEW t \in DOMAIN s.task, NEW target,
           NEW r \in Moved(p, s, t, target)
    PROVE  /\ DOMAIN s.task = DOMAIN p.graph
           /\ r = [s EXCEPT !.task = [s.task EXCEPT ![t] = target]]
           /\ Sure(p.graph, [s.task EXCEPT ![t] = target])
           /\ target \in LifeState
           /\ s.task[t] # "VERIFIED"
           /\ target = "RUNNING" => s.task[t] = "READY"
           /\ target = "VERIFIED" => s.task[t] = "VERIFYING"
           /\ target = "READY" => s.task[t] \notin Produced
           /\ target = "IMPLEMENTED" => s.task[t] \in {"RUNNING", "REVISING", "VERIFYING", "BLOCKED"}
<1> DEFINE map == [s.task EXCEPT ![t] = target]
<1>1. DOMAIN s.task = DOMAIN p.graph
  BY DEF Moved
<1>2. PICK states \in Over(p.graph)!TransitionResults(s.task, t, target) :
        r = [s EXCEPT !.task = states]
  BY <1>1 DEF Moved
<1>3. /\ states = map /\ Over(p.graph)!LegalTransition(s.task, t, target)
      /\ Over(p.graph)!ValidTaskStates(map)
  BY <1>2 DEF Over!TransitionResults
<1>4. target \in Over(p.graph)!Successors(s.task[t])
  BY <1>3 DEF Over!LegalTransition
<1>5. s.task[t] \in LifeState
  BY DEF Runs, States
<1>6. /\ target \in LifeState
      /\ s.task[t] # "VERIFIED"
      /\ target = "RUNNING" => s.task[t] = "READY"
      /\ target = "VERIFIED" => s.task[t] = "VERIFYING"
      /\ target = "READY" => s.task[t] \notin Produced
      /\ target = "IMPLEMENTED" => s.task[t] \in {"RUNNING", "REVISING", "VERIFYING", "BLOCKED"}
  BY <1>4, <1>5 DEF Over!Successors, LifeState, Produced
<1> QED
  BY <1>1, <1>2, <1>3, <1>6, SureIsValid

\* What waits becomes ready when its gate opens; nothing else changes.
LEMMA ReadyMeans ==
    ASSUME NEW g \in Graphs, NEW states \in [DOMAIN g -> LifeState]
    PROVE  LET ready == Over(g)!ReconcileReady(states) IN
           /\ ready \in [DOMAIN g -> LifeState]
           /\ \A t \in DOMAIN g : ready[t] = states[t] \/ (states[t] = "WAITING" /\ ready[t] = "READY")
           /\ Sure(g, states) => Sure(g, ready)
<1> DEFINE ready == Over(g)!ReconcileReady(states)
           ids == Over(g)!ReadyTaskIds(states)
<1>1. ready = [t \in DOMAIN g |-> IF t \in ids THEN "READY" ELSE states[t]]
  BY DEF Over!ReconcileReady
<1>2. \A t \in ids : /\ t \in DOMAIN g /\ states[t] \in {"WAITING", "READY"}
                     /\ \A d \in g[t].after : states[d] = "VERIFIED"
  BY DEF Over!ReadyTaskIds, Over!DependenciesEligible, Over!UnmetDependencies
<1>3. ready \in [DOMAIN g -> LifeState]
  BY <1>1 DEF LifeState
<1>4. \A t \in DOMAIN g : ready[t] = states[t] \/ (states[t] = "WAITING" /\ ready[t] = "READY")
  BY <1>1, <1>2
<1>5. ASSUME Sure(g, states) PROVE Sure(g, ready)
  <2> SUFFICES ASSUME NEW t \in DOMAIN g, ready[t] \notin Ungated, NEW d \in g[t].after
               PROVE  ready[d] = "VERIFIED"
    BY DEF Sure
  <2>1. states[d] = "VERIFIED"
    BY <1>1, <1>2, <1>5 DEF Sure, Ungated
  <2>2. d \in DOMAIN g
    BY Shape
  <2> QED
    BY <2>1, <2>2, <1>4
<1> QED
  BY <1>3, <1>4, <1>5

-----------------------------------------------------------------------------
(* States that fit a plan.                                                  *)

LEMMA FitTyped ==
    ASSUME NEW s, NEW p, Fit(s, p)
    PROVE  /\ s \in Runs /\ p \in Plans /\ p.graph \in Graphs
           /\ DOMAIN s.task = DOMAIN p.graph /\ DOMAIN s.task \subseteq Task
           /\ \A t \in DOMAIN s.task : s.task[t] \in LifeState
           /\ s.held \subseteq DOMAIN s.task
BY Shape DEF Fit, Sound, Plans

\* What the pass reads and writes is what fits: the rest may change.
LEMMA SameCore ==
    ASSUME NEW s, NEW p, Fit(s, p), NEW r \in Runs,
           r.version = s.version, r.judged = s.judged, r.task = s.task, r.sess = s.sess,
           r.begun = s.begun, r.change = s.change, r.asked = s.asked,
           r.held \subseteq DOMAIN s.task
    PROVE  Fit(r, p) /\ Active(r) = Active(s)
<1>1. Active(r) = Active(s) /\ (ChangeOpen(r) <=> ChangeOpen(s))
  BY DEF Active, ChangeOpen
<1>2. Sound(r)
  BY <1>1 DEF Fit, Sound, Agrees, Rounds, Counted
<1> QED
  BY <1>1, <1>2 DEF Fit, Proposed

LEMMA SoundSameCore ==
    ASSUME NEW s, Sound(s), NEW r \in Runs,
           r.version = s.version, r.task = s.task, r.sess = s.sess,
           r.begun = s.begun, r.change = s.change, r.asked = s.asked
    PROVE  Sound(r) /\ Active(r) = Active(s)
<1>1. Active(r) = Active(s) /\ (ChangeOpen(r) <=> ChangeOpen(s))
  BY DEF Active, ChangeOpen
<1> QED
  BY <1>1 DEF Sound, Agrees, Rounds, Counted

\* Tasks without a session change their states.
LEMMA NewTasks ==
    ASSUME NEW s, NEW p, Fit(s, p), NEW map \in [DOMAIN p.graph -> LifeState],
           Sure(p.graph, map),
           \A t \in DOMAIN p.graph : s.sess[t] # "none" => map[t] = s.task[t]
    PROVE  LET r == [s EXCEPT !.task = map] IN
           Fit(r, p) /\ Active(r) = Active(s)
<1> DEFINE r == [s EXCEPT !.task = map]
<1>1. s \in Runs /\ p.graph \in Graphs /\ DOMAIN s.task = DOMAIN p.graph
  BY FitTyped
<1>2. map \in States
  BY <1>1 DEF States
<1>3. /\ r \in Runs /\ r.task = map
      /\ r.version = s.version /\ r.judged = s.judged /\ r.sess = s.sess
      /\ r.begun = s.begun /\ r.change = s.change /\ r.asked = s.asked /\ r.held = s.held
  BY <1>1, <1>2 DEF Runs
<1>4. DOMAIN map = DOMAIN p.graph
  OBVIOUS
<1> HIDE DEF r
<1>5. Active(r) = Active(s) /\ (ChangeOpen(r) <=> ChangeOpen(s))
  BY <1>3 DEF Active, ChangeOpen
<1>6. \A t \in Task : Agrees(r, t)
  BY <1>1, <1>3, <1>4 DEF Fit, Sound, Agrees
<1>7. Sound(r)
  BY <1>1, <1>3, <1>4, <1>5, <1>6 DEF Fit, Sound, Rounds, Counted
<1>8. Fit(r, p)
  BY <1>1, <1>3, <1>4, <1>7 DEF Fit, Proposed
<1> QED
  BY <1>5, <1>8 DEF r

\* The record of a change is edited, and tickets filed, while no round of it is on.
Rewritten(s, change, held) == [s EXCEPT !.change = change, !.held = held]

Usable(s, p, change) ==
    /\ change.status \in OpenStatus => ChangeOpen(s) /\ change.by = s.change.by
    /\ change.status \in {"PLAN_VERIFICATION_REQUIRED", "PLAN_VERIFYING"} =>
          change.proposal \in Replacements /\ DOMAIN p.graph \subseteq DOMAIN change.proposal

LEMMA NewChange ==
    ASSUME NEW s, NEW p, Fit(s, p), \A t \in Task : s.sess[t] \notin Planning,
           NEW change \in Changes, NEW held \in SUBSET DOMAIN s.task, Usable(s, p, change)
    PROVE  /\ Fit(Rewritten(s, change, held), p)
           /\ Active(Rewritten(s, change, held)) = Active(s)
           /\ Rewritten(s, change, held).version = s.version
           /\ Rewritten(s, change, held).task = s.task
<1> DEFINE r == Rewritten(s, change, held)
<1>1. s \in Runs /\ DOMAIN s.task \subseteq Task
  BY FitTyped
<1>2. /\ r \in Runs /\ r.change = change /\ r.held = held
      /\ r.version = s.version /\ r.judged = s.judged /\ r.sess = s.sess
      /\ r.begun = s.begun /\ r.task = s.task /\ r.asked = s.asked
  BY <1>1 DEF Runs, Rewritten
<1> HIDE DEF r
<1>3. Active(r) = Active(s) /\ (ChangeOpen(r) => ChangeOpen(s) /\ r.change.by = s.change.by)
  BY <1>2 DEF Active, ChangeOpen, Usable
<1>4. Counted(r)
  BY <1>1, <1>2, <1>3 DEF Fit, Sound, Counted, Runs
<1>5. Sound(r)
  BY <1>1, <1>2, <1>3, <1>4 DEF Fit, Sound, Rounds, Agrees
<1>6. Fit(r, p)
  BY <1>1, <1>2, <1>5 DEF Fit, Proposed, Usable
<1> QED
  BY <1>2, <1>3, <1>6 DEF r

-----------------------------------------------------------------------------
(* The reservation pass.                                                    *)

\* What a pass leaves as it is: the version, the turns under way, what was accepted and
\* what was done.
Passed(s, r) ==
    /\ r.version = s.version /\ r.begun = s.begun /\ r.asked = s.asked
    /\ DOMAIN r.task = DOMAIN s.task
    /\ Active(s) \subseteq Active(r)
    /\ Accepted(r) = Accepted(s)
    /\ WorkKept(s, r, {})

LEMMA PassedSame == \A s : Passed(s, s)
BY DEF Passed, WorkKept

LEMMA PassedOn ==
    ASSUME NEW s, NEW q, NEW r, Passed(s, q), Passed(q, r)
    PROVE  Passed(s, r)
BY DEF Passed, WorkKept

\* The states of tasks without a session change, none to or from acceptance.
LEMMA TasksMoved ==
    ASSUME NEW s, NEW p, Fit(s, p), NEW map \in [DOMAIN p.graph -> LifeState],
           \A t \in DOMAIN p.graph :
              \/ map[t] = s.task[t]
              \/ /\ s.sess[t] = "none"
                 /\ map[t] # "VERIFIED" /\ s.task[t] # "VERIFIED"
                 /\ s.task[t] \in Produced => map[t] \in Produced,
           Sure(p.graph, map)
    PROVE  LET r == [s EXCEPT !.task = map] IN
           Fit(r, p) /\ Active(r) = Active(s) /\ Passed(s, r)
<1> DEFINE r == [s EXCEPT !.task = map]
<1>1. Fit(r, p) /\ Active(r) = Active(s)
  BY NewTasks
<1>2. DOMAIN s.task = DOMAIN p.graph /\ s \in Runs
  BY FitTyped
<1>3. /\ r.task = map /\ r.version = s.version /\ r.begun = s.begun /\ r.asked = s.asked
  BY <1>2 DEF Runs
<1>4. DOMAIN map = DOMAIN s.task
  BY <1>2
<1> HIDE DEF r
<1>5. Accepted(r) = Accepted(s)
  BY <1>2, <1>3, <1>4 DEF Accepted
<1>6. WorkKept(s, r, {})
  BY <1>2, <1>3, <1>4 DEF WorkKept
<1>7. Passed(s, r)
  BY <1>1, <1>3, <1>4, <1>5, <1>6 DEF Passed
<1> QED
  BY <1>1, <1>7 DEF r

\* A move of one task that has no session.
LEMMA MoveFits ==
    ASSUME NEW s, NEW p, Fit(s, p), NEW t \in DOMAIN s.task, s.sess[t] = "none",
           NEW target \in {"READY", "RUNNING", "BLOCKED", "IMPLEMENTED"},
           target = "BLOCKED" => s.task[t] \notin Produced,
           NEW r \in Moved(p, s, t, target)
    PROVE  /\ Fit(r, p) /\ Active(r) = Active(s) /\ Passed(s, r)
           /\ r = [s EXCEPT !.task = [s.task EXCEPT ![t] = target]]
<1> DEFINE map == [s.task EXCEPT ![t] = target]
<1>1. s \in Runs /\ p \in Plans /\ DOMAIN s.task = DOMAIN p.graph
      /\ s.task \in [DOMAIN p.graph -> LifeState]
  BY FitTyped DEF Fit
<1>2. /\ r = [s EXCEPT !.task = map] /\ Sure(p.graph, map) /\ target \in LifeState
      /\ s.task[t] # "VERIFIED"
      /\ target = "READY" => s.task[t] \notin Produced
      /\ target = "RUNNING" => s.task[t] = "READY"
  BY <1>1, MoveMeans
<1>3. map \in [DOMAIN p.graph -> LifeState]
  BY <1>1, <1>2
<1>4. \A u \in DOMAIN p.graph : u # t => map[u] = s.task[u]
  BY <1>1
<1>5. map[t] = target
  BY <1>1
<1>6. s.task[t] \in Produced => target \in Produced
  BY <1>2 DEF Produced
<1>7. \A u \in DOMAIN p.graph :
              \/ map[u] = s.task[u]
              \/ /\ s.sess[u] = "none"
                 /\ map[u] # "VERIFIED" /\ s.task[u] # "VERIFIED"
                 /\ s.task[u] \in Produced => map[u] \in Produced
  BY <1>2, <1>4, <1>5, <1>6
<1> QED
  BY <1>2, <1>3, <1>7, TasksMoved

LEMMA PreparedFits ==
    ASSUME NEW s, NEW p, Fit(s, p), NEW r \in Prepared(s)
    PROVE  Fit(r, p) /\ Passed(s, r) /\ r.change = s.change /\ r.sess = s.sess
<1>1. PICK due \in SUBSET {t \in DOMAIN s.task : s.task[t] = "RETRY_WAIT"} :
        r = [s EXCEPT !.task = [t \in DOMAIN s.task |-> IF t \in due THEN "READY" ELSE @[t]],
                      !.held = @ \cup Orphans(s)]
  BY DEF Prepared
<1> DEFINE map == [t \in DOMAIN s.task |-> IF t \in due THEN "READY" ELSE s.task[t]]
           q == [s EXCEPT !.task = map]
<1>2. /\ s \in Runs /\ p \in Plans /\ DOMAIN s.task = DOMAIN p.graph /\ p.graph \in Graphs
      /\ s.task \in [DOMAIN p.graph -> LifeState] /\ Sure(p.graph, s.task)
      /\ DOMAIN s.task \subseteq Task /\ s.held \subseteq DOMAIN s.task
  BY FitTyped DEF Fit
<1>3. map \in [DOMAIN p.graph -> LifeState]
  BY <1>2 DEF LifeState
<1>4. \A t \in due : s.sess[t] = "none"
  BY <1>2 DEF Fit, Sound, Agrees, Doing
<1>5. Sure(p.graph, map)
  BY <1>2, Shape DEF Sure, Ungated
<1>6. \A u \in DOMAIN p.graph :
              \/ map[u] = s.task[u]
              \/ /\ s.sess[u] = "none"
                 /\ map[u] # "VERIFIED" /\ s.task[u] # "VERIFIED"
                 /\ s.task[u] \in Produced => map[u] \in Produced
  BY <1>2, <1>4 DEF Produced
<1>7. Fit(q, p) /\ Passed(s, q)
  BY <1>3, <1>5, <1>6, TasksMoved
<1>8. /\ q.task = map /\ q.version = s.version /\ q.judged = s.judged /\ q.sess = s.sess
      /\ q.begun = s.begun /\ q.change = s.change /\ q.asked = s.asked /\ q.held = s.held
  BY <1>2 DEF Runs
<1>9. r = [q EXCEPT !.held = s.held \cup Orphans(s)]
  BY <1>1, <1>2 DEF Runs
<1>10. s.held \cup Orphans(s) \subseteq DOMAIN s.task
  BY <1>2 DEF Orphans
<1>11. q \in Runs /\ DOMAIN q.task = DOMAIN s.task
  BY <1>7, FitTyped, <1>2
<1> HIDE DEF q
<1>12. /\ r \in Runs /\ r.held = s.held \cup Orphans(s)
       /\ r.version = q.version /\ r.judged = q.judged /\ r.sess = q.sess /\ r.task = q.task
       /\ r.begun = q.begun /\ r.change = q.change /\ r.asked = q.asked
  BY <1>2, <1>9, <1>10, <1>11 DEF Runs
<1>13. Fit(r, p) /\ Active(r) = Active(q)
  BY <1>7, <1>10, <1>11, <1>12, SameCore
<1>14. Passed(q, r)
  BY <1>12, <1>13 DEF Passed, WorkKept, Accepted
<1> QED
  BY <1>7, <1>8, <1>12, <1>13, <1>14, PassedOn

LEMMA StoppedFits ==
    ASSUME NEW s, NEW p, Fit(s, p), NEW t \in DOMAIN s.task
    PROVE  Fit(Stopped(s, t), p) /\ Passed(s, Stopped(s, t))
<1> DEFINE r == Stopped(s, t)
<1>1. s \in Runs /\ s.held \subseteq DOMAIN s.task /\ DOMAIN s.task \subseteq Task
  BY FitTyped
<1>2. /\ r \in Runs /\ r.held = s.held \cup {t}
      /\ r.version = s.version /\ r.judged = s.judged /\ r.sess = s.sess /\ r.task = s.task
      /\ r.begun = s.begun /\ r.change = s.change /\ r.asked = s.asked
  BY <1>1 DEF Stopped, Runs
<1> HIDE DEF r
<1>3. Fit(r, p) /\ Active(r) = Active(s)
  BY <1>1, <1>2, SameCore
<1>4. Passed(s, r)
  BY <1>2, <1>3 DEF Passed, WorkKept, Accepted
<1> QED
  BY <1>3, <1>4 DEF r

\* A change is closed while nobody plans.
LEMMA ClosedFits ==
    ASSUME NEW s, NEW p, Fit(s, p), s.change.by \in DOMAIN s.task,
           \A t \in Task : s.sess[t] \notin Planning
    PROVE  Fit(Closed(s), p) /\ Passed(s, Closed(s)) /\ Active(Closed(s)) = Active(s)
<1> DEFINE change == [s.change EXCEPT !.status = "REJECTED"]
           held == s.held \cup {s.change.by}
           r == Rewritten(s, change, held)
<1>1. s \in Runs /\ s.held \subseteq DOMAIN s.task /\ DOMAIN s.task \subseteq Task
  BY FitTyped
<1>2. /\ change \in Changes /\ change.status \notin OpenStatus
      /\ Usable(s, p, change)
  BY <1>1 DEF Runs, Changes, OpenStatus, Usable
<1>3. Fit(r, p) /\ Active(r) = Active(s)
  <2>1. held \in SUBSET DOMAIN s.task
    BY <1>1
  <2> HIDE DEF change, held
  <2> QED
    BY <1>2, <2>1, NewChange
<1>4. Closed(s) = r
  BY <1>1 DEF Closed, Stopped, Runs, Rewritten
<1>5. r.version = s.version /\ r.begun = s.begun /\ r.asked = s.asked /\ r.task = s.task
  BY <1>1 DEF Runs, Rewritten
<1> HIDE DEF r
<1>6. Passed(s, r)
  BY <1>3, <1>5 DEF Passed, WorkKept, Accepted
<1> QED
  BY <1>3, <1>4, <1>6

\* A round of planning begins, alone.
LEMMA ReservedFits ==
    ASSUME NEW s, NEW p, Fit(s, p), ChangeOpen(s), Active(s) = {},
           NEW kind \in Planning, kind = "plan_verifier" =>
              s.change.status \in {"PLAN_VERIFICATION_REQUIRED", "PLAN_VERIFYING"},
           NEW r \in Reserved(p, s, kind, Stage(kind))
    PROVE  Fit(r, p) /\ Passed(s, r)
<1> DEFINE t == s.change.by
           ready == IF s.task[t] = "BLOCKED" THEN Moved(p, s, t, "READY") ELSE {s}
<1>1. t \in DOMAIN s.task /\ t \in Task /\ \A u \in Task : s.sess[u] = "none"
  BY FitTyped DEF Fit, Sound, Active
<1>0. PICK q \in ready :
        r \in {[m EXCEPT !.sess[t] = kind, !.change.status = Stage(kind)] :
                  m \in Moved(p, q, t, "RUNNING")}
  BY DEF Reserved
<1>2. PICK m \in Moved(p, q, t, "RUNNING") :
        r = [m EXCEPT !.sess[t] = kind, !.change.status = Stage(kind)]
  BY <1>0
<1>3. /\ Fit(q, p) /\ Passed(s, q) /\ q.change = s.change /\ q.sess = s.sess
      /\ Active(q) = Active(s)
  <2>1. CASE s.task[t] = "BLOCKED"
    <3>1. /\ Fit(q, p) /\ Passed(s, q) /\ Active(q) = Active(s)
          /\ q = [s EXCEPT !.task = [s.task EXCEPT ![t] = "READY"]]
      BY <1>1, <1>2, <2>1, MoveFits
    <3> QED
      BY <3>1, FitTyped DEF Runs
  <2>2. CASE s.task[t] # "BLOCKED"
    BY <1>2, <2>2, PassedSame
  <2> QED
    BY <2>1, <2>2
<1> HIDE DEF ready
<1>4. t \in DOMAIN q.task /\ q.sess[t] = "none"
  BY <1>1, <1>3 DEF Passed
<1>5. /\ Fit(m, p) /\ Active(m) = Active(q) /\ Passed(q, m)
      /\ m = [q EXCEPT !.task = [q.task EXCEPT ![t] = "RUNNING"]]
  <2> DEFINE target == "RUNNING"
  <2>1. m \in Moved(p, q, t, target) /\ target \in {"READY", "RUNNING", "BLOCKED", "IMPLEMENTED"}
        /\ target # "BLOCKED"
    BY <1>2
  <2> HIDE DEF target
  <2>2. /\ Fit(m, p) /\ Active(m) = Active(q) /\ Passed(q, m)
        /\ m = [q EXCEPT !.task = [q.task EXCEPT ![t] = target]]
    BY <1>3, <1>4, <2>1, MoveFits
  <2> QED
    BY <2>2 DEF target
<1>6. /\ m \in Runs /\ m.change = s.change /\ m.sess = s.sess /\ m.task[t] = "RUNNING"
      /\ DOMAIN m.task = DOMAIN s.task
  BY <1>3, <1>4, <1>5, FitTyped DEF Runs, Passed
<1>7. /\ r.sess = [m.sess EXCEPT ![t] = kind]
      /\ r.change = [m.change EXCEPT !.status = Stage(kind)]
      /\ r.version = m.version /\ r.judged = m.judged /\ r.task = m.task
      /\ r.begun = m.begun /\ r.asked = m.asked /\ r.held = m.held
  BY <1>2, <1>6 DEF Runs
<1>8. r.sess \in [Task -> SessionKind]
  BY <1>6, <1>7 DEF Runs, SessionKind
<1>9. /\ r.change \in Changes /\ r.change.status = Stage(kind) /\ r.change.by = t
      /\ r.change.proposal = s.change.proposal
  BY <1>6, <1>7 DEF Runs, Changes, Stage, OpenStatus
<1>10. r \in Runs
  BY <1>2, <1>6, <1>7, <1>8, <1>9 DEF Runs
<1>11. Active(r) = {t} /\ r.sess[t] = kind /\ \A u \in Task : u # t => r.sess[u] = "none"
  BY <1>1, <1>6, <1>7 DEF Active, Planning, Runs
<1>12. ChangeOpen(r) /\ ChangeOpen(m)
  BY <1>6, <1>9 DEF ChangeOpen, Stage, OpenStatus
<1>13. Sound(r)
  <2>1. r.begun \subseteq Active(r)
    BY <1>3, <1>5, <1>7 DEF Fit, Sound, Passed
  <2>2. \A u \in Task : Agrees(r, u)
    BY <1>1, <1>6, <1>7, <1>11 DEF Agrees, Doing, Planning
  <2>3. Rounds(r)
    BY <1>9, <1>11 DEF Rounds, Planning
  <2>4. Counted(r)
    BY <1>5, <1>7, <1>12 DEF Fit, Sound, Counted
  <2> QED
    BY <1>1, <1>6, <1>7, <1>9, <1>10, <2>1, <2>2, <2>3, <2>4 DEF Sound
<1>14. Proposed(r, p.graph)
  BY <1>9 DEF Fit, Proposed, Stage, Planning
<1>15. Fit(r, p)
  BY <1>5, <1>7, <1>13, <1>14 DEF Fit
<1>16. Passed(m, r)
  BY <1>5, <1>7, <1>3 DEF Passed, WorkKept, Accepted
<1> QED
  BY <1>3, <1>5, <1>15, <1>16, PassedOn

LEMMA PlanningRoundFits ==
    ASSUME NEW s, NEW p, Fit(s, p), ChangeOpen(s), NEW r \in PlanningRound(p, s)
    PROVE  Fit(r, p) /\ Passed(s, r)
<1> DEFINE t == s.change.by
           verifying == s.change.status \in {"PLAN_VERIFICATION_REQUIRED", "PLAN_VERIFYING"}
<1>1. t \in DOMAIN s.task
  BY DEF Fit, Sound
<1>2. \/ r = s
      \/ Active(s) = {} /\ r = Closed(s)
      \/ r = Stopped(s, t)
      \/ Active(s) = {} /\ verifying /\ r \in Reserved(p, s, "plan_verifier", "PLAN_VERIFYING")
      \/ Active(s) = {} /\ ~verifying /\ r \in Reserved(p, s, "replanner", "REPLANNER_RESERVED")
  BY DEF PlanningRound
<1>3. CASE r = s
  BY <1>3, PassedSame
<1>4. CASE Active(s) = {} /\ r = Closed(s)
  <2>1. \A u \in Task : s.sess[u] \notin Planning
    BY <1>4 DEF Active, Planning
  <2> QED
    BY <1>1, <1>4, <2>1, ClosedFits
<1>5. CASE r = Stopped(s, t)
  BY <1>1, <1>5, StoppedFits
<1>6. CASE Active(s) = {} /\ verifying /\ r \in Reserved(p, s, "plan_verifier", "PLAN_VERIFYING")
  <2>1. Stage("plan_verifier") = "PLAN_VERIFYING" /\ "plan_verifier" \in Planning
    BY DEF Stage, Planning
  <2> QED
    BY <1>6, <2>1, ReservedFits
<1>7. CASE Active(s) = {} /\ ~verifying /\ r \in Reserved(p, s, "replanner", "REPLANNER_RESERVED")
  <2>1. Stage("replanner") = "REPLANNER_RESERVED" /\ "replanner" \in Planning
    BY DEF Stage, Planning
  <2> QED
    BY <1>7, <2>1, ReservedFits
<1> QED
  BY <1>2, <1>3, <1>4, <1>5, <1>6, <1>7

\* Tasks that are ready, awaited by their verifier or to be revised get a session each.
LEMMA LaunchFits ==
    ASSUME NEW s, NEW p, Fit(s, p), ~ChangeOpen(s), NEW S \in SUBSET Takeable(s)
    PROVE  Fit(Launch(s, S), p) /\ Passed(s, Launch(s, S))
<1> DEFINE r == Launch(s, S)
           map == [t \in DOMAIN s.task |-> IF t \in S THEN Begun(s.task[t]) ELSE s.task[t]]
           sess == [t \in Task |-> IF t \notin S THEN s.sess[t]
                                   ELSE IF s.task[t] = "IMPLEMENTED" THEN "verifier" ELSE "producer"]
           redone == s.redone \cup {t \in S : s.task[t] = "REVISION_REQUIRED"}
<1>1. /\ s \in Runs /\ p.graph \in Graphs /\ DOMAIN s.task = DOMAIN p.graph
      /\ DOMAIN s.task \subseteq Task /\ s.task \in [DOMAIN p.graph -> LifeState]
      /\ Sure(p.graph, s.task)
  BY FitTyped DEF Fit
<1>2. \A t \in S : /\ t \in DOMAIN s.task /\ t \in Task /\ s.sess[t] = "none"
                   /\ s.task[t] \in {"READY", "IMPLEMENTED", "REVISION_REQUIRED"}
  BY <1>1 DEF Takeable
<1>3. \A t \in S : /\ s.task[t] = "READY" => Begun(s.task[t]) = "RUNNING"
                   /\ s.task[t] = "IMPLEMENTED" => Begun(s.task[t]) = "VERIFYING"
                   /\ s.task[t] = "REVISION_REQUIRED" => Begun(s.task[t]) = "REVISING"
  BY DEF Begun
<1>4. \A t \in S : /\ Begun(s.task[t]) \in Doing(sess[t])
                   /\ Begun(s.task[t]) \in LifeState \ {"VERIFIED"}
                   /\ s.task[t] \in Produced => Begun(s.task[t]) \in Produced
                   /\ s.task[t] \notin Ungated
  BY <1>2, <1>3 DEF Doing, LifeState, Produced, Ungated
<1>5. map \in [DOMAIN p.graph -> LifeState] /\ DOMAIN map = DOMAIN s.task
  BY <1>1, <1>4
<1>6. sess \in [Task -> SessionKind]
  BY <1>1 DEF Runs, SessionKind, Working
<1>7. redone \subseteq Task
  BY <1>1, <1>2 DEF Runs
<1>8. r = [s EXCEPT !.task = map, !.sess = sess, !.redone = redone]
  BY <1>1 DEF Launch, Runs
<1>9. map \in States
  BY <1>1, <1>5 DEF States
<1>16. /\ \A t \in DOMAIN s.task : map[t] = IF t \in S THEN Begun(s.task[t]) ELSE s.task[t]
       /\ \A t \in Task \ S : sess[t] = s.sess[t]
       /\ \A t \in S : sess[t] \in {"producer", "verifier"}
  BY <1>2
<1> HIDE DEF map, sess, redone, r
<1>10. /\ r \in Runs /\ r.task = map /\ r.sess = sess
       /\ r.version = s.version /\ r.judged = s.judged /\ r.begun = s.begun
       /\ r.change = s.change /\ r.asked = s.asked /\ r.held = s.held
  BY <1>1, <1>6, <1>7, <1>8, <1>9 DEF Runs
<1>11. Active(s) \subseteq Active(r) /\ ~ChangeOpen(r)
  BY <1>2, <1>10, <1>16 DEF Active, ChangeOpen
<1>12. \A t \in Task : s.sess[t] \notin Planning
  BY DEF Fit, Sound, Rounds, ChangeOpen, Stage, OpenStatus
<1>13. Sound(r)
  <2>1. \A t \in Task : Agrees(r, t)
    BY <1>1, <1>2, <1>4, <1>5, <1>10, <1>16 DEF Fit, Sound, Agrees
  <2>2. Rounds(r)
    BY <1>2, <1>10, <1>12, <1>16 DEF Rounds, Planning
  <2>3. Counted(r)
    BY <1>10, <1>11 DEF Fit, Sound, Counted
  <2> QED
    BY <1>10, <1>11, <2>1, <2>2, <2>3 DEF Fit, Sound
<1>14. Fit(r, p)
  <2>1. Sure(p.graph, map)
    BY <1>1, <1>2, <1>4, <1>16, Shape DEF Sure
  <2> QED
    BY <1>5, <1>10, <1>13, <2>1 DEF Fit, Proposed
<1>15. Passed(s, r)
  <2>1. Accepted(r) = Accepted(s)
    BY <1>2, <1>4, <1>5, <1>10, <1>16 DEF Accepted
  <2>2. WorkKept(s, r, {})
    BY <1>4, <1>5, <1>10, <1>16 DEF WorkKept
  <2> QED
    BY <1>5, <1>10, <1>11, <2>1, <2>2 DEF Passed
<1> QED
  BY <1>14, <1>15 DEF r

LEMMA OrdinaryWorkFits ==
    ASSUME NEW s, NEW p, Fit(s, p), ~ChangeOpen(s), NEW r \in OrdinaryWork(p, s)
    PROVE  Fit(r, p) /\ Passed(s, r)
<1> DEFINE map == Over(p.graph)!ReconcileReady(s.task)
           ready == [s EXCEPT !.task = map]
<1>1. /\ s \in Runs /\ p.graph \in Graphs /\ DOMAIN s.task = DOMAIN p.graph
      /\ s.task \in [DOMAIN p.graph -> LifeState] /\ Sure(p.graph, s.task)
      /\ DOMAIN s.task \subseteq Task
  BY FitTyped DEF Fit
<1>2. /\ map \in [DOMAIN p.graph -> LifeState] /\ Sure(p.graph, map)
      /\ \A t \in DOMAIN p.graph : map[t] = s.task[t] \/ (s.task[t] = "WAITING" /\ map[t] = "READY")
  BY <1>1, ReadyMeans
<1>3. \A t \in DOMAIN p.graph : s.task[t] = "WAITING" => s.sess[t] = "none"
  BY <1>1 DEF Fit, Sound, Agrees, Doing
<1>4. PICK S \in SUBSET Takeable(ready) : r = Launch(ready, S)
  BY DEF OrdinaryWork
<1> HIDE DEF map
<1>5. Fit(ready, p) /\ Passed(s, ready)
  <2>1. \A t \in DOMAIN p.graph :
              \/ map[t] = s.task[t]
              \/ /\ s.sess[t] = "none"
                 /\ map[t] # "VERIFIED" /\ s.task[t] # "VERIFIED"
                 /\ s.task[t] \in Produced => map[t] \in Produced
    BY <1>1, <1>2, <1>3 DEF Produced
  <2> QED
    BY <1>2, <2>1, TasksMoved
<1>6. ready.change = s.change
  BY <1>1 DEF Runs
<1>7. ~ChangeOpen(ready)
  BY <1>6 DEF ChangeOpen
<1> HIDE DEF ready
<1>8. Fit(r, p) /\ Passed(ready, r)
  BY <1>4, <1>5, <1>7, LaunchFits
<1> QED
  BY <1>5, <1>8, PassedOn

\* A pass over a state that fits leaves one that fits.
LEMMA PassFits ==
    ASSUME NEW s, NEW p, Fit(s, p), NEW r \in Pass(p, s)
    PROVE  Fit(r, p) /\ Passed(s, r)
<1>1. CASE r = s
  BY <1>1, PassedSame
<1>2. CASE r # s
  <2>1. Fits(p, s)
    BY FitTyped DEF Fits
  <2>2. PICK q \in Prepared(s) :
          r \in IF ~PlanVerified(p, q) THEN {Unfit(q)}
                ELSE IF ChangeOpen(q) THEN PlanningRound(p, q) ELSE OrdinaryWork(p, q)
    BY <1>2, <2>1 DEF Pass
  <2>3. Fit(q, p) /\ Passed(s, q)
    BY PreparedFits
  <2>4. PlanVerified(p, q)
    BY <2>3 DEF Fit, PlanVerified
  <2>5. Fit(r, p) /\ Passed(q, r)
    BY <2>2, <2>3, <2>4, PlanningRoundFits, OrdinaryWorkFits
  <2> QED
    BY <2>3, <2>5, PassedOn
<1> QED
  BY <1>1, <1>2

\* While a verdict on a plan is awaited, a pass reserves nothing and changes nothing of
\* the change; it may only find retries due and file tickets.
LEMMA PassIdles ==
    ASSUME NEW s, Sound(s), s.sess[s.change.by] = "plan_verifier", NEW p, NEW r \in Pass(p, s)
    PROVE  /\ Sound(r) /\ DOMAIN r.task = DOMAIN s.task /\ r.held \subseteq s.held \cup DOMAIN s.task
           /\ r.version = s.version /\ r.begun = s.begun /\ r.sess = s.sess /\ r.change = s.change
           /\ r.judged = s.judged
           /\ Accepted(r) = Accepted(s)
<1>1. /\ s \in Runs /\ s.change.by \in Task /\ Active(s) # {} /\ DOMAIN s.task \subseteq Task
  BY Shape DEF Sound, Runs, Changes, Active, States
<1>2. ASSUME NEW q \in Prepared(s)
      PROVE  /\ Sound(q) /\ DOMAIN q.task = DOMAIN s.task /\ q.held \subseteq s.held \cup DOMAIN s.task
             /\ q.version = s.version /\ q.begun = s.begun /\ q.sess = s.sess /\ q.change = s.change
             /\ q.judged = s.judged /\ q.asked = s.asked
             /\ Accepted(q) = Accepted(s)
    <2>1. PICK due \in SUBSET {t \in DOMAIN s.task : s.task[t] = "RETRY_WAIT"} :
            q = [s EXCEPT !.task = [t \in DOMAIN s.task |-> IF t \in due THEN "READY" ELSE @[t]],
                          !.held = @ \cup Orphans(s)]
      BY DEF Prepared
    <2> DEFINE map == [t \in DOMAIN s.task |-> IF t \in due THEN "READY" ELSE s.task[t]]
    <2>2. map \in States /\ DOMAIN map = DOMAIN s.task
      BY <1>1 DEF Runs, States, LifeState
    <2>3. \A t \in DOMAIN s.task : map[t] = IF t \in due THEN "READY" ELSE s.task[t]
      OBVIOUS
    <2>4. q = [s EXCEPT !.task = map, !.held = @ \cup Orphans(s)]
      BY <2>1, <1>1 DEF Runs
    <2>5. Orphans(s) \subseteq DOMAIN s.task
      BY DEF Orphans
    <2> HIDE DEF map
    <2>6. /\ q \in Runs /\ q.task = map /\ q.held = s.held \cup Orphans(s)
          /\ q.version = s.version /\ q.begun = s.begun /\ q.sess = s.sess /\ q.change = s.change
          /\ q.judged = s.judged /\ q.asked = s.asked
      BY <1>1, <2>2, <2>4, <2>5 DEF Runs
    <2>7. \A t \in Task : Agrees(q, t)
      BY <1>1, <2>2, <2>3, <2>6 DEF Sound, Agrees, Doing
    <2>8. Active(q) = Active(s) /\ (ChangeOpen(q) <=> ChangeOpen(s))
      BY <2>6 DEF Active, ChangeOpen
    <2>9. Sound(q)
      BY <2>2, <2>6, <2>7, <2>8 DEF Sound, Rounds, Counted
    <2>10. Accepted(q) = Accepted(s)
      BY <2>2, <2>3, <2>6 DEF Accepted
    <2> QED
      BY <2>2, <2>5, <2>6, <2>9, <2>10
<1>3. ASSUME NEW q, Sound(q), r = Unfit(q)
      PROVE  /\ Sound(r) /\ r.task = q.task /\ r.held \subseteq q.held \cup DOMAIN q.task
             /\ r.version = q.version /\ r.begun = q.begun /\ r.sess = q.sess /\ r.change = q.change
             /\ r.judged = q.judged
  <2>1. q \in Runs /\ DOMAIN q.task \subseteq Task
    BY <1>3, Shape DEF Sound, Runs, States
  <2>2. /\ r \in Runs /\ r.task = q.task /\ r.held \subseteq q.held \cup DOMAIN q.task
        /\ r.version = q.version /\ r.begun = q.begun /\ r.sess = q.sess /\ r.change = q.change
        /\ r.judged = q.judged /\ r.asked = q.asked
    BY <1>3, <2>1 DEF Unfit, Orphans, Runs
  <2> QED
    BY <1>3, <2>2, SoundSameCore
<1>4. \/ r = s
      \/ r = Unfit(s)
      \/ \E q \in Prepared(s) :
            r \in IF ~PlanVerified(p, q) THEN {Unfit(q)}
                  ELSE IF ChangeOpen(q) THEN PlanningRound(p, q) ELSE OrdinaryWork(p, q)
  BY DEF Pass
<1>5. CASE r = s
  BY <1>5
<1>6. CASE r = Unfit(s)
  BY <1>3, <1>6 DEF Accepted
<1>7. ASSUME NEW q \in Prepared(s),
             r \in IF ~PlanVerified(p, q) THEN {Unfit(q)}
                   ELSE IF ChangeOpen(q) THEN PlanningRound(p, q) ELSE OrdinaryWork(p, q)
      PROVE  /\ Sound(r) /\ DOMAIN r.task = DOMAIN s.task /\ r.held \subseteq s.held \cup DOMAIN s.task
             /\ r.version = s.version /\ r.begun = s.begun /\ r.sess = s.sess /\ r.change = s.change
             /\ r.judged = s.judged
             /\ Accepted(r) = Accepted(s)
  <2>1. ChangeOpen(q) /\ Active(q) # {}
    BY <1>1, <1>2 DEF Sound, Rounds, Planning, Stage, ChangeOpen, OpenStatus, Active
  <2>2. r = q \/ r = Unfit(q)
    BY <1>7, <2>1 DEF PlanningRound
  <2> QED
    BY <1>2, <1>3, <2>2 DEF Accepted
<1> QED
  BY <1>4, <1>5, <1>6, <1>7

-----------------------------------------------------------------------------
(* Turns that end.                                                          *)

\* The sessions of a set of tasks are over and their tasks are in other states.
Ends(s, r, T) ==
    /\ r.sess = [t \in Task |-> IF t \in T THEN "none" ELSE s.sess[t]]
    /\ r.begun = s.begun \ T
    /\ DOMAIN r.task = DOMAIN s.task
    /\ \A t \in DOMAIN s.task \ T : r.task[t] = s.task[t]
    /\ r.version = s.version /\ r.judged = s.judged /\ r.change = s.change
    /\ r.asked = s.asked /\ r.held = s.held

LEMMA OverFits ==
    ASSUME NEW s, NEW p, Fit(s, p), NEW T \in SUBSET Active(s), NEW r \in Runs,
           Ends(s, r, T), r.task \in [DOMAIN p.graph -> LifeState], Sure(p.graph, r.task)
    PROVE  /\ Fit(r, p) /\ Active(r) = Active(s) \ T
           /\ (\E t \in T : s.sess[t] \in Planning) => Active(r) = {}
           /\ T # {} => \A t \in Task : r.sess[t] \notin Planning
<1>1. s \in Runs /\ DOMAIN s.task = DOMAIN p.graph /\ DOMAIN s.task \subseteq Task
  BY FitTyped
<1>2. Active(r) = Active(s) \ T
  BY DEF Active, Ends
<1>3. ASSUME NEW t \in T, s.sess[t] \in Planning PROVE Active(r) = {}
  BY <1>2, <1>3 DEF Fit, Sound, Rounds, Active
<1>4. ASSUME NEW u \in T, NEW t \in Task PROVE r.sess[t] \notin Planning
  <2>1. CASE t \in T
    BY <2>1 DEF Ends, Planning
  <2>2. CASE t \notin T
    <3>1. r.sess[t] = s.sess[t] /\ u \in Active(s)
      BY <2>2 DEF Ends
    <3>2. s.sess[t] \in Planning => Active(s) = {t}
      BY DEF Fit, Sound, Rounds
    <3> QED
      BY <2>2, <3>1, <3>2
  <2> QED
    BY <2>1, <2>2
<1>5. ChangeOpen(r) <=> ChangeOpen(s)
  BY DEF ChangeOpen, Ends
<1>6. Rounds(r)
  <2>1. CASE T = {}
    BY <1>2, <2>1 DEF Fit, Sound, Rounds, Ends
  <2>2. CASE T # {}
    BY <1>4, <2>2 DEF Rounds
  <2> QED
    BY <2>1, <2>2
<1>7. \A t \in Task : Agrees(r, t)
  BY <1>1 DEF Fit, Sound, Agrees, Ends
<1>8. Sound(r)
  BY <1>2, <1>5, <1>6, <1>7 DEF Fit, Sound, Counted, Ends
<1>9. Fit(r, p)
  BY <1>8 DEF Fit, Proposed, Ends
<1> QED
  BY <1>2, <1>3, <1>4, <1>9

LEMMA EndMoves ==
    ASSUME NEW s, NEW p, Fit(s, p), NEW t \in Task, s.sess[t] # "none",
           NEW target \in LifeState, NEW r \in Moved(p, Ended(s, t), t, target)
    PROVE  /\ Fit(r, p) /\ Active(r) = Active(s) \ {t}
           /\ s.sess[t] \in Planning => Active(r) = {}
           /\ \A u \in Task : r.sess[u] \notin Planning
           /\ r.version = s.version /\ r.change = s.change /\ r.asked = s.asked
           /\ r.held = s.held /\ DOMAIN r.task = DOMAIN s.task
           /\ t \in DOMAIN s.task
           /\ target # "VERIFIED" => Accepted(r) = Accepted(s)
           /\ target = "VERIFIED" => Accepted(r) = Accepted(s) \cup {t} /\ t \notin Accepted(s)
<1> DEFINE e == Ended(s, t)
           map == [s.task EXCEPT ![t] = target]
<1>1. /\ s \in Runs /\ p \in Plans /\ p.graph \in Graphs /\ DOMAIN s.task = DOMAIN p.graph
      /\ s.task \in [DOMAIN p.graph -> LifeState]
      /\ DOMAIN s.task \subseteq Task /\ t \in DOMAIN s.task
  BY FitTyped DEF Fit, Sound, Agrees
<1>2. /\ e.sess = [s.sess EXCEPT ![t] = "none"] /\ e.begun = s.begun \ {t}
      /\ e.version = s.version /\ e.judged = s.judged /\ e.task = s.task /\ e.change = s.change
      /\ e.asked = s.asked /\ e.held = s.held
  BY <1>1 DEF Ended, Runs
<1>3. e.sess \in [Task -> SessionKind] /\ e.begun \subseteq Task
  BY <1>1, <1>2 DEF Runs, SessionKind
<1>4. e \in Runs
  BY <1>1, <1>3 DEF Ended, Runs, SessionKind
<1> HIDE DEF e
<1>5. /\ r = [e EXCEPT !.task = map] /\ Sure(p.graph, map) /\ s.task[t] # "VERIFIED"
  BY <1>1, <1>2, <1>4, MoveMeans DEF e
<1>6. /\ map \in [DOMAIN p.graph -> LifeState] /\ map \in States /\ DOMAIN map = DOMAIN s.task
      /\ map[t] = target /\ \A u \in DOMAIN s.task \ {t} : map[u] = s.task[u]
  BY <1>1 DEF States
<1> HIDE DEF map
<1>7. /\ r \in Runs /\ r.task = map /\ r.sess = e.sess /\ r.begun = e.begun
      /\ r.version = e.version /\ r.judged = e.judged /\ r.change = e.change
      /\ r.asked = e.asked /\ r.held = e.held
  BY <1>4, <1>5, <1>6 DEF Runs
<1>8. Ends(s, r, {t})
  BY <1>1, <1>2, <1>6, <1>7 DEF Ends, Runs
<1>9. {t} \in SUBSET Active(s)
  BY DEF Active
<1>10. /\ Fit(r, p) /\ Active(r) = Active(s) \ {t}
       /\ s.sess[t] \in Planning => Active(r) = {}
       /\ \A u \in Task : r.sess[u] \notin Planning
  <2>1. r \in Runs /\ r.task \in [DOMAIN p.graph -> LifeState] /\ Sure(p.graph, r.task)
    BY <1>5, <1>6, <1>7
  <2> DEFINE T == {t}
  <2>2. T \in SUBSET Active(s) /\ Ends(s, r, T)
    BY <1>8, <1>9
  <2> HIDE DEF T
  <2>3. /\ Fit(r, p) /\ Active(r) = Active(s) \ T
        /\ (\E u \in T : s.sess[u] \in Planning) => Active(r) = {}
        /\ T # {} => \A u \in Task : r.sess[u] \notin Planning
    <3> DEFINE Goal(x, R) == /\ Fit(x, p) /\ Active(x) = Active(s) \ R
                             /\ (\E u \in R : s.sess[u] \in Planning) => Active(x) = {}
                             /\ R # {} => \A u \in Task : x.sess[u] \notin Planning
    <3>1. \A R \in SUBSET Active(s), x \in Runs :
            Ends(s, x, R) /\ x.task \in [DOMAIN p.graph -> LifeState] /\ Sure(p.graph, x.task)
               => Goal(x, R)
      BY OverFits
    <3> HIDE DEF Goal
    <3>2. Goal(r, T)
      BY <2>1, <2>2, <3>1
    <3> QED
      BY <3>2 DEF Goal
  <2> QED
    BY <2>3 DEF T
<1>11. /\ target # "VERIFIED" => Accepted(r) = Accepted(s)
       /\ target = "VERIFIED" => Accepted(r) = Accepted(s) \cup {t} /\ t \notin Accepted(s)
  BY <1>1, <1>5, <1>6, <1>7 DEF Accepted
<1> QED
  BY <1>1, <1>2, <1>6, <1>7, <1>10, <1>11

\* A turn that is lost, or that the server says is over, goes to its next attempt.
LEMMA RetiredFits ==
    ASSUME NEW s, NEW p, Fit(s, p), NEW T \in SUBSET Active(s)
    PROVE  LET r == Retired(s, T) IN
           /\ Fit(r, p) /\ Active(r) = Active(s) \ T /\ Accepted(r) = Accepted(s)
           /\ r.version = s.version /\ DOMAIN r.task = DOMAIN s.task
           /\ r.held = s.held /\ r.begun = s.begun \ T
<1> DEFINE r == Retired(s, T)
           map == [t \in DOMAIN s.task |-> IF t \in T THEN "RETRY_WAIT" ELSE s.task[t]]
           sess == [t \in Task |-> IF t \in T THEN "none" ELSE s.sess[t]]
<1>1. /\ s \in Runs /\ p.graph \in Graphs /\ DOMAIN s.task = DOMAIN p.graph
      /\ s.task \in [DOMAIN p.graph -> LifeState] /\ Sure(p.graph, s.task)
      /\ DOMAIN s.task \subseteq Task
  BY FitTyped DEF Fit
<1>2. \A t \in T : /\ t \in DOMAIN s.task
                   /\ s.task[t] \in {"RUNNING", "REVISING", "VERIFYING"}
  BY DEF Fit, Sound, Agrees, Active, Doing
<1>3. /\ map \in [DOMAIN p.graph -> LifeState] /\ DOMAIN map = DOMAIN s.task /\ map \in States
      /\ \A t \in DOMAIN s.task : map[t] = IF t \in T THEN "RETRY_WAIT" ELSE s.task[t]
  BY <1>1 DEF States, LifeState
<1>4. sess \in [Task -> SessionKind]
  BY <1>1 DEF Runs, SessionKind
<1>5. r = [s EXCEPT !.task = map, !.sess = sess, !.begun = @ \ T]
  BY <1>1 DEF Retired, Runs
<1>6. sess = [t \in Task |-> IF t \in T THEN "none" ELSE s.sess[t]]
  OBVIOUS
<1> HIDE DEF map, sess, r
<1>7. /\ r \in Runs /\ r.task = map /\ r.sess = sess /\ r.begun = s.begun \ T
      /\ r.version = s.version /\ r.judged = s.judged /\ r.change = s.change
      /\ r.asked = s.asked /\ r.held = s.held
  BY <1>1, <1>3, <1>4, <1>5 DEF Runs
<1>8. Ends(s, r, T)
  BY <1>3, <1>6, <1>7 DEF Ends
<1>9. Sure(p.graph, map)
  BY <1>1, <1>2, <1>3, Shape DEF Sure, Ungated
<1>10. Accepted(r) = Accepted(s)
  BY <1>2, <1>3, <1>7 DEF Accepted
<1>11. r \in Runs /\ r.task \in [DOMAIN p.graph -> LifeState] /\ Sure(p.graph, r.task)
  BY <1>3, <1>7, <1>9
<1>12. Fit(r, p) /\ Active(r) = Active(s) \ T
  BY <1>8, <1>11, OverFits
<1> QED
  BY <1>3, <1>7, <1>10, <1>12 DEF r

LEMMA LostFits ==
    ASSUME NEW s, NEW p, Fit(s, p), NEW t \in Task, s.sess[t] # "none"
    PROVE  LET r == Lost(s, t) IN
           /\ Fit(r, p) /\ Active(r) = Active(s) \ {t} /\ Accepted(r) = Accepted(s)
           /\ r.version = s.version /\ DOMAIN r.task = DOMAIN s.task
<1> DEFINE r == Lost(s, t)
           target == IF s.sess[t] = "verifier" THEN "IMPLEMENTED" ELSE "RETRY_WAIT"
           map == [s.task EXCEPT ![t] = target]
           sess == [s.sess EXCEPT ![t] = "none"]
<1>1. /\ s \in Runs /\ p.graph \in Graphs /\ DOMAIN s.task = DOMAIN p.graph
      /\ s.task \in [DOMAIN p.graph -> LifeState] /\ Sure(p.graph, s.task)
      /\ DOMAIN s.task \subseteq Task /\ t \in DOMAIN s.task
  BY FitTyped DEF Fit, Sound, Agrees
<1>2. s.task[t] \in {"RUNNING", "REVISING", "VERIFYING"}
  BY DEF Fit, Sound, Agrees, Doing
<1>3. target \in LifeState \ {"VERIFIED"}
  BY DEF LifeState
<1> HIDE DEF target
<1>4. /\ map \in [DOMAIN p.graph -> LifeState] /\ DOMAIN map = DOMAIN s.task /\ map \in States
      /\ map[t] = target /\ \A u \in DOMAIN s.task \ {t} : map[u] = s.task[u]
  BY <1>1, <1>3 DEF States
<1>5. sess \in [Task -> SessionKind] /\ sess = [u \in Task |-> IF u \in {t} THEN "none" ELSE s.sess[u]]
  BY <1>1 DEF Runs, SessionKind
<1>6. r = [s EXCEPT !.task = map, !.sess = sess, !.begun = @ \ {t}]
  BY <1>1 DEF Lost, Ended, Runs, target
<1> HIDE DEF map, sess, r
<1>7. /\ r \in Runs /\ r.task = map /\ r.sess = sess /\ r.begun = s.begun \ {t}
      /\ r.version = s.version /\ r.judged = s.judged /\ r.change = s.change
      /\ r.asked = s.asked /\ r.held = s.held
  BY <1>1, <1>4, <1>5, <1>6 DEF Runs
<1>8. Ends(s, r, {t})
  BY <1>4, <1>5, <1>7 DEF Ends
<1>9. Sure(p.graph, map)
  BY <1>1, <1>2, <1>4, Shape DEF Sure, Ungated
<1>10. Accepted(r) = Accepted(s)
  BY <1>2, <1>3, <1>4, <1>7 DEF Accepted
<1>11. {t} \in SUBSET Active(s)
  BY DEF Active
<1>12. r \in Runs /\ r.task \in [DOMAIN p.graph -> LifeState] /\ Sure(p.graph, r.task)
  BY <1>4, <1>7, <1>9
<1>13. Fit(r, p) /\ Active(r) = Active(s) \ {t}
  <2> DEFINE T == {t}
  <2>1. T \in SUBSET Active(s) /\ Ends(s, r, T)
    BY <1>8, <1>11
  <2> HIDE DEF T
  <2>2. Fit(r, p) /\ Active(r) = Active(s) \ T
    BY <1>12, <2>1, OverFits
  <2> QED
    BY <2>2 DEF T
<1> QED
  BY <1>4, <1>7, <1>10, <1>13 DEF r

-----------------------------------------------------------------------------
(* The record of the change.                                                *)

\* A change is asked for while none is open.
LEMMA RegisteredFits ==
    ASSUME NEW s, NEW p, Fit(s, p), NEW t \in DOMAIN s.task, ~ChangeOpen(s), s.asked < MaxChanges
    PROVE  LET r == Registered(s, t) IN
           /\ Fit(r, p) /\ Active(r) = Active(s) /\ r.version = s.version /\ r.task = s.task
<1> DEFINE r == Registered(s, t)
           change == [NoChange EXCEPT !.status = "DRAINING", !.by = t]
<1>1. s \in Runs /\ DOMAIN s.task \subseteq Task /\ t \in Task
  BY FitTyped
<1>2. change \in Changes /\ change.status = "DRAINING" /\ change.by = t
  BY <1>1 DEF NoChange, Changes, OpenStatus
<1>3. s.asked + 1 \in 0..MaxChanges /\ s.asked \in Nat /\ s.version \in Nat
  BY <1>1, PlanChangeAssumption DEF Runs
<1>4. r = [s EXCEPT !.asked = s.asked + 1, !.change = change]
  BY <1>1 DEF Registered, Runs
<1>5. /\ change.status \in OpenStatus
      /\ change.status \notin {"PLAN_VERIFICATION_REQUIRED", "PLAN_VERIFYING"}
  BY <1>2 DEF OpenStatus
<1> HIDE DEF change, r
<1>6. /\ r \in Runs /\ r.change = change /\ r.asked = s.asked + 1
      /\ r.version = s.version /\ r.judged = s.judged /\ r.task = s.task /\ r.sess = s.sess
      /\ r.begun = s.begun /\ r.held = s.held
  BY <1>1, <1>2, <1>3, <1>4 DEF Runs
<1>7. Active(r) = Active(s)
  BY <1>6 DEF Active
<1>8. \A u \in Task : s.sess[u] \notin Planning
  BY DEF Fit, Sound, Rounds, ChangeOpen, Stage, OpenStatus
<1>9. Counted(r)
  BY <1>3, <1>6 DEF Fit, Sound, Counted
<1>10. Sound(r)
  BY <1>2, <1>6, <1>7, <1>8, <1>9 DEF Fit, Sound, Rounds, Agrees
<1>11. Fit(r, p)
  BY <1>5, <1>6, <1>10 DEF Fit, Proposed
<1> QED
  BY <1>6, <1>7, <1>11 DEF r

\* A round that failed sends the change back, or closes it.
LEMMA AgainFits ==
    ASSUME NEW s, NEW p, Fit(s, p), \A t \in Task : s.sess[t] \notin Planning, ChangeOpen(s),
           NEW change \in Changes, change.by = s.change.by,
           NEW stage \in {"DRAINING", "PLAN_VERIFICATION_REQUIRED"},
           stage = "PLAN_VERIFICATION_REQUIRED" =>
              change.proposal \in Replacements /\ DOMAIN p.graph \subseteq DOMAIN change.proposal,
           NEW spent
    PROVE  LET r == Again([s EXCEPT !.change = change], spent, stage) IN
           /\ Fit(r, p) /\ Active(r) = Active(s) /\ r.version = s.version /\ r.task = s.task
<1> DEFINE r == Again([s EXCEPT !.change = change], spent, stage)
           closed == [change EXCEPT !.status = "REJECTED"]
           back == [change EXCEPT !.status = stage]
           held == s.held \cup {change.by}
<1>1. s \in Runs /\ DOMAIN s.task \subseteq Task /\ s.held \subseteq DOMAIN s.task
      /\ s.change.by \in DOMAIN s.task
  BY FitTyped DEF Fit, Sound
<1>2. held \in SUBSET DOMAIN s.task
  BY <1>1
<1>3. closed \in Changes /\ Usable(s, p, closed)
  BY DEF Changes, OpenStatus, Usable
<1>4. back \in Changes /\ Usable(s, p, back)
  BY DEF Changes, OpenStatus, Usable
<1>5. /\ spent > Allowance => r = Rewritten(s, closed, held)
      /\ ~(spent > Allowance) => r = Rewritten(s, back, s.held)
  BY <1>1 DEF Again, Closed, Stopped, Runs, Rewritten
<1> HIDE DEF closed, back, held, r
<1>6. CASE spent > Allowance
  BY <1>2, <1>3, <1>5, <1>6, NewChange DEF r
<1>7. CASE ~(spent > Allowance)
  BY <1>1, <1>4, <1>5, <1>7, NewChange DEF r
<1> QED
  BY <1>6, <1>7

-----------------------------------------------------------------------------
(* Steps that keep the plan.                                                *)

\* A step that replaces no plan: what was accepted stays so, and at most one task more is.
Keeps ==
    /\ plan' = plan /\ redo' = redo
    /\ run'.version = run.version
    /\ \/ Accepted(run') = Accepted(run)
       \/ Steady /\ \E t \in DOMAIN run.task \ Accepted(run) :
                       Accepted(run') = Accepted(run) \cup {t}

\* The state is saved.
LEMMA SaveSteady ==
    ASSUME Steady, NEW s, Fit(s, plan), Save(s), plan' = plan, redo' = redo
    PROVE  /\ Steady' /\ run'.version = s.version /\ Accepted(run') = Accepted(s)
           /\ Active(run') = Active(s)
<1> DEFINE marked == (redo # NoRedo)
<1>1. s \in Runs /\ s.held \subseteq DOMAIN s.task
  BY FitTyped
<1>2. run' = [s EXCEPT !.since = marked]
  BY DEF Save
<1>3. marked \in BOOLEAN /\ (redo # NoRedo => marked)
  OBVIOUS
<1> HIDE DEF marked
<1>4. /\ run' \in Runs /\ run'.since = marked
      /\ run'.version = s.version /\ run'.judged = s.judged /\ run'.task = s.task
      /\ run'.sess = s.sess /\ run'.begun = s.begun /\ run'.change = s.change
      /\ run'.asked = s.asked /\ run'.held = s.held
  BY <1>1, <1>2, <1>3 DEF Runs
<1>5. Fit(run', plan) /\ Active(run') = Active(s)
  BY <1>1, <1>4, SameCore
<1>6. Steady'
  BY <1>3, <1>4, <1>5 DEF Steady
<1> QED
  BY <1>4, <1>5, <1>6 DEF Accepted

\* The status of the run is written.
LEMMA StatusFits ==
    ASSUME NEW s, NEW p, Fit(s, p), NEW status \in {"ARMED", "RUN", "PAUSED"}
    PROVE  LET r == [s EXCEPT !.status = status] IN
           /\ Fit(r, p) /\ Active(r) = Active(s) /\ r.version = s.version /\ r.task = s.task
           /\ r.sess = s.sess /\ r.begun = s.begun
<1> DEFINE r == [s EXCEPT !.status = status]
<1>1. s \in Runs /\ s.held \subseteq DOMAIN s.task
  BY FitTyped
<1>2. /\ r \in Runs
      /\ r.version = s.version /\ r.judged = s.judged /\ r.task = s.task
      /\ r.sess = s.sess /\ r.begun = s.begun /\ r.change = s.change
      /\ r.asked = s.asked /\ r.held = s.held
  BY <1>1 DEF Runs
<1> HIDE DEF r
<1>3. Fit(r, p) /\ Active(r) = Active(s)
  BY <1>1, <1>2, SameCore
<1> QED
  BY <1>2, <1>3 DEF r

\* The one pass of a completion.
LEMMA CompleteSteady ==
    ASSUME Steady, alive \subseteq Active(run), NEW t \in Task, NEW s, Fit(s, plan),
           Active(run) \ {t} \subseteq Active(s), s.version = run.version, Complete(t, s)
    PROVE  /\ Steady' /\ alive' \subseteq Active(run') /\ plan' = plan /\ redo' = redo
           /\ pause' = pause /\ run'.version = run.version /\ Accepted(run') = Accepted(s)
<1>1. PICK r \in Pass(plan, s) :
        Save(Saved(r)) /\ alive' = (alive \ {t}) \cup Spawned(t, r)
  BY DEF Complete
<1>2. plan' = plan /\ redo' = redo /\ pause' = pause
  BY DEF Complete
<1>3. Fit(r, plan) /\ Passed(s, r)
  BY PassFits
<1>4. /\ Fit(Saved(r), plan) /\ Active(Saved(r)) = Active(r) /\ Saved(r).version = r.version
      /\ Saved(r).task = r.task
  <2> DEFINE status == IF pause THEN "PAUSED" ELSE "RUN"
  <2>1. status \in {"ARMED", "RUN", "PAUSED"} /\ Saved(r) = [r EXCEPT !.status = status]
    BY DEF Saved
  <2> HIDE DEF status
  <2>2. LET m == [r EXCEPT !.status = status] IN
        /\ Fit(m, plan) /\ Active(m) = Active(r) /\ m.version = r.version /\ m.task = r.task
    BY <1>3, <2>1, StatusFits
  <2> QED
    BY <2>1, <2>2
<1>5. /\ Steady' /\ run'.version = r.version /\ Accepted(run') = Accepted(Saved(r))
      /\ Active(run') = Active(r)
  BY <1>1, <1>2, <1>4, SaveSteady
<1>6. Accepted(Saved(r)) = Accepted(s)
  BY <1>3, <1>4 DEF Passed, Accepted
<1>7. alive' \subseteq Active(run')
  BY <1>1, <1>3, <1>5 DEF Passed, Spawned
<1> QED
  BY <1>2, <1>3, <1>5, <1>6, <1>7 DEF Passed

\* A change that a round leaves as it found it, but for the record of the round.
LEMMA EditedFits ==
    ASSUME NEW s, NEW p, Fit(s, p), NEW change \in Changes,
           \A t \in Task : s.sess[t] \notin Planning, Usable(s, p, change)
    PROVE  LET r == [s EXCEPT !.change = change] IN
           /\ Fit(r, p) /\ Active(r) = Active(s) /\ r.version = s.version /\ r.task = s.task
<1>1. s \in Runs /\ s.held \in SUBSET DOMAIN s.task
  BY FitTyped
<1>2. [s EXCEPT !.change = change] = Rewritten(s, change, s.held)
  BY <1>1 DEF Rewritten, Runs
<1> QED
  BY <1>1, <1>2, NewChange

\* Turns that begin, die, fail or end with work, a verdict or a stop.
LEMMA StartKeeps ==
    ASSUME IInv, NEW t \in Task, Start(t) \/ Die(t)
    PROVE  IInv' /\ Keeps
<1>1. alive # {}
  BY DEF Start, Die
<1>2. Steady /\ alive \subseteq Active(run)
  BY <1>1 DEF IInv, Behind
<1>3. surprises' \in 0..MaxSurprises
  BY PlanChangeAssumption DEF IInv, Start, Die, Surprise
<1>4. CASE Start(t)
  <2> DEFINE s == [run EXCEPT !.begun = @ \cup {t}]
  <2>1. run \in Runs /\ run.held \subseteq DOMAIN run.task
    BY <1>2, FitTyped DEF Steady
  <2>2. t \in Active(run)
    BY <1>2, <1>4 DEF Start
  <2>3. /\ s \in Runs /\ s.begun = run.begun \cup {t}
        /\ s.version = run.version /\ s.judged = run.judged /\ s.task = run.task
        /\ s.sess = run.sess /\ s.change = run.change /\ s.asked = run.asked /\ s.held = run.held
    BY <2>1 DEF Runs
  <2>4. Save(s) /\ plan' = plan /\ redo' = redo /\ pause' = pause /\ alive' = alive
    BY <1>4 DEF Start
  <2> HIDE DEF s
  <2>5. Active(s) = Active(run) /\ (ChangeOpen(s) <=> ChangeOpen(run))
    BY <2>3 DEF Active, ChangeOpen
  <2>6. Sound(s)
    BY <1>2, <2>2, <2>3, <2>5 DEF Steady, Fit, Sound, Agrees, Rounds, Counted
  <2>7. Fit(s, plan)
    BY <1>2, <2>3, <2>6 DEF Steady, Fit, Proposed
  <2>8. /\ Steady' /\ run'.version = s.version /\ Accepted(run') = Accepted(s)
        /\ Active(run') = Active(s)
    BY <1>2, <2>4, <2>7, SaveSteady
  <2>9. Accepted(s) = Accepted(run)
    BY <2>3 DEF Accepted
  <2> QED
    BY <1>2, <1>3, <2>3, <2>4, <2>5, <2>8, <2>9 DEF IInv, Keeps
<1>5. CASE Die(t)
  <2>1. plan' = plan /\ run' = run /\ redo' = redo /\ pause' = pause /\ alive' = alive \ {t}
    BY <1>5 DEF Die
  <2>2. Steady' /\ Active(run') = Active(run)
    BY <1>2, <2>1 DEF Steady
  <2> QED
    BY <1>2, <1>3, <2>1, <2>2 DEF IInv, Keeps
<1> QED
  BY <1>4, <1>5

LEMMA FailKeeps ==
    ASSUME IInv, NEW t \in Task, Fail(t)
    PROVE  IInv' /\ Keeps
<1>1. Steady /\ alive \subseteq Active(run) /\ t \in alive /\ run.sess[t] # "none"
  BY DEF IInv, Behind, Fail, Active
<1>2. surprises' \in 0..MaxSurprises
  BY PlanChangeAssumption DEF IInv, Fail, Surprise
<1> DEFINE s == Lost(run, t)
<1>3. /\ Fit(s, plan) /\ Active(s) = Active(run) \ {t} /\ Accepted(s) = Accepted(run)
      /\ s.version = run.version
  BY <1>1, LostFits DEF Steady
<1> HIDE DEF s
<1>4. /\ Fit(Saved(s), plan) /\ Active(Saved(s)) = Active(s) /\ Saved(s).version = s.version
      /\ Saved(s).task = s.task
  <2> DEFINE status == IF pause THEN "PAUSED" ELSE "RUN"
  <2>1. status \in {"ARMED", "RUN", "PAUSED"} /\ Saved(s) = [s EXCEPT !.status = status]
    BY DEF Saved
  <2> HIDE DEF status
  <2>2. LET m == [s EXCEPT !.status = status] IN
        /\ Fit(m, plan) /\ Active(m) = Active(s) /\ m.version = s.version /\ m.task = s.task
    BY <1>3, <2>1, StatusFits
  <2> QED
    BY <2>1, <2>2
<1>5. Save(Saved(s)) /\ plan' = plan /\ redo' = redo /\ pause' = pause /\ alive' = alive \ {t}
  BY DEF Fail, s
<1>6. /\ Steady' /\ run'.version = Saved(s).version /\ Accepted(run') = Accepted(Saved(s))
      /\ Active(run') = Active(Saved(s))
  BY <1>1, <1>4, <1>5, SaveSteady
<1>7. Accepted(run') = Accepted(run)
  BY <1>3, <1>4, <1>6 DEF Accepted
<1> QED
  BY <1>1, <1>2, <1>3, <1>4, <1>5, <1>6, <1>7 DEF IInv, Keeps

\* What the end of a turn leaves, when its one pass is over.
LEMMA CompleteKeeps ==
    ASSUME IInv, Steady, NEW t \in Task, NEW s, Fit(s, plan),
           Active(run) \ {t} \subseteq Active(s), s.version = run.version,
           \/ Accepted(s) = Accepted(run)
           \/ \E u \in DOMAIN run.task \ Accepted(run) : Accepted(s) = Accepted(run) \cup {u},
           Complete(t, s), surprises' \in 0..MaxSurprises
    PROVE  IInv' /\ Keeps
<1>1. /\ Steady' /\ alive' \subseteq Active(run') /\ plan' = plan /\ redo' = redo
      /\ pause' = pause /\ run'.version = run.version /\ Accepted(run') = Accepted(s)
  BY CompleteSteady DEF IInv
<1> QED
  BY <1>1 DEF IInv, Keeps

LEMMA OngoingSteady ==
    ASSUME IInv, NEW t \in Task, Ongoing(t)
    PROVE  Steady /\ Fit(run, plan) /\ run.sess[t] # "none"
BY DEF IInv, Behind, Ongoing, Steady, Active

LEMMA FinishKeeps ==
    ASSUME IInv, NEW t \in Task, FinishWork(t) \/ FinishVerdict(t) \/ FinishStopped(t)
    PROVE  IInv' /\ Keeps
<1>1. Ongoing(t)
  BY DEF FinishWork, FinishVerdict, FinishStopped
<1>2. Steady /\ Fit(run, plan) /\ run.sess[t] # "none"
  BY <1>1, OngoingSteady
<1>3. surprises' \in 0..MaxSurprises
  BY PlanChangeAssumption
     DEF IInv, FinishWork, FinishVerdict, FinishStopped, Surprise
<1>4. PICK target \in {"IMPLEMENTED", "VERIFIED", "REVISION_REQUIRED", "BLOCKED"} :
        \E s \in Moved(plan, Ended(run, t), t, target) :
           Complete(t, s) \/ (target # "VERIFIED" /\ Complete(t, Stopped(s, t)))
  BY DEF FinishWork, FinishVerdict, FinishStopped
<1>5. PICK s \in Moved(plan, Ended(run, t), t, target) :
           Complete(t, s) \/ (target # "VERIFIED" /\ Complete(t, Stopped(s, t)))
  BY <1>4
<1>6. /\ Fit(s, plan) /\ Active(s) = Active(run) \ {t}
      /\ s.version = run.version /\ DOMAIN s.task = DOMAIN run.task /\ t \in DOMAIN run.task
      /\ target # "VERIFIED" => Accepted(s) = Accepted(run)
      /\ target = "VERIFIED" => Accepted(s) = Accepted(run) \cup {t} /\ t \notin Accepted(run)
  <2>1. target \in LifeState
    BY DEF LifeState
  <2> QED
    BY <1>2, <1>5, <2>1, EndMoves
<1>7. CASE Complete(t, s)
  <2>1. \/ Accepted(s) = Accepted(run)
        \/ \E u \in DOMAIN run.task \ Accepted(run) : Accepted(s) = Accepted(run) \cup {u}
    BY <1>6
  <2> QED
    BY <1>2, <1>3, <1>6, <1>7, <2>1, CompleteKeeps
<1>8. CASE target # "VERIFIED" /\ Complete(t, Stopped(s, t))
  <2> DEFINE q == Stopped(s, t)
  <2>1. Fit(q, plan) /\ Passed(s, q)
    BY <1>6, StoppedFits
  <2>2. Accepted(q) = Accepted(run) /\ q.version = run.version /\ Active(run) \ {t} \subseteq Active(q)
    BY <1>6, <1>8, <2>1 DEF Passed
  <2> HIDE DEF q
  <2>3. Complete(t, q)
    BY <1>8 DEF q
  <2> QED
    BY <1>2, <1>3, <2>1, <2>2, <2>3, CompleteKeeps
<1> QED
  BY <1>5, <1>7, <1>8

\* The turn that made a commit which was cut short still has its session: the change is
\* open, and nobody asks for another.
LEMMA BehindOpen ==
    ASSUME Behind
    PROVE  ChangeOpen(run) /\ run.change.by \in Task
BY DEF Behind, Sound, Runs, Changes, Rounds, Planning, Stage, ChangeOpen, OpenStatus

LEMMA RequestKeeps ==
    ASSUME IInv, NEW t \in Task, FinishRequest(t) \/ RequestTooLate(t) \/ EngineerRequest(t)
    PROVE  IInv' /\ Keeps
<1>1. Steady /\ Fit(run, plan) /\ run \in Runs /\ DOMAIN run.task \subseteq Task
  <2>1. Steady
    BY BehindOpen DEF IInv, Behind, FinishRequest, RequestTooLate, EngineerRequest, Ongoing
  <2> QED
    BY <2>1, FitTyped DEF Steady
<1>2. surprises' \in 0..MaxSurprises
  BY PlanChangeAssumption
     DEF IInv, FinishRequest, RequestTooLate, EngineerRequest, Surprise
<1>3. CASE FinishRequest(t)
  <2>1. PICK s \in Moved(plan, Ended(run, t), t, "BLOCKED") : Complete(t, Registered(s, t))
    BY <1>3 DEF FinishRequest
  <2>2. ~ChangeOpen(run) /\ run.asked < MaxChanges /\ Ongoing(t) /\ run.sess[t] # "none"
    BY <1>3 DEF FinishRequest
  <2> DEFINE target == "BLOCKED"
  <2>3. target \in LifeState /\ target # "VERIFIED" /\ s \in Moved(plan, Ended(run, t), t, target)
    BY <2>1 DEF LifeState
  <2> HIDE DEF target
  <2>4. /\ Fit(s, plan) /\ Active(s) = Active(run) \ {t}
        /\ s.version = run.version /\ s.change = run.change /\ s.asked = run.asked
        /\ DOMAIN s.task = DOMAIN run.task /\ t \in DOMAIN run.task
        /\ Accepted(s) = Accepted(run)
    BY <1>1, <2>2, <2>3, EndMoves
  <2> DEFINE q == Registered(s, t)
  <2>5. t \in DOMAIN s.task /\ ~ChangeOpen(s) /\ s.asked < MaxChanges
    BY <2>2, <2>4 DEF ChangeOpen
  <2>6. Fit(q, plan) /\ Active(q) = Active(s) /\ q.version = s.version /\ q.task = s.task
    BY <2>4, <2>5, RegisteredFits
  <2> HIDE DEF q
  <2>7. Accepted(q) = Accepted(run)
    BY <2>4, <2>6 DEF Accepted
  <2>8. Complete(t, q)
    BY <2>1 DEF q
  <2> QED
    BY <1>1, <1>2, <2>4, <2>6, <2>7, <2>8, CompleteKeeps
<1>4. CASE RequestTooLate(t)
  <2>1. plan' = plan /\ run' = run /\ redo' = redo /\ pause' = pause /\ alive' = alive \ {t}
    BY <1>4 DEF RequestTooLate
  <2>2. Steady' /\ Active(run') = Active(run)
    BY <1>1, <2>1 DEF Steady
  <2> QED
    BY <1>1, <1>2, <2>1, <2>2 DEF IInv, Keeps
<1>5. CASE EngineerRequest(t)
  <2>1. PICK s \in IF run.task[t] = "BLOCKED" THEN {run} ELSE Moved(plan, run, t, "BLOCKED") :
          Save(Registered(s, t))
    BY <1>5 DEF EngineerRequest
  <2>2. /\ t \in DOMAIN run.task /\ run.sess[t] = "none" /\ ~ChangeOpen(run)
        /\ run.asked < MaxChanges
        /\ plan' = plan /\ redo' = redo /\ pause' = pause /\ alive' = alive
    BY <1>1, <1>5, FitTyped DEF EngineerRequest, Active
  <2>3. /\ Fit(s, plan) /\ Active(s) = Active(run) /\ s.version = run.version
        /\ s.change = run.change /\ s.asked = run.asked
        /\ DOMAIN s.task = DOMAIN run.task /\ Accepted(s) = Accepted(run)
    <3>1. CASE s = run
      BY <1>1, <3>1
    <3>2. CASE s # run
      <4> DEFINE target == "BLOCKED"
                 map == [run.task EXCEPT ![t] = target]
      <4>1. target \in LifeState /\ target # "VERIFIED" /\ s \in Moved(plan, run, t, target)
        BY <2>1, <3>2 DEF LifeState
      <4> HIDE DEF target
      <4>2. /\ s = [run EXCEPT !.task = map] /\ Sure(plan.graph, map) /\ run.task[t] # "VERIFIED"
        BY <1>1, <2>2, <4>1, MoveMeans DEF Fit
      <4>3. /\ map \in [DOMAIN plan.graph -> LifeState] /\ DOMAIN map = DOMAIN run.task
            /\ map[t] = target /\ \A u \in DOMAIN run.task \ {t} : map[u] = run.task[u]
        BY <1>1, <2>2, <4>1, FitTyped DEF Fit
      <4>4. \A u \in DOMAIN plan.graph : run.sess[u] # "none" => map[u] = run.task[u]
        BY <1>1, <2>2, <4>3, FitTyped
      <4> HIDE DEF map
      <4>5. Fit(s, plan) /\ Active(s) = Active(run)
        <5>1. LET m == [run EXCEPT !.task = map] IN Fit(m, plan) /\ Active(m) = Active(run)
          BY <1>1, <4>2, <4>3, <4>4, NewTasks
        <5> QED
          BY <4>2, <5>1
      <4>6. /\ s.task = map /\ s.version = run.version /\ s.change = run.change
            /\ s.asked = run.asked
        BY <1>1, <4>2 DEF Runs
      <4>7. Accepted(s) = Accepted(run)
        BY <4>1, <4>2, <4>3, <4>6 DEF Accepted
      <4> QED
        BY <4>3, <4>5, <4>6, <4>7
    <3> QED
      BY <3>1, <3>2
  <2> DEFINE q == Registered(s, t)
  <2>4. t \in DOMAIN s.task /\ ~ChangeOpen(s) /\ s.asked < MaxChanges
    BY <2>2, <2>3 DEF ChangeOpen
  <2>5. Fit(q, plan) /\ Active(q) = Active(s) /\ q.version = s.version /\ q.task = s.task
    BY <2>3, <2>4, RegisteredFits
  <2>6. Save(q)
    BY <2>1
  <2> HIDE DEF q
  <2>7. /\ Steady' /\ run'.version = q.version /\ Accepted(run') = Accepted(q)
        /\ Active(run') = Active(q)
    BY <1>1, <2>2, <2>5, <2>6, SaveSteady
  <2>8. Accepted(q) = Accepted(run)
    BY <2>3, <2>5 DEF Accepted
  <2> QED
    BY <1>2, <2>2, <2>3, <2>5, <2>7, <2>8 DEF IInv, Keeps
<1> QED
  BY <1>3, <1>4, <1>5

\* A round of planning that leaves the plan as it is.
LEMMA RoundKeeps ==
    ASSUME IInv, NEW t \in Task,
           Propose(t) \/ RefuseProposal(t) \/ FinishUnreadable(t) \/ RefusePlan(t)
    PROVE  IInv' /\ Keeps
<1>1. Ongoing(t) /\ run.change.by = t /\ run.sess[t] \in Planning
  BY DEF Propose, RefuseProposal, FinishUnreadable, RefusePlan, Planned, Planning
<1>2. Steady /\ Fit(run, plan) /\ run.sess[t] # "none" /\ run \in Runs
  BY <1>1, OngoingSteady, FitTyped
<1>3. surprises' \in 0..MaxSurprises
  BY DEF IInv, Propose, RefuseProposal, FinishUnreadable, RefusePlan
<1>4. ChangeOpen(run) /\ run.change.status = Stage(run.sess[t])
  BY <1>1, <1>2 DEF Fit, Sound, Rounds, ChangeOpen, Stage, OpenStatus
<1>5. PICK s \in Moved(plan, Ended(run, t), t, "BLOCKED") :
        \/ Complete(t, Refused(s))
        \/ run.sess[t] = "plan_verifier" /\ Complete(t, Unreadable(s))
        \/ Complete(t, Revised(s))
        \/ \E g \in Replacements :
              /\ Admissible(plan.graph, g, run, t)
              /\ Complete(t, [s EXCEPT !.change.status = "PLAN_VERIFICATION_REQUIRED",
                                       !.change.proposal = g])
  BY DEF Propose, RefuseProposal, FinishUnreadable, RefusePlan, Planned
<1> DEFINE target == "BLOCKED"
<1>6. target \in LifeState /\ target # "VERIFIED" /\ s \in Moved(plan, Ended(run, t), t, target)
  BY <1>5 DEF LifeState
<1> HIDE DEF target
<1>7. /\ Fit(s, plan) /\ Active(s) = Active(run) \ {t}
      /\ \A u \in Task : s.sess[u] \notin Planning
      /\ s.version = run.version /\ s.change = run.change
      /\ Accepted(s) = Accepted(run)
  BY <1>2, <1>6, EndMoves
<1>8. s \in Runs /\ ChangeOpen(s) /\ s.change \in Changes
  BY <1>2, <1>4, <1>7, FitTyped DEF ChangeOpen, Runs
<1>9. ASSUME NEW q, Fit(q, plan), Active(q) = Active(s), q.version = s.version, q.task = s.task,
             Complete(t, q)
      PROVE  IInv' /\ Keeps
  <2>1. Accepted(q) = Accepted(run)
    BY <1>7, <1>9 DEF Accepted
  <2> QED
    BY <1>2, <1>3, <1>7, <1>9, <2>1, CompleteKeeps
<1>10. ASSUME NEW change \in Changes, change.by = s.change.by,
              NEW stage \in {"DRAINING", "PLAN_VERIFICATION_REQUIRED"},
              stage = "PLAN_VERIFICATION_REQUIRED" =>
                 change.proposal \in Replacements /\ DOMAIN plan.graph \subseteq DOMAIN change.proposal,
              NEW spent, Complete(t, Again([s EXCEPT !.change = change], spent, stage))
       PROVE  IInv' /\ Keeps
  <2> DEFINE q == Again([s EXCEPT !.change = change], spent, stage)
  <2>1. Fit(q, plan) /\ Active(q) = Active(s) /\ q.version = s.version /\ q.task = s.task
    BY <1>7, <1>8, <1>10, AgainFits
  <2>2. Complete(t, q)
    BY <1>10
  <2> HIDE DEF q
  <2> QED
    BY <1>9, <2>1, <2>2
<1>11. CASE Complete(t, Refused(s))
  <2> DEFINE change == [s.change EXCEPT !.refused = @ + 1]
  <2>1. change \in Changes /\ change.by = s.change.by
    BY <1>8 DEF Changes
  <2>2. [s EXCEPT !.change.refused = @ + 1] = [s EXCEPT !.change = change]
    BY <1>8 DEF Runs
  <2>3. Refused(s) = Again([s EXCEPT !.change = change],
                           [s EXCEPT !.change = change].change.refused, "DRAINING")
    BY <2>2 DEF Refused
  <2> HIDE DEF change
  <2> QED
    BY <1>10, <1>11, <2>1, <2>3
<1>12. CASE run.sess[t] = "plan_verifier" /\ Complete(t, Unreadable(s))
  <2> DEFINE change == [s.change EXCEPT !.unreadable = @ + 1]
  <2>1. change \in Changes /\ change.by = s.change.by /\ change.proposal = s.change.proposal
    BY <1>8 DEF Changes
  <2>2. [s EXCEPT !.change.unreadable = @ + 1] = [s EXCEPT !.change = change]
    BY <1>8 DEF Runs
  <2>3. Unreadable(s) = Again([s EXCEPT !.change = change],
                              [s EXCEPT !.change = change].change.unreadable,
                              "PLAN_VERIFICATION_REQUIRED")
    BY <2>2 DEF Unreadable
  <2>4. change.proposal \in Replacements /\ DOMAIN plan.graph \subseteq DOMAIN change.proposal
    BY <1>2, <1>4, <1>7, <1>12, <2>1 DEF Fit, Proposed, Stage
  <2> HIDE DEF change
  <2> QED
    BY <1>10, <1>12, <2>1, <2>3, <2>4
<1>13. CASE Complete(t, Revised(s))
  <2> DEFINE change == [s.change EXCEPT !.refused = @ + 1, !.revised = @ + 1, !.proposal = NoGraph]
  <2>1. change \in Changes /\ change.by = s.change.by
    <3> DEFINE none == NoGraph
               refused == s.change.refused + 1
               revised == s.change.revised + 1
    <3>1. none \in Graphs \cup {NoGraph} /\ refused \in Nat /\ revised \in Nat
      BY <1>8 DEF Changes
    <3> HIDE DEF none, refused, revised
    <3>2. change = [s.change EXCEPT !.refused = refused, !.revised = revised, !.proposal = none]
      BY DEF none, refused, revised
    <3> HIDE DEF change
    <3> QED
      BY <1>8, <3>1, <3>2 DEF Changes
  <2>2. [s EXCEPT !.change.refused = @ + 1, !.change.revised = @ + 1, !.change.proposal = NoGraph]
          = [s EXCEPT !.change = change]
    BY <1>8 DEF Runs, Changes
  <2>3. Revised(s) = Again([s EXCEPT !.change = change],
                           [s EXCEPT !.change = change].change.revised, "DRAINING")
    BY <2>2 DEF Revised
  <2> HIDE DEF change
  <2> QED
    BY <1>10, <1>13, <2>1, <2>3
<1>14. ASSUME NEW g \in Replacements, Admissible(plan.graph, g, run, t),
              Complete(t, [s EXCEPT !.change.status = "PLAN_VERIFICATION_REQUIRED",
                                    !.change.proposal = g])
       PROVE  IInv' /\ Keeps
  <2> DEFINE change == [s.change EXCEPT !.status = "PLAN_VERIFICATION_REQUIRED", !.proposal = g]
             q == [s EXCEPT !.change = change]
  <2>1. change \in Changes /\ Usable(s, plan, change)
    BY <1>8, <1>14 DEF Changes, OpenStatus, Usable, Graphs, Admissible
  <2>2. q = [s EXCEPT !.change.status = "PLAN_VERIFICATION_REQUIRED", !.change.proposal = g]
    BY <1>8 DEF Runs, Changes
  <2> HIDE DEF change
  <2>3. Fit(q, plan) /\ Active(q) = Active(s) /\ q.version = s.version /\ q.task = s.task
    BY <1>7, <2>1, EditedFits
  <2>4. Complete(t, q)
    BY <1>14, <2>2
  <2> HIDE DEF q
  <2> QED
    BY <1>9, <2>3, <2>4
<1> QED
  BY <1>5, <1>11, <1>12, <1>13, <1>14

-----------------------------------------------------------------------------
(* Steps of the owner, the engineer and the sweep.                          *)

\* While a commit is behind, a save of the state makes its record stale and no more.
LEMMA BehindSaves ==
    ASSUME Behind, NEW s, Sound(s), DOMAIN s.task = DOMAIN run.task,
           s.held \subseteq run.held \cup DOMAIN run.task, s.version = run.version,
           s.sess = run.sess, s.begun = run.begun, s.change = run.change,
           Save(s), plan' = plan, redo' = redo, alive' = {}
    PROVE  Behind' /\ run'.version = run.version /\ Accepted(run') = Accepted(s)
<1> DEFINE marked == (redo # NoRedo)
<1>1. s \in Runs /\ run' = [s EXCEPT !.since = marked]
  BY DEF Save, Sound
<1>2. marked = TRUE
  BY DEF Behind
<1> HIDE DEF marked
<1>3. /\ run' \in Runs /\ run'.since = TRUE
      /\ run'.version = s.version /\ run'.task = s.task /\ run'.held = s.held
      /\ run'.sess = s.sess /\ run'.begun = s.begun /\ run'.change = s.change
      /\ run'.asked = s.asked
  BY <1>1, <1>2 DEF Runs
<1>4. Sound(run')
  BY <1>3, SoundSameCore
<1> QED
  BY <1>3, <1>4 DEF Behind, Accepted

\* The wake-up or the status of the run is written.
LEMMA MarkKeeps ==
    ASSUME IInv, NEW s \in Runs,
           s.version = run.version, s.judged = run.judged, s.task = run.task, s.sess = run.sess,
           s.begun = run.begun, s.change = run.change, s.asked = run.asked, s.held = run.held,
           Save(s), plan' = plan, redo' = redo, alive' = alive, pause' \in BOOLEAN,
           surprises' \in 0..MaxSurprises
    PROVE  IInv' /\ Keeps
<1>1. Accepted(s) = Accepted(run)
  BY DEF Accepted
<1>2. CASE Steady
  <2>1. Fit(s, plan) /\ Active(s) = Active(run)
    BY <1>2, SameCore, FitTyped DEF Steady
  <2>2. /\ Steady' /\ run'.version = s.version /\ Accepted(run') = Accepted(s)
        /\ Active(run') = Active(s)
    BY <1>2, <2>1, SaveSteady
  <2> QED
    BY <1>1, <2>1, <2>2 DEF IInv, Keeps
<1>3. CASE Behind
  <2>1. Sound(s)
    BY <1>3, SoundSameCore DEF Behind
  <2>2. Behind' /\ run'.version = run.version /\ Accepted(run') = Accepted(s)
    BY <1>3, <2>1, BehindSaves DEF Behind
  <2>3. alive' = {}
    BY <1>3 DEF Behind
  <2> QED
    BY <1>1, <2>2, <2>3 DEF IInv, Keeps
<1> QED
  BY <1>2, <1>3 DEF IInv

LEMMA MarksKeep ==
    ASSUME IInv, Sweep \/ WakeIdle \/ Pause
    PROVE  IInv' /\ Keeps
<1>1. run \in Runs
  BY FitTyped DEF IInv, Steady, Behind, Sound
<1>2. surprises' \in 0..MaxSurprises /\ pause' \in BOOLEAN
  <2>1. CASE Sweep \/ WakeIdle
    BY <2>1 DEF IInv, Sweep, WakeIdle
  <2>2. CASE Pause
    <3>1. pause' = TRUE /\ surprises < MaxSurprises /\ surprises' = surprises + 1
      BY <2>2 DEF Pause, Surprise
    <3>2. surprises' \in 0..MaxSurprises
      BY <3>1, PlanChangeAssumption DEF IInv
    <3> QED
      BY <3>1, <3>2, Zenon
  <2> QED
    BY <2>1, <2>2
<1>3. plan' = plan /\ redo' = redo /\ alive' = alive
  BY DEF Sweep, WakeIdle, Pause
<1>4. PICK s : /\ Save(s)
               /\ \/ s = [run EXCEPT !.wake = TRUE] \/ s = [run EXCEPT !.wake = FALSE]
                  \/ s = [run EXCEPT !.status = "PAUSED"]
  BY DEF Sweep, WakeIdle, Pause
<1>5. /\ s \in Runs
      /\ s.version = run.version /\ s.judged = run.judged /\ s.task = run.task
      /\ s.sess = run.sess /\ s.begun = run.begun /\ s.change = run.change
      /\ s.asked = run.asked /\ s.held = run.held
  BY <1>1, <1>4 DEF Runs
<1> QED
  BY <1>2, <1>3, <1>4, <1>5, MarkKeeps

\* A stopped task goes back to work.
LEMMA ReturnKeeps ==
    ASSUME IInv, NEW t \in Task, ReturnStoppedTask(t)
    PROVE  IInv' /\ Keeps
<1> DEFINE target == IF t \in run.redone THEN "IMPLEMENTED" ELSE "READY"
           map == [run.task EXCEPT ![t] = target]
<1>1. /\ run.task[t] = "BLOCKED" /\ t \in run.held
      /\ plan' = plan /\ redo' = redo /\ pause' = pause /\ alive' = alive
  BY DEF ReturnStoppedTask
<1>2. surprises' \in 0..MaxSurprises
  BY PlanChangeAssumption DEF IInv, ReturnStoppedTask, Surprise
<1>3. PICK s \in Moved(plan, run, t, target) : Save(s)
  BY DEF ReturnStoppedTask
<1>4. run \in Runs /\ plan \in Plans
  BY FitTyped DEF IInv, Steady, Behind, Sound
<1>5. target \in {"READY", "IMPLEMENTED"}
  OBVIOUS
<1> HIDE DEF target
<1>6. s = [run EXCEPT !.task = map]
  BY <1>3 DEF Moved, Over!TransitionResults
<1>7. map \in States /\ DOMAIN map = DOMAIN run.task
  BY <1>4, <1>5 DEF Runs, States, LifeState
<1>8. \A u \in DOMAIN run.task : map[u] = IF u = t THEN target ELSE run.task[u]
  BY <1>4
<1> HIDE DEF map
<1>9. /\ s \in Runs /\ s.task = map
      /\ s.version = run.version /\ s.judged = run.judged /\ s.sess = run.sess
      /\ s.begun = run.begun /\ s.change = run.change /\ s.asked = run.asked
      /\ s.held = run.held
  BY <1>4, <1>6, <1>7 DEF Runs
<1>10. Accepted(s) = Accepted(run)
  BY <1>1, <1>5, <1>7, <1>8, <1>9 DEF Accepted
<1>11. CASE Steady
  <2>1. Fit(run, plan) /\ t \in DOMAIN run.task /\ run.sess[t] = "none"
    BY <1>1, <1>11, FitTyped DEF Steady, Fit, Sound, Agrees, Doing
  <2>2. Fit(s, plan) /\ Active(s) = Active(run)
    <3>1. target \in {"READY", "RUNNING", "BLOCKED", "IMPLEMENTED"} /\ target # "BLOCKED"
      BY <1>5
    <3> QED
      BY <1>3, <2>1, <3>1, MoveFits
  <2>3. /\ Steady' /\ run'.version = s.version /\ Accepted(run') = Accepted(s)
        /\ Active(run') = Active(s)
    BY <1>1, <1>3, <1>11, <2>2, SaveSteady
  <2> QED
    BY <1>1, <1>2, <1>9, <1>10, <2>2, <2>3 DEF IInv, Keeps
<1>12. CASE Behind
  <2>1. Active(s) = Active(run) /\ (ChangeOpen(s) <=> ChangeOpen(run))
    BY <1>9 DEF Active, ChangeOpen
  <2>2. \A u \in Task : Agrees(s, u)
    <3> SUFFICES ASSUME NEW u \in Task, s.sess[u] # "none"
                 PROVE  u \in DOMAIN s.task /\ s.task[u] \in Doing(s.sess[u])
      BY DEF Agrees
    <3>1. u \in DOMAIN run.task /\ run.task[u] \in Doing(run.sess[u])
      BY <1>9, <1>12 DEF Behind, Sound, Agrees
    <3>2. u # t
      BY <1>1, <3>1 DEF Doing
    <3> QED
      BY <1>7, <1>8, <1>9, <3>1, <3>2
  <2>3. Sound(s)
    BY <1>7, <1>9, <1>12, <2>1, <2>2 DEF Behind, Sound, Rounds, Counted
  <2>4. alive' = {}
    BY <1>1, <1>12 DEF Behind
  <2>5. Behind' /\ run'.version = run.version /\ Accepted(run') = Accepted(s)
    BY <1>1, <1>3, <1>7, <1>9, <1>12, <2>3, <2>4, BehindSaves
  <2> QED
    BY <1>1, <1>2, <1>10, <2>4, <2>5 DEF IInv, Keeps
<1> QED
  BY <1>11, <1>12 DEF IInv

\* The engineer closes tickets and the run takes one pass.
LEMMA EngineerKeeps ==
    ASSUME IInv, EngineerLeaves
    PROVE  IInv' /\ Keeps
<1>1. PICK closed \in SUBSET run.held :
      \E r \in Pass(plan, [run EXCEPT !.held = @ \ closed]) :
         /\ Save(Saved(r))
         /\ alive' = alive \cup (IF Active(r) \ Active(run) = {} THEN Stalled(r)
                                 ELSE Active(r) \ Active(run))
  BY DEF EngineerLeaves
<1> DEFINE s == [run EXCEPT !.held = @ \ closed]
<1>2. PICK r \in Pass(plan, s) :
         /\ Save(Saved(r))
         /\ alive' = alive \cup (IF Active(r) \ Active(run) = {} THEN Stalled(r)
                                 ELSE Active(r) \ Active(run))
  BY <1>1
<1>3. plan' = plan /\ redo' = redo /\ pause' = pause /\ surprises' = surprises
  BY DEF EngineerLeaves
<1>4. run \in Runs
  BY FitTyped DEF IInv, Steady, Behind, Sound
<1>5. /\ s \in Runs /\ s.held = run.held \ closed
      /\ s.version = run.version /\ s.judged = run.judged /\ s.task = run.task
      /\ s.sess = run.sess /\ s.begun = run.begun /\ s.change = run.change
      /\ s.asked = run.asked
  BY <1>4 DEF Runs
<1> DEFINE status == IF pause THEN "PAUSED" ELSE "RUN"
<1>6. status \in {"ARMED", "RUN", "PAUSED"} /\ Saved(r) = [r EXCEPT !.status = status]
  BY DEF Saved
<1> HIDE DEF s, status
<1>7. CASE Steady
  <2>1. Fit(s, plan) /\ Active(s) = Active(run)
    BY <1>5, <1>7, SameCore, FitTyped DEF Steady
  <2>2. Fit(r, plan) /\ Passed(s, r)
    BY <1>2, <2>1, PassFits
  <2>3. /\ Fit(Saved(r), plan) /\ Active(Saved(r)) = Active(r) /\ Saved(r).version = r.version
        /\ Saved(r).task = r.task
    <3>1. LET m == [r EXCEPT !.status = status] IN
          /\ Fit(m, plan) /\ Active(m) = Active(r) /\ m.version = r.version /\ m.task = r.task
      BY <1>6, <2>2, StatusFits
    <3> QED
      BY <1>6, <3>1
  <2>4. /\ Steady' /\ run'.version = Saved(r).version /\ Accepted(run') = Accepted(Saved(r))
        /\ Active(run') = Active(Saved(r))
    BY <1>2, <1>3, <1>7, <2>3, SaveSteady
  <2>5. Accepted(run') = Accepted(run) /\ run'.version = run.version
    BY <1>5, <2>2, <2>3, <2>4 DEF Accepted, Passed
  <2>6. alive' \subseteq Active(run')
    BY <1>2, <2>1, <2>2, <2>3, <2>4 DEF IInv, Passed, Stalled
  <2> QED
    BY <1>3, <2>4, <2>5, <2>6 DEF IInv, Keeps
<1>8. CASE Behind
  <2>1. Sound(s) /\ s.sess[s.change.by] = "plan_verifier"
    BY <1>5, <1>8, SoundSameCore DEF Behind
  <2>2. /\ Sound(r) /\ DOMAIN r.task = DOMAIN s.task /\ r.held \subseteq s.held \cup DOMAIN s.task
        /\ r.version = s.version /\ r.begun = s.begun /\ r.sess = s.sess /\ r.change = s.change
        /\ Accepted(r) = Accepted(s)
    BY <1>2, <2>1, PassIdles
  <2>3. Active(r) = Active(run) /\ Active(run) \subseteq run.begun
    BY <1>5, <1>8, <2>2 DEF Active, Behind, Sound, Rounds, Planning, Runs, Changes
  <2>4. alive' = {}
    BY <1>2, <1>5, <1>8, <2>2, <2>3 DEF Behind, Stalled
  <2> DEFINE q == Saved(r)
  <2>5. /\ q \in Runs /\ q.held = r.held /\ q.version = r.version /\ q.task = r.task
        /\ q.sess = r.sess /\ q.begun = r.begun /\ q.change = r.change /\ q.asked = r.asked
    BY <1>6, <2>2 DEF Runs, Sound
  <2>6. Save(q)
    BY <1>2
  <2> HIDE DEF q
  <2>7. Sound(q)
    BY <2>2, <2>5, SoundSameCore
  <2>8. Behind' /\ run'.version = run.version /\ Accepted(run') = Accepted(q)
    BY <1>3, <1>5, <1>8, <2>2, <2>4, <2>5, <2>6, <2>7, BehindSaves
  <2>9. Accepted(q) = Accepted(run)
    BY <1>5, <2>2, <2>5 DEF Accepted
  <2> QED
    BY <1>3, <2>4, <2>8, <2>9 DEF IInv, Keeps
<1> QED
  BY <1>7, <1>8 DEF IInv

-----------------------------------------------------------------------------
(* Recovery.                                                                *)

\* The plan a run is on: what recovery would make it, while it has one to make.
Current == IF redo = NoRedo THEN plan ELSE redo.toPlan

\* What a finished or recovered commit keeps.
Kept(r) ==
    /\ Accepted(r) = Accepted(run)
    /\ r.version # run.version => WorkKept(run, r, {run.change.by})

\* What recovery goes on with fits, and keeps what the run had done.
LEMMA RecoveredFits ==
    ASSUME IInv, NEW files \in Recovered
    PROVE  /\ Fit(files[2], files[1]) /\ files[1] = Current
           /\ alive \subseteq Active(files[2])
           /\ Kept(files[2])
           /\ files[2].version # run.version => files[2].begun = {}
<1>1. CASE redo = NoRedo
  <2>1. files[1] = plan /\ files[2] = run
    BY <1>1 DEF Recovered
  <2> QED
    BY <1>1, <2>1 DEF IInv, Behind, Steady, Current, Kept
<1>2. CASE redo # NoRedo
  <2> DEFINE r == [redo.toRun EXCEPT !.held = run.held]
  <2>1. ~run.since /\ files[1] = redo.toPlan /\ files[2] = r
    BY <1>2 DEF Recovered, Finished
  <2>2. /\ Fit(redo.toRun, redo.toPlan) /\ run.held \subseteq DOMAIN redo.toRun.task
        /\ alive \subseteq Active(redo.toRun)
        /\ Accepted(redo.toRun) = Accepted(run)
        /\ redo.toRun.version # run.version =>
              /\ WorkKept(run, redo.toRun, {run.change.by})
              /\ redo.toRun.begun = {}
    <3>1. CASE Steady
      <4>1. /\ Fit(run, plan) /\ redo.toPlan = plan /\ Fit(redo.toRun, plan)
            /\ run.task = redo.toRun.task /\ run.sess = redo.toRun.sess
        BY <1>2, <2>1, <3>1 DEF Steady
      <4> QED
        BY <4>1 DEF IInv, Fit, Active, Accepted
    <3>2. CASE Behind
      BY <2>1, <3>2 DEF Behind
    <3> QED
      BY <3>1, <3>2 DEF IInv
  <2>3. redo.toRun \in Runs /\ DOMAIN redo.toRun.task \subseteq Task
    BY <2>2, FitTyped
  <2>4. /\ r \in Runs /\ r.held = run.held
        /\ r.version = redo.toRun.version /\ r.judged = redo.toRun.judged
        /\ r.task = redo.toRun.task /\ r.sess = redo.toRun.sess
        /\ r.begun = redo.toRun.begun /\ r.change = redo.toRun.change
        /\ r.asked = redo.toRun.asked
    BY <2>2, <2>3 DEF Runs
  <2> HIDE DEF r
  <2>5. Fit(r, redo.toPlan) /\ Active(r) = Active(redo.toRun)
    BY <2>2, <2>4, SameCore
  <2>6. Kept(r) /\ (r.version # run.version => r.begun = {})
    BY <2>2, <2>4 DEF Kept, Accepted, WorkKept
  <2> QED
    BY <1>2, <2>1, <2>2, <2>5, <2>6 DEF Current
<1> QED
  BY <1>1, <1>2

\* A step that recovers: one plan, one state, no record left.
Recovers ==
    /\ redo' = NoRedo /\ plan' = Current
    /\ Kept(run')

\* A pass keeps what recovery kept.
LEMMA KeptOn ==
    ASSUME NEW s, Kept(s), NEW r, r.version = s.version, Accepted(r) = Accepted(s),
           WorkKept(s, r, {})
    PROVE  Kept(r)
BY DEF Kept, WorkKept

LEMMA LaunchedKeeps ==
    ASSUME IInv, Launched
    PROVE  IInv' /\ Recovers
<1>1. PICK files \in Recovered : \E r \in Pass(files[1], files[2]) :
          /\ plan' = files[1]
          /\ run' = [r EXCEPT !.status = "RUN"]
          /\ alive' = alive \cup (Active(r) \ Active(files[2]))
  BY DEF Launched
<1>2. PICK r \in Pass(files[1], files[2]) :
          /\ plan' = files[1]
          /\ run' = [r EXCEPT !.status = "RUN"]
          /\ alive' = alive \cup (Active(r) \ Active(files[2]))
  BY <1>1
<1>3. redo' = NoRedo /\ pause' = pause /\ surprises' = surprises
  BY DEF Launched
<1>4. /\ Fit(files[2], files[1]) /\ files[1] = Current
      /\ alive \subseteq Active(files[2]) /\ Kept(files[2])
  BY RecoveredFits
<1> DEFINE s == files[2]
           p == files[1]
<1> HIDE DEF s, p
<1>5. Fit(s, p) /\ r \in Pass(p, s) /\ Kept(s) /\ alive \subseteq Active(s)
  BY <1>2, <1>4 DEF s, p
<1>6. Fit(r, p) /\ Passed(s, r)
  BY <1>5, PassFits
<1> DEFINE status == "RUN"
<1>7. status \in {"ARMED", "RUN", "PAUSED"} /\ run' = [r EXCEPT !.status = status]
  BY <1>2
<1> HIDE DEF status
<1>8. /\ Fit(run', p) /\ Active(run') = Active(r) /\ run'.version = r.version
      /\ run'.task = r.task
  <2>1. LET m == [r EXCEPT !.status = status] IN
        /\ Fit(m, p) /\ Active(m) = Active(r) /\ m.version = r.version /\ m.task = r.task
    BY <1>6, <1>7, StatusFits
  <2> QED
    BY <1>7, <2>1
<1>9. Kept(r)
  BY <1>5, <1>6, KeptOn DEF Passed
<1>10. Kept(run')
  BY <1>8, <1>9 DEF Kept, Accepted, WorkKept
<1>11. plan' = p /\ p = Current /\ alive' = alive \cup (Active(r) \ Active(s))
  BY <1>2, <1>4 DEF p, s
<1>12. Steady'
  BY <1>3, <1>8, <1>11 DEF Steady
<1>13. alive' \subseteq Active(run')
  BY <1>5, <1>6, <1>8, <1>11 DEF Passed
<1> QED
  BY <1>3, <1>10, <1>11, <1>12, <1>13 DEF IInv, Recovers

LEMMA WakeKeeps ==
    ASSUME IInv, Wake
    PROVE  IInv' /\ Recovers
<1> DEFINE Later(p, first) == IF Dead(first) = {} THEN {first}
                              ELSE Pass(p, Retired(first, Dead(first)))
           Fresh(s, first, last) == (Active(last) \ Active(s)) \cup (Active(last) \cap Dead(first))
<1>1. PICK files \in Recovered : \E first \in Pass(files[1], files[2]) :
        \E last \in Later(files[1], first) :
          /\ plan' = files[1]
          /\ run' = [last EXCEPT !.wake = FALSE,
                                 !.status = IF Fresh(files[2], first, last) = {} THEN @ ELSE "RUN"]
          /\ alive' = IF Fresh(files[2], first, last) # {} THEN Fresh(files[2], first, last)
                      ELSE Stalled(last)
  BY DEF Wake
<1>2. Fit(files[2], files[1]) /\ files[1] = Current /\ Kept(files[2])
      /\ (files[2].version # run.version => files[2].begun = {})
  BY RecoveredFits
<1> DEFINE s == files[2]
           p == files[1]
<1>3. PICK first \in Pass(p, s) : \E last \in Later(p, first) :
          /\ plan' = p
          /\ run' = [last EXCEPT !.wake = FALSE,
                                 !.status = IF Fresh(s, first, last) = {} THEN @ ELSE "RUN"]
          /\ alive' = IF Fresh(s, first, last) # {} THEN Fresh(s, first, last)
                      ELSE Stalled(last)
  BY <1>1
<1>4. PICK last \in Later(p, first) :
          /\ plan' = p
          /\ run' = [last EXCEPT !.wake = FALSE,
                                 !.status = IF Fresh(s, first, last) = {} THEN @ ELSE "RUN"]
          /\ alive' = IF Fresh(s, first, last) # {} THEN Fresh(s, first, last)
                      ELSE Stalled(last)
  BY <1>3
<1>5. Fit(s, p) /\ p = Current /\ Kept(s) /\ (s.version # run.version => s.begun = {})
  BY <1>2
<1> HIDE DEF s, p
<1>6. redo' = NoRedo /\ pause' = pause /\ surprises' = surprises
  BY DEF Wake
<1>7. Fit(first, p) /\ Passed(s, first)
  BY <1>5, PassFits
<1>8. Kept(first)
  BY <1>5, <1>7, KeptOn DEF Passed
<1>9. Fit(last, p) /\ Kept(last)
  <2>1. CASE Dead(first) = {}
    BY <1>4, <1>7, <1>8, <2>1
  <2>2. CASE Dead(first) # {}
    <3> DEFINE T == Dead(first)
               q == Retired(first, T)
    <3>1. T \in SUBSET Active(first)
      BY <1>7 DEF Fit, Sound, Dead
    <3>2. last \in Pass(p, q)
      BY <1>4, <2>2
    <3>3. first.version = run.version
      BY <1>5, <1>7, <2>2 DEF Passed, Dead
    <3> HIDE DEF T
    <3>4. Fit(q, p) /\ Accepted(q) = Accepted(first) /\ q.version = first.version
      BY <1>7, <3>1, RetiredFits
    <3> HIDE DEF q
    <3>5. Fit(last, p) /\ Passed(q, last)
      BY <3>2, <3>4, PassFits
    <3> QED
      BY <1>8, <3>3, <3>4, <3>5 DEF Kept, Passed
  <2> QED
    BY <2>1, <2>2
<1>10. alive' \subseteq Active(last)
  BY <1>4 DEF Stalled
<1> DEFINE status == IF Fresh(s, first, last) = {} THEN last.status ELSE "RUN"
<1>11. last \in Runs /\ last.held \subseteq DOMAIN last.task
  BY <1>9, FitTyped
<1>12. run' = [last EXCEPT !.wake = FALSE, !.status = status]
  BY <1>4
<1>13. status \in {"ARMED", "RUN", "PAUSED"}
  BY <1>11 DEF Runs
<1> HIDE DEF status
<1>14. /\ run' \in Runs
       /\ run'.version = last.version /\ run'.judged = last.judged /\ run'.task = last.task
       /\ run'.sess = last.sess /\ run'.begun = last.begun /\ run'.change = last.change
       /\ run'.asked = last.asked /\ run'.held = last.held
  BY <1>11, <1>12, <1>13 DEF Runs
<1>15. Fit(run', p) /\ Active(run') = Active(last)
  BY <1>9, <1>11, <1>14, SameCore
<1>16. Kept(run')
  BY <1>9, <1>14 DEF Kept, Accepted, WorkKept
<1>17. Steady' /\ plan' = p
  BY <1>4, <1>6, <1>15 DEF Steady
<1> QED
  BY <1>5, <1>6, <1>10, <1>15, <1>16, <1>17 DEF IInv, Recovers

LEMMA ResumeKeeps ==
    ASSUME IInv, Resume
    PROVE  IInv' /\ (Keeps \/ Recovers)
<1>1. pause' = FALSE /\ alive' = alive /\ surprises' = surprises
  BY DEF Resume
<1>2. CASE plan' = plan /\ run' = run /\ redo' = redo
  <2>1. (Steady \/ Behind)' /\ Active(run') = Active(run)
    BY <1>1, <1>2 DEF IInv, Steady, Behind
  <2>2. Keeps
    BY <1>2 DEF Keeps
  <2> QED
    BY <1>1, <2>1, <2>2 DEF IInv
<1> DEFINE observable == run.begun # {}
           mark == ~observable /\ redo # NoRedo
<1>3. ASSUME NEW f \in IF observable THEN Recovered ELSE {<<plan, run>>},
             plan' = f[1],
             run' = [Retired(f[2], Dead(f[2])) EXCEPT !.status = "ARMED", !.since = mark],
             redo' = IF observable THEN NoRedo ELSE redo
      PROVE  IInv' /\ (Keeps \/ Recovers)
  <2> DEFINE s == f[2]
             p == f[1]
  <2>1. /\ Fit(s, p) /\ alive \subseteq Active(s) /\ Kept(s)
        /\ s.version # run.version => s.begun = {}
        /\ observable => p = Current
    <3>1. CASE observable
      BY <1>3, <3>1, RecoveredFits
    <3>2. CASE ~observable
      BY <1>3, <3>2 DEF IInv, Behind, Steady, Kept
    <3> QED
      BY <3>1, <3>2
  <2>2. plan' = p /\ run' = [Retired(s, Dead(s)) EXCEPT !.status = "ARMED", !.since = mark]
    BY <1>3
  <2>3. ~observable => s = run /\ p = plan
    BY <1>3
  <2> HIDE DEF s, p
  <2> DEFINE T == Dead(s)
             q == Retired(s, T)
  <2>4. T \in SUBSET Active(s) /\ T \cap alive = {}
    BY <2>1 DEF Fit, Sound, Dead
  <2>5. s.begun = {} => T = {}
    BY DEF Dead
  <2>6. run' = [q EXCEPT !.status = "ARMED", !.since = mark]
    BY <2>2
  <2> HIDE DEF T
  <2>7. /\ Fit(q, p) /\ Active(q) = Active(s) \ T /\ Accepted(q) = Accepted(s)
        /\ q.version = s.version /\ DOMAIN q.task = DOMAIN s.task
    BY <2>1, <2>4, RetiredFits
  <2>8. T = {} => \A t \in DOMAIN s.task : q.task[t] = s.task[t]
    BY <2>1, FitTyped DEF Retired, Runs
  <2> HIDE DEF q
  <2>9. Kept(q)
    BY <2>1, <2>5, <2>7, <2>8 DEF Kept, WorkKept
  <2>10. q \in Runs /\ q.held \subseteq DOMAIN q.task /\ mark \in BOOLEAN
    BY <2>7, FitTyped
  <2>11. mark <=> (~observable /\ redo # NoRedo)
    OBVIOUS
  <2> HIDE DEF mark
  <2>12. /\ run' \in Runs /\ run'.since = mark
         /\ run'.version = q.version /\ run'.judged = q.judged /\ run'.task = q.task
         /\ run'.sess = q.sess /\ run'.begun = q.begun /\ run'.change = q.change
         /\ run'.asked = q.asked /\ run'.held = q.held
    BY <2>6, <2>10 DEF Runs
  <2>13. Fit(run', p) /\ Active(run') = Active(q)
    BY <2>7, <2>10, <2>12, SameCore
  <2>14. Kept(run')
    BY <2>9, <2>12 DEF Kept, Accepted, WorkKept
  <2>15. alive' \subseteq Active(run')
    BY <1>1, <2>1, <2>4, <2>7, <2>13
  <2>16. CASE observable
    <3>1. Steady'
      BY <1>3, <2>2, <2>13, <2>16 DEF Steady
    <3> QED
      BY <1>1, <1>3, <2>1, <2>2, <2>14, <2>15, <2>16, <3>1 DEF IInv, Recovers
  <2>17. CASE ~observable
    <3>1. Steady
      BY <2>17 DEF IInv, Behind
    <3>2. Steady'
      BY <1>3, <2>2, <2>3, <2>11, <2>12, <2>13, <2>17, <3>1 DEF Steady
    <3>3. Keeps
      BY <1>3, <2>2, <2>3, <2>7, <2>12, <2>14, <2>17 DEF Keeps, Kept
    <3> QED
      BY <1>1, <2>15, <3>2, <3>3 DEF IInv
  <2> QED
    BY <2>16, <2>17
<1> QED
  BY <1>2, <1>3 DEF Resume

-----------------------------------------------------------------------------
(* The commit.                                                              *)

Early == {"WAITING", "READY", "BLOCKED", "CANCELLED"}

\* What a change resets is new, or the requester, or has not begun: a task past its gate
\* builds on accepted work alone, and of a task at work only the lead may change.
LEMMA AffectedIsEarly ==
    ASSUME NEW old \in Graphs, NEW new \in Graphs, NEW s, NEW t \in DOMAIN old,
           DOMAIN old \subseteq DOMAIN new, DOMAIN s.task = DOMAIN old,
           Sure(old, s.task), s.task[t] = "RUNNING", Conflict(old, new, s, t) = {},
           NEW u \in Affected(old, new, s, t), u \in DOMAIN old
    PROVE  u = t \/ s.task[u] \in Early
<1> DEFINE C == {v \in DOMAIN new : v \in DOMAIN old => v = t \/ s.task[v] \in Early}
           S == {t} \cup {v \in Differing(old, new) : ~TakesItsLead(old, new, s, t, v)}
<1>1. \A v \in Differing(old, new) :
        /\ v \in DOMAIN old /\ s.task[v] # "VERIFIED"
        /\ TakesItsLead(old, new, s, t, v) \/ v = t \/ s.task[v] \in Early
  BY DEF Conflict, Differing, Early
<1>2. S \subseteq C
  BY <1>1
<1>3. ASSUME NEW v \in DOMAIN new, new[v].after \cap C # {}, v \notin C
      PROVE  FALSE
  <2>1. v \in DOMAIN old /\ v # t /\ s.task[v] \notin Early
    BY <1>3
  <2>2. old[v].after = new[v].after
    <3>1. CASE v \notin Differing(old, new)
      BY <2>1, <3>1 DEF Differing
    <3>2. CASE v \in Differing(old, new)
      <4>1. [old[v] EXCEPT !.lead = new[v].lead] = new[v]
        BY <1>1, <2>1, <3>2 DEF TakesItsLead, LeadOnly
      <4>2. DOMAIN old[v] = {"after", "work", "lead"}
        BY <2>1, PlanChangeAssumption DEF Graphs, IsGraph
      <4>3. [old[v] EXCEPT !.lead = new[v].lead].after = old[v].after
        BY <4>2
      <4> QED
        BY <4>1, <4>3
    <3> QED
      BY <3>1, <3>2
  <2>3. PICK d \in old[v].after : d \in C
    BY <1>3, <2>2
  <2>4. d \in DOMAIN old
    BY <2>1, Shape
  <2>5. s.task[d] = "VERIFIED"
    BY <2>1 DEF Sure, Early, Ungated
  <2> QED
    BY <2>3, <2>4, <2>5 DEF Early
<1>4. u \in DOMAIN new /\ (S \subseteq C /\ (\A v \in DOMAIN new : new[v].after \cap C # {} => v \in C) => u \in C)
  <2>1. C \in SUBSET DOMAIN new
    OBVIOUS
  <2>2. Affected(old, new, s, t) = Downstream(new, S)
    BY DEF Affected
  <2> HIDE DEF C, S
  <2> QED
    BY <2>1, <2>2 DEF Downstream
<1>5. \A v \in DOMAIN new : new[v].after \cap C # {} => v \in C
  BY <1>3
<1> QED
  BY <1>2, <1>4, <1>5

\* The task states under the new graph: what was accepted stays so, what was done stays
\* done, but for the requester.
LEMMA ReconciledKeeps ==
    ASSUME NEW old \in Graphs, NEW new \in Graphs, NEW s, NEW t \in DOMAIN old,
           DOMAIN old \subseteq DOMAIN new, s.task \in [DOMAIN old -> LifeState],
           Sure(old, s.task), s.task[t] = "RUNNING", Conflict(old, new, s, t) = {},
           NEW states \in Reconciled(old, new, s, t)
    PROVE  /\ states \in [DOMAIN new -> LifeState] /\ Sure(new, states)
           /\ \A u \in DOMAIN new :
                 states[u] = "VERIFIED" <=> u \in DOMAIN old /\ s.task[u] = "VERIFIED"
           /\ \A u \in DOMAIN old \ {t} : s.task[u] \in Produced => states[u] \in Produced
           /\ \A u \in DOMAIN old : s.task[u] = "VERIFIED" => new[u] = old[u]
<1> DEFINE reset == Affected(old, new, s, t) \cup (DOMAIN new \ DOMAIN old)
           base == [u \in DOMAIN new |-> IF u \in reset THEN "WAITING" ELSE s.task[u]]
<1>1. /\ states = Over(new)!ReconcileReady(base)
      /\ Over(new)!ValidTaskStates(Over(new)!ReconcileReady(base))
  BY DEF Reconciled
<1>2. \A u \in DOMAIN old : u \in reset => u = t \/ s.task[u] \in Early
  BY AffectedIsEarly
<1>3. \A u \in DOMAIN new : u \notin reset => u \in DOMAIN old
  OBVIOUS
<1> HIDE DEF reset
<1>4. base \in [DOMAIN new -> LifeState]
  BY <1>3 DEF LifeState
<1>5. \A u \in DOMAIN new : base[u] = IF u \in reset THEN "WAITING" ELSE s.task[u]
  OBVIOUS
<1> HIDE DEF base
<1>6. /\ states \in [DOMAIN new -> LifeState]
      /\ \A u \in DOMAIN new : states[u] = base[u] \/ (base[u] = "WAITING" /\ states[u] = "READY")
  BY <1>1, <1>4, ReadyMeans
<1>7. Sure(new, states)
  BY <1>1, SureIsValid
<1>8. \A u \in DOMAIN new :
         states[u] = "VERIFIED" <=> u \in DOMAIN old /\ s.task[u] = "VERIFIED"
  BY <1>2, <1>3, <1>5, <1>6 DEF Early
<1>9. \A u \in DOMAIN old \ {t} : s.task[u] \in Produced => states[u] \in Produced
  BY <1>2, <1>5, <1>6 DEF Early, Produced
<1>10. \A u \in DOMAIN old : s.task[u] = "VERIFIED" => new[u] = old[u]
  BY DEF Conflict, Differing
<1> QED
  BY <1>6, <1>7, <1>8, <1>9, <1>10

\* The state a commit writes fits the plan it writes, keeps what was accepted and done,
\* and has no turn in it that began.
LEMMA TargetFits ==
    ASSUME IInv, NEW t \in Task, Accepting(t), NEW r \in Targets(t)
    PROVE  /\ Steady /\ run.change.by = t /\ Active(run) = {t} /\ t \in run.begun
           /\ run.sess[t] = "plan_verifier"
           /\ NextPlan.version = plan.version + 1
           /\ DOMAIN plan.graph \subseteq DOMAIN NextPlan.graph
           /\ \A u \in Accepted(run) : NextPlan.graph[u] = plan.graph[u]
           /\ Fit(r, NextPlan) /\ r.begun = {}
           /\ DOMAIN run.task \subseteq DOMAIN r.task
           /\ Accepted(r) = Accepted(run)
           /\ WorkKept(run, r, {run.change.by})
<1> DEFINE old == plan.graph
           new == run.change.proposal
<1>1. Ongoing(t) /\ run.sess[t] = "plan_verifier" /\ run.change.by = t
      /\ Conflict(old, new, run, t) = {}
  BY DEF Accepting, Planned
<1>2. Steady /\ Fit(run, plan)
  BY <1>1, OngoingSteady
<1>3. /\ run \in Runs /\ plan \in Plans /\ old \in Graphs /\ DOMAIN run.task = DOMAIN old
      /\ run.task \in [DOMAIN old -> LifeState] /\ Sure(old, run.task)
      /\ run.held \subseteq DOMAIN run.task /\ run.version = plan.version
  BY <1>2, FitTyped DEF Fit
<1>4. /\ Active(run) = {t} /\ run.change.status = "PLAN_VERIFYING" /\ t \in run.begun
      /\ run.begun \subseteq {t} /\ t \in DOMAIN old /\ run.task[t] = "RUNNING"
  BY <1>1, <1>2, <1>3
     DEF Fit, Sound, Rounds, Planning, Stage, Ongoing, Agrees, Doing
<1>5. new \in Replacements /\ DOMAIN old \subseteq DOMAIN new /\ new \in Graphs
  BY <1>2, <1>4 DEF Fit, Proposed, Graphs
<1>6. NextPlan \in Plans /\ NextPlan.version = plan.version + 1 /\ NextPlan.graph = new
  <2>1. run.version + 1 <= run.asked + 1
    BY <1>2, <1>4 DEF Fit, Sound, Counted, ChangeOpen, OpenStatus
  <2>2. plan.version \in 1..(MaxChanges + 1) /\ run.asked \in 0..MaxChanges
    BY <1>3 DEF Plans, Runs
  <2>3. plan.version + 1 \in 1..(MaxChanges + 1)
    BY <1>3, <2>1, <2>2, PlanChangeAssumption
  <2> QED
    BY <1>5, <2>3 DEF NextPlan, Plans
<1> DEFINE m(states) == [Ended(run, t) EXCEPT !.task = states, !.version = @ + 1,
                             !.judged = NextPlan, !.change.status = "APPLIED"]
<1>7. PICK states \in Reconciled(old, new, run, t) : r \in Pass(NextPlan, m(states))
  BY DEF Targets
<1>8. /\ states \in [DOMAIN new -> LifeState] /\ Sure(new, states)
      /\ \A u \in DOMAIN new :
            states[u] = "VERIFIED" <=> u \in DOMAIN old /\ run.task[u] = "VERIFIED"
      /\ \A u \in DOMAIN old \ {t} : run.task[u] \in Produced => states[u] \in Produced
      /\ \A u \in DOMAIN old : run.task[u] = "VERIFIED" => new[u] = old[u]
  BY <1>1, <1>3, <1>4, <1>5, ReconciledKeeps
<1> DEFINE next == NextPlan
           change == [run.change EXCEPT !.status = "APPLIED"]
           sess == [run.sess EXCEPT ![t] = "none"]
           begun == run.begun \ {t}
           version == run.version + 1
           s == m(states)
<1>9. change \in Changes /\ change.status = "APPLIED"
  BY <1>3 DEF Runs, Changes
<1>10. sess \in [Task -> SessionKind] /\ \A u \in Task : sess[u] = "none"
  BY <1>3, <1>4 DEF Active, Runs, SessionKind
<1>11. begun = {} /\ version = plan.version + 1 /\ version \in 1..(MaxChanges + 1)
       /\ next \in Plans /\ next.version = version /\ next.graph = new
  BY <1>3, <1>4, <1>6 DEF Plans
<1>12. s = [run EXCEPT !.task = states, !.version = version, !.judged = next,
                       !.change = change, !.sess = sess, !.begun = begun]
  BY <1>3 DEF Ended, Runs, Changes
<1>13. states \in States
  BY <1>5, <1>8 DEF States
<1>14. version = run.version + 1 /\ r \in Pass(next, s)
  BY <1>7
<1> HIDE DEF change, sess, begun, version, next, s
<1>15. /\ s \in Runs /\ s.task = states /\ s.version = version /\ s.judged = next
       /\ s.change = change /\ s.sess = sess /\ s.begun = {} /\ s.asked = run.asked
       /\ s.held = run.held
  BY <1>3, <1>9, <1>10, <1>11, <1>12, <1>13 DEF Runs
<1>16. Active(s) = {} /\ ~ChangeOpen(s)
  BY <1>9, <1>10, <1>15 DEF Active, ChangeOpen, OpenStatus
<1>17. Counted(s)
  <2>1. run.version + 1 <= run.asked + 1
    BY <1>2, <1>4 DEF Fit, Sound, Counted, ChangeOpen, OpenStatus
  <2> QED
    BY <1>3, <1>14, <1>15, <1>16, <2>1 DEF Counted, Runs
<1>18. Sound(s)
  BY <1>10, <1>15, <1>16, <1>17 DEF Sound, Agrees, Rounds, Planning
<1>19. Fit(s, next)
  BY <1>3, <1>5, <1>8, <1>9, <1>11, <1>15, <1>18 DEF Fit, Proposed
<1>20. Fit(r, next) /\ Passed(s, r)
  BY <1>14, <1>19, PassFits
<1>21. Accepted(s) = Accepted(run)
  BY <1>3, <1>5, <1>8, <1>15 DEF Accepted
<1>22. Accepted(r) = Accepted(run) /\ r.begun = {} /\ DOMAIN r.task = DOMAIN new
  BY <1>8, <1>15, <1>20, <1>21 DEF Passed
<1>23. WorkKept(run, r, {t})
  BY <1>3, <1>5, <1>8, <1>15, <1>20, <1>22 DEF Passed, WorkKept
<1>24. \A u \in Accepted(run) : NextPlan.graph[u] = plan.graph[u]
  BY <1>3, <1>6, <1>8 DEF Accepted
<1> QED
  BY <1>1, <1>2, <1>3, <1>4, <1>5, <1>6, <1>20, <1>22, <1>23, <1>24 DEF next

\* A step that amends the plan, from when its redo record is there.
Amends ==
    /\ Current'.version = Current.version + 1
    /\ DOMAIN Current.graph \subseteq DOMAIN Current'.graph
    /\ \A u \in Accepted(run) : Current'.graph[u] = Current.graph[u]
    /\ Kept(run')

\* The status is written with the state.
LEMMA SavedFits ==
    ASSUME NEW r, NEW p, Fit(r, p)
    PROVE  /\ Fit(Saved(r), p) /\ Active(Saved(r)) = Active(r) /\ Saved(r).version = r.version
           /\ Saved(r).task = r.task /\ Saved(r).begun = r.begun /\ Saved(r).held = r.held
           /\ Saved(r).sess = r.sess
<1> DEFINE status == IF pause THEN "PAUSED" ELSE "RUN"
<1>1. status \in {"ARMED", "RUN", "PAUSED"} /\ Saved(r) = [r EXCEPT !.status = status]
  BY DEF Saved
<1>2. r \in Runs
  BY FitTyped
<1> HIDE DEF status
<1>3. LET m == [r EXCEPT !.status = status] IN
      /\ Fit(m, p) /\ Active(m) = Active(r) /\ m.version = r.version /\ m.task = r.task
      /\ m.sess = r.sess /\ m.begun = r.begun
  BY <1>1, StatusFits
<1>4. [r EXCEPT !.status = status].held = r.held
  BY <1>2 DEF Runs
<1> QED
  BY <1>1, <1>3, <1>4

LEMMA AcceptKeeps ==
    ASSUME IInv, NEW t \in Task, AcceptPlan(t)
    PROVE  IInv' /\ Amends
<1>1. PICK r \in Targets(t) :
          /\ plan' = NextPlan /\ run' = Saved(r)
          /\ alive' = (alive \ {t}) \cup Spawned(t, r)
  BY DEF AcceptPlan
<1>2. Accepting(t) /\ redo' = NoRedo /\ pause' = pause /\ surprises' = surprises
  BY DEF AcceptPlan
<1>3. /\ Steady /\ run.change.by = t /\ Active(run) = {t}
      /\ NextPlan.version = plan.version + 1
      /\ DOMAIN plan.graph \subseteq DOMAIN NextPlan.graph
      /\ \A u \in Accepted(run) : NextPlan.graph[u] = plan.graph[u]
      /\ Fit(r, NextPlan) /\ Accepted(r) = Accepted(run)
      /\ WorkKept(run, r, {run.change.by})
  BY <1>2, TargetFits
<1>4. /\ Fit(Saved(r), NextPlan) /\ Active(Saved(r)) = Active(r)
      /\ Saved(r).task = r.task
  BY <1>3, SavedFits
<1>5. Steady'
  BY <1>1, <1>2, <1>4 DEF Steady
<1>6. alive' \subseteq Active(run')
  BY <1>1, <1>3, <1>4 DEF IInv, Spawned
<1>7. Kept(run')
  BY <1>1, <1>3, <1>4 DEF Kept, Accepted, WorkKept
<1>8. Current = plan /\ Current' = NextPlan
  BY <1>1, <1>2, <1>3 DEF Current, Steady
<1> QED
  BY <1>2, <1>3, <1>5, <1>6, <1>7, <1>8 DEF IInv, Amends

LEMMA CutShortKeeps ==
    ASSUME IInv, NEW t \in Task, CommitCutShort(t)
    PROVE  IInv' /\ Amends
<1>1. PICK r \in Targets(t) : \E files \in Interrupted(Saved(r)) :
          /\ redo' = Redo(Saved(r))
          /\ plan' = files[1] /\ run' = [files[2] EXCEPT !.held = r.held, !.since = FALSE]
  BY DEF CommitCutShort
<1>2. Accepting(t) /\ alive' = alive \ {t} /\ pause' = pause
  BY DEF CommitCutShort
<1>3. surprises' \in 0..MaxSurprises
  BY PlanChangeAssumption DEF IInv, CommitCutShort, Surprise
<1>4. /\ Steady /\ run.change.by = t /\ Active(run) = {t} /\ t \in run.begun
      /\ run.sess[t] = "plan_verifier"
      /\ NextPlan.version = plan.version + 1
      /\ DOMAIN plan.graph \subseteq DOMAIN NextPlan.graph
      /\ \A u \in Accepted(run) : NextPlan.graph[u] = plan.graph[u]
      /\ Fit(r, NextPlan) /\ r.begun = {}
      /\ DOMAIN run.task \subseteq DOMAIN r.task
      /\ Accepted(r) = Accepted(run)
      /\ WorkKept(run, r, {run.change.by})
  BY <1>2, TargetFits
<1> DEFINE q == Saved(r)
           next == NextPlan
<1>5. /\ Fit(q, next) /\ Active(q) = Active(r) /\ q.version = r.version
      /\ q.task = r.task /\ q.begun = {} /\ q.held = r.held
  BY <1>4, SavedFits
<1>6. PICK files \in {<<plan, run>>, <<next, run>>, <<next, q>>} :
          plan' = files[1] /\ run' = [files[2] EXCEPT !.held = r.held, !.since = FALSE]
  BY <1>1 DEF Interrupted
<1>7. redo' = [fromPlan |-> plan, toPlan |-> next, toRun |-> q]
  BY <1>1 DEF Redo
<1> HIDE DEF q, next
<1>8. /\ redo'.fromPlan = plan /\ redo'.toPlan = next /\ redo'.toRun = q /\ redo' # NoRedo
  <2>1. DOMAIN redo' = {"fromPlan", "toPlan", "toRun"}
    BY <1>7
  <2>2. DOMAIN NoRedo = {}
    BY DEF NoRedo
  <2> QED
    BY <1>7, <2>1, <2>2
<1>9. /\ run \in Runs /\ plan \in Plans /\ run.version = plan.version /\ Sound(run)
      /\ next \in Plans /\ q \in Runs /\ q.held \in SUBSET Task
      /\ r.held \subseteq DOMAIN q.task /\ DOMAIN q.task \subseteq Task
  BY <1>4, <1>5, FitTyped DEF Steady, Fit, Runs
<1>10. alive' = {}
  BY <1>2, <1>4 DEF IInv
<1>11. Current = plan /\ Current' = next
  BY <1>4, <1>8 DEF Current, Steady
<1>12. Accepted(q) = Accepted(run) /\ WorkKept(run, q, {run.change.by})
  BY <1>4, <1>5 DEF Accepted, WorkKept
<1>13. CASE files[2] = run
  <2>1. plan' \in {plan, next} /\ run' = [run EXCEPT !.held = r.held, !.since = FALSE]
    BY <1>6, <1>13
  <2>2. /\ run' \in Runs /\ run'.held = r.held /\ run'.since = FALSE
        /\ run'.version = run.version /\ run'.task = run.task /\ run'.sess = run.sess
        /\ run'.begun = run.begun /\ run'.change = run.change /\ run'.asked = run.asked
    BY <1>5, <1>9, <2>1 DEF Runs
  <2>3. Sound(run')
    BY <1>9, <2>2, SoundSameCore
  <2>4. Accepted(run') = Accepted(run)
    BY <2>2 DEF Accepted
  <2>5. Behind'
    BY <1>4, <1>5, <1>8, <1>9, <1>10, <1>12, <2>1, <2>2, <2>3, <2>4 DEF Behind, WorkKept
  <2>6. Kept(run')
    BY <2>2, <2>4 DEF Kept
  <2> QED
    BY <1>2, <1>3, <1>4, <1>10, <1>11, <2>5, <2>6 DEF IInv, Amends, next
<1>14. CASE files = <<next, q>>
  <2>1. plan' = next /\ run' = [q EXCEPT !.held = r.held, !.since = FALSE]
    BY <1>6, <1>14
  <2>2. /\ run' \in Runs /\ run'.held = q.held /\ run'.since = FALSE
        /\ run'.version = q.version /\ run'.judged = q.judged /\ run'.task = q.task
        /\ run'.sess = q.sess /\ run'.begun = q.begun /\ run'.change = q.change
        /\ run'.asked = q.asked
    BY <1>5, <1>9, <2>1 DEF Runs
  <2>3. Fit(run', next)
    BY <1>5, <1>9, <2>2, SameCore
  <2>4. Steady'
    BY <1>5, <1>8, <2>1, <2>2, <2>3 DEF Steady
  <2>5. Kept(run')
    BY <1>12, <2>2 DEF Kept, Accepted, WorkKept
  <2> QED
    BY <1>2, <1>3, <1>4, <1>10, <1>11, <2>4, <2>5 DEF IInv, Amends, next
<1> QED
  BY <1>6, <1>13, <1>14

-----------------------------------------------------------------------------
(* The theorems.                                                            *)

LEMMA InitInv ==
    ASSUME Init
    PROVE  IInv
<1> DEFINE tasks == Over(FirstGraph)!InitialTaskStates
           sess == [t \in Task |-> "none"]
           judged == [version |-> 1, graph |-> FirstGraph]
           change == NoChange
           first == "ARMED"
<1>1. tasks = [t \in DOMAIN FirstGraph |-> IF FirstGraph[t].after = {} THEN "READY" ELSE "WAITING"]
  BY DEF Over!InitialTaskStates
<1>2. FirstGraph \in Graphs
  BY DEF Graphs
<1>3. tasks \in [DOMAIN FirstGraph -> LifeState] /\ tasks \in States /\ Sure(FirstGraph, tasks)
  BY <1>1, <1>2 DEF LifeState, States, Sure, Ungated
<1>4. 1 \in 1..(MaxChanges + 1) /\ 0 \in 0..MaxChanges /\ 0 \in 0..MaxSurprises
  BY PlanChangeAssumption
<1>5. judged \in Plans /\ judged.version = 1 /\ judged.graph = FirstGraph
  BY <1>2, <1>4 DEF Plans
<1>6. sess \in [Task -> SessionKind] /\ \A t \in Task : sess[t] = "none"
  BY DEF SessionKind
<1>7. change \in Changes /\ change.status = "NONE"
  <2>1. (CHOOSE t \in Task : TRUE) \in Task
    BY Shape
  <2> DEFINE by == CHOOSE t \in Task : TRUE
             none == NoGraph
             status == "NONE"
  <2>2. by \in Task /\ none \in Graphs \cup {NoGraph}
        /\ status \in OpenStatus \cup {"NONE", "APPLIED", "REJECTED"} /\ status = "NONE"
    BY <2>1
  <2>3. change = [status |-> status, by |-> by, proposal |-> none,
                  refused |-> 0, revised |-> 0, unreadable |-> 0]
    BY DEF NoChange
  <2> HIDE DEF by, none, status, change
  <2> QED
    BY <2>2, <2>3 DEF Changes
<1>8. run = [version |-> 1, task |-> tasks, sess |-> sess, begun |-> {}, redone |-> {},
             change |-> change, asked |-> 0, judged |-> judged, wake |-> FALSE,
             since |-> FALSE, status |-> first, held |-> {}]
  BY DEF Init, InitialRun
<1>9. first \in {"ARMED", "RUN", "PAUSED"}
  OBVIOUS
<1>10. plan = judged /\ redo = NoRedo /\ pause = FALSE /\ alive = {} /\ surprises = 0
  BY DEF Init
<1> HIDE DEF tasks, sess, judged, change, first
<1>11. /\ run \in Runs /\ run.task = tasks /\ run.sess = sess /\ run.version = 1
       /\ run.begun = {} /\ run.change = change /\ run.asked = 0 /\ run.judged = judged
       /\ run.held = {}
  BY <1>3, <1>4, <1>5, <1>6, <1>7, <1>8, <1>9 DEF Runs
<1>12. Active(run) = {} /\ ~ChangeOpen(run)
  BY <1>6, <1>7, <1>11 DEF Active, ChangeOpen, OpenStatus
<1>13. Sound(run)
  BY <1>6, <1>11, <1>12 DEF Sound, Agrees, Rounds, Planning, Counted
<1>14. Fit(run, plan)
  BY <1>3, <1>5, <1>7, <1>10, <1>11, <1>13 DEF Fit, Proposed
<1> QED
  BY <1>4, <1>10, <1>12, <1>14 DEF IInv, Steady

\* Every step keeps the plan, recovers one, or amends it.
LEMMA NextInv ==
    ASSUME IInv, [Next]_vars
    PROVE  IInv' /\ (Keeps \/ Recovers \/ Amends)
<1>1. CASE UNCHANGED vars
  <2>1. /\ plan' = plan /\ run' = run /\ redo' = redo /\ pause' = pause /\ alive' = alive
        /\ surprises' = surprises
    BY <1>1 DEF vars
  <2>2. (Steady \/ Behind)' /\ Active(run') = Active(run)
    BY <2>1 DEF IInv, Steady, Behind
  <2> QED
    BY <2>1, <2>2 DEF IInv, Keeps
<1>2. ASSUME NEW t \in Task, TaskStep(t)
      PROVE  IInv' /\ (Keeps \/ Recovers \/ Amends)
  <2>1. CASE Start(t) \/ Die(t)
    BY <2>1, StartKeeps
  <2>2. CASE Fail(t)
    BY <2>2, FailKeeps
  <2>3. CASE FinishWork(t) \/ FinishVerdict(t) \/ FinishStopped(t)
    BY <2>3, FinishKeeps
  <2>4. CASE FinishRequest(t) \/ RequestTooLate(t) \/ EngineerRequest(t)
    BY <2>4, RequestKeeps
  <2>5. CASE Propose(t) \/ RefuseProposal(t) \/ FinishUnreadable(t) \/ RefusePlan(t)
    BY <2>5, RoundKeeps
  <2>6. CASE AcceptPlan(t)
    BY <2>6, AcceptKeeps
  <2>7. CASE CommitCutShort(t)
    BY <2>7, CutShortKeeps
  <2>8. CASE ReturnStoppedTask(t)
    BY <2>8, ReturnKeeps
  <2> QED
    BY <1>2, <2>1, <2>2, <2>3, <2>4, <2>5, <2>6, <2>7, <2>8 DEF TaskStep, Completes
<1>3. CASE Sweep \/ WakeIdle \/ Pause
  BY <1>3, MarksKeep
<1>4. CASE Wake
  BY <1>4, WakeKeeps
<1>5. CASE Launched
  BY <1>5, LaunchedKeeps
<1>6. CASE EngineerLeaves
  BY <1>6, EngineerKeeps
<1>7. CASE Resume
  BY <1>7, ResumeKeeps
<1> QED
  BY <1>1, <1>2, <1>3, <1>4, <1>5, <1>6, <1>7 DEF Next

LEMMA InvAlways == Spec => []IInv
<1>1. Init => IInv
  BY InitInv
<1>2. IInv /\ [Next]_vars => IInv'
  BY NextInv
<1> QED
  BY <1>1, <1>2, PTL DEF Spec

\* For every plan, replacement and number of changes and crashes: while no commit is
\* open plan.json and run-state.json are of one version, and the graph the run is on is
\* the one that was judged, with task states that fit it; while one is open the state is
\* never ahead of the plan, and what recovery would write fits together
\* (commit_plan_change, recover_plan_change_transaction).
THEOREM OneVersionAlways == Spec => []OneVersion
<1>1. IInv => OneVersion
  <2> SUFFICES ASSUME IInv PROVE OneVersion
    OBVIOUS
  <2>1. ASSUME NEW s, NEW p, Fit(s, p) PROVE Belongs(s, p)
    BY <2>1, FitTyped, SureIsValid DEF Fit, Belongs
  <2>2. Sound(run) /\ plan \in Plans /\ run \in Runs
    BY DEF IInv, Steady, Behind, Fit, Sound
  <2>3. TypeOK
    <3>1. \E g \in Graphs : run.task \in [DOMAIN g -> Over(g)!TaskState]
      BY <2>2, LifeStates DEF Runs, States
    <3> QED
      BY <2>2, <3>1 DEF IInv, TypeOK, Sound, Runs, Changes
  <2>4. CASE redo = NoRedo
    BY <2>1, <2>3, <2>4 DEF IInv, Behind, Steady, OneVersion
  <2>5. CASE redo # NoRedo
    <3>1. Fit(redo.toRun, redo.toPlan)
      BY <2>5 DEF IInv, Behind, Steady
    <3>2. plan \in {redo.fromPlan, redo.toPlan} /\ run.version \in {redo.fromPlan.version, plan.version}
      BY <2>5 DEF IInv, Behind, Steady, Fit
    <3> QED
      BY <2>1, <2>3, <2>5, <3>1, <3>2 DEF OneVersion
  <2> QED
    BY <2>4, <2>5
<1> QED
  BY <1>1, InvAlways, PTL

\* However a change is committed, cut short and recovered, a task other than the one that
\* asked for it never loses work that was done (reconcile_plan_change_state,
\* recover_plan_change_transaction).
THEOREM DoneWorkSurvivesAlways == Spec => DoneWorkSurvives
<1> DEFINE Survives == run'.version # run.version =>
        \A t \in DOMAIN run.task \ {run.change.by} :
            run.task[t] \in Produced => run'.task[t] \in Produced
<1>1. IInv /\ [Next]_vars => [Survives]_vars
  BY NextInv DEF Keeps, Recovers, Amends, Kept, WorkKept
<1>2. IInv /\ [Next]_vars => IInv'
  BY NextInv
<1>3. Init => IInv
  BY InitInv
<1> QED
  BY <1>1, <1>2, <1>3, PTL DEF Spec, DoneWorkSurvives

\* The plan files, with all their rounds, crashes and recoveries, implement the ledger of
\* PlanLedger: from the moment its redo record is written a commit is an amendment, which
\* takes no task away and rewrites none that was accepted, and recovery adds nothing.
THEOREM Implements == Spec => LedgerSpec
<1>1. Init => Ledger!Init
  <2> SUFFICES ASSUME Init PROVE Ledger!Init
    OBVIOUS
  <2>1. redo = NoRedo /\ plan.version = 1 /\ run.task = Over(FirstGraph)!InitialTaskStates
    BY DEF Init, InitialRun
  <2>2. \A t \in DOMAIN run.task : run.task[t] # "VERIFIED"
    BY <2>1 DEF Over!InitialTaskStates
  <2> QED
    BY <2>1, <2>2 DEF Ledger!Init
<1>2. IInv /\ [Next]_vars => [Ledger!Next]_(Ledger!vars)
  <2> SUFFICES ASSUME IInv, [Next]_vars
               PROVE  Ledger!Next \/ UNCHANGED Ledger!vars
    OBVIOUS
  <2> DEFINE version == IF redo = NoRedo THEN plan.version ELSE redo.toPlan.version
             graph == IF redo = NoRedo THEN plan.graph ELSE redo.toPlan.graph
             accepted == {t \in DOMAIN run.task : run.task[t] = "VERIFIED"}
  <2>1. version = Current.version /\ graph = Current.graph /\ accepted = Accepted(run)
    BY DEF Current, Accepted
  <2>2. version' = Current'.version /\ graph' = Current'.graph /\ accepted' = Accepted(run')
    BY DEF Current, Accepted
  <2>3. (accepted' = accepted /\ version' = version /\ graph' = graph) => UNCHANGED Ledger!vars
    BY DEF Ledger!vars
  <2>4. /\ version' = version /\ graph' = graph
        /\ \E t \in DOMAIN graph \ accepted : accepted' = accepted \cup {t}
        => Ledger!Next
    BY DEF Ledger!Next, Ledger!Accept
  <2>5. /\ version' = version + 1 /\ DOMAIN graph \subseteq DOMAIN graph'
        /\ \A t \in accepted : graph'[t] = graph[t]
        /\ accepted' = accepted
        => Ledger!Next
    BY DEF Ledger!Next, Ledger!Amend
  <2> HIDE DEF version, graph, accepted
  <2>6. CASE Keeps
    <3>1. Current' = Current
      BY <2>6 DEF Keeps, Current
    <3>2. Steady => DOMAIN run.task = DOMAIN Current.graph
      BY FitTyped DEF Steady, Current
    <3> QED
      BY <2>1, <2>2, <2>3, <2>4, <2>6, <3>1, <3>2 DEF Keeps
  <2>7. CASE Recovers
    <3>1. Current' = Current
      BY <2>7 DEF Recovers, Current
    <3> QED
      BY <2>1, <2>2, <2>3, <2>7, <3>1 DEF Recovers, Kept
  <2>8. CASE Amends
    BY <2>1, <2>2, <2>5, <2>8 DEF Amends, Kept
  <2> QED
    BY <2>6, <2>7, <2>8, NextInv
<1>3. IInv /\ [Next]_vars => IInv'
  BY NextInv
<1>4. Init => IInv
  BY InitInv
<1> QED
  BY <1>1, <1>2, <1>3, <1>4, PTL DEF Spec, LedgerSpec, Ledger!Spec
=============================================================================
