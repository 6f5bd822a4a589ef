----------------------------- MODULE PlanChange -----------------------------
(***************************************************************************)
(* Changing the plan of a run under way (resilience,                       *)
(* plan_change_reservation, plan_verification_lifecycle, plan_admission,   *)
(* lifecycle_completion, engineer_stop_actions).  A worker, or the on-call *)
(* engineer for a stopped task, asks for a change; the run drains; a       *)
(* replanner proposes a replacement graph; a plan verifier judges it; and  *)
(* the plan file and run-state.json are replaced one after the other, with *)
(* a redo record from which an interrupted commit is to be finished.       *)
(*                                                                         *)
(* Frontier has the life of one session in detail; here a session is       *)
(* reserved, then begun, then over.                                        *)
(***************************************************************************)
EXTENDS Naturals, FiniteSets

CONSTANTS
    Task,           \* every task a plan may come to have
    FirstGraph,     \* the graph the run started with
    Replacements,   \* the graphs a replanner may return
    Limit,          \* workers at a time
    Allowance,      \* refusals a change survives, of each kind (two in the code)
    MaxChanges,     \* model bound: plan changes asked for
    MaxSurprises    \* model bound: failures, crashes, stops, decisions of people

\* A graph gives each of its tasks what it comes after, its contract and the lead
\* that judges it; none is empty (plan_admission refuses an empty plan).
IsGraph(g) ==
    /\ DOMAIN g \subseteq Task /\ DOMAIN g # {}
    /\ \A t \in DOMAIN g : /\ DOMAIN g[t] = {"after", "work", "lead"}
                           /\ g[t].after \subseteq DOMAIN g

ASSUME PlanChangeAssumption ==
    /\ IsFiniteSet(Task)
    /\ IsGraph(FirstGraph) /\ \A g \in Replacements : IsGraph(g)
    /\ Limit \in Nat \ {0} /\ Allowance \in Nat
    /\ MaxChanges \in Nat /\ MaxSurprises \in Nat

VARIABLES
    plan,       \* plan.json: its graph_version and its graph
    run,        \* run-state.json, with the tickets of the incident journal in run.held
    redo,       \* plan-change-transaction.json, while it is not COMMITTED
    pause,      \* the pause request file exists
    alive,      \* tasks whose pending session has a live dispatcher
    surprises   \* the model's own count against MaxSurprises

vars == <<plan, run, redo, pause, alive, surprises>>

\* The lifecycle of tasks, over the graph g.
Over(g) == INSTANCE TaskGraph WITH Task <- DOMAIN g, Deps <- [t \in DOMAIN g |-> g[t].after]

-----------------------------------------------------------------------------
(* The durable state.                                                       *)

Working == {"producer", "verifier"}         \* implementation and revision are one kind here
Planning == {"replanner", "plan_verifier"}

OpenStatus == {"DRAINING", "REPLANNER_RESERVED",
               "PLAN_VERIFICATION_REQUIRED", "PLAN_VERIFYING"}

NoGraph == << >>
NoChange == [status |-> "NONE", by |-> CHOOSE t \in Task : TRUE, proposal |-> NoGraph,
             refused |-> 0, revised |-> 0, unreadable |-> 0]
NoRedo == << >>

Active(s) == {t \in Task : s.sess[t] # "none"}      \* active_task_ids, and the lock holders

ChangeOpen(s) == s.change.status \in OpenStatus     \* active_plan_change_id is set

InitialRun ==
    [version |-> 1,
     task    |-> Over(FirstGraph)!InitialTaskStates,
     sess    |-> [t \in Task |-> "none"],   \* the pending session of each task
     begun   |-> {},                        \* those of them past their creation
     redone  |-> {},                        \* tasks with a revision count
     change  |-> NoChange,                  \* the last record of plan_changes
     asked   |-> 0,                         \* plan_change_sequence
     judged  |-> [version |-> 1, graph |-> FirstGraph],    \* plan_verification
     wake    |-> FALSE,                     \* wake_pid and wake_at
     since   |-> FALSE,                     \* saved since the redo record was written
     status  |-> "ARMED",
     held    |-> {}]                        \* tasks an open ticket names: another file

\* A save of run-state.json.  The redo record holds digests of the state, whose
\* journals only grow: any save that is not its own changes the digest for good.
Save(s) == run' = [s EXCEPT !.since = (redo # NoRedo)]

-----------------------------------------------------------------------------
(* A replacement graph against the run it must fit.                         *)

LeadOnly(before, after) ==
    before.lead # after.lead /\ [before EXCEPT !.lead = after.lead] = after

\* profession_leads: the tasks of a model instance are of one profession.
Leads(g) == {g[t].lead : t \in DOMAIN g} \ {"none"}

TakesItsLead(old, new, s, by, t) ==
    t # by /\ s.task[t] # "CANCELLED" /\ LeadOnly(old[t], new[t])

Differing(old, new) == {t \in DOMAIN old : old[t] # new[t]}

\* (mutated: work under way may be given another contract)
Conflict_NotAdvanced(old, new, s, by) == {}

\* The PlanChangeConflictErrors of reconcile_plan_change_state that concern the
\* graph; tasks removed and the requester gone were refused on admission.
Conflict(old, new, s, by) ==
    {t \in Differing(old, new) :
        \/ s.task[t] = "VERIFIED"
        \/ IF TakesItsLead(old, new, s, by, t)
           THEN Leads(old) # {} /\ new[t].lead \notin Leads(old)
           ELSE t # by /\ s.task[t] \notin {"WAITING", "READY", "BLOCKED"}}

\* What is reset: the rewritten tasks, the requester, and all that builds on them.
Downstream(g, S) ==
    {t \in DOMAIN g :
        \A C \in SUBSET DOMAIN g :
            S \subseteq C /\ (\A u \in DOMAIN g : g[u].after \cap C # {} => u \in C) => t \in C}

Affected(old, new, s, by) ==
    Downstream(new, {by} \cup {t \in Differing(old, new) : ~TakesItsLead(old, new, s, by, t)})

\* (mutated: every task starts again)
Reconciled_FromScratch(old, new, s, by) == {Over(new)!InitialTaskStates}

\* The rest of reconcile_plan_change_state: the task states under the new graph.
Reconciled(old, new, s, by) ==
    LET reset  == Affected(old, new, s, by) \cup (DOMAIN new \ DOMAIN old)
        states == Over(new)!ReconcileReady(
                    [t \in DOMAIN new |-> IF t \in reset THEN "WAITING" ELSE s.task[t]])
    IN  IF Over(new)!ValidTaskStates(states) THEN {states} ELSE {}

Acyclic(g) == \A S \in SUBSET DOMAIN g : S # {} => \E t \in S : g[t].after \cap S = {}

\* admit_replanner_result: an acyclic graph that keeps every task and the contract
\* of every accepted one.
Admissible(old, new, s, by) ==
    /\ Acyclic(new)
    /\ DOMAIN old \subseteq DOMAIN new
    /\ \A t \in Differing(old, new) : s.task[t] \notin {"VERIFIED", "CANCELLED"}

-----------------------------------------------------------------------------
(* The reservation pass over the plan p, _reserve_in_state.                 *)

Moved(p, s, t, state) ==
    IF DOMAIN s.task # DOMAIN p.graph THEN {}
    ELSE {[s EXCEPT !.task = states] :
            states \in Over(p.graph)!TransitionResults(s.task, t, state)}

Ended(s, t) == [s EXCEPT !.sess[t] = "none", !.begun = @ \ {t}]

Stopped(s, t) == [s EXCEPT !.held = @ \cup {t}]

\* A change is closed by a stop that holds its requester.
Closed(s) == [Stopped(s, s.change.by) EXCEPT !.change.status = "REJECTED"]

\* A round of planning is reserved on the requester, which both kinds of session
\* take from BLOCKED over READY to RUNNING.
Reserved(p, s, kind, status) ==
    LET t == s.change.by
        ready == IF s.task[t] = "BLOCKED" THEN Moved(p, s, t, "READY") ELSE {s}
    IN  UNION {{[r EXCEPT !.sess[t] = kind, !.change.status = status] :
                    r \in Moved(p, q, t, "RUNNING")} : q \in ready}

\* _reserve_replanner_in_state, _reserve_plan_verifier_in_state.  Their prompt may
\* not fit the context budget, which closes the change.
PlanningRound(p, s) ==
    LET t         == s.change.by
        verifying == s.change.status \in {"PLAN_VERIFICATION_REQUIRED", "PLAN_VERIFYING"}
        waiting   == s.task[t] = "RETRY_WAIT"
    IN  IF Active(s) # {} THEN {s}
        ELSE (IF verifying \/ ~waiting THEN {Closed(s)} ELSE {})
             \cup (IF waiting THEN {s}
                   ELSE IF s.task[t] \notin {"BLOCKED", "READY"} THEN {Stopped(s, t)}
                   ELSE IF verifying THEN Reserved(p, s, "plan_verifier", "PLAN_VERIFYING")
                   ELSE Reserved(p, s, "replanner", "REPLANNER_RESERVED"))

Takeable(s) == {t \in DOMAIN s.task : /\ s.task[t] \in {"READY", "IMPLEMENTED", "REVISION_REQUIRED"}
                                      /\ t \notin s.held /\ s.sess[t] = "none"}

Begun(state) == CASE state = "READY" -> "RUNNING"
                  [] state = "IMPLEMENTED" -> "VERIFYING"
                  [] state = "REVISION_REQUIRED" -> "REVISING"

Launch(s, S) ==
    [s EXCEPT
        !.task   = [t \in DOMAIN s.task |-> IF t \in S THEN Begun(@[t]) ELSE @[t]],
        !.sess   = [t \in Task |-> IF t \notin S THEN @[t]
                                   ELSE IF s.task[t] = "IMPLEMENTED" THEN "verifier" ELSE "producer"],
        !.redone = @ \cup {t \in S : s.task[t] = "REVISION_REQUIRED"}]

\* As many as the limit allows; Frontier has their order.
OrdinaryWork(p, s) ==
    LET ready == [s EXCEPT !.task = Over(p.graph)!ReconcileReady(@)]
        room  == IF Limit > Cardinality(Active(s)) THEN Limit - Cardinality(Active(s)) ELSE 0
        free  == Takeable(ready)
        many  == IF Cardinality(free) < room THEN Cardinality(free) ELSE room
    IN  {Launch(ready, S) : S \in {X \in SUBSET free : Cardinality(X) = many}}

\* orphan_blocked_tasks: the requester of an open change waits for it, not for a ticket.
Orphans(s) ==
    {t \in DOMAIN s.task : /\ s.task[t] = "BLOCKED" /\ t \notin s.held
                           /\ ~(ChangeOpen(s) /\ t = s.change.by)}

\* _prepare_state and route_waiting_tickets.
Prepared(s) ==
    {[s EXCEPT !.task = [t \in DOMAIN s.task |-> IF t \in due THEN "READY" ELSE @[t]],
               !.held = @ \cup Orphans(s)] :
        due \in SUBSET {t \in DOMAIN s.task : s.task[t] = "RETRY_WAIT"}}

Done(s) == \A t \in DOMAIN s.task : s.task[t] = "VERIFIED"

\* The task states are those of the graph; the graph is the one that was judged.
Fits(p, s) == DOMAIN s.task = DOMAIN p.graph
PlanVerified(p, s) == s.judged = p

\* stop_on_unverified_plan, stop_on_mismatched_task_states: a stop of all that is
\* not accepted.
Unfit(s) == [s EXCEPT !.held = @ \cup Orphans(s) \cup {t \in DOMAIN s.task : s.task[t] # "VERIFIED"}]

Pass(p, s) ==
    IF pause \/ Done(s) THEN {s}
    ELSE IF ~Fits(p, s) THEN {Unfit(s)}
    ELSE UNION {IF ~PlanVerified(p, q) THEN {Unfit(q)}
                ELSE IF ChangeOpen(q) THEN PlanningRound(p, q) ELSE OrdinaryWork(p, q) :
                q \in Prepared(s)}

Surprise == surprises < MaxSurprises /\ surprises' = surprises + 1

-----------------------------------------------------------------------------
(* Sessions.                                                                *)

Start(t) ==
    /\ t \in alive /\ t \notin run.begun
    /\ Save([run EXCEPT !.begun = @ \cup {t}])
    /\ UNCHANGED <<plan, redo, pause, alive, surprises>>

\* A dispatcher dies, in the middle of a turn or with an exception of its handler.
Die(t) ==
    /\ t \in alive
    /\ alive' = alive \ {t}
    /\ Surprise /\ UNCHANGED <<plan, run, redo, pause>>

\* _finish_global_state.
Saved(s) == [s EXCEPT !.status = IF pause THEN "PAUSED" ELSE "RUN"]

Lost(s, t) ==
    [Ended(s, t) EXCEPT !.task[t] = IF s.sess[t] = "verifier" THEN "IMPLEMENTED" ELSE "RETRY_WAIT"]

\* record_desktop_failure, definitive.
Fail(t) ==
    /\ t \in alive
    /\ Save(Saved(Lost(run, t)))
    /\ alive' = alive \ {t}
    /\ Surprise /\ UNCHANGED <<plan, redo, pause>>

\* A completion of t's session leaves s, and one pass; the dispatcher is over and
\* those of the sessions it reserved begin.  A ticket is filed before the state
\* is saved.
Ongoing(t) == t \in alive /\ t \in run.begun

Spawned(t, s) == {u \in Active(s) : u = t \/ run.sess[u] = "none"}

Complete(t, s) ==
    /\ \E r \in Pass(plan, s) : Save(Saved(r)) /\ alive' = (alive \ {t}) \cup Spawned(t, r)
    /\ UNCHANGED <<plan, redo, pause>>

FinishWork(t) ==
    /\ Ongoing(t) /\ run.sess[t] = "producer"
    /\ \E s \in Moved(plan, Ended(run, t), t, "IMPLEMENTED") : Complete(t, s)
    /\ UNCHANGED surprises

FinishVerdict(t) ==
    /\ Ongoing(t) /\ run.sess[t] = "verifier"
    /\ \/ \E s \in Moved(plan, Ended(run, t), t, "VERIFIED") :
            Complete(t, s) /\ UNCHANGED surprises
       \/ \E s \in Moved(plan, Ended(run, t), t, "REVISION_REQUIRED") : Complete(t, s) /\ Surprise

FinishStopped(t) ==
    /\ Ongoing(t) /\ run.sess[t] = "producer"
    /\ \E s \in Moved(plan, Ended(run, t), t, "BLOCKED") : Complete(t, Stopped(s, t))
    /\ Surprise

-----------------------------------------------------------------------------
(* Asking for a change.                                                     *)

\* register_plan_change_request.
Registered(s, t) ==
    [s EXCEPT !.asked = @ + 1, !.change = [NoChange EXCEPT !.status = "DRAINING", !.by = t]]

FinishRequest(t) ==
    /\ Ongoing(t) /\ run.sess[t] = "producer" /\ ~ChangeOpen(run) /\ run.asked < MaxChanges
    /\ \E s \in Moved(plan, Ended(run, t), t, "BLOCKED") : Complete(t, Registered(s, t))
    /\ UNCHANGED surprises

\* A second request while a change is open is a PlanChangeConflictError that the
\* dispatcher does not catch: it dies of it and the turn is not retired.
RequestTooLate(t) ==
    /\ Ongoing(t) /\ run.sess[t] = "producer" /\ ChangeOpen(run)
    /\ alive' = alive \ {t}
    /\ Surprise /\ UNCHANGED <<plan, run, redo, pause>>

\* request_plan_change: the engineer asks for a task its ticket holds.
EngineerRequest(t) ==
    /\ t \in run.held /\ t \notin Active(run) /\ ~ChangeOpen(run) /\ run.asked < MaxChanges
    /\ \E s \in IF run.task[t] = "BLOCKED" THEN {run} ELSE Moved(plan, run, t, "BLOCKED") :
          Save(Registered(s, t))
    /\ Surprise /\ UNCHANGED <<plan, redo, pause, alive>>

-----------------------------------------------------------------------------
(* The rounds of planning.                                                  *)

Planned(t, kind) == Ongoing(t) /\ run.sess[t] = kind /\ run.change.by = t

\* _complete_replanner, an admissible graph.
Propose(t) ==
    /\ Planned(t, "replanner")
    /\ \E g \in Replacements : \E s \in Moved(plan, Ended(run, t), t, "BLOCKED") :
          /\ Admissible(plan.graph, g, run, t)
          /\ Complete(t, [s EXCEPT !.change.status = "PLAN_VERIFICATION_REQUIRED",
                                   !.change.proposal = g])
    /\ UNCHANGED surprises

\* A round that failed: the change goes back to a stage, or is closed.
Again(s, spent, stage) == IF spent > Allowance THEN Closed(s) ELSE [s EXCEPT !.change.status = stage]

\* (mutated: a refused graph costs nothing)
Refused_Free(s) == Again(s, 0, "DRAINING")

\* _reject_replanner_result: rejections also holds what plan verifiers refused.
Refused(s) ==
    LET counted == [s EXCEPT !.change.refused = @ + 1]
    IN  Again(counted, counted.change.refused, "DRAINING")

RefuseProposal(t) ==
    /\ Planned(t, "replanner")
    /\ \E s \in Moved(plan, Ended(run, t), t, "BLOCKED") : Complete(t, Refused(s))
    /\ UNCHANGED surprises

\* reject_plan_verifier_result.
Unreadable(s) ==
    LET counted == [s EXCEPT !.change.unreadable = @ + 1]
    IN  Again(counted, counted.change.unreadable, "PLAN_VERIFICATION_REQUIRED")

FinishUnreadable(t) ==
    /\ Planned(t, "plan_verifier")
    /\ \E s \in Moved(plan, Ended(run, t), t, "BLOCKED") : Complete(t, Unreadable(s))
    /\ UNCHANGED surprises

\* complete_plan_verifier: REVISE, or a PASS the run no longer fits (Conflict).
Revised(s) ==
    LET counted == [s EXCEPT !.change.refused = @ + 1, !.change.revised = @ + 1,
                             !.change.proposal = NoGraph]
    IN  Again(counted, counted.change.revised, "DRAINING")

RefusePlan(t) ==
    /\ Planned(t, "plan_verifier")
    /\ \E s \in Moved(plan, Ended(run, t), t, "BLOCKED") : Complete(t, Revised(s))
    /\ UNCHANGED surprises

\* The state complete_plan_verifier hands to commit_plan_change, after its own pass.
NextPlan == [version |-> plan.version + 1, graph |-> run.change.proposal]

Targets(t) ==
    UNION {Pass(NextPlan,
                [Ended(run, t) EXCEPT !.task = states, !.version = @ + 1, !.judged = NextPlan,
                                      !.change.status = "APPLIED"]) :
           states \in Reconciled(plan.graph, run.change.proposal, run, t)}

Accepting(t) ==
    /\ Planned(t, "plan_verifier")
    /\ Conflict(plan.graph, run.change.proposal, run, t) = {}

AcceptPlan(t) ==
    /\ Accepting(t)
    /\ \E r \in Targets(t) :
          /\ plan' = NextPlan /\ run' = Saved(r)
          /\ alive' = (alive \ {t}) \cup Spawned(t, r)
    /\ redo' = NoRedo
    /\ UNCHANGED <<pause, surprises>>

Redo(r) == [fromPlan |-> plan, toPlan |-> NextPlan, toRun |-> r]

\* (mutated: the state is saved before the plan)
Interrupted_StateFirst(r) == {<<plan, run>>, <<plan, r>>, <<NextPlan, r>>}

\* commit_plan_change cut short: after the redo record, the plan, or the state.
Interrupted(r) == {<<plan, run>>, <<NextPlan, run>>, <<NextPlan, r>>}

CommitCutShort(t) ==
    /\ Accepting(t)
    /\ \E r \in Targets(t) : \E files \in Interrupted(Saved(r)) :
          /\ redo' = Redo(Saved(r))
          /\ plan' = files[1] /\ run' = [files[2] EXCEPT !.held = r.held, !.since = FALSE]
    /\ alive' = alive \ {t}
    /\ Surprise /\ UNCHANGED pause

-----------------------------------------------------------------------------
(* Raising the run again.                                                   *)

\* What recovery, had it its way, would go on with.
Finished == <<redo.toPlan, [redo.toRun EXCEPT !.held = run.held]>>

\* (mutated: a state already written is not recognised)
Recovered_BaseOnly ==
    IF redo = NoRedo THEN {<<plan, run>>}
    ELSE IF run.since \/ run.version # redo.fromPlan.version THEN {} ELSE {Finished}

\* recover_plan_change_transaction: what its callers go on with; nothing when it
\* raises over a state that is neither the one nor the other it knows.
Recovered ==
    IF redo = NoRedo THEN {<<plan, run>>}
    ELSE IF run.since THEN {} ELSE {Finished}

Dead(s) == {t \in s.begun : t \notin alive}
Stalled(s) == {t \in Active(s) : t \notin s.begun /\ t \notin alive}

Retired(s, T) ==
    [s EXCEPT !.task  = [t \in DOMAIN s.task |-> IF t \in T THEN "RETRY_WAIT" ELSE @[t]],
              !.sess  = [t \in Task |-> IF t \in T THEN "none" ELSE @[t]],
              !.begun = @ \ T]

\* is_stranded: nobody is at work, and somebody was or should be.
Stranded(s) ==
    /\ s.status # "PAUSED" /\ alive = {}
    /\ Active(s) # {} \/ (s.status = "RUN" /\ Takeable(s) # {})

\* due_wake_epoch: a retry has its time.
Due(s) == Stranded(s) \/ \E t \in DOMAIN s.task : s.task[t] = "RETRY_WAIT"

\* The launchd sweep, ensure_wake: it writes the wake-up into run-state.json.  An
\* open ticket may wait for the on-call engineer, which strands the run too, or for
\* the owner, which does not.
Sweep ==
    /\ ~pause /\ ~Done(run) /\ (Due(run) \/ run.held # {}) /\ ~run.wake
    /\ Save([run EXCEPT !.wake = TRUE])
    /\ UNCHANGED <<plan, redo, pause, alive, surprises>>

\* run_wake that finds the run paused, at work, or with nothing to do.
WakeIdle ==
    /\ run.wake /\ (pause \/ alive # {} \/ ~Due(run) \/ Done(run))
    /\ Save([run EXCEPT !.wake = FALSE])
    /\ UNCHANGED <<plan, redo, pause, alive, surprises>>

\* run_wake: recover, one pass, the server's word on the sessions whose dispatcher
\* died, another pass if that freed any; and dispatchers for what was
\* reserved, or else for what had been.
Wake ==
    /\ run.wake /\ ~pause /\ alive = {} /\ (Due(run) \/ run.held # {})
    /\ \E files \in Recovered : \E first \in Pass(files[1], files[2]) :
       LET over == Dead(first) IN
       \E last \in IF over = {} THEN {first} ELSE Pass(files[1], Retired(first, over)) :
       LET fresh == (Active(last) \ Active(files[2])) \cup (Active(last) \cap over) IN
          /\ plan' = files[1]
          /\ run' = [last EXCEPT !.wake = FALSE, !.status = IF fresh = {} THEN @ ELSE "RUN"]
          /\ alive' = IF fresh # {} THEN fresh ELSE Stalled(last)
    /\ redo' = NoRedo
    /\ UNCHANGED <<pause, surprises>>

\* The Stop hook of the turn the owner armed the run in.
Launched ==
    /\ run.status = "ARMED" /\ ~pause
    /\ \E files \in Recovered : \E r \in Pass(files[1], files[2]) :
          /\ plan' = files[1]
          /\ run' = [r EXCEPT !.status = "RUN"]
          /\ alive' = alive \cup (Active(r) \ Active(files[2]))
    /\ redo' = NoRedo
    /\ UNCHANGED <<pause, surprises>>

-----------------------------------------------------------------------------
(* The owner and the on-call engineer.                                      *)

\* pause_desktop_run.
Pause ==
    /\ ~pause /\ pause' = TRUE
    /\ Save([run EXCEPT !.status = "PAUSED"])
    /\ Surprise /\ UNCHANGED <<plan, redo, alive>>

\* Resume: _reconcile_before_resume recovers and settles when there is a thread to
\* ask the server about; then the run is armed.
Resume ==
    /\ pause /\ pause' = FALSE
    /\ LET observable == run.begun # {}
           files == IF observable THEN Recovered ELSE {<<plan, run>>}
       IN  IF files = {} THEN UNCHANGED <<plan, run, redo>>
           ELSE \E f \in files :
                  /\ plan' = f[1]
                  /\ run' = [Retired(f[2], Dead(f[2])) EXCEPT
                                !.status = "ARMED", !.since = ~observable /\ redo # NoRedo]
                  /\ redo' = IF observable THEN NoRedo ELSE redo
    /\ UNCHANGED <<alive, surprises>>

\* _complete_pipeline_engineer: some of the tickets are closed, and one pass; when
\* that reserves nothing, what was reserved and never begun is raised.
EngineerLeaves ==
    /\ run.held # {}
    /\ \E closed \in SUBSET run.held :
       \E r \in Pass(plan, [run EXCEPT !.held = @ \ closed]) :
       LET fresh == Active(r) \ Active(run) IN
          /\ Save(Saved(r))
          /\ alive' = alive \cup (IF fresh = {} THEN Stalled(r) ELSE fresh)
    /\ UNCHANGED <<plan, redo, pause, surprises>>

\* return_stopped_task.
ReturnStoppedTask(t) ==
    /\ t \in run.held /\ run.task[t] = "BLOCKED"
    /\ \E s \in Moved(plan, run, t, IF t \in run.redone THEN "IMPLEMENTED" ELSE "READY") : Save(s)
    /\ Surprise /\ UNCHANGED <<plan, redo, pause, alive>>

-----------------------------------------------------------------------------
Init ==
    /\ plan = [version |-> 1, graph |-> FirstGraph]
    /\ run = InitialRun
    /\ redo = NoRedo /\ pause = FALSE /\ alive = {} /\ surprises = 0

Completes(t) ==
    \/ FinishWork(t) \/ FinishVerdict(t) \/ FinishStopped(t) \/ FinishRequest(t)
    \/ RequestTooLate(t)
    \/ Propose(t) \/ RefuseProposal(t) \/ FinishUnreadable(t)
    \/ RefusePlan(t) \/ AcceptPlan(t) \/ CommitCutShort(t)

TaskStep(t) ==
    \/ Start(t) \/ Die(t) \/ Fail(t) \/ Completes(t)
    \/ EngineerRequest(t) \/ ReturnStoppedTask(t)

Next == \/ (\E t \in Task : TaskStep(t)) \/ Sweep \/ WakeIdle \/ Wake \/ Launched
        \/ EngineerLeaves \/ Pause \/ Resume

Spec == Init /\ [][Next]_vars

-----------------------------------------------------------------------------
(* Safety.                                                                  *)

Graphs == Replacements \cup {FirstGraph}
Plans == [version : 1..(MaxChanges + 1), graph : Graphs]
SessionKind == {"none"} \cup Working \cup Planning

\* Both files can be loaded by the code that wrote them.
TypeOK ==
    /\ plan \in Plans /\ run.judged \in Plans /\ run.version \in 1..(MaxChanges + 1)
    /\ \E g \in Graphs : run.task \in [DOMAIN g -> Over(g)!TaskState]
    /\ run.sess \in [Task -> SessionKind]
    /\ run.begun \subseteq Active(run) /\ alive \subseteq Active(run)
    /\ run.redone \subseteq Task /\ run.held \subseteq Task
    /\ run.asked \in 0..MaxChanges /\ run.wake \in BOOLEAN
    /\ run.status \in {"ARMED", "RUN", "PAUSED"} /\ run.since \in BOOLEAN
    /\ run.change.status \in OpenStatus \cup {"NONE", "APPLIED", "REJECTED"}
    /\ run.change.by \in Task /\ run.change.proposal \in Graphs \cup {NoGraph}
    /\ pause \in BOOLEAN /\ surprises \in 0..MaxSurprises

\* The state s is one the plan p can be worked on with.
Belongs(s, p) ==
    /\ s.version = p.version /\ s.judged = p
    /\ DOMAIN s.task = DOMAIN p.graph
    /\ Over(p.graph)!ValidTaskStates(s.task)

\* Two files, replaced one after the other: when no commit is open they are of one
\* version and the graph is the one that was judged; while one is, the state is
\* never ahead of the plan, and what recovery would write fits together.
OneVersion ==
    /\ TypeOK
    /\ IF redo = NoRedo THEN Belongs(run, plan)
       ELSE /\ Belongs(redo.toRun, redo.toPlan)
            /\ plan \in {redo.fromPlan, redo.toPlan}
            /\ run.version \in {redo.fromPlan.version, plan.version}

\* A docstring of commit_plan_change: "A crash at either file boundary leaves enough
\* validated data to finish the exact same commit on Resume".  So recovery, while a
\* commit is open, finds a state it accepts.
Recoverable == redo # NoRedo => ~run.since

-----------------------------------------------------------------------------
(* What a step may never do.                                                *)

Produced == {"IMPLEMENTED", "VERIFYING", "REVISION_REQUIRED", "REVISING", "VERIFIED"}

\* A change that is applied, or recovered, costs no task but its requester work that
\* was done: neither a rewritten contract nor a reset behind one reaches it.
DoneWorkSurvives ==
    [][run'.version # run.version =>
        \A t \in DOMAIN run.task \ {run.change.by} :
            run.task[t] \in Produced => run'.task[t] \in Produced]_vars

-----------------------------------------------------------------------------
(* The ledger this implements.  From the moment its redo record is written, *)
(* a commit counts: recovery can only go forward.                           *)

Ledger == INSTANCE PlanLedger WITH
    version  <- IF redo = NoRedo THEN plan.version ELSE redo.toPlan.version,
    graph    <- IF redo = NoRedo THEN plan.graph ELSE redo.toPlan.graph,
    accepted <- {t \in DOMAIN run.task : run.task[t] = "VERIFIED"}

\* However a change is proposed, judged, cut short and recovered, the plan's history
\* is one ledger: versions one by one, nothing accepted taken back or rewritten.
LedgerSpec == Ledger!Spec

-----------------------------------------------------------------------------
(* Liveness.  Turns end and are delivered, the sweep comes round, an armed  *)
(* run is launched.  The owner and the engineer owe nothing.                *)

\* A wake-up that finds every retry due: their times pass.
WakeLate ==
    Wake /\ Due(run) /\ \A t \in DOMAIN run.task : run.task[t] = "RETRY_WAIT" => run'.task[t] # "RETRY_WAIT"

Fairness ==
    /\ WF_vars(Sweep) /\ WF_vars(WakeIdle) /\ SF_vars(WakeLate) /\ WF_vars(Launched)
    /\ \A t \in Task : WF_vars(Start(t)) /\ WF_vars(Completes(t))

FairSpec == Spec /\ Fairness

\* A change comes to an end: its rounds are bounded, and whatever they lose is
\* raised again - unless she pauses the run, a ticket holds the requester, or an
\* interrupted commit cannot be finished.
ChangeEnds ==
    ChangeOpen(run) ~> (~ChangeOpen(run) \/ pause \/ run.change.by \in run.held
                        \/ ~Recoverable)

\* A commit that was cut short, and whose files nobody touched since, is finished,
\* unless she pauses the run or what it has left to do waits for a person.  (A
\* wake-up asked for before the crash comes to it like that; one asked for after
\* has touched run-state.json.)
CommitFinishes ==
    (redo # NoRedo) ~> (redo = NoRedo \/ ~Recoverable \/ pause \/ run.held # {})
=============================================================================
