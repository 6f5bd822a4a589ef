------------------------------ MODULE Staffing ------------------------------
\* Before a task is worked on, it is staffed and hired for: the roster must give it
\* a lead (staffing_gate), and a screening session of its own chooses the skills its
\* worker is to carry (lifecycle_screening).  Both belong to one version of the plan:
\* a change gives its tasks other leads, and what was hired for the old contract is
\* not for the new one, though its screener may still be at work.
\*
\* Every handler holds the coordinator lock and ends with a reservation pass, so a
\* step is one handler and its pass.  The tasks depend on nothing and there is room
\* for all of them: order and limits are Frontier's and Capacity's, how a change is
\* proposed, judged and written PlanChange's, the rubrics Acceptance's.
EXTENDS Leads

CONSTANTS
    Pack, Market,   \* skills of the installed catalogue, and of somebody's repository
    Starts,         \* how runs begin: [plan, settled, screening, versions]; the last
                    \* bounds the versions their graph may come to have
    NoTask

ASSUME StaffingAssumption ==
    /\ NoTask \notin Task
    /\ Starts \subseteq [plan : Plan, settled : SUBSET Task, screening : BOOLEAN,
                         versions : Nat \ {0}]

MaxScreeningAttempts == 2

Skill == Pack \cup Market
Active == {"RUNNING", "VERIFYING", "REVISING"}
TaskState == Active \cup {"READY", "IMPLEMENTED", "REVISION_REQUIRED", "BLOCKED", "VERIFIED"}
NoHire == [for |-> 0, skills |-> {}]
NoPrompt == [for |-> 0, hired |-> 0, skills |-> {}]
NoChange == [by |-> NoTask, whole |-> FALSE]

VARIABLES
    run,            \* run-state.json and the plan, saved together
    usable,         \* the packs of the catalogue that are trusted and qualified now
    standard        \* history: the leads each profession had when it was first accepted

vars == <<run, usable, standard>>

Settled(s) == {t \in Task : s.task[t] = "VERIFIED"}
Held(s) == s.roster \cup s.stopped
Whole(s) == Unstaffed(s.plan, Settled(s)) = {}

\* _stop: nothing starts before the roster is whole; once the run is under way only
\* what the roster leaves unstaffed is held.  A ticket once open is widened.
StaffingGate(s) ==
    IF Whole(s) THEN s
    ELSE LET held == IF s.started THEN Unstaffed(s.plan, Settled(s)) ELSE Task
         IN  [s EXCEPT !.roster = @ \cup (held \ Settled(s))]

\* recorded_hiring: the hire of this very contract, or none.
RecordedHiring_Stale(s, t) == s.hire[t].for # 0
RecordedHiring(s, t) == s.hire[t].for = s.version

\* A hired pack is resolved again when the prompt is built, and left out if it no longer
\* resolves (what is hired fits the prompt's budget here).
Carried(s, t) ==
    IF RecordedHiring(s, t) THEN {x \in s.hire[t].skills : x \in usable \cup Market} ELSE {}

\* The acceptor is not shown what came from outside (R18).
BuildPrompt(s, t, phase) ==
    LET shown == IF phase = "verification" THEN Carried(s, t) \ Market ELSE Carried(s, t)
    IN  [for |-> s.version, hired |-> s.hire[t].for, skills |-> shown]

\* A screener of any version of the graph is a live thread for this task.
PendingScreener_OfThisGraph(s, t) == {z \in s.screener[t] : z.for = s.version}
PendingScreener(s, t) == s.screener[t]

GivenUp_Never(s, t) == FALSE
GivenUp(s, t) == s.tried[t] >= MaxScreeningAttempts

Begun(s, t, state, phase) ==
    [s EXCEPT !.task[t] = state, !.prompt[t] = BuildPrompt(s, t, phase), !.started = TRUE]

\* The reservation of an implementation; a session that already produces the task is a
\* contradiction, and a stop.
Reserved(s, t) ==
    IF s.screener[t] # {} THEN [s EXCEPT !.stopped = @ \cup {t}]
    ELSE Begun(s, t, "RUNNING", "implementation")

Unscreened(s, t) == [s EXCEPT !.hire[t] = [for |-> s.version, skills |-> {}]]

ReserveScreening(s, t) ==
    [s EXCEPT !.screener[t] = @ \cup {[for |-> s.version, lost |-> FALSE]},
              !.tried[t] = IF @ < MaxScreeningAttempts THEN @ + 1 ELSE @]

\* screening_gate, and what the frontier does with its answer; brief: the brief of the
\* screener fits its budget.
Screened(s, t, brief) ==
    IF ~s.screening \/ RecordedHiring(s, t) THEN Reserved(s, t)
    ELSE IF PendingScreener(s, t) # {} THEN s
    ELSE IF GivenUp(s, t) \/ ~brief THEN Reserved(Unscreened(s, t), t)
    ELSE ReserveScreening(s, t)

Served(s, t, brief) ==
    IF t \in Held(s) THEN s
    ELSE CASE s.task[t] = "IMPLEMENTED"       -> Begun(s, t, "VERIFYING", "verification")
           [] s.task[t] = "REVISION_REQUIRED" -> Begun(s, t, "REVISING", "revision")
           [] s.task[t] = "READY"             -> Screened(s, t, brief)
           [] OTHER                           -> s

\* The pass: the roster first, then, unless a change drains the run, every task.
Pass(g, f) ==
    IF g.change # NoChange THEN g
    ELSE [g EXCEPT !.task     = [t \in Task |-> f[t].task[t]],
                   !.prompt   = [t \in Task |-> f[t].prompt[t]],
                   !.screener = [t \in Task |-> f[t].screener[t]],
                   !.tried    = [t \in Task |-> f[t].tried[t]],
                   !.hire     = [t \in Task |-> f[t].hire[t]],
                   !.stopped  = UNION {f[t].stopped : t \in Task},
                   !.started  = \E t \in Task : f[t].started]

After(changed) ==
    \E s \in {changed} : \E g \in {StaffingGate(s)}, brief \in BOOLEAN :
        \E f \in {[t \in Task |-> Served(g, t, brief)]} : run' = Pass(g, f)

-----------------------------------------------------------------------------
\* The screener

\* What a screener may ask for: packs of the catalogue and bundles of the market.
Requisitions == SUBSET Skill

\* A pack is hired only if it resolves now; a capability nobody has stays an unmet need.
Resolved(asked) == asked \cap usable

\* A bundle is hired only once the runtime fetched it from its pinned source, and found
\* it bounded, readable and installable.
Admitted(asked) == SUBSET (asked \cap Market)

\* complete_screening_session with a requisition that can be read.
Hire(t, z, skills) ==
    /\ z.for = run.version
    /\ After([run EXCEPT !.screener[t] = @ \ {z},
                         !.hire[t] = [for |-> z.for, skills |-> skills]])
    /\ UNCHANGED <<usable, standard>>

\* The graph moved under the screener, or its answer cannot be read: the session is
\* over, the task is not.
RefuseRequisition(t, z) ==
    /\ After([run EXCEPT !.screener[t] = @ \ {z}])
    /\ UNCHANGED <<usable, standard>>

AnswerScreening ==
    \E t \in Task : \E z \in run.screener[t] :
        /\ ~z.lost
        /\ \/ RefuseRequisition(t, z)
           \/ \E asked \in Requisitions : \E admitted \in Admitted(asked) :
                 Hire(t, z, Resolved(asked) \cup admitted)

\* A screener's turn fails, or its process does: the failure would send the task to
\* RETRY_WAIT, which a READY task cannot enter, so recording it raises, the dispatcher
\* dies with it and its ticket holds the task; nor does any reconciliation settle the
\* session afterwards.
LoseScreener ==
    \E t \in Task : \E z \in run.screener[t] :
        /\ ~z.lost
        /\ run' = [run EXCEPT !.screener[t] = (@ \ {z}) \cup {[z EXCEPT !.lost = TRUE]},
                              !.stopped = @ \cup {t}]
        /\ UNCHANGED <<usable, standard>>

-----------------------------------------------------------------------------
\* The work

Finish ==
    \E t \in Task :
        /\ run.task[t] \in {"RUNNING", "REVISING"}
        /\ \E to \in {"IMPLEMENTED"} \cup (IF run.task[t] = "RUNNING" THEN {"READY"} ELSE {}) :
              After([run EXCEPT !.task[t] = to, !.prompt[t] = NoPrompt])
        /\ UNCHANGED <<usable, standard>>

\* What the leads of a profession are from its first acceptance on.
StandardOf(plan, role) ==
    {lead \in {plan[t] : t \in Staff(role)} : CanLead(lead, role)}

Judge ==
    \E t \in Task, to \in {"VERIFIED", "REVISION_REQUIRED"} :
        /\ run.task[t] = "VERIFYING"
        /\ After([run EXCEPT !.task[t] = to, !.prompt[t] = NoPrompt])
        /\ standard' = IF to = "VERIFIED" /\ standard[RoleOf[t]] = {}
                       THEN [standard EXCEPT ![RoleOf[t]] = StandardOf(run.plan, RoleOf[t])]
                       ELSE standard
        /\ UNCHANGED usable

\* A wake-up, or a handler of something else: a pass and nothing more.
Sweep == After(run) /\ UNCHANGED <<usable, standard>>

\* A manifest is replaced, a pack demoted, or one qualified.
MoveCatalog == usable' \in SUBSET Pack /\ UNCHANGED <<run, standard>>
-----------------------------------------------------------------------------
\* Tickets and changes of the plan

\* The on-call engineer asks for a change through the ticket that holds the task, or
\* a worker asks for one with its last line.
RequestChange ==
    \E t \in Task \ Settled(run) :
        /\ run.change = NoChange /\ run.version < run.versions
        /\ run.task[t] = "RUNNING" \/ (t \in Held(run) /\ run.task[t] \notin Active)
        /\ After([run EXCEPT !.task[t] = "BLOCKED", !.prompt[t] = NoPrompt,
                             !.change = [by |-> t, whole |-> t \in run.roster]])
        /\ UNCHANGED <<usable, standard>>

\* What the admission of a replacement and its commit demand of the leads: accepted
\* tasks as they were; the tasks it changes given a lead; no profession moved; the
\* whole roster if the ticket was the roster's; and a task that is not rewritten takes
\* only a lead its profession has.
Admissible(s, next, by, whole, rewritten) ==
    LET settled == Settled(s)
        same    == {t \in Task \ rewritten : next[t] = s.plan[t]}
    IN  /\ \A t \in settled : next[t] = s.plan[t] /\ t \notin rewritten
        /\ Faulty(next, same, settled, s.plan) = {}
        /\ whole => Unstaffed(next, settled) = {}
        /\ \A t \in rewritten \ {by} : s.task[t] \in {"READY", "BLOCKED"}
        /\ \A t \in Task \ (rewritten \cup same \cup {by}) :
              \/ ProfessionLeads(s.plan, RoleOf[t]) = {}
              \/ next[t] \in ProfessionLeads(s.plan, RoleOf[t])

\* reconcile_plan_change_state: the requester and every rewritten task begin again,
\* their attempts, hires and screeners being of the version before.
ApplyChange ==
    /\ run.change # NoChange
    /\ \A t \in Task : run.task[t] \notin Active
    /\ \E next \in Plan, rewritten \in SUBSET (Task \ {run.change.by}) :
          /\ Admissible(run, next, run.change.by, run.change.whole, rewritten \cup {run.change.by})
          /\ After([run EXCEPT !.plan = next, !.version = @ + 1, !.change = NoChange,
                               !.tried = [t \in Task |-> 0],
                               !.task = [t \in Task |->
                                   IF t \in rewritten \cup {run.change.by} THEN "READY"
                                                                           ELSE run.task[t]]])
    /\ UNCHANGED <<usable, standard>>

\* Its attempts are spent: the requester waits for the owner or the on-call.
RefuseChange ==
    /\ run.change # NoChange
    /\ \A t \in Task : run.task[t] \notin Active
    /\ After([run EXCEPT !.change = NoChange, !.stopped = @ \cup {run.change.by}])
    /\ UNCHANGED <<usable, standard>>

\* A ticket is closed, and what it held goes on: not while it leaves a task BLOCKED.
CloseTicket ==
    /\ \/ run.roster # {} /\ After([run EXCEPT !.roster = {}])
       \/ \E t \in run.stopped :
             After([run EXCEPT !.stopped = @ \ {t},
                               !.task[t] = IF @ = "BLOCKED" /\ run.change.by # t THEN "READY" ELSE @])
    /\ \A t \in run.roster : run.task[t] = "BLOCKED" => run.change.by = t \/ t \in run.stopped
    /\ UNCHANGED <<usable, standard>>

-----------------------------------------------------------------------------
Init ==
    /\ \E start \in Starts :
          /\ run = [plan |-> start.plan, version |-> 1, screening |-> start.screening,
                    versions |-> start.versions,
                    task |-> [t \in Task |-> IF t \in start.settled THEN "VERIFIED" ELSE "READY"],
                    screener |-> [t \in Task |-> {}], tried |-> [t \in Task |-> 0],
                    hire |-> [t \in Task |-> NoHire], prompt |-> [t \in Task |-> NoPrompt],
                    roster |-> {}, stopped |-> {}, change |-> NoChange,
                    started |-> start.settled # {}]
          /\ standard = [role \in Role |->
                IF Accepted(start.plan, role, start.settled) = {} THEN {}
                ELSE StandardOf(start.plan, role)]
    /\ usable = Pack

Next ==
    \/ AnswerScreening \/ LoseScreener \/ Finish \/ Judge \/ Sweep \/ MoveCatalog
    \/ RequestChange \/ ApplyChange \/ RefuseChange \/ CloseTicket

Spec == Init /\ [][Next]_vars

\* A turn ends, the wake-up passes, a replanner answers or is given up on.
FairSpec ==
    /\ Spec
    /\ WF_vars(LoseScreener \/ AnswerScreening) /\ WF_vars(Finish) /\ WF_vars(Judge)
    /\ WF_vars(Sweep) /\ WF_vars(RefuseChange \/ ApplyChange)

-----------------------------------------------------------------------------
TypeOK ==
    /\ run.plan \in Plan /\ run.version \in 1..run.versions
    /\ run.task \in [Task -> TaskState]
    /\ \A t \in Task :
          /\ \A z \in run.screener[t] : z.for \in 1..run.version /\ z.lost \in BOOLEAN
          /\ run.tried[t] \in 0..MaxScreeningAttempts
          /\ run.hire[t].for \in 0..run.version /\ run.hire[t].skills \subseteq Skill
          /\ run.prompt[t] # NoPrompt <=> run.task[t] \in Active
    /\ run.roster \subseteq Task /\ run.stopped \subseteq Task
    /\ run.change.by \in Task \cup {NoTask}
    /\ usable \subseteq Pack /\ standard \in [Role -> SUBSET Role]

\* A task has one screener at a time, of whatever version, and none beside its worker:
\* each is a thread of its own at the same work.
OneScreener ==
    /\ TypeOK
    /\ \A t \in Task :
          /\ Cardinality(run.screener[t]) <= 1
          /\ run.screener[t] # {} => run.task[t] \notin Active

\* A worker carries no skill that was chosen for another contract than its own, and its
\* acceptor none that came from outside.
PromptsFit ==
    \A t \in Task :
        /\ run.prompt[t].skills # {} => run.prompt[t].hired = run.prompt[t].for
        /\ run.task[t] = "VERIFYING" => run.prompt[t].skills \cap Market = {}

\* R30: a profession whose work has been accepted keeps the leads it had then, however
\* often the plan is changed; nobody else ever judges the rest.
KeepsItsLead ==
    \A t \in Task \ Settled(run) : standard[RoleOf[t]] # {} =>
        \A lead \in LeadsOfTask(run.plan, t, Settled(run)) :
            CanLead(lead, RoleOf[t]) => lead \in standard[RoleOf[t]]

\* No run is stopped for want of a lead that no change could give it: some change of
\* some task passes the admission and leaves the roster whole.
NoDeadEnd ==
    Settled(run) # Task =>
        \E next \in Plan, by \in Task \ Settled(run) : Admissible(run, next, by, TRUE, {by})

\* Hiring ends: a task that waits for its worker gets it, with skills or without, or a
\* ticket holds it, or a change begins, or its screener was lost.
HiringEnds ==
    \A t \in Task :
        (run.task[t] = "READY")
           ~> \/ run.task[t] # "READY" \/ t \in Held(run)
              \/ \E z \in run.screener[t] : z.lost

\* docs/SKILL_SCREENING.md: "A screening session that errors, times out, or returns an
\* unreadable answer does not block the task."
HiringNeverStops == \A t \in run.stopped : \A z \in run.screener[t] : ~z.lost
=============================================================================
