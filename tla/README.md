# TLA+ models of Codex Autopilot

Codex Autopilot runs a plan - a graph of tasks - through Codex Desktop.  Each
task is given to a worker session (a Desktop thread with one turn), the result
is judged by a second, independent session, and the judgement accepts the task,
sends it back for a revision, or stops it for the on-call engineer or the owner.
There is no daemon: short-lived processes (a hook at the end of a turn, a
dispatcher that waits for one turn, a wake-up started by launchd, the owner's
Pause and Resume) each load `run-state.json` under a file lock, change it, and
replace it.  What is hard is what happens between these processes.

Sources are named relative to `src/src/codex_autopilot/` in this file.

## 1. Inventory

| component | state it keeps | operations | what makes it correct |
|---|---|---|---|
| task graph (`task_state`, `plan_graph`) | `task_states` in run-state.json | transition, validation, WAITING to READY | no task is eligible over an unaccepted dependency |
| frontier (`lifecycle_*`, `resilience`, `revision_budget`) | sessions, active tasks, revisions, hires, retry times, barrier | reserve, create thread, start turn, complete, fail, reconcile | one producer per task, accepted work was judged, nothing is lost or done twice, nothing waits for ever |
| resource locks (`resources`) | lock table and its event journal in run-state.json | acquire, release, replay | conflicting claims never held together, slots within capacity, journal and table agree |
| scheduler, budget (`scheduler`, `usage`) | none (pure) | select ready tasks under limit, claims and slots | admissible, maximal, fair by age and relevance |
| stops and incidents (`blocked_runs`, `stop_holds`, `pipeline_engineer`, `engineer_*`) | incident journal file, holds | open, route, recover, engineer turn, escalate | every stop has a ticket, a ticket holds exactly its tasks, budgets end |
| owner answers (`owner_answers`, `ladder_grants`) | answers, `user_unblocks` | answer, answer all on Resume | one answer moves the task once |
| second lead (`department_audit` and `department_*`) | `second_lead` of sessions | gate, compare | a verdict is applied to the work it judged |
| plan changes (`plan_verification*`, `plan_change_reservation`, `plan_revision_rounds`, `resilience`) | plan-change records, plan file | request, propose, verify, commit, recover | plan and state change together; workers of the old plan are not lost |
| artifact staging (`artifact_staging*`) | staged workspaces, records, snapshots | prepare, seal, verify, promote, restore | the project changes only by verified promotion, entirely or not at all |
| dispatchers (`lifecycle_dispatch`, `control`, `appserver`) | claims, pids and connections in the sessions, the processes themselves | spawn, claim, create, send, wait, complete, adopt | one turn of a reservation, its work done once, every session ends |
| wake-up, arming, launch (`wake`, `run_arming`, `launch_*`) | claims, pid files, launchd job | arm, sweep, claim, release | one owner of the wake-up; a due retry rises by itself |
| run status (`run_status`, `board`, `status`) | `status` (derived) | finish, render | what is shown is what is |
| hiring (`lifecycle_screening`, `skill_*`, `staffing`) | screening sessions, hires, the roster | screen, hire, hold what has no lead | one screener, skills of this contract only, hiring ends, the roster can be mended |
| department leads (`department_*`, `memory_verification`) | rubrics, outcomes and milestones in project memory | write, advance, attest, record, complete, back up | an acceptance is on record; a rubric's history counts 1..n |
| project memory (`memory*`) | records, evidence, conflicts (SQLite) | record, promote, supersede, dispute, resolve, correct | external text never binds; a dispute ends as it was resolved |
| runtime repair (`runtime_*`, `ladder_grants`) | staged patches, the live tree, grants | prove, stage, withdraw, install, revert | whole patches, true records, budgets that end with their patch |
| placement, control surface, prompts | Desktop settings, files of text | - | outside the concurrency of the run |

How they interact: every component that moves the run writes `run-state.json`
inside one transaction of `ResourceLockCoordinator` (a file lock); the incident
journal, the plan file, the project memory and the staged workspaces are other
files, written before or after it, and the process may die in between.  The
Desktop app server is asked over RPC outside the lock; its answers may be lost.
The Stop hook and the dispatcher may both bring the end of the same turn.

Hard behaviours: completions applied on a state read before the lock; two
deliveries of one turn; sends and creates with unknown outcome; restarts that end
turns; two files replaced one after the other; tasks that move while a ticket
holds them; counters that span attempts (revisions, rejections, verdicts); a
scheduler and a lock table that count slots differently; limits that drop.
`PROJECT.json` lists them at their lines under "hazards".

## 2. Modules

| module | models | kind |
|---|---|---|
| `TaskGraph` | `task_state.py`, readiness of `scheduler.py` | operators, no state |
| `WorkBoard` | what the frontier promises | abstract specification |
| `Frontier` | the Desktop frontier | detailed specification |
| `FrontierProofs` | theorems about `Frontier`, and that it implements `WorkBoard` | proofs |
| `Dispatch` | from a reservation to the end of its turn | detailed specification |
| `Capacity` | scheduler, worker budget, bundles and slots | detailed specification |
| `Claims` | when two resource claims conflict | pure functions over all pairs of claims |
| `Incidents` | tickets, the on-call engineer, the owner's answers | detailed specification |
| `ReservationProofs` | theorems about `Capacity`, `Claims` and `Incidents`, whose constants and variables are apart | proofs |
| `PlanLedger` | what a plan that changes promises | abstract specification |
| `PlanChange` | plan changes, their commit and recovery | detailed specification |
| `PlanChangeProofs` | theorems about `PlanChange`, and that it implements `PlanLedger` | proofs |
| `Staging` | staged workspaces and verified promotion | detailed specification |
| `StagingProofs` | theorems about `Staging` | proofs |
| `Leads` | who leads which task, and what a change may do to it | operators, no state |
| `Staffing` | roster, screening, hires, prompts | detailed specification |
| `WorkerProofs` | theorems about `Staffing` with `Leads`, and about `Dispatch`, whose constants and variables are apart | proofs |
| `Acceptance` | rubrics, verdicts, milestones and their backup | detailed specification |
| `AcceptanceProofs` | theorems about `Acceptance` | proofs |
| `Memory` | project memory | detailed specification |
| `MemoryProofs` | theorems about `Memory` | proofs |
| `Repair` | runtime patches and the budgets they grant | detailed specification |
| `RepairProofs` | theorems about `Repair` | proofs |
| `MC...` | an instance of each of them | model checking |

The run is one program and its models are several: each takes the reservation pass and
the completions as far as its own part needs them, and says in its header which module
has the rest.  `Frontier` is the middle; `Dispatch` is what it has as three
steps, `Capacity` what it has as "any admissible selection", `Incidents` what it has as
the set `held`.  No module declares a RECURSIVE operator.

### TaskGraph

The twelve lifecycle states, `TASK_TRANSITIONS` as `Successors`, the gate
(`DependenciesEligible`), `validate_transition` as `LegalTransition`,
`validate_task_states` as `ValidTaskStates`; `TransitionResults` is
`transition_task`: a set with the new map, empty where the code raises.  The
acyclicity that plan admission enforces is the assumption on `Deps`.

### Frontier

`run` is `run-state.json` (with, in `run.held`, the tasks that an open ticket of
the incident journal names).  `pause` is the pause request file.  `reading` holds
the deliveries of completions between the first look at the session
(`complete_desktop_worker` before the lock) and the transaction.  `surprises`
counts against the bound of the model and is not part of the program.

| in `run` | in the code |
|---|---|
| `task` | `task_states` |
| `active` | `active_task_ids` |
| `lock`, `slot` | `resource_locks`: the ownership token as the number of the session that holds it, and whether the bundle takes a Computer Use slot |
| `sess` | `worker_sessions` of kind implementation, revision and verifier, per task, oldest first |
| `revisions`, `hires`, `effort` | `task_revisions`, the hire count, and how many steps the effort was raised |
| `retry`, `barrier` | `task_retry_at`, `rate_limit_until`; a time is due or not |

A handler of the code is an operator from a state to the states it can leave; the
actions compose it with `Pass` where the code calls `_reserve_in_state`.  `Pass`
follows the code's order: retries and barrier (`Prepare`), orphan tickets and lost
creates (`RouteTickets`), follow-ups in declaration order with the ladder asked
before the lock (`Followups`), WAITING to READY (`ReconcileReady`), then new work
(`Scheduled`) with the tasks whose lock is refused.  `Commit` is the save: a
ticket is filed before the file is replaced, so a crash may keep the ticket only.

| action | code |
|---|---|
| `CreateThread`, `StartTurn`, `ThreadGone` | `lifecycle_dispatch` |
| `FailInDoubt`, `FailSend`, `FailForCertain` | `record_desktop_failure` and its create branches |
| `Reconcile`, `SettleDeadSessions` | `reconcile_desktop_runtime` on Resume, `_settle_dead_sessions` of the wake-up |
| `Deliver`, `Forget`, `FinishWork`, `FinishStopped`, `FinishVerdict`, `FinishUnreadable` | `complete_desktop_worker`: the look before the lock, an overtaken delivery, and what is done under the lock |
| `Reserve` | `reserve_ready_frontier` |
| `RequestPause`, `ResumeRun` | the owner |
| `CloseTicket`, `ReturnStoppedTask`, `Escalate` | the on-call engineer |
| `OwnerAnswers` | `owner_answers` |

Abstractions, and why they do not hide what the properties are about:

- `CREATE_REQUESTED` stands for itself, RESERVED and RELAYING; `PREPARED` for
  CREATED, PREPARING, PREPARED and SEND_RELAYING.  All of them are pending,
  hold the lock and are fenced alike; which process executes the relay is in `Dispatch`.
- Times are abstracted to "due or not": a pass may find any subset of the
  scheduled retries due.
- The selection of new work is any maximal admissible set; which one the
  priorities give is in `Capacity`.
- The departments of the second lead are one department; `SecondLeadEvery = 99`
  stands for none.
- A ticket is open or closed.  Its phases are in `Incidents`.
- No program path asks `record_desktop_failure` to reserve other work, so
  no pass follows a failure.
- The engineer lane and the ticket of exhausted retries (`Incidents`), screening
  sessions (`Staffing`), plan changes (`PlanChange`) and staged artifacts (`Staging`) are
  not in this module.

### WorkBoard

A board of tasks with three variables: who is accepted, for which tasks something
was produced, and the worker on each task.  A step takes workers off, accepts at
most one task that was being judged, and puts workers on work whose dependencies
are accepted, within the limit and the claims.  `Frontier!BoardSpec` maps the
run onto it.

### PlanChange

The other half of the frontier: how the plan of a run under way is replaced.  `plan`
is `plan.json`; `run` is `run-state.json` with the fields this needs; `redo` is
`plan-change-transaction.json` while it is PREPARED or PLAN_WRITTEN; `pause` is the
pause request file; `alive` the tasks whose session has a live dispatcher.

| in `run` | in the code |
|---|---|
| `version` | `graph_version` |
| `sess`, `begun` | the pending session of each task, and whether it is past its creation (then a thread can be asked about) |
| `change` | the last record of `plan_changes`; it is open when `active_plan_change_id` is set |
| `change.refused`, `.revised`, `.unreadable` | the length of `rejections`; the verdicts REVISE and RECONCILE_CONFLICT of the history; the rejections of unreadable plan verdicts |
| `judged` | the plan that the receipt in `plan_verification` is about |
| `wake` | `wake_pid` and `wake_at` |
| `since` | not in the file: it was saved after the redo record was written, so its digest is neither of the two in the record |
| `held` | tasks that an open ticket names (the incident journal) |

| action | code |
|---|---|
| `Start`, `Die`, `Fail` | a dispatcher creates, dies, records a definite failure |
| `FinishWork`, `FinishVerdict`, `FinishStopped` | ordinary completions; detail is in `Frontier` |
| `FinishRequest`, `EngineerRequest`, `RequestTooLate` | a worker's or the engineer's request for a change; a worker's second one |
| `Propose`, `RefuseProposal` | `_complete_replanner`, `_reject_replanner_result` |
| `FinishUnreadable`, `RefusePlan`, `AcceptPlan`, `CommitCutShort` | `reject_plan_verifier_result`, `complete_plan_verifier`, `commit_plan_change` in full or up to one of its writes |
| `Sweep`, `WakeIdle`, `Wake`, `Launched` | `ensure_wake`, `run_wake`, the Stop hook of the arming turn |
| `Pause`, `Resume` | the owner; Resume recovers only when there is a thread to ask about |
| `EngineerLeaves`, `ReturnStoppedTask` | the on-call engineer |

`Pass` is the reservation pass again, here with its barrier: an open change is planned
for and nothing else is reserved.  `Conflict`, `Affected` and `Reconciled` are
`reconcile_plan_change_state`; `Admissible` is what `state_issues` and the cycle check
leave of a graph.

Abstractions:

- A graph gives a task what it comes after, its contract as a number, and its lead;
  all tasks are of one profession.  Which text differs does not matter to the code.
- A wake-up is one step, settled sessions and second pass included.
- The refusals that are not counted (the graph moved, workers active, a lock held at
  commit) need a second writer of the plan or an undrained run; neither is
  reachable here.
- A request by a task that is held for its staffing, the owner's answer as a request,
  the rounds of the first plan before a run exists, and the legacy path without a
  goal contract are left out.
- A crash between ticket and save, and a read before the lock, are in `Frontier`.

### PlanLedger

Version, graph and accepted tasks; a step accepts one task or makes the next version,
which drops no task and rewrites no accepted one.  `PlanChange!LedgerSpec` maps the two
files and the redo record onto it: a commit counts from the moment its record is
written, since recovery can only go forward.

### Dispatch

A dispatcher is a process (`proc`) with one App Server connection; every transaction on
`run-state.json` is a step of its own, and between two of them any other process may run
and the dispatcher may be killed.  `server` is the App Server (external): threads, the
connections that have them loaded, their running turns.  `spawning` holds the spawners
between the save of SCHEDULED and the one that binds the child's pid.

| action | code |
|---|---|
| `Schedule`, `Popen`, `PopenFails`, `Bind` | `_spawn_automatic_descriptors`, `spawn_automatic_app_server_relay` of `control` |
| `Own`, `Gate`, `Reset`, `Create`, `Invoke`, `Acknowledge`, `Claim`, `Send`, `Sent`, `Wait` | `run_automatic_app_server_turn`, one per transaction or call |
| `Unfit`, `Fail` | refusals before and after a claim, `record_desktop_failure` |
| `Complete`, `Exit`, `Adopt`, `Die` | the completion, and what the process does next |
| `TurnCompletes`, `TurnFails`, `LoseThread`, `StopHook` | the server and the hook |
| `SettleLostCreate`, `WakeLooks`, `Reconcile`, `Resume`, `Rearm`, `Recreate` | wake-up and owner; the look at the server and the reconciliation are two steps |

`Schedule` is anybody's: a hook or a wake-up may raise a reservation that its maker is about to adopt, and
`Adopt` then overwrites the record of the first (`lifecycle_dispatch.py:1265`).  A dispatcher
waits five seconds for its spawner to name it: that a spawner at work takes longer is a surprise, that
it named it in a record overwritten since is not (`Unnamable`).  The measure of the thread's placement
is part of `Claim`, and may fail.  Two transactions do not look whether the session has gone on: the one that
forgets a lost thread (`LateReset`, `lifecycle_dispatch.py:456`) and the one that records a refused create over
a claim (`LateRefusal`, `lifecycle_failures.py:293`).  The history variable `late` collects the reservations so
written, and `OneTurnAtATime` and `WorkedOnce` speak of the others.

### Capacity and Claims

`Capacity` is one reservation pass a step: follow-ups in plan order with their bundles,
WAITING to READY, then `schedule` over the queue in the order of `_priority_key` under the
limit of `EffectiveLimit`, then the bundles of what was selected.  The percentages an
account reports are seven readings.  `Claims` compares two claims as `resources.py` does
(`ClaimsConflict`: folding of spellings, nesting, static roots and matching of globs), and
states by the files each names what the answer must be.  `MCCapacity` derives the clashes
of its tasks from their claims.

### Incidents

Two files: `journal` (the tickets, the slot of automatic recovery, the learned runbook) is
written ticket by ticket, `run` (task states, the on-call session, lost engineers) once, at
the end of a handler.  A handler is a function on `[j, cuts, r]`; `cuts` collects the
journals it wrote on its way, and a crash leaves one of them over the old `run`.

| action | code |
|---|---|
| `Stop`, `ExhaustRetries` and `FileExhausted`, `AskPermission` and `FilePermission` | `stop_worker_task`, `record_desktop_failure`, `record_approval_required`: the last two save the failure and file its ticket in two transactions |
| `Accept`, `RetryAgain`, `Die` | a worker's ordinary ends |
| `ReserveFrontier` | the pass: holds and orphans swept, waiting tickets routed, unpromptable ones handed up, lost engineers counted, an engineer reserved |
| `ReturnStoppedTask`, `ResolveIncident`, `EndResolved`, `EndEscalated`, `EndRefused`, `EngineerDies` | the on-call's hands and its ends |
| `AnswerTask`, `AnswerReplan`, `AnswerEscalations` (in `Resume`) | the owner's answers: a target by the kind of stop, one retry of a request for permission, the option to replan |

A ticket names one task.  Kinds of stop: a task held in READY, a decision that is the
owner's, the top of the ladder, a request for permission, an orphan, a call that keeps
failing.  Left out: stops of a plan or department, the on-call's own request for
permission, and the change that an answer opens (`PlanChange` has changes).

### Staging

`canon` is the project, `rec` a staging record with its baseline, workspace and proposal,
`job` the promotion in progress.  A file is the set of marks left in it, so that a lost edit
is a mark that disappears.  `torn` holds the tasks one of whose promotions was interrupted
and never taken back, which the program does not know of.  The store is under a file lock: no other operation of it runs
while a promotion does; editors are not.  `Reserve`, `Deliver`, `Revise` and `Pass` are what
the lifecycle does to the store, `ApplyChange`, `RollBack`, `Abort` and `Finish` the
promotion file by file, `Edit` and `EditOutside` everybody else.  Two faults let an interrupted
promotion be followed by another.

### Leads and Staffing

`Leads` has `role_lead`, the department of a task, the validation of a plan's leads and the
outlived-lead check as operators over plans.  `Staffing` adds the run: `staffing_gate`
holds what has no lead, `screening_gate` starts, awaits and gives up a screener, a hire
belongs to one version of the graph, a prompt carries what was hired if it still
resolves, a change renews all of it.  A step is one handler with its pass; dependencies and
limits are left to `Frontier` and `Capacity`.  `usable` is the catalogue, which moves;
`standard` is history, of the leads each profession had when it was first accepted.
Several leads of one department, declared departments and bindings of 0.13 are left out.

### Acceptance

Rubric records, outcomes, milestones and their backup in project memory, and the verifier
sessions that need them: `Look`, `WriteFirst` (the bootstrap and a plan change find no
rubric, and write one under the writers' lock), `AdmitVerifier`, `Answer`, `Weigh` (outside
the coordinator's lock), `Reject`, `SendBack`, `Commit`, `BackUp`, `Accept`, `Die` (one per
write of `complete_desktop_worker`), `Propose`, `SupersedeStray`, `Return` (a lead, the
on-call).  That a verdict meets a history that cannot be read is no action: no lead is
admitted over one, and `HistoryStands` says that none becomes one.

### Memory

`records`, `conflicts` and the operations under way (`call`): recording a fact, proposing a
decision and applying a correction are several transactions under `memory.lock`, between
which another process writes or this one dies.  Evidence is its kind, which is all that
`trust.py` asks.  Full-text search, views and the transport are left out.

### Repair

A module's text is the sequence of patches applied to it.  `current` is the tree behind the
symlink that all projects share, `place` and `revert` where a patch and its revert are filed,
`wake` the installing wake-up of a project, `returns` the journal of returns with its grants.
`ProvePatch`, `RecordRuntimePatch`, `StageProvenPatch`, `TakeBackPatch` are the on-call's; the installing wake-up copies the tree, applies each patch, switches the
symlink and files the records one by one, and `Crash` may come between any two of these.  A patch or a
revert is written module by module: `InstallFails` is the write that fails with some modules written, and one
perhaps broken off inside (`Torn`).  The error is caught as a refusal of the entry and the copy is kept, so that
`Switch` makes it the live tree as soon as another entry of the same pass went in; `cut` (history) holds the
modules that were written or broken off so in a tree that went live.  `InstallRaises` is the copy or the symlink
failing, which leaves the live tree alone and, past the deadline, refuses all;
`Revoked` is the fold of `revoke_grants` over the journal of returns; `Reserve`, `Accept`,
`Revise` the task whose ladder is spent.

## 3. Runs

Every bound is a constant of the configuration, and every run is complete: TLC visits all
states of its instance.

| run | instance | shows |
|---|---|---|
| `frontier_chain` | b on top of a, b with checks, one worker, a ladder of two rungs, one surprise; under `FairSpec` | `TypeOK`, `DependencyGate`, `OneProducer`, `AcceptedWorkWasJudged`; `RetiredForGood`; `RunFinishes` |
| `frontier_trio` | a and b conflict, c on top of b uses the screen as does the verifier of a; two workers, one slot, every fifth verdict judged twice | `Exclusion`, the refinement `BoardSpec` |
| `plan_change` | c on top of a, b beside them; four replacement graphs; two workers, one change, two surprises, one refusal of each kind allowed; under `FairSpec` | `OneVersion`, `DoneWorkSurvives`, the refinement `LedgerSpec`; `ChangeEnds`, `CommitFinishes` |
| `staging` | two tasks, two files, two edits each, one edit from outside, two faults | `AcceptedIsPromoted`, `OnlyPromotedWork`, `NoEditIsLost` |
| `capacity` | four tasks, one slot, two workers, three readings, one round each; every pair of claims of at most two segments (`MaxParts`) | `SelectedAcquire`, `BundlesExclude`, `FailClosed`; `EveryTaskIsAccepted` |
| `incidents` | one task, three tickets, one dead process, orphan tickets too large for a prompt; under `FairSpec` | `RepairsAreBounded`, `AnswersStand`; `BlockedIsAnswerable` |
| `dispatch` | two reservations, two processes, two threads, one kill, one surprise; under `DispatchFairSpec` | `OneTurnAtATime`, `WorkedOnce`; `EverySessionEnds` |
| `repair` | one project, two patches that share a module, one killed wake-up, one failing write, copy or symlink; under `FairSpec` | `WholeSets`, `InstalledStands`, `BudgetRestsOnPatch`; `DrainEnds` |
| `memory` | two callers, two records, two conflicts, a tool's and a page's evidence | `ExternalNeverBinds`, `DisputesSettle` |
| `acceptance` | one task, dispatcher and hook, four turns, three rubric records, one rejection that counts | `AcceptanceIsOnRecord`, `HistoryStands`, `RefusalsAreFair` |
| `staffing` | three tasks of one profession, two possible leads, one pack, one market bundle, plans of before and after R30; under `FairSpec` | `OneScreener`, `PromptsFit`, `KeepsItsLead`, `NoDeadEnd`; `HiringEnds` |
| `screening_lost` | the same without fairness | expects a violation, below |

Why the bounds are enough.  In `Frontier` a surprise is a failure, a lost turn, a stop or a
decision of a person; tasks meet through dependencies (chain), claims, slots and the limit
(trio).  `MaxRevisions = 1` makes every rung of the ladder one revision, so that a whole
ladder is climbed.  The replacement graphs of `plan_change` are a prerequisite with a lead, a
moved dependency with a rewritten contract, a removed task and a cycle; two surprises reach
a failure during the recovery from another.  In `incidents` three tickets are one more than
the repairs an engineer gets, and reach the full journal; the stop of a worker is the spent
ladder, beside exhausted retries, requests for permission and orphans.  The other kinds
(`held`, `hers`) differ in the target of an answer only; with them, and with two tasks, the
safety properties hold on smaller numbers of tickets.  In `dispatch` the second reservation
is made by the first's completion or by others, two pids make two dispatchers of one reservation and the
reuse of a number possible.  The bounds reach what the two safety properties except: a reservation raised by
two, the kill or the refusal, and the late record of it (without the exception `WorkedOnce` is violated
within these very bounds, after some fifty steps).  With three threads, one kill and two
surprises the two hold as well, on 14.6 million states.  In `staging` two tasks on two files meet in one file and differ in another, one
fault reaches every boundary of a promotion, and a second what comes after an interrupted one.  In `acceptance` four turns are a rejection, a
revision, a crash and an acceptance; three records are a double first version and an
advance.  In `staffing` the profession has an accepted task, one whose lead a change moves
and one more; two or three versions of the graph overtake a screener.  `repair` has a second
patch that is proven on the tree before the first; one fault reaches every prefix of the writes of an entry
beside another that goes in.

Deadlock is not checked: a run stops when all tasks are accepted, and it may
rightly wait for the owner, who owes nothing; the other models stop at their bounds.  The
liveness properties are the stronger statement that nothing waits with nobody told.

### Fairness

`Frontier!FairSpec` assumes weak fairness of what some process is bound to do: `CreateThread`,
`StartTurn` and `Deliver` (the dispatcher that was started for the session),
the consumption of a completion (the process that delivers it goes on to the lock),
`Forget` (it returns), `Reserve` and `SettleDeadSessions` (the launchd wake-up
comes back as long as the run is armed).  Nothing is assumed of the owner, of the
engineer, of failures or of a lost thread.  The liveness properties therefore allow
a pause and an open ticket as ends.

`PlanChange!FairSpec` is the same in its terms: `Start` and the completions of each
session (its dispatcher), `Launched` (the Stop hook of the arming turn), `Sweep` and
`WakeIdle` (launchd), and strong fairness of a wake-up that finds every retry due,
`WakeLate`: other wake-ups may come too early and find nothing, again and again, but
retry times are fixed and pass.  `ChangeEnds` and `CommitFinishes` except a pause,
a ticket, and an interrupted commit over a state saved since (section 5).

`Dispatch`: every step of a living process, the spawners, the wake-up's look and its
reconciliation, the end of a turn and the hook; not the kill, not the owner.
`EverySessionEnds` excepts a ticket, a pause, and a thread that the server lost after its
claim, which the program takes for "unknown".  `Capacity`: the pass, the end of each session
and its retry time.  `Incidents`: the pass, the settling of dead sessions, the end of an
engineer's turn, and the process that saved a failure filing its ticket; `BlockedIsAnswerable`
excepts a journal that is full and a slot of automatic recovery that a dead process left
taken.  `Repair`: the installing wake-up and the clock; nobody has to leave.  `Staffing`: a
screener answers or is lost, turns end, the wake-up passes, a change is committed or
refused.

### The finding

`screening_lost`: a screener is lost, and its task, which is READY, is to become RETRY_WAIT,
a transition that does not exist.  `record_desktop_failure` raises, nothing is saved, the
session stays pending and holds its task; `docs/SKILL_SCREENING.md:141` says that a screening
session that errors does not block the task.  `HiringEnds` excepts a task whose screener was
lost.

## 4. Proofs

Every theorem is about the specification that TLC runs, for every value of its constants
under the named assumption of its module, which TLC evaluates in the runs.  The
assumptions are the types of the constants and what the code itself enforces before a run
(an acyclic graph, a plan that is not empty, a symmetric conflict relation).

| module | theorem | states |
|---|---|---|
| `FrontierProofs` | `TypeCorrect`, `Gated`, `Single`, `Excluded` | `TypeOK`, `DependencyGate`, `OneProducer`, `Exclusion` |
| | `Implements` | `Spec => BoardSpec`: the frontier implements `WorkBoard` |
| | `Grounded` | `WorkBoard`'s invariant: whoever works, works on accepted ground |
| | `Retired` | `RetiredForGood` |
| | `AcceptedJudged` | `AcceptedWorkWasJudged`, as long as no second lead has judged |
| `PlanChangeProofs` | `OneVersionAlways`, `DoneWorkSurvivesAlways` | `OneVersion`, `DoneWorkSurvives` |
| | `Implements` | `Spec => LedgerSpec`: two files and a redo record implement `PlanLedger` |
| `StagingProofs` | `AcceptedIsPromotedAlways`, `OnlyPromotedWorkAlways`, `NoEditIsLostEver` | `AcceptedIsPromoted`, `OnlyPromotedWork`, `NoEditIsLost` |
| `WorkerProofs` | `OneScreenerAlways`, `PromptsFitAlways`, `KeepsItsLeadAlways`, `NoDeadEndAlways` | the four invariants of `Staffing` |
| | `OneTurnAlways`, `WorkedOnceAlways` | `OneTurnAtATime`, `WorkedOnce` |
| `AcceptanceProofs` | `AcceptanceOnRecord`, `HistoryIsKept`, `RefusalsCountFairly` | `AcceptanceIsOnRecord`, `HistoryStands`, `RefusalsAreFair` |
| `MemoryProofs` | `ExternalNeverBindsAlways`, `DisputesSettleAlways` | `ExternalNeverBinds`, `DisputesSettle` |
| `RepairProofs` | `WholeSetsAlways`, `BudgetRestsOnPatchAlways` | `WholeSets`, `BudgetRestsOnPatch` |
| | `InstalledStandsAlways` | `InstalledStands`, as long as no two projects have a copy of the tree open at once (`OneCopy`) |
| | `OneProjectInstalledStands` | `InstalledStands` without that condition, for an installation with one project |
| `ReservationProofs` | `BundlesExcludeAlways` | `BundlesExclude` |
| | `SelectedAcquireAlways` | `SelectedAcquire`, with one slot, or where the verifier of a task alone uses the screen for no task |
| | `FailClosedAlways` | `FailClosed`, for claims of any depth |
| | `RepairsAreBoundedAlways`, `AnswersStandAlways` | `RepairsAreBounded`, `AnswersStand` |

### Frontier

`IInv` is `TypeOK` and `Good(run)`: the gate, the agreement of the five records of a
task's producer (`Agrees`) and the exclusion of conflicting holders, as properties
of one durable state.  The gate alone is not inductive: a verdict accepts a task, and
what keeps the map valid is the transition check; a lock is given away when a session
ends, and only the agreement says that the session that ends is the one that
holds it.  Because handlers are operators on states, each has a lemma "Good in,
Good out" (`FinishGood`, `ReconcileGood`, `StopsGood`, `RelayGood`,
`TransitionGood`), the pass has one built from its stages (`PassGood`), and `NextGood`
puts them together, once per action.  Failures of `Commit` keep the old state and
change `held` only, which `Good` does not mention.

The refinement goes the same way: each operator is a step of the board or a stutter of it
(workers off, one acceptance, workers on), and the handler with its pass is one step
because the board may do all three at once.  `BoardInv` adds what the board's invariant
says of what was produced.  The board's limit is `Ceiling`, the largest limit an account may set,
since the limit moves while the board's does not.

Every step is shown once to be endings (`Ends`) followed by starts (`Starts`), with a state between
(`NextBetween`), and what these say of sessions carries two more results.  `Retired`: a session that ended is kept
by both (`Kept`).  `AcceptedJudged`: a task comes to be accepted only by an ending, of its newest session,
which judged and says PASS or is the second judge (`Passed`, `JudgedNow`); nobody starts on an accepted
task, so what it was accepted on stays its last work (`JudgedStays`).  `JudgedInv` says it task by
task: a second judge spoils the claim for its own task alone.

### PlanChange

`IInv` says that the two files are in one of two relations.  `Steady`: state and plan fit,
and a redo record still lying there names this plan and, until the state is saved
again, this state.  `Behind`: a commit was cut short before the state was replaced, so the turn
that made it is dead and unretired, nobody is at work, and what the record holds fits and
keeps what the old state had accepted and done.  `Fit` is the long part: task states of the
graph, sessions that agree with them, a planning round alone at the stage of its change,
a proposal that drops no task, and a count of versions against changes asked for, which
bounds the version without a bound of its own.  `OneVersion` is not inductive: what keeps a commit
away from work under way is that a verdict on a plan finds its requester alone (`Rounds`), and
what keeps recovery from taking back a result is that nobody saves while the files are `Behind`
without making the record stale (`PassIdles`: the passes that do run reserve nothing).

`AffectedIsEarly` is the heart of `DoneWorkSurvives`: the set of tasks that are new, not begun, or the
requester is closed under "builds on", because a task past its gate builds on accepted work
alone and a change of lead keeps what a task comes after; so the reset, which is the least
closed set, stays inside.  Every step then is of one of three kinds (`NextInv`): it keeps
the plan (`Keeps`), recovers one (`Recovers`) or amends it (`Amends`), and each of these is a
stutter or a step of the ledger.

### Staging

`Records` says that a workspace holds what it was copied from and the work of its own task;
`Promoting` says where a promotion under way has got to, file by file, and that what it started
from holds the work of every task promoted before.  `Traces` is what makes `OnlyPromotedWork`
inductive: no copy that any task started from carries a mark of work that is not promoted,
except of tasks whose promotion was interrupted and left where it was (`torn`).

### Staffing

`Sound` ties the version of a screener, a hire and a prompt to the version of the run; a
screener exists only where no worker does.  `KeepsItsLead` needs two facts beside itself
(`Upheld`, `Led`): one accepted task of a profession with a standard names one of its leads, and
whoever is at work has a lead; without the second, the next acceptance of the profession might be
by nobody.  `NoDeadEnd` is proved by a witness, the plan that gives each profession one lead, an
accepted one where there is one.  It supposes a second profession: with one alone there is nobody
else to lead it.

### Acceptance

`HistoryIsKept` rests on counting: n verified records that show n versions show each once
(`CleanHasNoStrays`, a surjection between finite sets of one size is an injection), so a
clean history has nothing that the on-call may retire, and the version after the latest is
n + 1.  The other two follow from `Accepted`.  What is on record of a VERIFIED task is not
inductive: the step that writes VERIFIED looks at nothing.  `DeliveriesAgree` carries what the
earlier steps of the completion found (the outcome in the ledger, the session still pending,
the milestone committed, then backed up) to that step; it survives the steps of others
because of `OneCompletion`, the coordinator's lock, and because a session that is retired never
has its turn again.  `CountedFairly` carries the comparison of a reply with what its lead was
given from the weighing, outside the lock, to the rejection under it.

### Capacity and Claims

`Steady` says that the bundles held are apart (`Apart`: no two holders clash, and each slot has one
holder), that whoever works holds one, and that the queue has each ready task once at most.  A pass
gives bundles in the order of its follow-ups and then of its selection, and `AcquiredApart` says of any order that
whoever is served finds the table as those before it left it.  That needs an order: `_priority_key`
ends in the place of the task in the plan, so that no two tasks share a key, but only if each key is
a sequence of numbers, and the length of the critical path and the number of dependents are
recursive.  `Recursion` shows that such a function exists over any plan without a cycle: of the sets of
tasks it is defined on, one leaves the fewest tasks out, and by acyclicity these are none; `KeysAreKeys`
follows.  For `SelectedAcquire` the prediction of the scheduler and
the table it is checked against are compared (`InvAgrees`, `SlotsLeft`): they count the same slots
where there is one slot, or where only a task that uses the screen itself is verified on it.

`FailClosed` shows first that the table `GlobMatches` fills exists (`TableExists`), then that a
pattern that is laid over a file segment by segment is matched (`LaidMatches`), and that the literal
root of a pattern is a beginning of every file it is laid over (`LaidStarts`), so that two patterns
which name one file have nested roots (`BeginningsNest`).

### Incidents

`IncidentsInv` is three things.  `Bounded` counts, for each ticket of a stop, the tickets of that stop
before it since the owner last decided on one (`Since`): all of them are closed, and they are two at
most, and one for each process that died.  The property alone is not inductive, because the third
ticket is filed in one transaction and counted in another: between the two it is nobody's, and the
count of a ticket that is not hers must be one lower (`Tight`).  So `BoundedBesides` lets one ticket
be in the middle of being filed, and a process that dies there is the one that the bound excepts
(`Looser`).  `Ok` says what the phase of a ticket says of its marks, `Fits` that the engineer of the run is on a
ticket of the journal that has not lost two.

A handler is a function, and what it is proved to keep is `Sound`: the journal it holds and every journal it wrote
on the way are bounded, and what she answered when it began stands in each of them; so one lemma
(`DoKeeps`) covers the handler that ends and the one that dies.  `Moves` lists what may become of a ticket, and
`MovesKeep` that nothing else matters to the count; only the filing of a ticket adds to it (`FreshKeeps`,
`StopRunKeeps`).  The loops of the handlers are folds over the journal or the plan; each has a lemma
of its own (`RouteFold` and those after it), since the prover cannot be told of an operator as a
parameter, and all rest on the same two: the steps of a loop exist (`StepsExist`), and what
each keeps the last has (`Climb`).

### Memory

`Settling` and `Governing` are the two properties; `Calls` is what they need of the operations
half-way through.  What a caller saw may be out of date, but what it has still to look at are
records, what it is about to retire is a decision, and what it is about to dispute is a truth.

### Repair

`Trees`: the tree behind the symlink, every copy that an installation works on, and no tree a patch was
proven on that has the patch already; of a patch none of whose modules was cut, in that tree or in the copy.  For the budget, `Earned`: a task past its ladder has a grant that
carries it or has not outgrown what it has; and `Grounded`: a grant that was not revoked has a patch
that stands.  `revoke_grants` folds over the journal of returns, and the lemmas about `HiresLeft`
prove by a least counterexample (`LeastNumber`) what that fold leaves of a count.

`InstalledStands` compares the tree with the ledgers only between two installations.  `Stands` says what
holds inside one as well: while the directory of a patch that was switched in is still to be moved, the
wake-up that owns it stands for the ledger (`Filing`), and an open copy of the tree has what is behind the symlink
and what the wake-up has put into it or taken out of it (`CopyStands`).  The switch makes the copy the
tree, and what another wake-up had switched in since the copy was taken is gone; `install_pending` holds a lock of
its own project, which excludes that for one project (`OneProjectInstalledStands`), while several
need `OneCopy`.

### Dispatch

`TurnInv` is about the time between the claim of a turn and the record of what became of it.  A dispatcher
in it `Drives` its reservation, and a reservation has one driver (`OneDriver`).  What may still
be claimed, nobody drives and no turn of it was ever started (`Open`); and of whoever may still give the
claim back, `Driven` says that the turn did not start: a send that is certainly refused makes its
reservation PREPARED again, and only this makes a second claim right.  `Belongs` ties the
threads of the server to the reservations and the dispatchers that name them, without which the
turns of two reservations could not be told apart, and `OneTried` is the two properties, thread by thread.

Most steps open no turn.  For these `QuietKeeps` has the proof once, from what they may do to a row
(`SessionMoves`), a process (`ProcMoves`) and a thread (`ThreadMoves`), and each has a lemma that it does
no more.  The four that do open one have a proof each: the claim (`ClaimKeeps`), the turn that starts
(`StartedKeeps`), the refusal that gives the claim back (`RefusedKeeps`), the thread that is
created (`InvokeKeeps`).  The invariant is about each reservation by itself, so that one a dispatcher wrote on too
late (`late`) spoils it for nobody else, and `LateKeeps` is all that a late write needs.  No bound is needed
besides, nor that pids are not used again, nor that nobody raises a reservation early: the two
late writes are the only ways to a turn run or worked twice, and a check of the status in those two
transactions would make both properties true of every reservation.

### What is only model-checked

Every invariant and every action property of the runs is stated by a theorem, some of them under a
condition that the theorem names.  What is left to TLC:

- All liveness: fairness and ENABLED are beyond the prover.
- `AcceptedWorkWasJudged` after a second lead has judged is false (section 5); `AcceptedJudged` supposes
  that none has, and `frontier_chain` runs without one.
- `InstalledStands` with several projects that have copies of the tree open at once is false (section 5), and
  the theorem supposes what rules it out; in `repair`, with one project, it cannot happen.
- What the properties themselves except is false as well (section 5): `OneTurnAtATime` and `WorkedOnce` of a
  reservation in `late`, `WholeSets` and `InstalledStands` of a patch with a module in `cut`.
- `SelectedAcquire` with two slots and a verifier that alone needs the screen is false (section 5).
- `Recoverable` is no property of the code (section 5).

## 5. What the models showed besides

Disagreements met while modelling that no run is kept for; each can be seen by adding the
named formula or constant to a configuration.

- An interrupted verification is done again as a whole: `reconcile_running_work` sends the task of
  a lost verifier to RETRY_WAIT and so to a new implementation (`resilience.py:581`), where
  `tests/test_interrupted_verification_is_not_redone.py` says "re-judged, not re-done".
- A first lead's verdict that waited for the second is applied to work that was implemented anew
  (`department_audit.py:211`); both are said to judge the same work.  One task, `SecondLeadEvery = 1` and
  one surprise show it for `AcceptedWorkWasJudged`: passed, lost with its second verifier, implemented
  anew, judged REVISE by the next, and accepted on the verdict of the first.
- A stopped revision that never finished goes to a verifier because the task has a revision
  count (`owner_answers.py:58`).
- Recovery of an interrupted plan commit accepts `run-state.json` with the digest of before or
  after the commit only; the sweep that should lead to it saves a third (`wake.py:148-150`), as
  does a pause.  The formula is `Recoverable`; `commit_plan_change` says that the same commit is
  finished on Resume.
- Capacity: with `GuiSlots = 2` `SelectedAcquire` fails.  `scheduler.py:197` counts tasks whose own mode is
  computer_use, `resources.py:401-426` the slots held; the verifier of another task may hold one that the
  scheduler does not count, and the task it selected is stopped with `stop_on_inconsistent_state`
  (`lifecycle_reservations.py:401`), which an engineer has to close.  `SelectedAcquireAlways` supposes
  what rules this out.
- Dispatch: work is done twice, within the bounds of the run, when a dispatcher writes late.  A reservation is
  raised by a hook or a wake-up and adopted by its maker too, which overwrites the first record
  (`lifecycle_dispatch.py:1265`); of its two dispatchers one is refused its create, the other creates the
  thread and claims the turn, and then the refusal is recorded: `lifecycle_failures.py:293` puts the session back to PREPARED
  and a second turn is claimed (`LateRefusal`).  The other way: `_reset_to_create_requested`
  (`lifecycle_dispatch.py:456`) does not look again, and of two dispatchers past the gate of a lost thread the second
  wipes the thread that the first has made since (`LateReset`).  Take `\ late` out of `WorkedOnce` to see
  a trace.  These are the only two ways (`WorkedOnceAlways`).
- Staging: a promotion that a crash cuts short stays PROMOTING, and no code completes it or takes it back; the
  next session of the task starts from the half-promoted project.  `OnlyPromotedWork` excepts its task (`torn`).
- Dispatch: a spawner that dies between SCHEDULED and the bound pid leaves later spawns
  of that session nothing to do until the wake-up (`control.py:167`).  A pause while a turn runs is
  recorded as a definite failure and closes the server under the turn, where
  `docs/PLAN_EVOLUTION_AND_RECOVERY.md:129-138` lets it drain.  A definite refusal of the turn leaves
  PREPARED with a claim that refuses the next dispatcher (`lifecycle_failures.py:277`).  A thread the
  server lost after its claim is "unknown" to everybody (contrast `engineer_reservation.py:394-398`).
- Incidents: an escalation after RESOLVED leaves `resolved_at` set; a crash in the first level keeps
  the recovery slot; a learned runbook makes exhausted retries unbounded; a request for permission
  whose failure is saved and whose ticket is not yet filed may be retried, and then the "one retry
  per request" of `owner_answers.py:330-337` is exceeded, since Resume looks at BLOCKED tasks only;
  a crash between the two loses the request; the option to replan given to a running task closes its
  tickets and then refuses, the state unsaved (`owner_answers.py:235-252`).
- Repair: "Write a proven set into a tree whole, with its backup and its test" (`install_proven_patch`) and
  "Revert a set of edits whole, together with its test" (`revert_runtime_patch`) are not kept when a write fails:
  the modules are written one after another (`runtime_repair.py:370-372`, `490-498`), the error is
  caught as a refusal (`runtime_install.py:285`), and the half-written copy is switched in when any other entry of
  the pass was installed (`runtime_install.py:287-294`).  With `Uncut(p) == TRUE` TLC finds `WholeSets` violated (two patches
  staged, a write of the one fails, the other goes in, the symlink is switched: half of the first is live
  and filed as refused) and `InstalledStands` (a revert fails midway beside another entry: the patch stays
  filed as installed and is half taken back).  No run is kept for them.
- Repair: two projects that install at the same time lose one of the two updates
  (`runtime_install.py:294`; `MaxCrashes` aside, `Run` with two members); a crash between the switch
  and the records lets the next installation refuse and revoke what is live; patches of disjoint
  modules are installed together though the suite never ran on both.
- Staffing: whether screening applies is asked before pending screeners are looked for, so a mode
  switched off meanwhile turns a screener into a stop; after a plan change bumps the version an
  implemented task's hire is no longer its own, so its verifier is not told what was withheld.
- Memory: `ensure_healthy`, `recover_latest` and `integrity_check` have no caller in the program
  (`docs/ARCHITECTURE.md:184` says otherwise) and restore only schemas 1 and 3; two disputes open at
  once leave a record disputed with nothing to settle, which `DisputesSettle` excepts.
- Acceptance: a verdict weighed outside the lock may be applied after the rubric advanced; the same
  outcome with another payload is refused, so that a second delivery with fresh evidence fails
  closed.

## 6. Plan

Done, in this order: `TaskGraph`, `Frontier`, `WorkBoard`, `FrontierProofs`; `PlanChange`,
`PlanLedger`; `Staging`; `Capacity`, `Claims`; `Incidents`; `Dispatch`; `Repair`; `Memory`,
`Acceptance`, `AcceptanceProofs`; `Leads`, `Staffing`; the proofs about `Memory`, `Staging`, `Repair`,
`Staffing`, `Frontier` against `WorkBoard`, `PlanChange` against `PlanLedger`, `Capacity`, `Claims`, `Incidents`
and `Dispatch`.
What is left:

1. Compositions: the pass with all four lanes at once; the two-file crash of `Incidents` under
   the dispatcher of `Dispatch`.

## 7. Not modelled

- In `Incidents`, a lost create, for which a pass files a ticket too; it is `SettleLostCreate` of `Dispatch`.
- The text of prompts, boards, rules and audits; parsing and validation of documents
  field by field; the rendering of status: no decision of the run reads them back.
- Placement: reading and comparing settings of the Desktop application; its outcome reaches the
  run as a ticket.
- Arming, the launch gate and trust files: a claim file and a launchd job per conversation, outside
  the state of the run.  The checks before a run (`preflight`), the command line, the
  bootstrap and the rounds of the first plan are sequential and have no concurrent actor.
- Schema migration, legacy plans without a goal contract, legacy workers and bindings.
- Search, views and transport of project memory, and the restoring of backups, which no code of the
  program calls.
- The validation, fetching and unpacking of skill packs beyond whether a skill is usable.
