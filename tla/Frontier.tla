------------------------------ MODULE Frontier ------------------------------
(***************************************************************************)
(* The Desktop frontier: reserving a task for a worker session, creating   *)
(* its thread, starting its turn, taking in its completion or failure and  *)
(* reserving what that opens (lifecycle_reservations, _dispatch,           *)
(* _completion, _failures, _base; resilience; stop_holds; owner_answers).  *)
(*                                                                         *)
(* Every handler of the code loads run-state.json under the coordinator    *)
(* lock, changes it in memory, usually runs one reservation pass on the    *)
(* result, and replaces the file atomically.  So the file is one variable, *)
(* run, a handler is an operator from states to sets of states, and        *)
(* Pass composes with it.  What a process read before it took the lock is  *)
(* the variable reading.                                                   *)
(***************************************************************************)
EXTENDS TaskGraph, Integers, Sequences

CONSTANTS
    Conflicts,      \* Conflicts[t]: the tasks whose resource claims conflict with t's
    Rank,           \* Rank[t]: the declaration index of t in the plan
    Limits,         \* what effective_worker_limit can return (scheduler, usage)
    Slots,          \* Computer Use slots
    OnSurface,      \* tasks whose own execution mode is computer_use
    JudgedOnSurface,\* tasks whose verifier's execution mode is computer_use
    Checked,        \* tasks with deterministic checks
    MaxRevisions,   \* verification.max_revision_attempts
    TopEffort,      \* effort steps above the one the plan assigns
    SecondLeadEvery,\* runtime.second_lead_every
    MaxReading,     \* model bound: completions being delivered at one time
    MaxSurprises    \* model bound: failures, lost turns, owner decisions in a run

ASSUME FrontierAssumption ==
    /\ Conflicts \in [Task -> SUBSET Task]
    /\ \A t \in Task : t \notin Conflicts[t]
    /\ \A t, u \in Task : u \in Conflicts[t] => t \in Conflicts[u]
    /\ Rank \in [Task -> Nat]
    /\ \A t, u \in Task : Rank[t] = Rank[u] => t = u
    /\ Limits \subseteq Nat \ {0}
    /\ \E most \in Limits : \A limit \in Limits : limit <= most
    /\ Slots \in Nat /\ MaxReading \in Nat /\ MaxSurprises \in Nat /\ TopEffort \in Nat
    /\ MaxRevisions \in Nat \ {0} /\ SecondLeadEvery \in Nat \ {0}
    /\ OnSurface \subseteq Task /\ JudgedOnSurface \subseteq Task /\ Checked \subseteq Task

VARIABLES
    run,        \* run-state.json, with the tickets of the incident journal in run.held
    pause,      \* the pause request file exists
    reading,    \* completions whose session was found ACTIVE before the lock was taken
    surprises   \* the model's own count against MaxSurprises

vars == <<run, pause, reading, surprises>>

-----------------------------------------------------------------------------
(* Sessions.  sess[t] lists the producer sessions of t, oldest first; the   *)
(* position of a session is its attempt number and its ownership token.     *)

Production == {"implementation", "revision"}
Kind == Production \cup {"verifier"}
Pending == {"CREATE_REQUESTED", "PREPARED", "ACTIVE", "AMBIGUOUS"}
Terminal == {"COMPLETED", "BLOCKED", "RETIRED_SUPERSEDED"}
Status == Pending \cup Terminal \cup {"RETRY_WAIT"}

Session ==
    [kind   : Kind,
     status : Status,
     phase  : Pending \cup {""},        \* ambiguous_phase
     thread : BOOLEAN,                  \* thread_id is bound
     final  : {"", "DONE", "BLOCKED", "PASS", "REVISE", "VERIFICATION_REJECTED"},
     lead   : {"", "AWAITING", "COMPARED", "SECOND"}]   \* second_lead

NewSession(kind) ==
    [kind |-> kind, status |-> "CREATE_REQUESTED", phase |-> "",
     thread |-> FALSE, final |-> "", lead |-> ""]

ActiveStateOf(kind) ==
    CASE kind = "implementation" -> "RUNNING"
      [] kind = "verifier" -> "VERIFYING"
      [] kind = "revision" -> "REVISING"

PendingSessions(s, t) == {n \in DOMAIN s.sess[t] : s.sess[t][n].status \in Pending}

\* _latest_implementation_thread_id finds a session to credit.
HasFinishedWork(s, t) ==
    \E n \in DOMAIN s.sess[t] :
        s.sess[t][n].kind \in Production /\ s.sess[t][n].status = "COMPLETED"

Rejections(s, t) ==
    Cardinality({n \in DOMAIN s.sess[t] : s.sess[t][n].final = "VERIFICATION_REJECTED"})

MaxVerificationRejections == 2

\* fence_superseded_sessions: what a replacement does to the older sessions.
Fenced(list) ==
    [n \in DOMAIN list |->
        IF list[n].status \notin Terminal /\ list[n].thread
        THEN [list[n] EXCEPT !.status = "RETIRED_SUPERSEDED"] ELSE list[n]]

-----------------------------------------------------------------------------
(* The durable state.                                                       *)

RunType ==
    [task      : [Task -> TaskState],
     active    : SUBSET Task,           \* active_task_ids
     lock      : [Task -> Nat],         \* the session holding t's lock bundle, 0 when free
     slot      : SUBSET Task,           \* tasks whose lock holds a Computer Use slot
     sess      : [Task -> Seq(Session)],
     revisions : [Task -> Nat],
     hires     : [Task -> Nat],
     effort    : [Task -> 0..TopEffort],
     retry     : SUBSET Task,           \* tasks with a task_retry_at entry
     barrier   : BOOLEAN,               \* rate_limit_until is set
     held      : SUBSET Task]           \* tasks an open ticket names

InitialRun ==
    [task |-> InitialTaskStates, active |-> {}, lock |-> [t \in Task |-> 0],
     slot |-> {}, sess |-> [t \in Task |-> << >>],
     revisions |-> [t \in Task |-> 0], hires |-> [t \in Task |-> 0],
     effort |-> [t \in Task |-> 0], retry |-> {}, barrier |-> FALSE, held |-> {}]

Holders(s) == {t \in Task : s.lock[t] # 0}

\* Whether a session of this kind takes a Computer Use slot (effective execution mode).
TakesSlot(t, kind) ==
    IF kind = "verifier" THEN t \in JudgedOnSurface ELSE t \in OnSurface

-----------------------------------------------------------------------------
(* The reservation pass, _reserve_in_state.                                 *)

\* orphan_blocked_tasks and _settle_lost_creates: what route_waiting_tickets
\* files.  A create in doubt has lost its dispatcher by then.
Orphans(s) == {t \in Task : s.task[t] = "BLOCKED"} \ s.held

LostCreates(s) ==
    {t \in Task : \E n \in PendingSessions(s, t) :
        s.sess[t][n].status = "AMBIGUOUS" /\ ~s.sess[t][n].thread}

\* _prepare_state: the barrier is over, and some retries are due.
DueRetries(s) == {t \in s.retry : s.task[t] = "RETRY_WAIT"}

Prepare(s, due) ==
    [s EXCEPT !.barrier = FALSE,
              !.task = [t \in Task |-> IF t \in due THEN "READY" ELSE @[t]],
              !.retry = @ \ due]

RouteTickets(s) == [s EXCEPT !.held = @ \cup Orphans(s) \cup LostCreates(s)]

\* (mutated: one step too many)
LadderTop_OffByOne(s, t) == s.effort[t] > TopEffort

\* _rehire_or_block_on_revision_limit.
SpentBudget(s, t) == s.revisions[t] >= MaxRevisions * (s.hires[t] + 1)

LadderTop(s, t) == s.effort[t] = TopEffort

FollowupKind(s, t) == IF s.task[t] = "IMPLEMENTED" THEN "verifier" ELSE "revision"

AwaitsFollowup(s, t) ==
    /\ t \notin s.held
    /\ \/ s.task[t] = "IMPLEMENTED"
       \/ s.task[t] = "REVISION_REQUIRED" /\ ~(SpentBudget(s, t) /\ LadderTop(s, t))

WantsFollowup(s, t) == AwaitsFollowup(s, t) /\ PendingSessions(s, t) = {}

\* The loop walks the plan in declaration order: what an earlier task took is
\* taken, and the loop ends at the first task that finds the limit reached.
Earlier(F, t) == {u \in F : Rank[u] < Rank[t]}

Reached(s, F, limit, t) == Cardinality(s.active \cup Earlier(F, t)) < limit

\* (mutated: a follow-up takes its task's claims for granted)
CanAcquire_NoConflicts(s, newer, t, kindOf) ==
    /\ s.lock[t] = 0
    /\ TakesSlot(t, kindOf[t]) =>
         Cardinality(s.slot \cup {u \in newer : TakesSlot(u, kindOf[u])}) < Slots

\* acquire_resources_in_state against the held locks and these newer ones.
CanAcquire(s, newer, t, kindOf) ==
    /\ s.lock[t] = 0
    /\ Conflicts[t] \cap (Holders(s) \cup newer) = {}
    /\ TakesSlot(t, kindOf[t]) =>
         Cardinality(s.slot \cup {u \in newer : TakesSlot(u, kindOf[u])}) < Slots

FollowupKinds(s) == [t \in Task |-> FollowupKind(s, t)]

IsFollowupSet(s, limit, F) ==
    F = {t \in Task : /\ WantsFollowup(s, t)
                      /\ Reached(s, F, limit, t)
                      /\ CanAcquire(s, Earlier(F, t), t, FollowupKinds(s))}

\* Lock, session and active state of every task of T, in one edge.
Launch(s, T, kindOf) ==
    [s EXCEPT
        !.task = [t \in Task |-> IF t \in T THEN ActiveStateOf(kindOf[t]) ELSE @[t]],
        !.active = @ \cup T,
        !.lock = [t \in Task |-> IF t \in T THEN Len(s.sess[t]) + 1 ELSE @[t]],
        !.slot = @ \cup {t \in T : TakesSlot(t, kindOf[t])},
        !.sess = [t \in Task |->
                    IF t \in T THEN Append(Fenced(@[t]), NewSession(kindOf[t])) ELSE @[t]]]

\* The ladder is asked before the lock: a promotion stays even when the lock is refused.
Followups(s, limit, F) ==
    LET asked    == {t \in Task \ s.held : s.task[t] = "REVISION_REQUIRED"
                        /\ Reached(s, F, limit, t) /\ SpentBudget(s, t)}
        promoted == {t \in asked : ~LadderTop(s, t)}
        stopped  == asked \ promoted
        confused == {t \in Task : AwaitsFollowup(s, t) /\ Reached(s, F, limit, t)
                                    /\ PendingSessions(s, t) # {}}
        launched == Launch(s, F, FollowupKinds(s))
    IN  [launched EXCEPT
            !.revisions = [t \in Task |->
                IF t \in F /\ s.task[t] = "REVISION_REQUIRED" THEN @[t] + 1 ELSE @[t]],
            !.hires  = [t \in Task |-> IF t \in promoted THEN @[t] + 1 ELSE @[t]],
            !.effort = [t \in Task |-> IF t \in promoted THEN @[t] + 1 ELSE @[t]],
            !.task   = [t \in Task |-> IF t \in stopped THEN "BLOCKED" ELSE @[t]],
            !.held   = @ \cup stopped \cup confused]

\* build_scheduler_availability: READY tasks nothing held stands against.
Available(s) ==
    {t \in Task : /\ s.task[t] = "READY" /\ t \notin s.held
                  /\ Conflicts[t] \cap Holders(s) = {}
                  /\ t \in OnSurface => Cardinality(s.slot) < Slots}

\* schedule: capability usage is counted by the task's own mode, not by its lock.
SurfaceUse(s, S) == Cardinality({t \in s.active \cup S : t \in OnSurface})

Selectable(s, limit, S) ==
    /\ S \subseteq Available(s)
    /\ S # {} => Cardinality(s.active) + Cardinality(S) <= limit
    /\ \A t \in S : Conflicts[t] \cap S = {}
    /\ S \cap OnSurface # {} => SurfaceUse(s, S) <= Slots

\* The greedy pass leaves nothing admissible behind (Scheduler shows which set it picks).
IsSelection(s, limit, S) ==
    /\ Selectable(s, limit, S)
    /\ \A t \in Available(s) \ S : ~Selectable(s, limit, S \cup {t})

Confused(s, S) == {t \in S : PendingSessions(s, t) # {}}

\* Of the selected, those stopped by stop_on_inconsistent_state: a producer is
\* already pending, or acquire_resources_in_state has no slot left for them.
IsRefusedSet(s, S, R) ==
    /\ Confused(s, S) \subseteq R
    /\ R \ Confused(s, S) \subseteq S \cap OnSurface
    /\ LET used == Cardinality(s.slot) + Cardinality((S \ R) \cap OnSurface)
       IN  used <= Slots /\ (R # Confused(s, S) => used = Slots)

Scheduled(s, S, R) ==
    LET launched == Launch(s, S \ R, [t \in Task |-> "implementation"])
    IN  [launched EXCEPT !.held = @ \cup R]

AfterTickets(s) == {RouteTickets(Prepare(s, due)) : due \in SUBSET DueRetries(s)}

AfterFollowups(s, limit) ==
    {[Followups(s, limit, F) EXCEPT !.task = ReconcileReady(@)] :
        F \in {X \in SUBSET {t \in Task : WantsFollowup(s, t)} : IsFollowupSet(s, limit, X)}}

AfterScheduling(s, limit) ==
    UNION {{Scheduled(s, S, R) : R \in {X \in SUBSET S : IsRefusedSet(s, S, X)}} :
        S \in {X \in SUBSET Available(s) : IsSelection(s, limit, X)}}

Done(s) == \A t \in Task : s.task[t] = "VERIFIED"

\* A finished or paused run, or one behind a rate limit, reserves nothing; else
\* follow-ups come first, then new work.
Pass(s) ==
    IF pause \/ Done(s) THEN {s}
    ELSE (IF s.barrier THEN {s} ELSE {})
         \cup UNION {UNION {UNION {AfterScheduling(followed, limit) :
                                    followed \in AfterFollowups(ready, limit)} :
                            ready \in AfterTickets(s)} :
                     limit \in Limits}

\* A stop is filed in the incident journal before run-state.json is replaced: a
\* crash in between leaves the ticket and loses the rest.
Commit(s) == run' = s \/ run' = [run EXCEPT !.held = s.held]

Surprise == surprises < MaxSurprises /\ surprises' = surprises + 1

-----------------------------------------------------------------------------
(* The relay: from a reservation to a running turn (lifecycle_dispatch).    *)

Set(s, t, n, session) == [s EXCEPT !.sess[t][n] = session]

\* create_desktop_thread_via_app_server, acknowledged.
CreateThread(t) ==
    \E n \in DOMAIN run.sess[t] :
        /\ run.sess[t][n].status = "CREATE_REQUESTED"
        /\ run' = Set(run, t, n, [run.sess[t][n] EXCEPT !.status = "PREPARED", !.thread = TRUE])
        /\ UNCHANGED <<pause, reading, surprises>>

\* claim_automatic_app_server_turn, then acknowledge_desktop_send.
StartTurn(t) ==
    \E n \in DOMAIN run.sess[t] :
        /\ run.sess[t][n].status = "PREPARED"
        /\ run' = Set(run, t, n, [run.sess[t][n] EXCEPT !.status = "ACTIVE"])
        /\ UNCHANGED <<pause, reading, surprises>>

\* _thread_is_gone, _reset_to_create_requested: a restart lost the idle thread.
ThreadGone(t) ==
    \E n \in DOMAIN run.sess[t] :
        /\ run.sess[t][n].status = "PREPARED"
        /\ run' = Set(run, t, n, [run.sess[t][n] EXCEPT !.status = "CREATE_REQUESTED",
                                                        !.thread = FALSE])
        /\ Surprise /\ UNCHANGED <<pause, reading>>

-----------------------------------------------------------------------------
(* Failures.                                                                *)

FailurePhase(session) ==
    IF session.status = "AMBIGUOUS" /\ session.phase # "" THEN session.phase ELSE session.status

\* (mutated: the lock is given back, the place among the active tasks is not)
Release_KeepsPlace(s, t) == [s EXCEPT !.slot = @ \ {t}, !.lock[t] = 0]

\* Lock, slot and place among the active tasks, given back.
Release(s, t) ==
    [s EXCEPT !.active = @ \ {t}, !.slot = @ \ {t}, !.lock[t] = 0]

\* A session is over, with what it said.
Ended(s, t, n, status, final) ==
    Set(Release(s, t), t, n, [s.sess[t][n] EXCEPT !.status = status, !.final = final])

Doubted(session, thread) ==
    [session EXCEPT !.status = "AMBIGUOUS", !.thread = thread, !.phase = FailurePhase(session)]

\* record_desktop_failure, not definitive: nothing may be repeated.  A create may
\* or may not have left a thread (_record_created_app_server_ambiguity).
FailInDoubt(t) ==
    \E n \in PendingSessions(run, t), thread \in BOOLEAN :
        LET session == run.sess[t][n] IN
        /\ thread # session.thread => FailurePhase(session) = "CREATE_REQUESTED" /\ thread
        /\ run' = Set(run, t, n, Doubted(session, thread))
        /\ Surprise /\ UNCHANGED <<pause, reading>>

\* A send that certainly failed is sent again to the same thread.
FailSend(t) ==
    \E n \in PendingSessions(run, t) :
        LET session == run.sess[t][n] IN
        /\ FailurePhase(session) = "PREPARED"
        /\ run' = Set(run, t, n, [session EXCEPT !.status = "PREPARED"])
        /\ Surprise /\ UNCHANGED <<pause, reading>>

\* A lost verifier judged nothing: its task still awaits a verdict.
FailedTaskState(s, t, kind) ==
    IF kind = "verifier" /\ s.task[t] = "VERIFYING" THEN "IMPLEMENTED" ELSE "RETRY_WAIT"

\* (mutated: a failed attempt is not given a time to be retried at)
Failed_NoRetryTime(s, t, n, limited) ==
    [Ended(s, t, n, "RETRY_WAIT", "") EXCEPT
        !.task[t] = FailedTaskState(s, t, s.sess[t][n].kind),
        !.barrier = @ \/ limited]

Failed(s, t, n, limited) ==
    [Ended(s, t, n, "RETRY_WAIT", "") EXCEPT
        !.task[t] = FailedTaskState(s, t, s.sess[t][n].kind),
        !.retry = @ \cup {t},
        !.barrier = @ \/ limited]

\* record_desktop_failure, definitive, of a create or a turn.  Every caller in the
\* program passes reserve_other_ready=False: no reservation pass follows.
FailForCertain(t) ==
    \E n \in PendingSessions(run, t), limited \in BOOLEAN :
        /\ FailurePhase(run.sess[t][n]) # "PREPARED"
        /\ run' = Failed(run, t, n, limited)
        /\ Surprise /\ UNCHANGED <<pause, reading>>

\* reconcile_desktop_runtime: the server says these turns are over, or their
\* threads are gone.  No verdict and no result was seen.
Retried(list) ==
    [n \in DOMAIN list |->
        IF list[n].status \in Pending /\ list[n].thread
        THEN [list[n] EXCEPT !.status = "RETRY_WAIT"] ELSE list[n]]

Settled(s, T) ==
    [s EXCEPT
        !.task   = [t \in Task |-> IF t \in T THEN "RETRY_WAIT" ELSE @[t]],
        !.active = @ \ T,
        !.slot   = @ \ T,
        !.lock   = [t \in Task |-> IF t \in T THEN 0 ELSE @[t]],
        !.retry  = @ \cup T,
        !.sess   = [t \in Task |-> IF t \in T THEN Retried(@[t]) ELSE @[t]]]

ReconcileOver(T) ==
    /\ T # {}
    /\ \A t \in T : run.task[t] \in ActiveStates \cup {"RETRY_WAIT"}
    /\ LET settled == Settled(run, T)
       IN  \E due \in SUBSET DueRetries(settled), lifted \in BOOLEAN :
             run' = IF settled.barrier /\ ~lifted THEN settled ELSE Prepare(settled, due)
    /\ UNCHANGED <<pause, reading>>

\* Her Resume asks about every session that has a thread; a server restart may
\* have ended any of their turns.
Observable(s) ==
    {t \in Task : \E n \in PendingSessions(s, t) : s.sess[t][n].thread}

Reconcile == \E T \in SUBSET Observable(run) : ReconcileOver(T) /\ Surprise

\* _settle_dead_sessions: the wake-up asks about the sessions whose dispatcher is
\* gone.  One left in doubt has no other way to end.
DeadSessions(s) ==
    {t \in Task : \E n \in PendingSessions(s, t) :
        s.sess[t][n].thread /\ s.sess[t][n].status = "AMBIGUOUS"}

SettleDeadSessions ==
    \E T \in SUBSET DeadSessions(run) : ReconcileOver(T) /\ UNCHANGED surprises

-----------------------------------------------------------------------------
(* Completions, complete_desktop_worker.  The session is looked up, the     *)
(* reply parsed and the evidence recorded before the lock is taken; under   *)
(* the lock the session is looked up again.  The dispatcher and the Stop    *)
(* hook may both deliver the same turn.                                     *)

\* (mutated: a completion is taken for any session that has its thread)
IsActive_HasThread(s, t, n) == n \in DOMAIN s.sess[t] /\ s.sess[t][n].thread

IsActive(s, t, n) == n \in DOMAIN s.sess[t] /\ s.sess[t][n].status = "ACTIVE"

Deliver(t) ==
    \E n \in PendingSessions(run, t) :
        /\ IsActive(run, t, n) /\ Cardinality(reading) < MaxReading
        /\ reading' = reading \cup {<<t, n>>}
        /\ UNCHANGED <<run, pause, surprises>>

\* A process that finds its session no longer ACTIVE returns with nothing done; one
\* that has applied its completion is done.
Forget ==
    \E r \in reading :
        /\ ~IsActive(run, r[1], r[2])
        /\ reading' = reading \ {r}
        /\ UNCHANGED <<run, pause, surprises>>

\* An implementation or a revision.
Delivered(s, t, n, state) ==
    [Ended(s, t, n, "COMPLETED", "DONE") EXCEPT !.task[t] = state, !.retry = @ \ {t}]

\* stop_worker_task: a cause that is the owner's blocks the task, any other leaves
\* it READY; both are held by the ticket.
WorkerStopped(s, t, n, state) ==
    [Ended(s, t, n, "BLOCKED", "BLOCKED") EXCEPT
        !.task[t] = state, !.retry = @ \ {t}, !.held = @ \cup {t}]

\* (mutated: passing checks accept the work)
DeliveryStates_ChecksAccept(t) ==
    {"IMPLEMENTED"} \cup (IF t \in Checked THEN {"REVISION_REQUIRED", "VERIFIED"} ELSE {})

\* A failed deterministic check sends the work back without a verdict.
DeliveryStates(t) == {"IMPLEMENTED"} \cup (IF t \in Checked THEN {"REVISION_REQUIRED"} ELSE {})

\* second_lead_gate.  Verdicts of the leads that count towards the ordinal:
FirstVerdicts(s) ==
    UNION {{<<t, n>> : n \in {m \in DOMAIN s.sess[t] :
                /\ s.sess[t][m].final \in {"PASS", "REVISE"}
                /\ s.sess[t][m].lead # "SECOND"}} : t \in Task}

AwaitingLead(s, t) == {m \in DOMAIN s.sess[t] : s.sess[t][m].lead = "AWAITING"}

AppliedState(verdict) == IF verdict = "PASS" THEN "VERIFIED" ELSE "REVISION_REQUIRED"

Relabelled(s, t, n, lead) == Set(s, t, n, [s.sess[t][n] EXCEPT !.lead = lead])

Judged(s, t, n, verdict) ==
    LET ended(state) == [Ended(s, t, n, "COMPLETED", verdict) EXCEPT
                            !.task[t] = state, !.retry = @ \ {t}]
        awaiting == AwaitingLead(s, t)
        first    == CHOOSE m \in awaiting : \A k \in awaiting : k <= m
        selected == Cardinality(FirstVerdicts(ended("IMPLEMENTED"))) % SecondLeadEvery = 0
    IN  IF awaiting # {}
        THEN Relabelled(Relabelled(ended(AppliedState(s.sess[t][first].final)),
                                   t, first, "COMPARED"), t, n, "SECOND")
        ELSE IF selected THEN Relabelled(ended("IMPLEMENTED"), t, n, "AWAITING")
        ELSE ended(AppliedState(verdict))

\* _reject_verifier_result: the verdict could not be read.  Its rejections are
\* counted over the whole run.
Rejected(s, t, n) ==
    LET ended == [Ended(s, t, n, "COMPLETED", "VERIFICATION_REJECTED")
                    EXCEPT !.task[t] = "IMPLEMENTED"]
    IN  IF Rejections(ended, t) > MaxVerificationRejections
        THEN [ended EXCEPT !.held = @ \cup {t}] ELSE ended

\* A verified task is credited to the session that did the work; without one the
\* completion is refused.
Verdicts(s, t, n) ==
    {j \in {Judged(s, t, n, v) : v \in {"PASS", "REVISE"}} :
        j.task[t] = "VERIFIED" => HasFinishedWork(s, t)}

Consume(t, n) ==
    /\ <<t, n>> \in reading
    /\ IsActive(run, t, n)
    /\ run.task[t] = ActiveStateOf(run.sess[t][n].kind)
    /\ UNCHANGED <<pause, reading>>

FinishWork(t) ==
    \E n \in DOMAIN run.sess[t] :
        /\ Consume(t, n) /\ run.sess[t][n].kind \in Production
        /\ \E done \in {Delivered(run, t, n, state) : state \in DeliveryStates(t)} :
             \E s \in Pass(done) : Commit(s)
        /\ UNCHANGED surprises

FinishStopped(t) ==
    \E n \in DOMAIN run.sess[t] :
        /\ Consume(t, n) /\ run.sess[t][n].kind \in Production
        /\ \E stopped \in {WorkerStopped(run, t, n, state) : state \in {"READY", "BLOCKED"}} :
             \E s \in Pass(stopped) : Commit(s)
        /\ Surprise

FinishVerdict(t) ==
    \E n \in DOMAIN run.sess[t] :
        /\ Consume(t, n) /\ run.sess[t][n].kind = "verifier"
        /\ \E judged \in Verdicts(run, t, n) : \E s \in Pass(judged) : Commit(s)
        /\ UNCHANGED surprises

FinishUnreadable(t) ==
    \E n \in DOMAIN run.sess[t] :
        /\ Consume(t, n) /\ run.sess[t][n].kind = "verifier"
        /\ \E rejected \in {Rejected(run, t, n)} : \E s \in Pass(rejected) : Commit(s)
        /\ Surprise

\* reserve_ready_frontier, from the wake-up, a Resume or the start of the run.
Reserve ==
    /\ \E s \in Pass(run) : Commit(s)
    /\ UNCHANGED <<pause, reading, surprises>>

-----------------------------------------------------------------------------
(* The owner and the on-call engineer.                                      *)

RequestPause  == ~pause /\ pause' = TRUE /\ UNCHANGED <<run, reading>> /\ Surprise
ResumeRun     == pause /\ pause' = FALSE /\ UNCHANGED <<run, reading, surprises>>

\* unblock_target.
UnblockTarget(s, t) == IF s.revisions[t] > 0 THEN "IMPLEMENTED" ELSE "READY"

\* at_top_of_ladder and grant_fresh_hire.
GrantFreshHire(s, t) ==
    LET earned == s.revisions[t] \div MaxRevisions
    IN  IF SpentBudget(s, t) /\ LadderTop(s, t)
        THEN [s EXCEPT !.hires[t] = IF earned > @ THEN earned ELSE @] ELSE s

Unblocked(s, t) ==
    {[GrantFreshHire(s, t) EXCEPT !.task = states] :
        states \in TransitionResults(s.task, t, UnblockTarget(s, t))}

\* The ticket is closed without a return.
CloseTicket(t) ==
    /\ t \in run.held
    /\ run' = [run EXCEPT !.held = @ \ {t}]
    /\ UNCHANGED <<pause, reading, surprises>>

\* return_stopped_task: the ticket stays open until the engineer's turn ends.
ReturnStoppedTask(t) ==
    /\ t \in run.held /\ run.task[t] = "BLOCKED"
    /\ run' \in Unblocked(run, t)
    /\ Surprise /\ UNCHANGED <<pause, reading>>

\* answer_task and answer_escalations: every ticket naming the task is closed first.
OwnerAnswers(t) ==
    /\ run.task[t] = "BLOCKED"
    /\ \E s \in Unblocked(run, t) :
          \/ run' = [s EXCEPT !.held = @ \ {t}]
          \/ run' = [run EXCEPT !.held = @ \ {t}]      \* a crash between the two files
    /\ Surprise /\ UNCHANGED <<pause, reading>>

\* block_escalated_tasks: handed up, a held task that is not at work is BLOCKED.
Escalate(t) ==
    /\ t \in run.held \ run.active
    /\ PendingSessions(run, t) = {}
    /\ run.task[t] \notin {"BLOCKED", "VERIFIED"}
    /\ \E states \in TransitionResults(run.task, t, "BLOCKED") : run' = [run EXCEPT !.task = states]
    /\ Surprise /\ UNCHANGED <<pause, reading>>

-----------------------------------------------------------------------------
Init ==
    /\ run = InitialRun
    /\ pause = FALSE /\ reading = {} /\ surprises = 0

TaskStep(t) ==
    \/ CreateThread(t) \/ StartTurn(t) \/ ThreadGone(t)
    \/ FailInDoubt(t) \/ FailSend(t) \/ FailForCertain(t)
    \/ Deliver(t) \/ FinishWork(t) \/ FinishStopped(t) \/ FinishVerdict(t) \/ FinishUnreadable(t)
    \/ CloseTicket(t) \/ ReturnStoppedTask(t) \/ OwnerAnswers(t) \/ Escalate(t)

Next ==
    \/ \E t \in Task : TaskStep(t)
    \/ Forget \/ Reserve \/ Reconcile \/ SettleDeadSessions \/ RequestPause \/ ResumeRun

Spec == Init /\ [][Next]_vars

-----------------------------------------------------------------------------
(* Safety.                                                                  *)

\* The durable state is always one that _validate_state can load.
TypeOK ==
    /\ run \in RunType
    /\ pause \in BOOLEAN
    /\ reading \in SUBSET (Task \X (Nat \ {0}))
    /\ surprises \in 0..MaxSurprises

\* Whatever failed, was returned or was answered, no task is at work, done or
\* waiting for judgement on top of a dependency that is not VERIFIED
\* (task_state.validate_task_states).
DependencyGate ==
    \A t \in Task : run.task[t] \notin UngatedStates =>
        \A d \in Deps[t] : run.task[d] = "VERIFIED"

\* Five records of one fact agree: the task's lifecycle state, its place among
\* the active tasks, its lock, its one pending session, and that session being
\* the newest of the task and of the kind its state calls for.
Agrees(s, t) ==
    /\ t \in s.active <=> s.task[t] \in ActiveStates
    /\ t \in s.active <=> s.lock[t] # 0
    /\ t \in s.active <=> PendingSessions(s, t) # {}
    /\ \A n \in PendingSessions(s, t) :
          /\ n = s.lock[t] /\ n = Len(s.sess[t])
          /\ s.task[t] = ActiveStateOf(s.sess[t][n].kind)

\* However a session ends or is replaced, a task has at most one producer and
\* every record of the run knows the same one.
OneProducer == \A t \in Task : Agrees(run, t)

ConflictFree(s) == \A t \in Holders(s) : Conflicts[t] \cap Holders(s) = {}

\* Two tasks whose resource claims conflict never hold their locks together.
Exclusion == ConflictFree(run)

LastProduction(s, t) ==
    {n \in DOMAIN s.sess[t] : /\ s.sess[t][n].kind \in Production
                              /\ \A m \in DOMAIN s.sess[t] : m > n => s.sess[t][m].kind = "verifier"}

\* A VERIFIED task was passed by a verifier that started after the last session
\* that worked on it.
AcceptedWorkWasJudged ==
    \A t \in Task : run.task[t] = "VERIFIED" =>
        \A p \in LastProduction(run, t) :
            \E n \in DOMAIN run.sess[t] : n > p /\ run.sess[t][n].final = "PASS"

-----------------------------------------------------------------------------
(* The board this implements.                                               *)

BoardWorker ==
    [t \in Task |->
        IF run.task[t] = "VERIFYING" THEN "judge"
        ELSE IF t \in run.active THEN "producer" ELSE "none"]

Attempted ==
    {t \in Task : \E n \in DOMAIN run.sess[t] :
        run.sess[t][n].kind \in Production /\ run.sess[t][n].status \notin Pending}

\* The most workers effective_worker_limit ever allows: the number declared, or the
\* number of tasks on an account whose billing has no ceiling.
Ceiling == CHOOSE most \in Limits : \A limit \in Limits : limit <= most

Board == INSTANCE WorkBoard WITH
    MaxWorkers <- Ceiling,
    accepted   <- {t \in Task : run.task[t] = "VERIFIED"},
    attempted  <- Attempted,
    worker     <- BoardWorker

\* Every step of the frontier, however it pieces handlers, passes and crashes
\* together, is one legal step of the board or changes nothing on it.
BoardSpec == Board!Spec

-----------------------------------------------------------------------------
(* What a step may never do.                                                *)

\* A session that ended stays ended, with the result it ended with: a completion
\* delivered twice, or late, or for a superseded attempt, changes nothing.
RetiredForGood ==
    [][\A t \in Task : \A n \in DOMAIN run.sess[t] :
          run.sess[t][n].status \notin Pending =>
             /\ run'.sess[t][n].final = run.sess[t][n].final
             /\ run'.sess[t][n].status \in {run.sess[t][n].status, "RETIRED_SUPERSEDED"}]_vars

-----------------------------------------------------------------------------
(* Liveness.  The dispatcher drives a reserved session to a running turn and *)
(* the turn to an end that is delivered; the wake-up reserves, and settles   *)
(* the sessions whose dispatcher died.  The owner and the engineer owe       *)
(* nothing.                                                                  *)

Consumes(t) == FinishWork(t) \/ FinishStopped(t) \/ FinishVerdict(t) \/ FinishUnreadable(t)

Fairness ==
    /\ WF_vars(Reserve) /\ WF_vars(SettleDeadSessions) /\ WF_vars(Forget)
    /\ \A t \in Task : /\ WF_vars(CreateThread(t)) /\ WF_vars(StartTurn(t))
                        /\ WF_vars(Deliver(t)) /\ WF_vars(Consumes(t))

FairSpec == Spec /\ Fairness

\* The run never stalls with nobody told: from any point on every task comes to be
\* accepted, or a ticket is open, or she has paused it.
RunFinishes == []<>(Done(run) \/ pause \/ run.held # {})
=============================================================================
