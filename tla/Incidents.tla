----------------------------- MODULE Incidents -----------------------------
(***************************************************************************)
(* The tickets of a run and the engineer on call (pipeline_engineer.py,    *)
(* blocked_runs.py, stop_holds.py, stop_repeats.py, engineer_*.py,         *)
(* owner_answers.py): a stop files a ticket that holds its task, the       *)
(* engineer repairs it or hands it to the owner, the owner answers, and    *)
(* every reservation pass sweeps what was left behind.                     *)
(*                                                                         *)
(* Two files: the incident journal is written ticket by ticket, in         *)
(* transactions of its own; run-state.json once, at the end of a handler.  *)
(* A handler is a function on records                                      *)
(*     [j |-> journal, cuts |-> the journals it wrote on the way,          *)
(*      r |-> the run state it will save]                                  *)
(* so a process that dies in the middle leaves some journal of cuts over   *)
(* the old run state.  A ticket names one task; the means of a repair are  *)
(* those of its kind.  A thread that may have been created without an      *)
(* answer, for which a pass also files a ticket, is in Dispatch.           *)
(***************************************************************************)
EXTENDS Naturals, Sequences, FiniteSets

CONSTANTS Plan,          \* the tasks, in plan order
          StopKinds,     \* the stops a worker can run into
          Unpromptable,  \* the kinds of ticket that do not fit the prompt of the on-call
          MaxTickets,    \* tickets in the journal; past it a ticket cannot be written
          MaxCrashes     \* processes that die

VARIABLES journal, run,
          filing,    \* failures saved whose ticket is not filed yet: the task and the kind
          crashes

vars == <<journal, run, filing, crashes>>

Task == {Plan[k] : k \in DOMAIN Plan}

ASSUME IncidentsAssumption ==
    /\ Plan \in Seq(Task)
    /\ StopKinds \subseteq {"held", "hers", "ladder"}
    /\ Unpromptable \subseteq {"held", "hers", "ladder", "permission", "orphan", "transport"}
    /\ MaxTickets \in Nat \ {0} /\ MaxCrashes \in Nat

MaxRepeatedStops == 2
MaxLostEngineers == 2
PromotionThreshold == 2

Phase == {"DEGRADED", "AUTO_RECOVERY", "RECOVERED", "AUTO_RECOVERY_FAILED",
          "PIPELINE_ENGINEER", "RESOLVED", "ESCALATE_TO_USER"}

\* held: the task waits in READY; hers: a decision of the owner; ladder: the top of the
\* hiring ladder; permission: the turn asked for an approval, which nobody answers for
\* her; orphan: found by the sweep; transport: no stop, a call that keeps failing.
Kind == {"held", "hers", "ladder", "permission", "orphan", "transport"}
IsStop(kind) == kind # "transport"

Ticket == [kind : Kind, task : Task, phase : Phase, runbook : BOOLEAN, closed : BOOLEAN,
           asked : BOOLEAN, answered : BOOLEAN, returned : BOOLEAN]

\* ADRIFT: RUNNING without a dispatcher; REPLANNED: the requester of a plan change, which
\* has it from here on.
TaskState == {"READY", "RUNNING", "ADRIFT", "RETRY_WAIT", "BLOCKED", "REPLANNED", "VERIFIED"}

None == 0
NoSession == [ticket |-> None, alive |-> FALSE]

TypeOK ==
    /\ journal.tickets \in Seq(Ticket) /\ Len(journal.tickets) <= MaxTickets
    /\ journal.slot \in 0..Len(journal.tickets) /\ journal.learned \in 0..PromotionThreshold
    /\ run.task \in [Task -> TaskState] /\ run.granted \subseteq Task
    /\ run.oncall.ticket \in 0..Len(journal.tickets) /\ run.oncall.alive \in BOOLEAN
    /\ run.lost \in [1..MaxTickets -> 0..MaxLostEngineers]
    /\ filing \subseteq Task \X {"transport", "permission"} /\ crashes \in 0..MaxCrashes

Init ==
    /\ journal = [tickets |-> <<>>, slot |-> None, learned |-> 0]
    /\ run = [task |-> [t \in Task |-> "READY"], oncall |-> NoSession,
              lost |-> [k \in 1..MaxTickets |-> 0],
              granted |-> {}]     \* tasks whose permission she has let retry
    /\ filing = {} /\ crashes = 0

-----------------------------------------------------------------------------
(* Handlers, and the journal transactions they are made of.                *)

Now == [j |-> journal, cuts |-> {journal}, r |-> run]

\* One step of a handler after another, each evaluated once.
Then(op(_), s) == CHOOSE r \in {op(x) : x \in {s}} : TRUE

\* op applied with 1, 2, ... n in turn.
FoldUp(op(_, _), s, n) ==
    LET upto[k \in 0..n] == IF k = 0 THEN s ELSE Then(LAMBDA x : op(k, x), upto[k - 1])
    IN  upto[n]

Wrote(s, j) == [s EXCEPT !.j = j, !.cuts = @ \cup {j}]
SetTicket(s, i, ticket) == Wrote(s, [s.j EXCEPT !.tickets[i] = ticket])
SetTask(s, t, state) == [s EXCEPT !.r.task[t] = state]

Tickets(s) == s.j.tickets
OpenTickets(s) == {i \in DOMAIN Tickets(s) : ~Tickets(s)[i].closed}
InLane(s) == {i \in OpenTickets(s) : Tickets(s)[i].phase = "PIPELINE_ENGINEER"}
HeldTasks(s) == {Tickets(s)[i].task : i \in OpenTickets(s)}

Full(s) == Len(Tickets(s)) = MaxTickets

OpenIncident(s, kind, t) ==
    Wrote(s, [s.j EXCEPT !.tickets =
        Append(@, [kind |-> kind, task |-> t, phase |-> "DEGRADED", closed |-> FALSE,
                   runbook |-> kind = "transport" /\ s.j.learned = PromotionThreshold,
                   asked |-> FALSE, answered |-> FALSE, returned |-> FALSE])])

NeedsLane(ticket) ==
    \/ ticket.phase = "AUTO_RECOVERY_FAILED"
    \/ ticket.phase = "DEGRADED" /\ (IsStop(ticket.kind) \/ ~ticket.runbook)

\* A ticket with a learned runbook is refused here; only the sweep takes it up.
EnsureEngineer(s, i) ==
    IF NeedsLane(Tickets(s)[i])
    THEN SetTicket(s, i, [Tickets(s)[i] EXCEPT !.phase = "PIPELINE_ENGINEER"])
    ELSE s

\* Level 1: the slot and the phase in one transaction, the outcome in another.
BeginAutoRecovery(s, i) ==
    Wrote(s, [s.j EXCEPT !.slot = i, !.tickets[i].phase = "AUTO_RECOVERY"])

CompleteAutoRecovery(s, i) ==
    Wrote(s, [s.j EXCEPT !.slot = None, !.tickets[i].phase = "RECOVERED",
                         !.tickets[i].closed = TRUE])

AttemptKnownRecovery(s, i) ==
    IF s.j.slot = None THEN CompleteAutoRecovery(BeginAutoRecovery(s, i), i) ELSE s

-----------------------------------------------------------------------------
(* To the owner.                                                            *)

EscalateToUser(ticket) == [ticket EXCEPT !.phase = "ESCALATE_TO_USER", !.asked = TRUE]

\* (mutated: her answer does not keep a late escalation out)
Escalated_Again(s, i) ==
    IF Tickets(s)[i].phase \in {"PIPELINE_ENGINEER", "RESOLVED", "RECOVERED"}
    THEN SetTicket(s, i, EscalateToUser(Tickets(s)[i]))
    ELSE s

\* The decision reaches her: unless she has answered this ticket already.
Escalated(s, i) ==
    IF ~Tickets(s)[i].answered /\ Tickets(s)[i].phase \in {"PIPELINE_ENGINEER", "RESOLVED", "RECOVERED"}
    THEN SetTicket(s, i, EscalateToUser(Tickets(s)[i]))
    ELSE s

BlockEscalatedTasks(s, i) ==
    LET t == Tickets(s)[i].task
    IN  IF s.r.task[t] \in {"READY", "RETRY_WAIT"} THEN SetTask(s, t, "BLOCKED") ELSE s

HoldsItsTask(ticket) == ticket.kind \in {"held", "permission"}

SameStop(s, i, k) ==
    /\ Tickets(s)[k].kind = Tickets(s)[i].kind /\ Tickets(s)[k].task = Tickets(s)[i].task

AnsweredByHer(ticket) == ticket.asked /\ ticket.closed /\ ticket.answered

\* (mutated: the last closure is not counted)
ClosuresSinceHerAnswer_OffByOne(s, i) ==
    {k \in 1..(i - 2) : SameStop(s, i, k) /\ Tickets(s)[k].closed}

ClosuresSinceHerAnswer(s, i) ==
    {k \in 1..(i - 1) :
        /\ SameStop(s, i, k) /\ Tickets(s)[k].closed /\ ~AnsweredByHer(Tickets(s)[k])
        /\ \A m \in (k + 1)..(i - 1) : SameStop(s, i, m) => ~AnsweredByHer(Tickets(s)[m])}

BoundRepeatedStop(s, i) ==
    IF Cardinality(ClosuresSinceHerAnswer(s, i)) < MaxRepeatedStops THEN s
    ELSE IF HoldsItsTask(Tickets(s)[i]) THEN BlockEscalatedTasks(Escalated(s, i), i)
    ELSE Escalated(s, i)

\* The one door of a stop.

StillOpen(s, kind, t) ==
    {i \in OpenTickets(s) : Tickets(s)[i].kind = kind /\ Tickets(s)[i].task = t}

StopRun(s, kind, t) ==
    LET fresh == Len(Tickets(s)) + 1
    IN  IF StillOpen(s, kind, t) # {}
        THEN EnsureEngineer(s, CHOOSE i \in StillOpen(s, kind, t) : TRUE)
        ELSE IF Full(s) THEN s
        ELSE Then(LAMBDA x : BoundRepeatedStop(x, fresh),
                  Then(LAMBDA x : EnsureEngineer(x, fresh), OpenIncident(s, kind, t)))

-----------------------------------------------------------------------------
(* The reservation pass.                                                    *)

RouteTicket(i, s) ==
    IF i \notin OpenTickets(s) THEN s
    ELSE IF Tickets(s)[i].phase = "DEGRADED" /\ ~NeedsLane(Tickets(s)[i])
    THEN AttemptKnownRecovery(s, i)
    ELSE EnsureEngineer(s, i)

\* (mutated: a stop nobody filed is left to lie)
OrphanBlockedTasks_Never(s) == {}

OrphanBlockedTasks(s) == {t \in Task \ HeldTasks(s) : s.r.task[t] = "BLOCKED"}

FileOrphanBlock(k, s) ==
    IF Plan[k] \in OrphanBlockedTasks(s) THEN StopRun(s, "orphan", Plan[k]) ELSE s

RouteWaitingTickets(s) ==
    FoldUp(FileOrphanBlock, Then(LAMBDA x : FoldUp(RouteTicket, x, Len(Tickets(x))), s), Len(Plan))

Start(s) ==
    [s EXCEPT !.r.task = [t \in Task |-> IF @[t] = "READY" /\ t \notin HeldTasks(s)
                                         THEN "RUNNING" ELSE @[t]]]

LostTwice(s, i) == s.r.lost[i] = MaxLostEngineers

HandLostEngineersToOwner(i, s) ==
    IF HoldsItsTask(Tickets(s)[i]) THEN BlockEscalatedTasks(Escalated(s, i), i) ELSE Escalated(s, i)

HandUnpromptableTicketToOwner(i, s) ==
    LET up == Escalated(s, i)
    IN  IF up # s /\ HoldsItsTask(Tickets(s)[i]) THEN BlockEscalatedTasks(up, i) ELSE up

HandToOwner(i, s) ==
    IF i \notin InLane(s) THEN s
    ELSE IF LostTwice(s, i) THEN HandLostEngineersToOwner(i, s)
    ELSE HandUnpromptableTicketToOwner(i, s)

\* The first ticket of the lane that an engineer can still be sent to; those before it
\* that lost two, or that no prompt holds, go to the owner.
HandedUp(s, first) == FoldUp(HandToOwner, s, first - 1)

ReserveEngineer(s) ==
    LET able == {i \in InLane(s) : ~LostTwice(s, i) /\ Tickets(s)[i].kind \notin Unpromptable}
    IN  IF s.r.oncall # NoSession THEN s
        ELSE IF able = {} THEN HandedUp(s, Len(Tickets(s)) + 1)
        ELSE CHOOSE r \in {[HandedUp(s, i) EXCEPT !.r.oncall = [ticket |-> i, alive |-> TRUE]] :
                              i \in {k \in able : \A m \in able : k <= m}} : TRUE

\* Nobody counts the engineers lost on a ticket that is out of the lane.
Uncounted(s) ==
    [s EXCEPT !.r.lost = [i \in DOMAIN @ |-> IF i \in InLane(s) THEN @[i] ELSE 0]]

Pass(s) == Then(Uncounted, Then(ReserveEngineer, Then(Start, Then(RouteWaitingTickets, s))))

\* The handler runs to its end, or its process dies with some of it written; whoever
\* held the task or the ticket is then without a dispatcher.
Saved(s) == journal' = s.j /\ run' = s.r /\ UNCHANGED crashes

Crashed(s, dead) ==
    /\ crashes < MaxCrashes /\ crashes' = crashes + 1
    /\ journal' \in s.cuts /\ run' = dead

Do(s, dead) == Saved(s) \/ Crashed(s, dead)

DeadTask(t) == [run EXCEPT !.task[t] = "ADRIFT"]
DeadEngineer == [run EXCEPT !.oncall.alive = FALSE]

-----------------------------------------------------------------------------
(* Workers.                                                                 *)

Running(t) == run.task[t] = "RUNNING"

Accept(t) ==
    /\ Running(t)
    /\ \E s \in {Pass(SetTask(Now, t, "VERIFIED"))} : Do(s, DeadTask(t))
    /\ UNCHANGED filing

\* A stop that is not the owner's leaves its task where it can resume.
StopWorkerTask(s, kind, t) == SetTask(s, t, IF kind = "held" THEN "READY" ELSE "BLOCKED")

Stop(t, kind) ==
    /\ Running(t) /\ ~Full(Now)
    /\ \E s \in {Pass(StopRun(StopWorkerTask(Now, kind, t), kind, t))} : Do(s, DeadTask(t))
    /\ UNCHANGED filing

\* The retries of a call are exhausted: the failure is saved and others are reserved ...
ExhaustRetries(t) ==
    /\ Running(t)
    /\ <<t, "transport">> \notin filing /\ ~Full(Now)
    /\ \E s \in {Pass(SetTask(Now, t, "RETRY_WAIT"))} :
          \/ Saved(s) /\ filing' = filing \cup {<<t, "transport">>}
          \/ Crashed(s, DeadTask(t)) /\ UNCHANGED filing

\* ... and then, with the lock released, the ticket is filed.
FileExhausted(t) ==
    /\ <<t, "transport">> \in filing /\ filing' = filing \ {<<t, "transport">>}
    /\ \E s \in {IF Full(Now) THEN Now
                 ELSE EnsureEngineer(OpenIncident(Now, "transport", t), Len(journal.tickets) + 1)} :
          Do(s, run)

\* A turn asks for a permission: a failure of its own, counted by nobody, and no pass ...
AskPermission(t) ==
    /\ Running(t) /\ <<t, "permission">> \notin filing /\ ~Full(Now)
    /\ Saved(SetTask(Now, t, "RETRY_WAIT"))
    /\ filing' = filing \cup {<<t, "permission">>}

\* ... and, in a transaction that follows, the stop that holds the task.
FilePermission(t) ==
    /\ <<t, "permission">> \in filing /\ filing' = filing \ {<<t, "permission">>}
    /\ \E s \in {StopRun(Now, "permission", t)} : Do(s, run)

RetryAgain(t) ==
    /\ run.task[t] = "RETRY_WAIT"
    /\ \E s \in {Pass(SetTask(Now, t, "READY"))} : Do(s, run)
    /\ UNCHANGED filing

Die(t) ==
    /\ run.task[t] = "RUNNING" /\ crashes < MaxCrashes /\ crashes' = crashes + 1
    /\ run' = DeadTask(t)
    /\ UNCHANGED <<journal, filing>>

\* The wake-up: sessions without a dispatcher are settled, then a pass.
SettleDeadSessions ==
    /\ \/ \E t \in Task : run.task[t] = "ADRIFT"
       \/ run.oncall # NoSession /\ ~run.oncall.alive
    /\ LET back == [Now EXCEPT !.r.task = [t \in Task |-> IF @[t] = "ADRIFT" THEN "READY" ELSE @[t]]]
           free == IF run.oncall # NoSession /\ ~run.oncall.alive
                   THEN [back EXCEPT !.r.oncall = NoSession, !.r.lost[run.oncall.ticket] = @ + 1]
                   ELSE back
       IN  \E s \in {Pass(free)} : Do(s, run)
    /\ UNCHANGED filing

ReserveFrontier ==
    /\ \E s \in {Pass(Now)} : Do(s, run)
    /\ UNCHANGED filing

-----------------------------------------------------------------------------
(* The engineer on call.                                                    *)

OnCall == run.oncall.ticket
AtWork == run.oncall # NoSession /\ run.oncall.alive
Held == journal.tickets[OnCall]
EngineerHolds == AtWork /\ Held.phase = "PIPELINE_ENGINEER"

\* devops-return-task: a spent ladder returns once, on a patch of the acceptance path.
ReturnStoppedTask ==
    /\ EngineerHolds /\ Held.kind \notin {"hers", "permission"} /\ run.task[Held.task] = "BLOCKED"
    /\ Held.kind = "ladder" => ~Held.returned
    /\ \E s \in {SetTask(SetTicket(Now, OnCall, [Held EXCEPT !.returned = Held.kind = "ladder"]), Held.task, "READY")} :
          Do(s, DeadEngineer)
    /\ UNCHANGED filing

StopTicketClosable ==
    IsStop(Held.kind) => Held.kind # "hers" /\ run.task[Held.task] # "BLOCKED"

\* Two resolutions of one failing call by the same actions are a runbook.
Learned(j, ticket) ==
    IF IsStop(ticket.kind) \/ j.learned = PromotionThreshold THEN j.learned ELSE j.learned + 1

\* devops-resolve-incident, in one transaction of the journal.
ResolveIncident ==
    /\ EngineerHolds /\ StopTicketClosable
    /\ journal' = [journal EXCEPT !.tickets[OnCall] = [@ EXCEPT !.phase = "RESOLVED", !.closed = TRUE],
                      !.learned = Learned(journal, Held)]
    /\ UNCHANGED <<run, filing, crashes>>

CompletePipelineEngineer(s) == [s EXCEPT !.r.oncall = NoSession]

EndResolved ==
    /\ AtWork /\ Held.phase = "RESOLVED"
    /\ \E s \in {Pass(CompletePipelineEngineer(Now))} : Do(s, DeadEngineer)
    /\ UNCHANGED filing

EndEscalated ==
    /\ AtWork
    /\ LET up == Escalated(Now, OnCall)
           held == IF Held.answered THEN up ELSE BlockEscalatedTasks(up, OnCall)
       IN  \E s \in {Pass(CompletePipelineEngineer(held))} : Do(s, DeadEngineer)
    /\ UNCHANGED filing

\* A turn that failed, an answer that cannot be read, or RESOLVED over an open ticket.
EndRefused ==
    /\ AtWork
    /\ \E s \in {Pass([CompletePipelineEngineer(Now) EXCEPT !.r.lost[OnCall] = @ + 1])} : Do(s, DeadEngineer)
    /\ UNCHANGED filing

EngineerDies ==
    /\ AtWork /\ crashes < MaxCrashes /\ crashes' = crashes + 1
    /\ run' = DeadEngineer
    /\ UNCHANGED <<journal, filing>>

-----------------------------------------------------------------------------
(* The owner.                                                               *)

Answered(ticket) == [ticket EXCEPT !.phase = "RESOLVED", !.closed = TRUE, !.answered = TRUE]

Waiting(s) == {i \in OpenTickets(s) : Tickets(s)[i].phase \in {"PIPELINE_ENGINEER", "ESCALATE_TO_USER"}}

Unblocked(s, t) == IF s.r.task[t] = "BLOCKED" THEN SetTask(s, t, "READY") ELSE s

\* The tickets her answer about t answers.
Mine(t) == {i \in Waiting(Now) : journal.tickets[i].task = t}

CloseOne(i, s, S) == IF i \in S THEN SetTicket(s, i, Answered(Tickets(s)[i])) ELSE s

Closed(s, S) == FoldUp(LAMBDA i, x : CloseOne(i, x, S), s, Len(Tickets(s)))

AsksPermission(t) == \E i \in Mine(t) : journal.tickets[i].kind = "permission"

Granted(s, t) == [s EXCEPT !.r.granted = @ \cup {t}]

\* unblock --task: every waiting ticket that names the task is closed, one by one.  A
\* permission she grants herself lets the task try once more, and only once.
AnswerTask(t) ==
    /\ Mine(t) # {} \/ run.task[t] = "BLOCKED"
    /\ AsksPermission(t) => t \notin run.granted
    /\ \E s \in {Unblocked(Closed(Now, Mine(t)), t)} :
          Do(IF AsksPermission(t) THEN Granted(s, t) ELSE s, run)
    /\ UNCHANGED filing

\* unblock --option replan.  A task at work or accepted is not planned anew, which is
\* found out with its tickets closed already and the state never saved.
AnswerReplan(t) ==
    /\ Mine(t) # {} \/ run.task[t] = "BLOCKED"
    /\ \A u \in Task : run.task[u] # "REPLANNED"
    /\ \E s \in {Closed(Now, Mine(t))} :
          Do(IF run.task[t] \in {"RUNNING", "ADRIFT", "VERIFIED"} THEN s ELSE SetTask(s, t, "REPLANNED"), run)
    /\ UNCHANGED filing

\* A permission that came back after her retry stays with her.
StaysHers(s, ticket) ==
    /\ ticket.kind = "permission" /\ ticket.task \in s.r.granted
    /\ s.r.task[ticket.task] = "BLOCKED"

RetryOnce(s, ticket) ==
    IF s.r.task[ticket.task] # "BLOCKED" THEN s
    ELSE IF ticket.kind = "permission" THEN Granted(Unblocked(s, ticket.task), ticket.task)
    ELSE Unblocked(s, ticket.task)

\* Resume: what was handed to her is answered, what nobody looked at goes to the lane.
AnswerEscalation(i, s) ==
    IF i \notin OpenTickets(s) THEN s
    ELSE IF NeedsLane(Tickets(s)[i]) THEN EnsureEngineer(s, i)
    ELSE IF Tickets(s)[i].phase = "ESCALATE_TO_USER" /\ ~StaysHers(s, Tickets(s)[i])
    THEN RetryOnce(SetTicket(s, i, Answered(Tickets(s)[i])), Tickets(s)[i])
    ELSE s

AnswerEscalations ==
    /\ \E s \in {FoldUp(AnswerEscalation, Now, Len(journal.tickets))} : Do(s, run)
    /\ UNCHANGED filing

-----------------------------------------------------------------------------
OwnerNext == AnswerEscalations \/ \E t \in Task : AnswerTask(t) \/ AnswerReplan(t)

EngineerNext ==
    \/ ReturnStoppedTask \/ ResolveIncident
    \/ EndResolved \/ EndEscalated \/ EndRefused \/ EngineerDies

WorkerNext ==
    \E t \in Task : \/ Accept(t) \/ ExhaustRetries(t) \/ FileExhausted(t) \/ RetryAgain(t) \/ Die(t)
                    \/ AskPermission(t) \/ FilePermission(t)
                    \/ \E kind \in StopKinds : Stop(t, kind)

Next == WorkerNext \/ EngineerNext \/ OwnerNext \/ ReserveFrontier \/ SettleDeadSessions

Spec == Init /\ [][Next]_vars

-----------------------------------------------------------------------------
(* What must hold.                                                          *)

StopTickets == {i \in DOMAIN journal.tickets : IsStop(journal.tickets[i].kind)}

\* The tickets of one stop that the engineer closed, up to the i-th and since she
\* last decided on one of them.
Repairs(i) ==
    {k \in 1..i : /\ SameStop(Now, i, k) /\ journal.tickets[k].closed /\ ~journal.tickets[k].answered
                  /\ \A m \in k..i : SameStop(Now, i, m) => ~AnsweredByHer(journal.tickets[m])}

\* R23: an engineer repairs the same stop twice.  The third time it is the owner's,
\* unless a process died between filing that ticket and counting.
RepairsAreBounded ==
    /\ TypeOK
    /\ \A i \in StopTickets : Cardinality(Repairs(i)) <= MaxRepeatedStops + crashes

\* What she has answered stays answered: the engineer who was still writing, a sweep
\* or a late escalation neither reopens the ticket nor asks her again.
AnswersStand ==
    [][\A i \in DOMAIN journal.tickets :
          journal.tickets[i].answered =>
             journal'.tickets[i] = journal.tickets[i]]_vars

-----------------------------------------------------------------------------
(* Liveness.  The dispatcher ends a turn, the wake-up sweeps and settles, a  *)
(* failure saved is filed by the process that saved it.  The owner owes      *)
(* nothing.                                                                  *)

Fairness ==
    /\ WF_vars(ReserveFrontier) /\ WF_vars(SettleDeadSessions)
    /\ WF_vars(EndResolved \/ EndEscalated \/ EndRefused)
    /\ \A t \in Task : WF_vars(FileExhausted(t)) /\ WF_vars(FilePermission(t)) /\ WF_vars(RetryAgain(t))

FairSpec == Spec /\ Fairness

\* The journal takes no more, or a process died in level 1 and left the slot taken.
Stuck == Full(Now) \/ journal.slot # None

\* A stopped task is never left to itself: it goes back to work, or an open ticket that
\* waits for the owner names it.
BlockedIsAnswerable ==
    \A t \in Task :
        (run.task[t] = "BLOCKED")
           ~> \/ Stuck \/ run.task[t] # "BLOCKED"
              \/ \E i \in OpenTickets(Now) : /\ journal.tickets[i].task = t
                                             /\ journal.tickets[i].phase = "ESCALATE_TO_USER"
=============================================================================
