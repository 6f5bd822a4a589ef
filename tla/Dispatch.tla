------------------------------ MODULE Dispatch ------------------------------
(***************************************************************************)
(* How a reservation becomes a turn: lifecycle_dispatch with the spawning  *)
(* of dispatchers (control), their loop (cli), what they record when they  *)
(* fail (lifecycle_failures), and the wake-up that raises what a dead      *)
(* dispatcher left (wake, engineer_reservation).                           *)
(*                                                                         *)
(* A dispatcher is a process of its own with one App Server; between two   *)
(* transactions on run-state.json any other process may run, and it may be *)
(* killed.  The App Server is external: its threads, which connections     *)
(* have loaded them and the turns they run.  A connection takes its turns  *)
(* with it.  What a reservation is for, and when one is made, is Frontier. *)
(***************************************************************************)
EXTENDS Naturals, FiniteSets

CONSTANTS
    MaxSessions,   \* reservations of the run
    MaxPids,       \* process numbers; one is used again when nothing names it
    MaxThreads,    \* threads the server may create, numbered as it does
    None,
    MaxCrashes,    \* dispatchers killed
    MaxSurprises   \* refusals, silences, lost threads, malformed replies, tries to pause

ASSUME DispatchAssumption ==
    /\ {MaxSessions, MaxPids, MaxThreads} \subseteq Nat \ {0}
    /\ {MaxCrashes, MaxSurprises} \subseteq Nat
    /\ None \notin Nat

Session == 1..MaxSessions
Pid     == 1..MaxPids
Thread  == 1..MaxThreads

Least(set) == CHOOSE x \in set : \A y \in set : x <= y

Pending    == {"CREATE_REQUESTED", "RELAYING", "PREPARED", "SEND_RELAYING", "ACTIVE", "AMBIGUOUS"}
Launchable == {"CREATE_REQUESTED", "PREPARED"}
Status     == Pending \cup {"FREE", "RETRY_WAIT", "COMPLETED", "RETIRED"}

VARIABLES
    session,   \* worker_sessions of run-state.json
    proc,      \* the dispatcher processes
    server,    \* the App Server's threads
    spawning,  \* spawners between their two transactions: [token, child]
    stops,     \* threads whose last turn ended and whose Stop hook has not run
    tickets,   \* reservations an open ticket names
    pause,     \* the pause marker
    seen,      \* sessions an observer found over and has not reconciled yet
    late,      \* history: sessions a dispatcher wrote on too late (LateReset, LateRefusal)
    crashes, surprises

dispatchVars == <<session, proc, server, spawning, stops, tickets, pause, seen, late, crashes, surprises>>

Unborn == [pc |-> "none", token |-> 1, owns |-> FALSE, thread |-> None,
           definitive |-> FALSE, next |-> {}]
Blank  == [status |-> "FREE", thread |-> None, phase |-> "none",
           dispatch |-> "none", pid |-> None, conn |-> None, exited |-> FALSE]
Absent == [of |-> 0, users |-> {}, running |-> {}, last |-> "none", done |-> 0, gone |-> FALSE]

Asked(x) == [x EXCEPT !.status = "CREATE_REQUESTED"]

\* A run under way: the first reservation, like the others, was made by the completion of
\* a task that is not among them.
DispatchInit ==
    /\ session  = [s \in Session |-> IF s = 1 THEN Asked(Blank) ELSE Blank]
    /\ proc     = [p \in Pid |-> Unborn]
    /\ server   = [t \in Thread |-> Absent]
    /\ spawning = {}
    /\ stops = {} /\ tickets = {} /\ pause = FALSE /\ seen = {} /\ late = {}
    /\ crashes = 0 /\ surprises = 0

Alive(p)     == p # None /\ proc[p].pc # "none"
At(p, pc)    == proc[p].pc = pc
Of(p)        == proc[p].token
Goto(p, pc)  == proc' = [proc EXCEPT ![p].pc = pc]
Surprise     == surprises < MaxSurprises /\ surprises' = surprises + 1
Usual        == UNCHANGED surprises
Only(v)      == UNCHANGED v

\* The dispatcher raises: its server is still to be closed (Die).
Raises(p)    == proc' = [proc EXCEPT ![p] = [Unborn EXCEPT !.pc = "die", !.token = Of(p)]]

\* A pid is free again when nothing names it any more.
Unnamed(p) ==
    /\ ~Alive(p)
    /\ \A s \in Session : session[s].status \in Pending => p \notin {session[s].pid, session[s].conn}
    /\ \A w \in spawning : w.child # p
    /\ \A t \in Thread : p \notin server[t].running

Threads(s)        == {t \in Thread : server[t].of = s}
Running(s)        == UNION {{<<t, p>> : p \in server[t].running} : t \in Threads(s)}
Raisable(x)       == x.status \in Launchable \/ (x.status = "RELAYING" /\ x.thread = None)
DispatcherAlive   == \E s \in Session : session[s].dispatch = "RUNNING" /\ Alive(session[s].pid)
Owns(p)           == session[Of(p)].dispatch = "RUNNING" /\ session[Of(p)].pid = p

\* The connection of a process closes: it lets its threads go, and a turn it ran is cut.
Closed(p) ==
    [t \in Thread |-> [server[t] EXCEPT !.users = @ \ {p}, !.running = @ \ {p},
                                        !.last = IF p \in server[t].running THEN "cut" ELSE @]]

\* The end of a dispatcher that raised: its server is closed, a ticket names its task.
Die(p) ==
    /\ At(p, "die")
    /\ server' = Closed(p)
    /\ tickets' = tickets \cup {Of(p)}
    /\ proc' = [proc EXCEPT ![p] = Unborn]
    /\ UNCHANGED <<session, spawning, stops, pause, seen, late, crashes, surprises>>

-----------------------------------------------------------------------------
(* Raising a dispatcher: two transactions of the spawner and a process      *)
(* between them (spawn_automatic_app_server_relay).                         *)

Scheduled(x) ==
    [x EXCEPT !.status = IF @ = "RELAYING" THEN "CREATE_REQUESTED" ELSE @,
              !.dispatch = "SCHEDULED", !.pid = None,
              !.conn = IF x.status = "RELAYING" THEN None ELSE @]

\* A Stop hook, a wake-up or another dispatcher's fan-out raises a reservation nobody
\* drives, be its maker about to adopt it or not.  One that is already scheduled and has no
\* process yet is left alone.
Schedule(s) ==
    /\ Raisable(session[s])
    /\ ~Alive(session[s].pid)
    /\ ~(session[s].dispatch = "SCHEDULED" /\ session[s].pid = None)
    /\ session' = [session EXCEPT ![s] = Scheduled(session[s])]
    /\ spawning' = spawning \cup {[token |-> s, child |-> None]}
    /\ UNCHANGED <<proc, server, stops, tickets, pause, seen, late, crashes, surprises>>

Popen(w) ==
    /\ w.child = None
    /\ \E p \in Pid :
         /\ Unnamed(p) /\ p = Least({q \in Pid : Unnamed(q)})
         /\ proc' = [proc EXCEPT ![p] = [Unborn EXCEPT !.pc = "own", !.token = w.token]]
         /\ spawning' = (spawning \ {w}) \cup {[w EXCEPT !.child = p]}
    /\ UNCHANGED <<session, server, stops, tickets, pause, seen, late, crashes, surprises>>

PopenFails(w) ==
    /\ w.child = None /\ Surprise
    /\ session' = [session EXCEPT ![w.token].dispatch = "SPAWN_FAILED", ![w.token].pid = None]
    /\ spawning' = spawning \ {w}
    /\ UNCHANGED <<proc, server, stops, tickets, pause, seen, late, crashes>>

Bind(w) ==
    /\ w.child # None
    /\ session' = [session EXCEPT ![w.token].dispatch = "RUNNING", ![w.token].pid = w.child]
    /\ spawning' = spawning \ {w}
    /\ UNCHANGED <<proc, server, stops, tickets, pause, seen, late, crashes, surprises>>

-----------------------------------------------------------------------------
(* One dispatcher, up to its turn.                                          *)

\* It waits until its spawner has named it and goes on without when that takes too long: a
\* spawner still at work is seldom so slow, one that has named it in a record overwritten
\* since never will.  It leaves a reservation that is past launching alone.
Unnamable(p) == session[Of(p)].dispatch = "SCHEDULED" /\ session[Of(p)].pid = None
Own(p) ==
    /\ At(p, "own")
    /\ IF Unnamable(p) /\ \E w \in spawning : w.child = p THEN Surprise ELSE Usual
    /\ proc' = [proc EXCEPT ![p].owns = Owns(p),
                            ![p].pc = CASE session[Of(p)].status \in Launchable -> "gate"
                                        [] session[Of(p)].status = "COMPLETED" -> "exit"
                                        [] OTHER -> "die"]
    /\ UNCHANGED <<session, server, spawning, stops, tickets, pause, seen, late, crashes>>

\* The turn that caused the reservation must have ended; when it does not in time, raise.
\* A PREPARED reservation asks whether its thread is still there.
Gate(p) ==
    /\ At(p, "gate")
    /\ \/ /\ Usual
          /\ LET x == session[Of(p)]
             IN Goto(p, CASE x.status = "PREPARED" /\ server[x.thread].gone -> "reset"
                          [] x.status = "CREATE_REQUESTED" -> "create"
                          [] OTHER -> "claim")
       \/ Surprise /\ Raises(p)
    /\ UNCHANGED <<session, server, spawning, stops, tickets, pause, seen, late, crashes>>

\* A thread that is gone is forgotten and asked for anew, without a second look at the
\* session: it may have gone on in between, another dispatcher having claimed its turn, or be
\* in doubt or over.
LateReset(p) == session[Of(p)].status \notin {"CREATE_REQUESTED", "RELAYING", "PREPARED"}

Reset(p) ==
    /\ At(p, "reset")
    /\ late' = IF LateReset(p) THEN late \cup {Of(p)} ELSE late
    /\ session' = [session EXCEPT ![Of(p)].status = "CREATE_REQUESTED",
                                  ![Of(p)].thread = None, ![Of(p)].exited = FALSE]
    /\ Goto(p, "create")
    /\ UNCHANGED <<server, spawning, stops, tickets, pause, seen, crashes, surprises>>

Create(p) ==
    /\ At(p, "create")
    /\ IF session[Of(p)].status = "CREATE_REQUESTED"
       THEN session' = [session EXCEPT ![Of(p)].status = "RELAYING"] /\ Goto(p, "invoke")
       ELSE Raises(p) /\ Only(session)
    /\ UNCHANGED <<server, spawning, stops, tickets, pause, seen, late, crashes, surprises>>

Refused(p, definitive) == proc' = [proc EXCEPT ![p].pc = "fail", ![p].definitive = definitive]
Fails(p, definitive) == Surprise /\ Refused(p, definitive)

\* thread/start: answered, answered and found unfit, refused or never sent, and silence
\* after the thread was or was not created.  Past MaxThreads the server refuses.
Invoke(p) ==
    /\ At(p, "invoke")
    /\ \/ \E t \in Thread :
            /\ server[t] = Absent /\ t = Least({u \in Thread : server[u] = Absent})
            /\ \/ /\ \/ Usual /\ proc' = [proc EXCEPT ![p].pc = "ack", ![p].thread = t]
                     \/ Surprise /\ proc' = [proc EXCEPT ![p].pc = "unfit", ![p].thread = t]
                  /\ server' = [server EXCEPT ![t].of = Of(p), ![t].users = {p}]
               \/ /\ Fails(p, FALSE)
                  /\ server' = [server EXCEPT ![t].of = Of(p)]
       \/ /\ IF \E t \in Thread : server[t] = Absent THEN Surprise ELSE Usual
          /\ Refused(p, TRUE) /\ Only(server)
       \/ Fails(p, FALSE) /\ Only(server)
    /\ UNCHANGED <<session, spawning, stops, tickets, pause, seen, late, crashes>>

\* A thread that exists and is not as asked: in doubt, with its thread.
Unfit(p) ==
    /\ At(p, "unfit")
    /\ IF session[Of(p)].status = "RELAYING"
       THEN session' = [session EXCEPT ![Of(p)].status = "AMBIGUOUS",
                                       ![Of(p)].phase = "APP_SERVER_CREATED",
                                       ![Of(p)].thread = proc[p].thread]
       ELSE Only(session)
    /\ Raises(p)
    /\ UNCHANGED <<server, spawning, stops, tickets, pause, seen, late, crashes, surprises>>

Prepared(x, p) ==
    [x EXCEPT !.status = "PREPARED", !.thread = proc[p].thread, !.exited = FALSE,
              !.conn = IF proc[p].owns THEN p ELSE None]

Acknowledge(p) ==
    /\ At(p, "ack")
    /\ IF session[Of(p)].status = "RELAYING" /\ session[Of(p)].thread = None
       THEN session' = [session EXCEPT ![Of(p)] = Prepared(session[Of(p)], p)] /\ Goto(p, "claim")
       ELSE Raises(p) /\ Only(session)
    /\ UNCHANGED <<server, spawning, stops, tickets, pause, seen, late, crashes, surprises>>

CreatorGone(x) ==
    LET creator == IF x.conn # None THEN x.conn ELSE x.pid
    IN creator # None /\ ~Alive(creator)

Claimable_Again(x, p) == x.thread # None

\* One claim of the one turn/start: the thread's creator is this process or is gone.  Where
\* Desktop files the thread is measured first and never stops it, unless the measure fails.
Claimable(x, p) ==
    /\ x.status = "PREPARED"
    /\ \/ x.exited
       \/ proc[p].owns /\ Owns(p) /\ x.conn = p
       \/ CreatorGone(x)

Claim(p) ==
    /\ At(p, "claim")
    /\ \/ /\ Usual /\ Claimable(session[Of(p)], p)
          /\ session' = [session EXCEPT ![Of(p)].status = "SEND_RELAYING",
                                        ![Of(p)].exited = @ \/ CreatorGone(session[Of(p)])]
          /\ proc' = [proc EXCEPT ![p].pc = "send", ![p].thread = session[Of(p)].thread]
       \/ Usual /\ ~Claimable(session[Of(p)], p) /\ Raises(p) /\ Only(session)
       \/ Surprise /\ Raises(p) /\ Only(session)
    /\ UNCHANGED <<server, spawning, stops, tickets, pause, seen, late, crashes>>

\* thread/resume and turn/start: the thread is gone or not as recorded; turn/start is
\* refused; no answer, and the turn did or did not start; the turn starts.
Send(p) ==
    /\ At(p, "send")
    /\ LET t == proc[p].thread
           started == [server EXCEPT ![t].users = @ \cup {p}, ![t].running = @ \cup {p}]
       IN \/ /\ server[t].gone
             /\ proc' = [proc EXCEPT ![p].pc = "fail", ![p].definitive = FALSE]
             /\ Only(server) /\ Usual
          \/ ~server[t].gone /\ Fails(p, TRUE) /\ Only(server)
          \/ Fails(p, FALSE) /\ Only(server)
          \/ ~server[t].gone /\ Fails(p, FALSE) /\ server' = started
          \/ ~server[t].gone /\ Usual /\ server' = started
             /\ proc' = [proc EXCEPT ![p].pc = "sent"]
    /\ UNCHANGED <<session, spawning, stops, tickets, pause, seen, late, crashes>>

Sent(p) ==
    /\ At(p, "sent")
    /\ IF session[Of(p)].thread = proc[p].thread /\ session[Of(p)].status \in {"SEND_RELAYING", "ACTIVE"}
       THEN session' = [session EXCEPT ![Of(p)].status = "ACTIVE"] /\ Goto(p, "wait")
       ELSE proc' = [proc EXCEPT ![p].pc = "fail", ![p].definitive = TRUE] /\ Only(session)
    /\ UNCHANGED <<server, spawning, stops, tickets, pause, seen, late, crashes, surprises>>

-----------------------------------------------------------------------------
(* The turn and its end.                                                    *)

\* The turn completes on the server; its Stop hook is due.
TurnCompletes(t) ==
    /\ \E p \in server[t].running :
         server' = [server EXCEPT ![t].running = @ \ {p}, ![t].done = @ + 1, ![t].last = "completed"]
    /\ stops' = stops \cup {t}
    /\ UNCHANGED <<session, proc, spawning, tickets, pause, seen, late, crashes, surprises>>

TurnFails(t) ==
    /\ Surprise
    /\ \E p \in server[t].running : server' = [server EXCEPT ![t].running = @ \ {p}, ![t].last = "cut"]
    /\ UNCHANGED <<session, proc, spawning, stops, tickets, pause, seen, late, crashes>>

\* wait_for_turn: a pause ends the wait; else it hears that the turn completed, failed or
\* was given up (an access request, a time-out).
Wait(p) ==
    /\ At(p, "wait")
    /\ LET t == proc[p].thread
       IN \/ pause /\ Usual /\ proc' = [proc EXCEPT ![p].pc = "fail", ![p].definitive = TRUE]
          \/ p \notin server[t].running /\ server[t].last = "completed"
             /\ Usual /\ Goto(p, "complete")
          \/ p \notin server[t].running /\ server[t].last = "cut"
             /\ Usual /\ proc' = [proc EXCEPT ![p].pc = "fail", ![p].definitive = TRUE]
          \/ p \in server[t].running /\ Fails(p, TRUE)
    /\ UNCHANGED <<session, server, spawning, stops, tickets, pause, seen, late, crashes>>

Cleared(x, dispatch) ==
    IF x.dispatch = "none" THEN x
    ELSE [x EXCEPT !.dispatch = dispatch, !.pid = None, !.conn = None]

\* record_desktop_failure: what is not certain stays in doubt; a send that was certainly
\* refused leaves the thread to be used again; anything else is a new attempt.
Failed(x, definitive) ==
    LET phase == IF x.status = "AMBIGUOUS" /\ x.phase # "none" THEN x.phase ELSE x.status
    IN CASE ~definitive -> [Cleared(x, "AMBIGUOUS") EXCEPT !.status = "AMBIGUOUS", !.phase = phase]
         [] definitive /\ phase \in {"PREPARED", "SEND_RELAYING"} ->
              [Cleared(x, "FAILED") EXCEPT !.status = "PREPARED"]
         [] OTHER -> [Cleared(x, "RETRY_WAIT") EXCEPT !.status = "RETRY_WAIT"]

\* A failure is recorded while its phase is still the session's.
Phase(p) == IF proc[p].thread = None THEN Pending ELSE {"SEND_RELAYING", "ACTIVE"}

\* The create of a dispatcher was certainly refused and is recorded, but another one has
\* created the thread and claimed the turn in between.
LateRefusal(p) ==
    LET x == session[Of(p)]
    IN  /\ proc[p].thread = None /\ proc[p].definitive
        /\ x.status = "SEND_RELAYING" \/ (x.status = "AMBIGUOUS" /\ x.phase = "SEND_RELAYING")

Fail(p) ==
    /\ At(p, "fail")
    /\ late' = IF LateRefusal(p) THEN late \cup {Of(p)} ELSE late
    /\ IF session[Of(p)].status \in Phase(p)
       THEN session' = [session EXCEPT ![Of(p)] = Failed(session[Of(p)], proc[p].definitive)]
       ELSE Only(session)
    /\ Raises(p)
    /\ UNCHANGED <<server, spawning, stops, tickets, pause, seen, crashes, surprises>>

\* The reservations a completion makes, in the same transaction: none under a pause.
Fresh == {s \in Session : session[s].status = "FREE"}
Successors(n) ==
    /\ n \subseteq Fresh
    /\ \A s \in n, r \in Fresh \ n : s < r
    /\ pause => n = {}

Completed(s, dispatch, n) ==
    [r \in Session |->
        IF r = s THEN [session[r] EXCEPT !.status = "COMPLETED", !.dispatch = dispatch]
        ELSE IF r \in n THEN Asked(session[r]) ELSE session[r]]

\* complete_desktop_worker called by the dispatcher.  A reply that cannot be read is
\* recorded as a failed attempt; a completion that finds no ACTIVE session changes nothing.
Complete(p) ==
    /\ At(p, "complete")
    /\ \/ /\ session[Of(p)].status = "ACTIVE" /\ session[Of(p)].thread = proc[p].thread
          /\ \E n \in SUBSET Session :
               /\ Successors(n)
               /\ session' = Completed(Of(p),
                     CASE ~(proc[p].owns /\ Owns(p)) -> session[Of(p)].dispatch
                       [] n = {} -> "COMPLETED"
                       [] OTHER -> "ADVANCING", n)
               /\ proc' = [proc EXCEPT ![p].pc = "exit", ![p].next = n]
          /\ Usual
       \/ /\ session[Of(p)].status = "ACTIVE" /\ Surprise
          /\ session' = [session EXCEPT ![Of(p)] = Failed(session[Of(p)], FALSE)]
          /\ Goto(p, "exit")
       \/ /\ session[Of(p)].status # "ACTIVE" /\ Usual
          /\ Goto(p, "exit") /\ Only(session)
    /\ UNCHANGED <<server, spawning, stops, tickets, pause, seen, late, crashes>>

\* The server of this turn is closed and its exit recorded by the owner of the completed
\* session; then one successor is adopted, several are left to dispatchers of their own.
Exit(p) ==
    /\ At(p, "exit")
    /\ server' = Closed(p)
    /\ LET x == session[Of(p)]
       IN IF x.pid = p /\ x.status = "COMPLETED"
          THEN /\ session' = [session EXCEPT ![Of(p)].conn = None,
                                ![Of(p)].pid = IF x.dispatch = "COMPLETED" THEN None ELSE @]
               /\ IF Cardinality(proc[p].next) = 1 THEN Goto(p, "adopt")
                  ELSE proc' = [proc EXCEPT ![p] = Unborn]
          ELSE Only(session) /\ Raises(p)
    /\ UNCHANGED <<spawning, stops, tickets, pause, seen, late, crashes, surprises>>

Adopt(p) ==
    /\ At(p, "adopt")
    /\ LET n == CHOOSE s \in proc[p].next : TRUE
           x == session[Of(p)]
       IN IF x.dispatch = "ADVANCING" /\ x.pid = p /\ session[n].status \in Launchable
          THEN /\ session' = [session EXCEPT ![Of(p)].dispatch = "COMPLETED", ![Of(p)].pid = None,
                                             ![n].dispatch = "RUNNING", ![n].pid = p]
               /\ proc' = [proc EXCEPT ![p] = [Unborn EXCEPT !.pc = "own", !.token = n]]
          ELSE Only(session) /\ Raises(p)
    /\ UNCHANGED <<server, spawning, stops, tickets, pause, seen, late, crashes, surprises>>

-----------------------------------------------------------------------------
(* The others: the Stop hook of a worker, the wake-up, the owner, death.    *)

\* The hook leaves a turn to a live dispatcher that owns it; else it completes it itself.
StopHook(t) ==
    /\ t \in stops
    /\ stops' = stops \ {t}
    /\ \/ \E s \in Session, n \in SUBSET Session :
            /\ session[s].status = "ACTIVE" /\ session[s].thread = t
            /\ ~(session[s].dispatch = "RUNNING" /\ Alive(session[s].pid))
            /\ Successors(n)
            /\ session' = Completed(s, session[s].dispatch, n)
       \/ /\ \A s \in Session :
               (session[s].status = "ACTIVE" /\ session[s].thread = t) =>
                  session[s].dispatch = "RUNNING" /\ Alive(session[s].pid)
          /\ Only(session)
    /\ UNCHANGED <<proc, server, spawning, tickets, pause, seen, late, crashes, surprises>>

\* What the server says of a thread: a turn runs, it is over, or nothing one may build on.
Over(t) == t # None /\ ~server[t].gone /\ server[t].running = {}

Retired_ToSend(x) == [x EXCEPT !.status = "PREPARED"]

Retired(x) == [x EXCEPT !.status = "RETRY_WAIT"]

Overdue_ActiveOnly ==
    {s \in Session : session[s].status = "ACTIVE" /\ Over(session[s].thread)}

\* The wake-up, when no dispatcher is alive and no pause holds, asks about the sessions
\* past their creation whose dispatcher is dead; Resume asks about all of them, after it
\* has lifted the pause.  Both act on the answer later (observe_worker_states, then
\* reconcile_desktop_runtime); one of them at a time here.
Overdue == {s \in Session : session[s].status \in Pending /\ Over(session[s].thread)}

WakeLooks ==
    /\ ~pause /\ ~DispatcherAlive /\ seen = {}
    /\ seen' = {s \in Overdue : session[s].status \notin Launchable /\ ~Alive(session[s].pid)}
    /\ seen' # {}
    /\ UNCHANGED <<session, proc, server, spawning, stops, tickets, pause, late, crashes, surprises>>

Resume ==
    /\ seen = {} /\ seen' = Overdue
    /\ pause' = FALSE
    /\ IF pause THEN Usual ELSE Overdue # {} /\ Surprise
    /\ UNCHANGED <<session, proc, server, spawning, stops, tickets, late, crashes>>

Reconcile ==
    /\ seen # {} /\ seen' = {}
    /\ session' = [s \in Session |->
          IF s \in seen /\ session[s].status \in Pending THEN Retired(session[s]) ELSE session[s]]
    /\ UNCHANGED <<proc, server, spawning, stops, tickets, pause, late, crashes, surprises>>

\* A create in doubt with nobody left to settle it is filed for the on-call.
SettleLostCreate(s) ==
    /\ ~pause
    /\ session[s].status = "AMBIGUOUS" /\ session[s].thread = None
    /\ ~Alive(session[s].pid) /\ s \notin tickets
    /\ tickets' = tickets \cup {s}
    /\ UNCHANGED <<session, proc, server, spawning, stops, pause, seen, late, crashes, surprises>>

\* The frontier when nothing is pending: the next attempt, or the next task.
Reserve ==
    /\ ~pause
    /\ \A s \in Session : session[s].status \notin Pending
    /\ \E s \in Fresh :
         /\ Successors({s})
         /\ session' = [session EXCEPT ![s] = Asked(@)]
    /\ UNCHANGED <<proc, server, spawning, stops, tickets, pause, seen, late, crashes, surprises>>

\* A create that certainly failed, with its ticket, while nothing else is under way.
Rearmable(s) ==
    /\ session[s].status = "RETRY_WAIT" /\ session[s].thread = None
    /\ s \in tickets
    /\ \A r \in Session : session[r].status \notin Pending

\* reactivate_desktop_relay_owner closes that ticket as repaired and lifts a pause; the new
\* attempt is then reserved and raised by it as by anybody (Reserve, Schedule).  When that
\* fails it undoes both.
Rearm(s) ==
    /\ Rearmable(s)
    /\ tickets' = tickets \ {s} /\ pause' = FALSE
    /\ UNCHANGED <<session, proc, server, spawning, stops, seen, late, crashes, surprises>>

\* recreate_archived_desktop_retry retires an attempt whose thread the owner archived, in a
\* paused run; it goes on as a resumption and a new attempt do.
Recreate(s) ==
    /\ pause
    /\ session[s].status = "RETRY_WAIT" /\ session[s].thread # None
    /\ ~Alive(session[s].pid)
    /\ \A r \in Session : session[r].status \notin Pending
    /\ session' = [session EXCEPT ![s].status = "RETIRED", ![s].dispatch = "RETIRED",
                                  ![s].pid = None]
    /\ UNCHANGED <<proc, server, spawning, stops, tickets, pause, seen, late, crashes, surprises>>

RequestPause ==
    /\ ~pause /\ Surprise
    /\ pause' = TRUE
    /\ UNCHANGED <<session, proc, server, spawning, stops, tickets, seen, late, crashes>>

\* A thread without a subscriber may be lost by the server.
LoseThread(t) ==
    /\ Surprise
    /\ server[t].of # 0 /\ server[t].users = {} /\ ~server[t].gone
    /\ server' = [server EXCEPT ![t].gone = TRUE]
    /\ UNCHANGED <<session, proc, spawning, stops, tickets, pause, seen, late, crashes>>

Kill(p) ==
    /\ Alive(p) /\ crashes < MaxCrashes
    /\ crashes' = crashes + 1
    /\ server' = Closed(p)
    /\ proc' = [proc EXCEPT ![p] = Unborn]
    /\ UNCHANGED <<session, spawning, stops, tickets, pause, seen, late, surprises>>

-----------------------------------------------------------------------------
Step(p) ==
    \/ Own(p) \/ Gate(p) \/ Reset(p) \/ Create(p) \/ Invoke(p) \/ Unfit(p) \/ Acknowledge(p)
    \/ Claim(p) \/ Send(p) \/ Sent(p) \/ Wait(p) \/ Fail(p) \/ Complete(p)
    \/ Exit(p) \/ Adopt(p) \/ Die(p)

DispatchNext ==
    \/ \E p \in Pid : Step(p) \/ Kill(p)
    \/ \E w \in spawning : Popen(w) \/ PopenFails(w) \/ Bind(w)
    \/ \E s \in Session : Schedule(s) \/ SettleLostCreate(s) \/ Rearm(s) \/ Recreate(s)
    \/ \E t \in Thread : TurnCompletes(t) \/ TurnFails(t) \/ StopHook(t) \/ LoseThread(t)
    \/ Reserve \/ RequestPause \/ Resume \/ WakeLooks \/ Reconcile

DispatchSpec == DispatchInit /\ [][DispatchNext]_dispatchVars

-----------------------------------------------------------------------------
(* Properties.                                                              *)

DispatchTypeOK ==
    /\ \A s \in Session :
         /\ session[s].status \in Status
         /\ session[s].thread \in Thread \cup {None}
         /\ {session[s].pid, session[s].conn} \subseteq Pid \cup {None}
         /\ session[s].status \in {"PREPARED", "SEND_RELAYING", "ACTIVE", "COMPLETED"} =>
               session[s].thread # None
         /\ session[s].status \in {"CREATE_REQUESTED", "RELAYING"} => session[s].thread = None
    /\ \A p \in Pid : proc[p].token \in Session /\ proc[p].next \subseteq Session
    /\ \A w \in spawning : w.token \in Session /\ w.child \in Pid \cup {None}
    /\ seen \subseteq Session /\ tickets \subseteq Session /\ late \subseteq Session
    /\ stops \subseteq Thread

\* Two turns of one reservation never run at once, whoever raised its dispatchers: the one
\* claim of the turn, the barrier of the creator and the refusal to repeat what is in doubt.
\* Said of the reservations no dispatcher wrote on too late: a thread forgotten after the
\* turn was claimed (LateReset) and a refused create recorded over a claim (LateRefusal) let
\* the turn be claimed once more.
OneTurnAtATime ==
    /\ DispatchTypeOK
    /\ \A s \in Session \ late : Cardinality(Running(s)) <= 1

\* The work of a reservation is done at most once: no turn of it completes after another
\* did, its result applied or not.  Said, too, of the reservations no dispatcher wrote on
\* too late (LateReset, LateRefusal); of the others it fails in the code.
WorkedOnce ==
    \A s \in Session \ late : \A t, u \in Threads(s) :
        server[t].done > 0 => server[t].done = 1 /\ (u # t => server[u].done = 0)

\* The server goes on, the wake agent sweeps, every process runs until it ends or is
\* killed.  The owner owes nothing.
Fairness ==
    /\ \A p \in Pid : WF_dispatchVars(Step(p))
    /\ \A s \in Session :
         /\ WF_dispatchVars(Schedule(s)) /\ WF_dispatchVars(SettleLostCreate(s))
         /\ WF_dispatchVars(\E w \in spawning : w.token = s /\ (Popen(w) \/ Bind(w)))
    /\ \A t \in Thread : WF_dispatchVars(TurnCompletes(t)) /\ WF_dispatchVars(StopHook(t))
    /\ WF_dispatchVars(WakeLooks) /\ WF_dispatchVars(Reconcile)

DispatchFairSpec == DispatchSpec /\ Fairness

\* A thread that the server lost after its claim: thread/read refuses, which the observer
\* takes for "unknown", so nobody retires the session.
Lost(x) == x.status \notin Launchable /\ x.thread # None /\ server[x.thread].gone

\* A pending session comes to an end, or a ticket tells of it, or the owner paused the run,
\* or its thread is lost: whoever died or kept silent, some process raises it again or
\* settles it.
EverySessionEnds ==
    \A s \in Session :
        session[s].status \in Pending ~>
            session[s].status \notin Pending \/ s \in tickets \/ pause \/ Lost(session[s])
=============================================================================
