------------------------------ MODULE Capacity ------------------------------
(***************************************************************************)
(* How many sessions may run and which (scheduler.py, usage.py), and the   *)
(* resource bundles they hold while they do (resources.py), as the         *)
(* reservation pass of lifecycle_reservations.py brings them together: the *)
(* follow-ups of work already done first, then the ready tasks in the      *)
(* order of the scheduler, each of which must get the locks the scheduler  *)
(* found free.                                                             *)
(*                                                                         *)
(* Claims are abstracted to which tasks Clash; module Claims is about when *)
(* two claims do.  scheduler_sequence and task_ready_since become the      *)
(* queue of the ready tasks, which holds the order of their ages.          *)
(***************************************************************************)
EXTENDS Integers, FiniteSets, Sequences, FiniteSetsExt, SequencesExt

CONSTANTS Order,       \* the tasks, as the plan declares them
          Needs,       \* the tasks each one depends on
          Weight,      \* their explicit priority
          Clash,       \* pairs of tasks with conflicting claims
          Gui,         \* tasks in execution mode computer_use
          GuiChecked,  \* tasks verified in that mode
          AstraOnly,   \* every task goes to the model that holds the surface
          Serial,      \* the strategy of the plan or of the state is serial
          Workers,     \* max_parallel_workers of the plan
          GuiSlots,    \* computer_use_slots
          Readings,    \* what the account may say of its limits
          MaxRounds    \* sessions of one task that fail or are sent back

Tasks == ToSet(Order)

Dependents(t) == {u \in Tasks : t \in Needs[u]}

AllReadings == {"none", "ample", "half", "low", "last", "capped", "unlimited"}

\* An admitted plan declares each task once, and its dependencies have no cycle: of any of
\* its tasks there is one that no other of them waits for.
ASSUME CapacityAssumption ==
    /\ Order \in Seq(Tasks) /\ IsInjective(Order)
    /\ Needs \in [Tasks -> SUBSET Tasks]
    /\ \A S \in SUBSET Tasks : S # {} => \E t \in S : Dependents(t) \cap S = {}
    /\ Weight \in [Tasks -> Int]
    /\ Gui \subseteq Tasks /\ GuiChecked \subseteq Tasks
    /\ AstraOnly \in BOOLEAN /\ Serial \in BOOLEAN
    /\ Workers \in Nat \ {0} /\ GuiSlots \in Nat \ {0}
    /\ Readings \subseteq AllReadings /\ MaxRounds \in Nat

VARIABLES state,    \* task_states
          queue,    \* the ready tasks, the one that has been ready longest first
          lock,     \* computer_use_slot of each held bundle
          cap,      \* max_parallel_workers of the run state
          reading,  \* rate_limits
          later,    \* tasks whose retry is not due
          rounds

capacityVars == <<state, queue, lock, cap, reading, later, rounds>>

ActiveStates == {"RUNNING", "VERIFYING", "REVISING"}
Back == [RUNNING |-> "READY", VERIFYING |-> "IMPLEMENTED", REVISING |-> "REVISION_REQUIRED"]

\* A bundle holds no slot, or one of them; a task may hold no bundle.
NoLock == [held |-> FALSE, gui |-> FALSE, slot |-> 0]
Lock == [held : BOOLEAN, gui : BOOLEAN, slot : 0..GuiSlots]

Active(s) == {t \in Tasks : s[t] \in ActiveStates}

CapacityTypeOK ==
    /\ state \in [Tasks -> ActiveStates \cup {"WAITING", "READY", "IMPLEMENTED",
                                              "REVISION_REQUIRED", "VERIFIED"}]
    /\ lock \in [Tasks -> Lock] /\ \A t \in Tasks : lock[t].held <=> t \in Active(state)
    /\ queue \in Seq(Tasks) /\ ToSet(queue) \subseteq {t \in Tasks : state[t] = "READY"}
    /\ IsInjective(queue)
    /\ cap \in 1..(Workers + Len(Order)) /\ reading \in AllReadings
    /\ later \subseteq Tasks /\ rounds \in [Tasks -> 0..MaxRounds]

CapacityInit ==
    /\ state = [t \in Tasks |-> "WAITING"] /\ queue = <<>>
    /\ lock = [t \in Tasks |-> NoLock]
    /\ cap = Workers /\ reading = "none"
    /\ later = {} /\ rounds = [t \in Tasks |-> 0]

-----------------------------------------------------------------------------
(* The number of workers.                                                   *)

Unlimited == 0      \* a budget that sets no ceiling

Lower(a, b) == IF a < b THEN a ELSE b
Higher(a, b) == IF a < b THEN b ELSE a

WorkerBudget(declared) ==
    CASE reading \in {"none", "ample"}   -> declared
      [] reading \in {"capped", "last"}  -> 1
      [] reading = "unlimited"           -> Unlimited
      [] reading = "half"                -> Lower(declared, Higher(2, declared \div 2))
      [] reading = "low"                 -> Lower(declared, 2)

Budget(c) == WorkerBudget(Lower(Workers, c))

EffectiveLimit(c) ==
    IF Serial THEN 1 ELSE IF Budget(c) = Unlimited THEN Len(Order) ELSE Budget(c)

\* The ceiling of the state follows a budget that sets none.
Followed(c) == IF Budget(c) = Unlimited THEN Higher(c, EffectiveLimit(c)) ELSE c

-----------------------------------------------------------------------------
(* Bundles.                                                                 *)

\* The member of a set of numbers that k others are below.
Nth(S, k) == CHOOSE n \in S : Cardinality({m \in S : m < n}) = k

Holding(l) == {t \in Tasks : l[t].held}
UsedSlots(l) == {l[t].slot : t \in {u \in Holding(l) : l[u].gui}}
FreeSlots(l) == (1..GuiSlots) \ UsedSlots(l)

InConflict(T, t) == \E u \in T : {t, u} \in Clash

\* (mutated: the claims of the bundles held are not compared)
CanAcquire_Unchecked(l, before, gui, t) ==
    ~l[t].held /\ (t \in gui => Cardinality(before \cap gui) < Cardinality(FreeSlots(l)))

\* acquire_resources_in_state, after `before' got their bundles in the same pass, those in
\* gui with a slot: refused while another bundle conflicts, or for want of a slot.
CanAcquire(l, before, gui, t) ==
    /\ ~l[t].held /\ ~InConflict(Holding(l) \cup before, t)
    /\ t \in gui => Cardinality(before \cap gui) < Cardinality(FreeSlots(l))

\* The bundles of T, each with the lowest slot the earlier ones leave.
Acquired(l, T, gui, before) ==
    LET slot(t) == IF t \in gui THEN Nth(FreeSlots(l), Cardinality(before[t] \cap gui)) ELSE 0
    IN  [t \in Tasks |-> IF t \in T THEN [held |-> TRUE, gui |-> t \in gui, slot |-> slot(t)]
                                    ELSE l[t]]

-----------------------------------------------------------------------------
(* The order of the scheduler.                                              *)

CriticalPath[t \in Tasks] ==
    1 + Max({0} \cup {CriticalPath[u] : u \in Dependents(t)})

Descendants[t \in Tasks] ==
    Dependents(t) \cup UNION {Descendants[u] : u \in Dependents(t)}

FanOut == [t \in Tasks |-> Cardinality(Descendants[t])]

\* build_scheduler_availability
Available(l, t) ==
    /\ ~InConflict(Holding(l), t)
    /\ t \in Gui => Cardinality(UsedSlots(l)) < GuiSlots

Place(seq) == [t \in ToSet(seq) |-> CHOOSE n \in DOMAIN seq : seq[n] = t]
Declared == Place(Order)

\* _priority_key, least first.
Key(r, t) == <<IF Available(r.lock, t) THEN 0 ELSE 1, 9 - Weight[t], 9 - CriticalPath[t],
               9 - FanOut[t], Place(r.queue)[t], Declared[t]>>

Precedes(j, k) == \E n \in DOMAIN j : j[n] < k[n] /\ \A m \in 1..(n - 1) : j[m] = k[m]

\* The tasks that keep the surface of Computer Use busy.
Surface(T) == {t \in T : t \in Gui \/ AstraOnly}

\* (mutated: a task is compared with the bundles held, not with the tasks just selected)
Admitted_Alone(r, chosen, t) ==
    /\ Available(r.lock, t)
    /\ Surface({t}) # {} => Cardinality(Surface(Active(r.state) \cup chosen)) < GuiSlots
    /\ Cardinality(Active(r.state) \cup chosen) < EffectiveLimit(r.cap)

\* (mutated: only a task that others wait for is ever worth a place)
Admitted_Path(r, chosen, t) ==
    /\ FanOut[t] > 0 /\ Available(r.lock, t) /\ ~InConflict(chosen, t)
    /\ Cardinality(Active(r.state) \cup chosen) < EffectiveLimit(r.cap)

\* schedule: whether a task joins the ones selected before it, or is deferred.
Admitted(r, chosen, t) ==
    /\ Available(r.lock, t) /\ ~InConflict(chosen, t)
    /\ Surface({t}) # {} => Cardinality(Surface(Active(r.state) \cup chosen)) < GuiSlots
    /\ Cardinality(Active(r.state) \cup chosen) < EffectiveLimit(r.cap)

\* The tasks that come before one in a set that key orders.
Ahead(key, S, t) == {u \in S : Precedes(key[u], key[t])}

IsSelection(r, key, S) ==
    \A t \in DOMAIN key : t \in S <=> Admitted(r, Ahead(key, S, t), t)

-----------------------------------------------------------------------------
(* The pass.                                                                *)

Followup == [IMPLEMENTED |-> "VERIFYING", REVISION_REQUIRED |-> "REVISING"]

\* What is left of a sequence when only the members of S stay.
Only(seq, S) ==
    LET places == {n \in DOMAIN seq : seq[n] \in S}
    IN  [k \in 1..Cardinality(places) |-> seq[Nth(places, k - 1)]]

Earlier(F, t) == {u \in F : Declared[u] < Declared[t]}

\* The follow-ups that need a slot: the verifier's mode is its own.
FollowupGui == {t \in Tasks : IF state[t] = "IMPLEMENTED" THEN t \in GuiChecked ELSE t \in Gui}

\* The verifiers and revisions of what is done, in the order of the plan, while there is
\* room; one whose bundle is not free waits for another pass.
IsFollowupSet(F) ==
    \A t \in Tasks : t \in F <=>
        /\ state[t] \in DOMAIN Followup /\ t \notin later
        /\ Cardinality(Active(state) \cup Earlier(F, t)) < EffectiveLimit(cap)
        /\ CanAcquire(lock, Earlier(F, t), FollowupGui, t)

\* The run after the follow-ups F and the reconciliation of the ready tasks: those whose
\* needs are VERIFIED become READY and join the queue in the order of the plan.
Reconciled(F) ==
    LET now    == [t \in Tasks |->
                      IF t \in F THEN Followup[state[t]]
                      ELSE IF state[t] = "WAITING" /\ \A d \in Needs[t] : state[d] = "VERIFIED"
                      THEN "READY" ELSE state[t]]
        ready  == {t \in Tasks : now[t] = "READY" /\ t \notin later}
        before == [t \in F |-> Earlier(F, t)]
    IN  [state |-> now, cap |-> Followed(cap),
         lock  |-> Acquired(lock, F, FollowupGui, before),
         queue |-> Only(queue, ready) \o Only(Order, ready \ ToSet(queue))]

KeysOf(r) == [t \in ToSet(r.queue) |-> Key(r, t)]

\* What the scheduler is asked in this state, and what it answers.
Decisions ==
    UNION {UNION {{[run |-> r, key |-> key, chosen |-> S] :
                      S \in {S \in SUBSET DOMAIN key : IsSelection(r, key, S)}}
                  : key \in {KeysOf(r)}}
           : r \in {Reconciled(F) : F \in {F \in SUBSET Tasks : IsFollowupSet(F)}}}
\* Of the selected tasks the ones that get their bundle; the others are stopped as a race.
InTime(d) ==
    {t \in d.chosen : CanAcquire(d.run.lock, Ahead(d.key, d.chosen, t), Gui, t)}

Reserve ==
    \E d \in Decisions :
        LET r == d.run
            T == InTime(d)
            before == [t \in T |-> Ahead(d.key, T, t)]
        IN  /\ state' = [t \in Tasks |-> IF t \in T THEN "RUNNING" ELSE r.state[t]]
            /\ queue' = Only(r.queue, ToSet(r.queue) \ T)
            /\ lock' = Acquired(r.lock, T, Gui, before)
            /\ cap' = r.cap
            /\ <<state', queue', lock', cap'>> # <<state, queue, lock, cap>>
            /\ UNCHANGED <<reading, later, rounds>>

\* A session ends and gives its bundle back (release_resources_in_state).
Released(t) == lock' = [lock EXCEPT ![t] = NoLock]

Complete(t) ==
    /\ state[t] \in ActiveStates
    /\ state' = [state EXCEPT ![t] = IF @ = "VERIFYING" THEN "VERIFIED" ELSE "IMPLEMENTED"]
    /\ Released(t)
    /\ UNCHANGED <<queue, cap, reading, later, rounds>>

SendBack(t) ==
    /\ state[t] = "VERIFYING" /\ rounds[t] < MaxRounds
    /\ state' = [state EXCEPT ![t] = "REVISION_REQUIRED"]
    /\ rounds' = [rounds EXCEPT ![t] = @ + 1]
    /\ Released(t)
    /\ UNCHANGED <<queue, cap, reading, later>>

\* A session fails: its task returns to where it was launched from when the retry is due.
Fail(t) ==
    /\ state[t] \in ActiveStates /\ rounds[t] < MaxRounds
    /\ state' = [state EXCEPT ![t] = Back[@]]
    /\ rounds' = [rounds EXCEPT ![t] = @ + 1]
    /\ later' = later \cup {t}
    /\ Released(t)
    /\ UNCHANGED <<queue, cap, reading>>

RetryDue(t) ==
    /\ t \in later
    /\ later' = later \ {t}
    /\ UNCHANGED <<state, queue, lock, cap, reading, rounds>>

\* The account reports what is left of its limits.
Report(r) ==
    /\ r # reading
    /\ reading' = r
    /\ UNCHANGED <<state, queue, lock, cap, later, rounds>>

CapacityNext ==
    \/ Reserve
    \/ \E t \in Tasks : Complete(t) \/ SendBack(t) \/ Fail(t) \/ RetryDue(t)
    \/ \E r \in Readings : Report(r)

CapacityFairness ==
    /\ WF_capacityVars(Reserve)
    /\ \A t \in Tasks : WF_capacityVars(Complete(t)) /\ WF_capacityVars(RetryDue(t))

CapacitySpec == CapacityInit /\ [][CapacityNext]_capacityVars /\ CapacityFairness

-----------------------------------------------------------------------------

\* The scheduler and the locks agree: every task the scheduler selects gets its bundle when
\* the ones selected before it have theirs.  So it is with one slot, which is what the
\* program has unless it is told otherwise; with two, the verifier on the screen of a task
\* that is not holds a slot the scheduler does not count, and the refusal is a stop.
SelectedAcquire == \A d \in Decisions : d.chosen = InTime(d)

\* Tasks with conflicting claims never work at the same time, and no slot is held twice.
BundlesExclude ==
    /\ CapacityTypeOK
    /\ \A t, u \in Active(state) : t # u =>
           /\ {t, u} \notin Clash
           /\ lock[t].gui /\ lock[u].gui => lock[t].slot # lock[u].slot

\* However the limits move, every task is accepted in the end: none is starved by the order
\* of the scheduler, by the follow-ups that go before it or by the bundles of the others.
EveryTaskIsAccepted == <>[](\A t \in Tasks : state[t] = "VERIFIED")
=============================================================================
