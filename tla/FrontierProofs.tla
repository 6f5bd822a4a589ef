--------------------------- MODULE FrontierProofs ---------------------------
(***************************************************************************)
(* Proofs about Frontier, for every plan, every conflict relation and      *)
(* every limit.                                                            *)
(***************************************************************************)
EXTENDS Frontier, SequenceTheorems, FiniteSetTheorems, WellFoundedInduction, TLAPS

\* What every handler and every stage of the reservation pass keeps.
Good(s) ==
    /\ s \in RunType
    /\ ValidTaskStates(s.task)
    /\ \A t \in Task : Agrees(s, t)
    /\ ConflictFree(s)

-----------------------------------------------------------------------------
(* Sessions.                                                                *)

\* A new session is one, and it is pending.
LEMMA NewSessionType ==
    \A kind \in Kind : /\ NewSession(kind) \in Session
                       /\ NewSession(kind).status \in Pending
                       /\ NewSession(kind).kind = kind
BY DEF NewSession, Session, Kind, Production, Status, Pending, Terminal

\* Fencing keeps the number and the type of the sessions; none of those that
\* had ended is pending afterwards.
LEMMA FencedType ==
    ASSUME NEW list \in Seq(Session)
    PROVE  /\ Fenced(list) \in Seq(Session)
           /\ Len(Fenced(list)) = Len(list)
           /\ \A n \in 1..Len(list) :
                list[n].status \notin Pending => Fenced(list)[n].status \notin Pending
<1>1. DOMAIN list = 1..Len(list) /\ Len(list) \in Nat
  OBVIOUS
<1>2. \A n \in 1..Len(list) : list[n] \in Session
  OBVIOUS
<1>3. \A n \in 1..Len(list) : Fenced(list)[n] \in Session
  BY <1>1, <1>2 DEF Fenced, Session, Status, Terminal
<1>4. Fenced(list) \in [1..Len(list) -> Session]
  BY <1>1, <1>3 DEF Fenced
<1>5. Fenced(list) \in Seq(Session) /\ Len(Fenced(list)) = Len(list)
  BY <1>1, <1>4
<1>6. ASSUME NEW n \in 1..Len(list), list[n].status \notin Pending
      PROVE  Fenced(list)[n].status \notin Pending
  BY <1>1, <1>2, <1>6 DEF Fenced, Session, Pending
<1> QED
  BY <1>5, <1>6

\* What a launch makes of the sessions of a task that had none pending.
LEMMA LaunchedSessions ==
    ASSUME NEW list \in Seq(Session), NEW kind \in Kind,
           \A n \in 1..Len(list) : list[n].status \notin Pending
    PROVE  LET more == Append(Fenced(list), NewSession(kind)) IN
           /\ more \in Seq(Session)
           /\ Len(more) = Len(list) + 1
           /\ {n \in DOMAIN more : more[n].status \in Pending} = {Len(list) + 1}
           /\ more[Len(list) + 1].kind = kind
<1> DEFINE more == Append(Fenced(list), NewSession(kind))
<1>1. NewSession(kind) \in Session /\ NewSession(kind).status \in Pending
      /\ NewSession(kind).kind = kind
  BY NewSessionType
<1>2. Fenced(list) \in Seq(Session) /\ Len(Fenced(list)) = Len(list)
  BY FencedType
<1>3. more \in Seq(Session) /\ Len(more) = Len(list) + 1 /\ DOMAIN more = 1..(Len(list) + 1)
  BY <1>1, <1>2
<1>4. more[Len(list) + 1] = NewSession(kind)
  BY <1>1, <1>2
<1>5. \A n \in 1..Len(list) : more[n] = Fenced(list)[n]
  BY <1>1, <1>2
<1>6. \A n \in 1..Len(list) : more[n].status \notin Pending
  BY <1>5, FencedType
<1>7. {n \in DOMAIN more : more[n].status \in Pending} = {Len(list) + 1}
  BY <1>1, <1>3, <1>4, <1>6
<1> QED
  BY <1>1, <1>3, <1>4, <1>7

-----------------------------------------------------------------------------
(* When the records of one task go on agreeing.                             *)

\* Nothing about the task changed.
LEMMA AgreesSame ==
    ASSUME NEW s, NEW r, NEW t, Agrees(s, t),
           r.task[t] = s.task[t], t \in r.active <=> t \in s.active,
           r.lock[t] = s.lock[t], r.sess[t] = s.sess[t]
    PROVE  Agrees(r, t)
BY DEF Agrees, PendingSessions

\* A task that is not at work moves to another state in which it is not.
LEMMA AgreesIdle ==
    ASSUME NEW s, NEW r, NEW t, Agrees(s, t),
           s.task[t] \notin ActiveStates, r.task[t] \notin ActiveStates,
           t \in r.active <=> t \in s.active,
           r.lock[t] = s.lock[t], r.sess[t] = s.sess[t]
    PROVE  Agrees(r, t)
<1>1. PendingSessions(r, t) = PendingSessions(s, t)
  BY DEF PendingSessions
<1> QED
  BY <1>1 DEF Agrees

-----------------------------------------------------------------------------
(* The stages of the reservation pass.                                      *)

LEMMA PrepareGood ==
    ASSUME NEW s, Good(s), NEW due \in SUBSET DueRetries(s)
    PROVE  Good(Prepare(s, due))
<1> DEFINE r == Prepare(s, due)
<1>1. \A t \in due : t \in Task /\ s.task[t] = "RETRY_WAIT"
  BY DEF DueRetries, Good, RunType
<1>2. r \in RunType
  BY DEF Good, RunType, Prepare, TaskState
<1>3. /\ r.task = [t \in Task |-> IF t \in due THEN "READY" ELSE s.task[t]]
      /\ r.active = s.active /\ r.lock = s.lock /\ r.sess = s.sess
  BY DEF Good, RunType, Prepare
<1>4. ValidTaskStates(r.task)
  BY <1>1, <1>3, TaskGraphAssumption
     DEF Good, RunType, ValidTaskStates, DependenciesEligible, UnmetDependencies, UngatedStates
<1>5. ASSUME NEW t \in Task PROVE Agrees(r, t)
  <2>1. Agrees(s, t)
    BY DEF Good
  <2>2. CASE t \in due
    BY <1>1, <1>3, <2>1, <2>2, AgreesIdle DEF ActiveStates
  <2>3. CASE t \notin due
    BY <1>3, <2>1, <2>3, AgreesSame
  <2> QED
    BY <2>2, <2>3
<1>6. ConflictFree(r)
  BY <1>3 DEF Good, ConflictFree, Holders
<1> QED
  BY <1>2, <1>4, <1>5, <1>6 DEF Good

LEMMA RouteTicketsGood ==
    ASSUME NEW s, Good(s)
    PROVE  Good(RouteTickets(s))
<1> DEFINE r == RouteTickets(s)
<1>1. r \in RunType
  BY DEF Good, RunType, RouteTickets, Orphans, LostCreates
<1>2. r.task = s.task /\ r.active = s.active /\ r.lock = s.lock /\ r.sess = s.sess
  BY DEF Good, RunType, RouteTickets
<1>3. (\A t \in Task : Agrees(r, t)) /\ ConflictFree(r) /\ ValidTaskStates(r.task)
  BY <1>2 DEF Good, Agrees, PendingSessions, ConflictFree, Holders
<1> QED
  BY <1>1, <1>3 DEF Good

\* Launching tasks that wait, and whose claims nothing held or launched conflicts with.
LEMMA LaunchGood ==
    ASSUME NEW s, Good(s), NEW T \in SUBSET Task, NEW kindOf \in [Task -> Kind],
           \A t \in T : s.task[t] \in {"READY", "IMPLEMENTED", "REVISION_REQUIRED"},
           \A t \in T : Conflicts[t] \cap (Holders(s) \cup T) = {}
    PROVE  /\ Good(Launch(s, T, kindOf))
           /\ \A t \in Task \ T : Launch(s, T, kindOf).task[t] = s.task[t]
<1> DEFINE r == Launch(s, T, kindOf)
<1>1. /\ r.task = [t \in Task |-> IF t \in T THEN ActiveStateOf(kindOf[t]) ELSE s.task[t]]
      /\ r.active = s.active \cup T
      /\ r.lock = [t \in Task |-> IF t \in T THEN Len(s.sess[t]) + 1 ELSE s.lock[t]]
      /\ r.slot = s.slot \cup {t \in T : TakesSlot(t, kindOf[t])}
      /\ r.sess = [t \in Task |-> IF t \in T
                      THEN Append(Fenced(s.sess[t]), NewSession(kindOf[t])) ELSE s.sess[t]]
      /\ r.revisions = s.revisions /\ r.hires = s.hires /\ r.effort = s.effort
      /\ r.retry = s.retry /\ r.barrier = s.barrier /\ r.held = s.held
      /\ DOMAIN r = DOMAIN s
  BY DEF Good, RunType, Launch
<1>2. \A t \in Task : s.sess[t] \in Seq(Session) /\ Len(s.sess[t]) \in Nat
  BY DEF Good, RunType
<1>3. \A kind \in Kind : ActiveStateOf(kind) \in ActiveStates
  BY DEF Kind, Production, ActiveStateOf, ActiveStates
<1>4. ASSUME NEW t \in T
      PROVE  /\ r.sess[t] \in Seq(Session)
             /\ PendingSessions(r, t) = {Len(s.sess[t]) + 1}
             /\ Len(r.sess[t]) = Len(s.sess[t]) + 1
             /\ r.sess[t][Len(s.sess[t]) + 1].kind = kindOf[t]
  <2>1. s.task[t] \notin ActiveStates
    BY DEF ActiveStates
  <2>2. PendingSessions(s, t) = {}
    BY <2>1 DEF Good, Agrees
  <2>3. \A n \in 1..Len(s.sess[t]) : s.sess[t][n].status \notin Pending
    BY <1>2, <2>2 DEF PendingSessions
  <2>4. r.sess[t] = Append(Fenced(s.sess[t]), NewSession(kindOf[t]))
    BY <1>1
  <2>5. kindOf[t] \in Kind /\ s.sess[t] \in Seq(Session)
    BY <1>2
  <2>6. /\ r.sess[t] \in Seq(Session)
        /\ Len(r.sess[t]) = Len(s.sess[t]) + 1
        /\ {n \in DOMAIN r.sess[t] : r.sess[t][n].status \in Pending} = {Len(s.sess[t]) + 1}
        /\ r.sess[t][Len(s.sess[t]) + 1].kind = kindOf[t]
    BY <2>3, <2>4, <2>5, LaunchedSessions
  <2> QED
    BY <2>6 DEF PendingSessions
<1>5. r \in RunType
  <2>1. r.task \in [Task -> TaskState]
    BY <1>1, <1>3 DEF Good, RunType, ActiveStates, TaskState
  <2>2. r.sess \in [Task -> Seq(Session)]
    <3>1. \A t \in Task \ T : r.sess[t] = s.sess[t]
      BY <1>1
    <3>2. \A t \in Task : r.sess[t] \in Seq(Session)
      BY <1>2, <1>4, <3>1
    <3>3. r.sess = [t \in Task |-> r.sess[t]]
      BY <1>1
    <3> QED
      BY <3>2, <3>3
  <2>3. r.lock \in [Task -> Nat]
    BY <1>1, <1>2 DEF Good, RunType
  <2>4. s \in RunType
    BY DEF Good
  <2>5. r = [s EXCEPT !.task = r.task, !.active = r.active, !.lock = r.lock,
                      !.slot = r.slot, !.sess = r.sess]
    BY <2>4 DEF RunType, Launch
  <2>6. r.active \in SUBSET Task /\ r.slot \in SUBSET Task
    BY <1>1, <2>4 DEF RunType
  <2> HIDE DEF r
  <2> QED
    BY <2>1, <2>2, <2>3, <2>4, <2>5, <2>6 DEF RunType
<1>6. ValidTaskStates(r.task)
  <2>1. \A t \in Task : DependenciesEligible(s.task, t) => DependenciesEligible(r.task, t)
    BY SMTT(60), <1>1, TaskGraphAssumption DEF DependenciesEligible, UnmetDependencies
  <2>2. \A t \in T : DependenciesEligible(s.task, t)
    BY DEF Good, ValidTaskStates, UngatedStates
  <2> QED
    BY <1>1, <2>1, <2>2 DEF Good, ValidTaskStates
<1>7. ASSUME NEW t \in Task PROVE Agrees(r, t)
  <2>1. CASE t \in T
    <3>1. /\ t \in r.active /\ r.task[t] = ActiveStateOf(kindOf[t])
          /\ r.lock[t] = Len(s.sess[t]) + 1
      BY <1>1, <2>1
    <3>2. r.task[t] \in ActiveStates
      BY <1>3, <2>1, <3>1
    <3>3. /\ PendingSessions(r, t) = {Len(s.sess[t]) + 1}
          /\ Len(r.sess[t]) = Len(s.sess[t]) + 1
          /\ r.sess[t][Len(s.sess[t]) + 1].kind = kindOf[t]
          /\ Len(s.sess[t]) \in Nat
      BY <1>2, <1>4, <2>1
    <3> HIDE DEF r
    <3> QED
      BY <3>1, <3>2, <3>3 DEF Agrees
  <2>2. CASE t \notin T
    BY <1>1, <2>2, AgreesSame DEF Good
  <2> QED
    BY <2>1, <2>2
<1>8. ConflictFree(r)
  <2>1. Holders(r) = Holders(s) \cup T
    BY <1>1, <1>2 DEF Holders
  <2> QED
    BY <2>1, FrontierAssumption DEF Good, ConflictFree, Holders
<1> QED
  BY <1>1, <1>5, <1>6, <1>7, <1>8 DEF Good

LEMMA FollowupsGood ==
    ASSUME NEW s, Good(s), NEW limit, NEW F \in SUBSET Task, IsFollowupSet(s, limit, F)
    PROVE  Good(Followups(s, limit, F))
<1> DEFINE kinds == FollowupKinds(s)
           l == Launch(s, F, kinds)
           r == Followups(s, limit, F)
<1>1. \A t \in F : /\ s.task[t] \in {"IMPLEMENTED", "REVISION_REQUIRED"}
                   /\ AwaitsFollowup(s, t)
                   /\ Conflicts[t] \cap (Holders(s) \cup Earlier(F, t)) = {}
  BY DEF IsFollowupSet, WantsFollowup, AwaitsFollowup, CanAcquire
<1>2. \A t \in F : Conflicts[t] \cap (Holders(s) \cup F) = {}
  BY <1>1, FrontierAssumption DEF Earlier
<1>3. kinds \in [Task -> Kind]
  BY DEF FollowupKinds, FollowupKind, Kind, Production
<1>4. Good(l) /\ \A t \in Task \ F : l.task[t] = s.task[t]
  BY <1>1, <1>2, <1>3, LaunchGood
<1> DEFINE asked    == {t \in Task \ s.held : s.task[t] = "REVISION_REQUIRED"
                        /\ Reached(s, F, limit, t) /\ SpentBudget(s, t)}
           promoted == {t \in asked : ~LadderTop(s, t)}
           stopped  == asked \ promoted
           confused == {t \in Task : AwaitsFollowup(s, t) /\ Reached(s, F, limit, t)
                                    /\ PendingSessions(s, t) # {}}
<1>5. r = [l EXCEPT
            !.revisions = [t \in Task |->
                IF t \in F /\ s.task[t] = "REVISION_REQUIRED" THEN @[t] + 1 ELSE @[t]],
            !.hires  = [t \in Task |-> IF t \in promoted THEN @[t] + 1 ELSE @[t]],
            !.effort = [t \in Task |-> IF t \in promoted THEN @[t] + 1 ELSE @[t]],
            !.task   = [t \in Task |-> IF t \in stopped THEN "BLOCKED" ELSE @[t]],
            !.held   = @ \cup stopped \cup confused]
  BY DEF Followups
<1>6. l \in RunType
  BY <1>4 DEF Good
<1>7. /\ r.task = [t \in Task |-> IF t \in stopped THEN "BLOCKED" ELSE l.task[t]]
      /\ r.active = l.active /\ r.lock = l.lock /\ r.sess = l.sess
      /\ r.effort = [t \in Task |-> IF t \in promoted THEN l.effort[t] + 1 ELSE l.effort[t]]
      /\ r.hires = [t \in Task |-> IF t \in promoted THEN l.hires[t] + 1 ELSE l.hires[t]]
      /\ r.revisions = [t \in Task |-> IF t \in F /\ s.task[t] = "REVISION_REQUIRED"
                                        THEN l.revisions[t] + 1 ELSE l.revisions[t]]
      /\ r.held = l.held \cup stopped \cup confused
  <2> HIDE DEF l, r, promoted, stopped, confused
  <2> QED
    BY <1>5, <1>6 DEF RunType
<1>8. r = [l EXCEPT !.task = r.task, !.effort = r.effort, !.hires = r.hires,
                    !.revisions = r.revisions, !.held = r.held]
  <2> HIDE DEF l, r, promoted, stopped, confused
  <2> QED
    BY <1>5, <1>6 DEF RunType
<1>9. /\ promoted \subseteq Task /\ stopped \subseteq Task /\ confused \subseteq Task
      /\ \A t \in stopped : l.task[t] = "REVISION_REQUIRED"
      /\ \A t \in promoted : l.effort[t] # TopEffort
  <2>1. \A t \in stopped : t \notin F /\ s.task[t] = "REVISION_REQUIRED"
    BY <1>1 DEF AwaitsFollowup
  <2>2. l.effort = s.effort
    BY DEF Launch, Good, RunType
  <2> QED
    BY <1>4, <2>1, <2>2 DEF LadderTop
<1> HIDE DEF l, r, promoted, stopped, confused
<1>10. r \in RunType
  <2>2. r.task \in [Task -> TaskState] /\ r.held \in SUBSET Task
    <3>1. l.task \in [Task -> TaskState] /\ l.held \in SUBSET Task
      BY <1>6 DEF RunType
    <3>2. "BLOCKED" \in TaskState
      BY DEF TaskState
    <3>3. /\ r.task = [t \in Task |-> IF t \in stopped THEN "BLOCKED" ELSE l.task[t]]
          /\ r.held = l.held \cup stopped \cup confused
      BY <1>7
    <3> QED
      BY <1>9, <3>1, <3>2, <3>3
  <2>3. /\ l.revisions \in [Task -> Nat] /\ l.hires \in [Task -> Nat]
        /\ l.effort \in [Task -> 0..TopEffort]
    BY <1>6 DEF RunType
  <2>4. r.revisions \in [Task -> Nat]
    <3>1. r.revisions = [t \in Task |-> IF t \in F /\ s.task[t] = "REVISION_REQUIRED"
                                       THEN l.revisions[t] + 1 ELSE l.revisions[t]]
      BY <1>7
    <3>2. \A t \in Task : l.revisions[t] \in Nat /\ l.revisions[t] + 1 \in Nat
      BY <2>3
    <3> QED
      BY <3>1, <3>2
  <2>5. r.hires \in [Task -> Nat]
    <3>1. r.hires = [t \in Task |-> IF t \in promoted THEN l.hires[t] + 1 ELSE l.hires[t]]
      BY <1>7
    <3>2. \A t \in Task : l.hires[t] \in Nat /\ l.hires[t] + 1 \in Nat
      BY <2>3
    <3> QED
      BY <3>1, <3>2
  <2>6. r.effort \in [Task -> 0..TopEffort]
    <3>1. r.effort = [t \in Task |-> IF t \in promoted THEN l.effort[t] + 1 ELSE l.effort[t]]
      BY <1>7
    <3>2. \A t \in Task : l.effort[t] \in 0..TopEffort
      BY <2>3
    <3>3. \A t \in promoted : l.effort[t] + 1 \in 0..TopEffort
      BY <1>9, <3>2, FrontierAssumption
    <3> QED
      BY <3>1, <3>2, <3>3
  <2>7. r = [l EXCEPT !.task = r.task, !.effort = r.effort, !.hires = r.hires,
                      !.revisions = r.revisions, !.held = r.held]
    BY <1>8
  <2> QED
    BY <1>6, <2>2, <2>4, <2>5, <2>6, <2>7 DEF RunType
<1>11. ValidTaskStates(r.task)
  <2>1. \A d \in Task : l.task[d] = "VERIFIED" <=> r.task[d] = "VERIFIED"
    BY <1>7, <1>9
  <2>2. \A t \in Task : DependenciesEligible(l.task, t) => DependenciesEligible(r.task, t)
    BY <2>1, TaskGraphAssumption DEF DependenciesEligible, UnmetDependencies
  <2>3. \A t \in Task : r.task[t] \notin UngatedStates => l.task[t] \notin UngatedStates
    BY <1>7 DEF UngatedStates
  <2> QED
    BY <1>4, <2>2, <2>3 DEF Good, ValidTaskStates
<1>12. ASSUME NEW t \in Task PROVE Agrees(r, t)
  <2>1. CASE t \in stopped
    BY <1>4, <1>7, <1>9, <2>1, AgreesIdle DEF Good, ActiveStates
  <2>2. CASE t \notin stopped
    BY <1>4, <1>7, <2>2, AgreesSame DEF Good
  <2> QED
    BY <2>1, <2>2
<1>13. ConflictFree(r)
  <2>1. r.lock = l.lock
    BY <1>7
  <2> QED
    BY <1>4, <2>1 DEF Good, ConflictFree, Holders
<1> QED
  BY <1>10, <1>11, <1>12, <1>13 DEF Good, r

LEMMA ReconcileReadyGood ==
    ASSUME NEW s, Good(s)
    PROVE  Good([s EXCEPT !.task = ReconcileReady(@)])
<1> DEFINE r == [s EXCEPT !.task = ReconcileReady(@)]
<1>1. s \in RunType
  BY DEF Good
<1>2. /\ r.task = ReconcileReady(s.task)
      /\ r.active = s.active /\ r.lock = s.lock /\ r.sess = s.sess
  BY <1>1 DEF RunType
<1>3. \A t \in Task : \/ r.task[t] = s.task[t]
                     \/ /\ s.task[t] \in {"WAITING", "READY"} /\ r.task[t] = "READY"
                        /\ DependenciesEligible(s.task, t)
  BY <1>2 DEF ReconcileReady, ReadyTaskIds
<1>4. r.task \in [Task -> TaskState]
  BY <1>1, <1>2 DEF ReconcileReady, RunType, TaskState
<1>5. r \in RunType
  BY <1>1, <1>4 DEF RunType
<1> HIDE DEF r
<1>6. ValidTaskStates(r.task)
  <2>1. \A d \in Task : s.task[d] = "VERIFIED" => r.task[d] = "VERIFIED"
    BY <1>3
  <2>2. \A t \in Task : DependenciesEligible(s.task, t) => DependenciesEligible(r.task, t)
    BY <2>1, TaskGraphAssumption DEF DependenciesEligible, UnmetDependencies
  <2> QED
    BY <1>3, <2>2 DEF Good, ValidTaskStates, UngatedStates
<1>7. ASSUME NEW t \in Task PROVE Agrees(r, t)
  <2>1. Agrees(s, t)
    BY DEF Good
  <2>2. CASE r.task[t] = s.task[t]
    BY <1>2, <2>1, <2>2, AgreesSame
  <2>3. CASE s.task[t] \in {"WAITING", "READY"} /\ r.task[t] = "READY"
    BY <1>2, <2>1, <2>3, AgreesIdle DEF ActiveStates
  <2> QED
    BY <1>3, <2>2, <2>3
<1>8. ConflictFree(r)
  BY <1>2 DEF Good, ConflictFree, Holders
<1> QED
  BY <1>5, <1>6, <1>7, <1>8 DEF Good, r

LEMMA ScheduledGood ==
    ASSUME NEW s, Good(s), NEW limit, NEW S \in SUBSET Available(s), IsSelection(s, limit, S),
           NEW R \in SUBSET S
    PROVE  Good(Scheduled(s, S, R))
<1> DEFINE kinds == [t \in Task |-> "implementation"]
           l == Launch(s, S \ R, kinds)
<1>1. S \subseteq Task /\ \A t \in S : /\ s.task[t] = "READY"
                                     /\ Conflicts[t] \cap Holders(s) = {}
                                     /\ Conflicts[t] \cap S = {}
  BY DEF Available, IsSelection, Selectable
<1>2. kinds \in [Task -> Kind]
  BY DEF Kind, Production
<1>3. Good(l)
  BY <1>1, <1>2, LaunchGood
<1>4. Scheduled(s, S, R) = [l EXCEPT !.held = @ \cup R]
  BY DEF Scheduled
<1> HIDE DEF l
<1> DEFINE r == [l EXCEPT !.held = @ \cup R]
<1>5. r \in RunType /\ r.task = l.task /\ r.active = l.active /\ r.lock = l.lock /\ r.sess = l.sess
  BY <1>1, <1>3 DEF Good, RunType
<1> HIDE DEF r
<1>6. (\A t \in Task : Agrees(r, t)) /\ ConflictFree(r) /\ ValidTaskStates(r.task)
  BY <1>3, <1>5, AgreesSame DEF Good, ConflictFree, Holders
<1> QED
  BY <1>4, <1>5, <1>6 DEF Good, r

LEMMA PassGood ==
    ASSUME NEW s, Good(s), NEW r \in Pass(s)
    PROVE  Good(r)
<1>1. CASE r = s
  BY <1>1
<1>2. ASSUME NEW limit \in Limits, NEW ready \in AfterTickets(s),
             NEW followed \in AfterFollowups(ready, limit),
             r \in AfterScheduling(followed, limit)
      PROVE  Good(r)
  <2>1. Good(ready)
    BY PrepareGood, RouteTicketsGood DEF AfterTickets
  <2>2. Good(followed)
    BY <2>1, FollowupsGood, ReconcileReadyGood DEF AfterFollowups
  <2> QED
    BY <1>2, <2>2, ScheduledGood DEF AfterScheduling
<1> QED
  BY <1>1, <1>2 DEF Pass

-----------------------------------------------------------------------------
(* The ways a handler changes one task.                                     *)

\* One session of a list replaced.
LEMMA ReplaceSession ==
    ASSUME NEW list \in Seq(Session), NEW n \in DOMAIN list, NEW session \in Session
    PROVE  LET changed == [list EXCEPT ![n] = session] IN
           /\ changed \in Seq(Session) /\ Len(changed) = Len(list)
           /\ DOMAIN changed = DOMAIN list
           /\ changed[n] = session
           /\ \A m \in DOMAIN list : m # n => changed[m] = list[m]
OBVIOUS

\* The pending session of a task is its only one.
LEMMA OnePending ==
    ASSUME NEW s, Good(s), NEW t \in Task, NEW n \in PendingSessions(s, t)
    PROVE  /\ PendingSessions(s, t) = {n}
           /\ n \in DOMAIN s.sess[t] /\ s.sess[t][n] \in Session
           /\ s.sess[t] \in Seq(Session)
           /\ t \in s.active /\ s.task[t] \in ActiveStates
<1>1. Agrees(s, t) /\ s.sess[t] \in Seq(Session)
  BY DEF Good, RunType
<1>2. n \in DOMAIN s.sess[t]
  BY DEF PendingSessions
<1>3. s.sess[t][n] \in Session
  BY <1>1, <1>2
<1> QED
  BY <1>1, <1>2, <1>3 DEF Agrees

\* Fields that no record of the producer depends on.
LEMMA SideGood ==
    ASSUME NEW s, Good(s), NEW r, r \in RunType,
           r.task = s.task, r.active = s.active, r.lock = s.lock, r.sess = s.sess
    PROVE  Good(r)
BY AgreesSame DEF Good, ConflictFree, Holders

\* A session changes and goes on pending.
LEMMA CarryOnGood ==
    ASSUME NEW s, Good(s), NEW t \in Task, NEW n \in PendingSessions(s, t),
           NEW session \in Session, session.status \in Pending,
           session.kind = s.sess[t][n].kind
    PROVE  Good(Set(s, t, n, session))
<1> DEFINE r == Set(s, t, n, session)
           list == [s.sess[t] EXCEPT ![n] = session]
<1>1. /\ PendingSessions(s, t) = {n} /\ n \in DOMAIN s.sess[t]
      /\ s.sess[t] \in Seq(Session)
  BY OnePending
<1>2. list \in Seq(Session) /\ Len(list) = Len(s.sess[t]) /\ DOMAIN list = DOMAIN s.sess[t]
      /\ list[n] = session /\ \A m \in DOMAIN s.sess[t] : m # n => list[m] = s.sess[t][m]
  BY <1>1, ReplaceSession
<1>3. s \in RunType
  BY DEF Good
<1>4. /\ r.sess = [s.sess EXCEPT ![t] = list]
      /\ r.task = s.task /\ r.active = s.active /\ r.lock = s.lock
      /\ r = [s EXCEPT !.sess = r.sess]
  BY <1>3 DEF Set, RunType
<1> HIDE DEF list
<1>5. r.sess \in [Task -> Seq(Session)] /\ r.sess[t] = list
      /\ \A u \in Task : u # t => r.sess[u] = s.sess[u]
  BY <1>2, <1>3, <1>4 DEF RunType
<1> HIDE DEF r
<1>6. r \in RunType
  BY <1>3, <1>4, <1>5 DEF RunType
<1>7. PendingSessions(r, t) = {n}
  BY <1>1, <1>2, <1>5 DEF PendingSessions
<1>8. ASSUME NEW u \in Task PROVE Agrees(r, u)
  <2>1. Agrees(s, u)
    BY DEF Good
  <2>2. CASE u = t
    <3>1. /\ n = s.lock[t] /\ n = Len(s.sess[t])
          /\ s.task[t] = ActiveStateOf(s.sess[t][n].kind)
      BY <2>1, <2>2 DEF Agrees
    <3>2. n = r.lock[t] /\ n = Len(r.sess[t]) /\ r.task[t] = ActiveStateOf(r.sess[t][n].kind)
      BY <1>2, <1>4, <1>5, <3>1
    <3> QED
      BY <1>1, <1>4, <1>7, <2>1, <2>2, <3>2 DEF Agrees
  <2>3. CASE u # t
    BY <1>4, <1>5, <2>1, <2>3, AgreesSame
  <2> QED
    BY <2>2, <2>3
<1>9. ValidTaskStates(r.task) /\ ConflictFree(r)
  BY <1>4 DEF Good, ConflictFree, Holders
<1> QED
  BY <1>6, <1>8, <1>9 DEF Good, r

\* The sessions of some tasks end, and the tasks are at work no more.
EndsOn(s, T, r) ==
    /\ r \in RunType
    /\ \A t \in T : PendingSessions(s, t) # {} /\ PendingSessions(r, t) = {}
    /\ \A t \in T : r.task[t] \notin ActiveStates /\ t \notin r.active /\ r.lock[t] = 0
    /\ \A t \in Task \ T : /\ r.task[t] = s.task[t] /\ (t \in r.active <=> t \in s.active)
                           /\ r.lock[t] = s.lock[t] /\ r.sess[t] = s.sess[t]

\* Ending the sessions of some tasks keeps what the invariant says of a run.
LEMMA EndGood ==
    ASSUME NEW s, Good(s), NEW T \in SUBSET Task, NEW r, EndsOn(s, T, r)
    PROVE  Good(r)
<1>0. /\ r \in RunType
      /\ \A t \in T : PendingSessions(s, t) # {} /\ PendingSessions(r, t) = {}
      /\ \A t \in T : r.task[t] \notin ActiveStates /\ t \notin r.active /\ r.lock[t] = 0
      /\ \A t \in Task \ T : /\ r.task[t] = s.task[t] /\ (t \in r.active <=> t \in s.active)
                             /\ r.lock[t] = s.lock[t] /\ r.sess[t] = s.sess[t]
  BY DEF EndsOn
<1> USE <1>0
<1>1. \A t \in T : s.task[t] \in ActiveStates
  BY DEF Good, Agrees
<1>2. \A t \in T : DependenciesEligible(s.task, t) /\ s.task[t] # "VERIFIED"
  BY <1>1 DEF Good, ValidTaskStates, ActiveStates, UngatedStates
<1>3. \A d \in Task : s.task[d] = "VERIFIED" => r.task[d] = "VERIFIED"
  BY <1>2
<1>4. \A t \in Task : DependenciesEligible(s.task, t) => DependenciesEligible(r.task, t)
  BY <1>3, TaskGraphAssumption DEF DependenciesEligible, UnmetDependencies
<1>5. ValidTaskStates(r.task)
  BY <1>2, <1>4 DEF Good, ValidTaskStates
<1>6. ASSUME NEW t \in Task PROVE Agrees(r, t)
  <2>1. CASE t \in T
    BY <2>1 DEF Agrees
  <2>2. CASE t \notin T
    BY <2>2, AgreesSame DEF Good
  <2> QED
    BY <2>1, <2>2
<1>7. ConflictFree(r)
  <2>1. Holders(r) \subseteq Holders(s)
    BY DEF Holders
  <2> QED
    BY <2>1 DEF Good, ConflictFree
<1> QED
  BY <1>5, <1>6, <1>7 DEF Good

\* A task that nobody works on moves; nothing is accepted or un-accepted by it.
LEMMA MoveGood ==
    ASSUME NEW s, Good(s), NEW t \in Task, NEW r, r \in RunType,
           s.task[t] \notin ActiveStates \cup {"VERIFIED"}, r.task[t] \notin ActiveStates,
           r.task[t] \notin UngatedStates => DependenciesEligible(s.task, t),
           r.active = s.active, r.lock = s.lock, r.sess = s.sess,
           \A u \in Task \ {t} : r.task[u] = s.task[u]
    PROVE  Good(r)
<1>1. \A d \in Task : s.task[d] = "VERIFIED" => r.task[d] = "VERIFIED"
  OBVIOUS
<1>2. \A u \in Task : DependenciesEligible(s.task, u) => DependenciesEligible(r.task, u)
  BY <1>1, TaskGraphAssumption DEF DependenciesEligible, UnmetDependencies
<1>3. ValidTaskStates(r.task)
  BY <1>2 DEF Good, ValidTaskStates
<1>4. ASSUME NEW u \in Task PROVE Agrees(r, u)
  <2>1. CASE u = t
    BY <2>1, AgreesIdle DEF Good
  <2>2. CASE u # t
    BY <2>2, AgreesSame DEF Good
  <2> QED
    BY <2>1, <2>2
<1>5. ConflictFree(r)
  BY DEF Good, ConflictFree, Holders
<1> QED
  BY <1>3, <1>4, <1>5 DEF Good

-----------------------------------------------------------------------------
(* Completions.                                                             *)

Finals == {"", "DONE", "BLOCKED", "PASS", "REVISE", "VERIFICATION_REJECTED"}
Leads == {"", "AWAITING", "COMPARED", "SECOND"}

\* A session with its result, and one with its part in a second judgement.
LEMMA ResultFields ==
    ASSUME NEW session \in Session, NEW status \in Status, NEW final \in Finals
    PROVE  /\ [session EXCEPT !.status = status, !.final = final] \in Session
           /\ [session EXCEPT !.status = status, !.final = final].status = status
BY DEF Session, Finals

LEMMA LeadFields ==
    ASSUME NEW session \in Session, NEW lead \in Leads
    PROVE  /\ [session EXCEPT !.lead = lead] \in Session
           /\ [session EXCEPT !.lead = lead].status = session.status
BY DEF Session, Leads

LEMMA EndedShape ==
    ASSUME NEW s, Good(s), NEW t \in Task, NEW n \in PendingSessions(s, t),
           NEW status \in Status \ Pending, NEW final \in Finals
    PROVE  LET e == Ended(s, t, n, status, final) IN
           /\ e \in RunType
           /\ PendingSessions(e, t) = {}
           /\ e.task = s.task /\ e.retry = s.retry /\ e.held = s.held
           /\ t \notin e.active /\ e.lock[t] = 0
           /\ \A u \in Task \ {t} : /\ u \in e.active <=> u \in s.active
                                    /\ e.lock[u] = s.lock[u] /\ e.sess[u] = s.sess[u]
<1> DEFINE e == Ended(s, t, n, status, final)
           session == [s.sess[t][n] EXCEPT !.status = status, !.final = final]
           list == [s.sess[t] EXCEPT ![n] = session]
<1>1. /\ PendingSessions(s, t) = {n} /\ n \in DOMAIN s.sess[t]
      /\ s.sess[t][n] \in Session /\ s.sess[t] \in Seq(Session)
  BY OnePending
<1>2. session \in Session /\ session.status = status
  BY <1>1, ResultFields
<1> HIDE DEF session
<1>3. /\ list \in Seq(Session) /\ DOMAIN list = DOMAIN s.sess[t]
      /\ list[n] = session /\ \A m \in DOMAIN s.sess[t] : m # n => list[m] = s.sess[t][m]
  BY <1>1, <1>2, ReplaceSession
<1> HIDE DEF list
<1>4. s \in RunType
  BY DEF Good
<1>5. e = [s EXCEPT !.active = @ \ {t}, !.slot = @ \ {t}, !.lock[t] = 0,
                    !.sess[t] = list]
  <2>1. e = [Release(s, t) EXCEPT !.sess[t][n] = session]
    BY DEF Ended, Set, session
  <2>2. Release(s, t).sess = s.sess
    BY <1>4 DEF Release, RunType
  <2> HIDE DEF e
  <2>3. e = [Release(s, t) EXCEPT !.sess = [s.sess EXCEPT ![t] = list]]
    BY <2>1, <2>2 DEF list
  <2> QED
    BY <2>3 DEF Release
<1> HIDE DEF e
<1>6. /\ e.task = s.task /\ e.retry = s.retry /\ e.held = s.held
      /\ e.active = s.active \ {t} /\ e.lock = [s.lock EXCEPT ![t] = 0]
      /\ e.sess = [s.sess EXCEPT ![t] = list]
  BY <1>4, <1>5 DEF RunType
<1>7. e \in RunType
  BY <1>3, <1>4, <1>5 DEF RunType
<1>8. e.sess[t] = list /\ \A u \in Task \ {t} : e.sess[u] = s.sess[u] /\ e.lock[u] = s.lock[u]
  BY <1>4, <1>6 DEF RunType
<1>9. PendingSessions(e, t) = {}
  BY <1>1, <1>2, <1>3, <1>8 DEF PendingSessions
<1>10. e.lock[t] = 0
  BY <1>4, <1>6 DEF RunType
<1> QED
  BY <1>6, <1>7, <1>8, <1>9, <1>10 DEF e

\* What the completion of a session makes of its task and of the side fields.
EndedAs(s, t, n, status, final, state, retry, held) ==
    [Ended(s, t, n, status, final) EXCEPT !.task[t] = state, !.retry = retry, !.held = held]

\* Whatever the completion makes of them, the run is as the invariant says.
LEMMA EndedGood ==
    ASSUME NEW s, Good(s), NEW t \in Task, NEW n \in PendingSessions(s, t),
           NEW status \in Status \ Pending, NEW final \in Finals,
           NEW state \in TaskState \ ActiveStates,
           NEW retry \in SUBSET Task, NEW held \in SUBSET Task
    PROVE  Good(EndedAs(s, t, n, status, final, state, retry, held))
<1> DEFINE e == Ended(s, t, n, status, final)
           r == [e EXCEPT !.task[t] = state, !.retry = retry, !.held = held]
<1>1. /\ e \in RunType /\ PendingSessions(e, t) = {} /\ e.task = s.task
      /\ t \notin e.active /\ e.lock[t] = 0
      /\ \A u \in Task \ {t} : /\ u \in e.active <=> u \in s.active
                               /\ e.lock[u] = s.lock[u] /\ e.sess[u] = s.sess[u]
  BY EndedShape
<1> HIDE DEF e
<1>2. /\ r \in RunType /\ r.active = e.active /\ r.lock = e.lock /\ r.sess = e.sess
      /\ r.task[t] = state /\ \A u \in Task \ {t} : r.task[u] = e.task[u]
  BY <1>1 DEF RunType
<1> HIDE DEF r
<1>3. PendingSessions(r, t) = {}
  BY <1>1, <1>2 DEF PendingSessions
<1>4. Good(r)
  <2> DEFINE T == {t}
  <2>1. \A u \in T : PendingSessions(s, u) # {} /\ PendingSessions(r, u) = {}
    BY <1>3
  <2>2. \A u \in T : r.task[u] \notin ActiveStates /\ u \notin r.active /\ r.lock[u] = 0
    BY <1>1, <1>2
  <2>3. \A u \in Task \ T : /\ r.task[u] = s.task[u] /\ (u \in r.active <=> u \in s.active)
                              /\ r.lock[u] = s.lock[u] /\ r.sess[u] = s.sess[u]
    BY <1>1, <1>2
  <2>4. T \in SUBSET Task
    OBVIOUS
  <2> HIDE DEF T
  <2>5. EndsOn(s, T, r)
    BY <1>2, <2>1, <2>2, <2>3 DEF EndsOn
  <2> QED
    BY <2>4, <2>5, EndGood
<1> QED
  BY <1>4 DEF r, e, EndedAs

LEMMA WorkerEndsGood ==
    ASSUME NEW s, Good(s), NEW t \in Task, NEW n \in PendingSessions(s, t),
           NEW state \in TaskState \ ActiveStates
    PROVE  /\ Good(Delivered(s, t, n, state))
           /\ Good(WorkerStopped(s, t, n, state))
<1> DEFINE e == Ended(s, t, n, "COMPLETED", "DONE")
           b == Ended(s, t, n, "BLOCKED", "BLOCKED")
<1>1. {"COMPLETED", "BLOCKED"} \subseteq Status \ Pending /\ {"DONE", "BLOCKED"} \subseteq Finals
  BY DEF Status, Pending, Terminal, Finals
<1>2. e \in RunType /\ b \in RunType
  BY <1>1, EndedShape
<1>7. /\ e.retry \ {t} \in SUBSET Task /\ e.held \in SUBSET Task
      /\ b.retry \ {t} \in SUBSET Task /\ b.held \cup {t} \in SUBSET Task
  BY <1>2 DEF RunType
<1>3. Good([e EXCEPT !.task[t] = state, !.retry = e.retry \ {t}, !.held = e.held])
  <2>1. Good(EndedAs(s, t, n, "COMPLETED", "DONE", state, e.retry \ {t}, e.held))
    BY <1>1, <1>7, EndedGood
  <2> QED
    BY <2>1 DEF EndedAs
<1>4. Good([b EXCEPT !.task[t] = state, !.retry = b.retry \ {t}, !.held = b.held \cup {t}])
  <2>1. Good(EndedAs(s, t, n, "BLOCKED", "BLOCKED", state, b.retry \ {t}, b.held \cup {t}))
    BY <1>1, <1>7, EndedGood
  <2> QED
    BY <2>1 DEF EndedAs
<1> HIDE DEF e, b
<1>5. [e EXCEPT !.task[t] = state, !.retry = @ \ {t}]
        = [e EXCEPT !.task[t] = state, !.retry = e.retry \ {t}, !.held = e.held]
  BY <1>2 DEF RunType
<1>6. [b EXCEPT !.task[t] = state, !.retry = @ \ {t}, !.held = @ \cup {t}]
        = [b EXCEPT !.task[t] = state, !.retry = b.retry \ {t}, !.held = b.held \cup {t}]
  BY <1>2 DEF RunType
<1> QED
  BY <1>3, <1>4, <1>5, <1>6 DEF Delivered, WorkerStopped, e, b

\* A set of positions has a last one.
LEMMA LastOfInterval ==
    ASSUME NEW n \in Nat, NEW S \in SUBSET (1..n), S # {}
    PROVE  \E m \in S : \A k \in S : k <= m
<1> DEFINE T == {n - k : k \in S}
           less == OpToRel(<, Nat)
<1>1. T \subseteq Nat
  OBVIOUS
<1>2. T # {}
  <2>1. PICK k \in S : TRUE
    OBVIOUS
  <2> QED
    BY <2>1
<1>3. IsWellFoundedOn(less, Nat)
  BY NatLessThanWellFounded
<1>4. \A i, j \in Nat : i < j => <<i, j>> \in less
  BY DEF OpToRel
<1> HIDE DEF less, T
<1>5. PICK least \in T : \A j \in T : <<j, least>> \notin less
  BY <1>1, <1>2, <1>3, WFMin
<1>6. \A j \in T : least <= j
  <2>1. ASSUME NEW j \in T PROVE j \in Nat /\ least \in Nat /\ ~(j < least)
    BY <1>1, <1>4, <1>5
  <2> QED
    BY <2>1
<1>7. PICK m \in S : least = n - m
  BY <1>5 DEF T
<1>8. \A k \in S : n - m <= n - k
  BY <1>6, <1>7 DEF T
<1> QED
  BY <1>7, <1>8

LEMMA RelabelledGood ==
    ASSUME NEW s, Good(s), NEW t \in Task, NEW n \in DOMAIN s.sess[t], NEW lead \in Leads
    PROVE  /\ Good(Relabelled(s, t, n, lead))
           /\ DOMAIN Relabelled(s, t, n, lead).sess[t] = DOMAIN s.sess[t]
<1> DEFINE r == Relabelled(s, t, n, lead)
           session == [s.sess[t][n] EXCEPT !.lead = lead]
           list == [s.sess[t] EXCEPT ![n] = session]
<1>1. s \in RunType /\ s.sess[t] \in Seq(Session) /\ s.sess[t][n] \in Session
  BY DEF Good, RunType
<1>2. /\ session \in Session /\ session.status = s.sess[t][n].status
      /\ session.kind = s.sess[t][n].kind
  BY <1>1, LeadFields DEF Session
<1>3. r = [s EXCEPT !.sess = [s.sess EXCEPT ![t] = list]]
  BY DEF Relabelled, Set
<1> HIDE DEF session
<1>4. /\ list \in Seq(Session) /\ Len(list) = Len(s.sess[t]) /\ DOMAIN list = DOMAIN s.sess[t]
      /\ list[n] = session /\ \A m \in DOMAIN s.sess[t] : m # n => list[m] = s.sess[t][m]
  BY <1>1, <1>2, ReplaceSession
<1> HIDE DEF list, r
<1>5. /\ r \in RunType /\ r.task = s.task /\ r.active = s.active /\ r.lock = s.lock
      /\ r.sess[t] = list /\ \A u \in Task : u # t => r.sess[u] = s.sess[u]
  BY <1>1, <1>3, <1>4 DEF RunType
<1>6. PendingSessions(r, t) = PendingSessions(s, t)
  BY <1>2, <1>4, <1>5 DEF PendingSessions
<1>7. ASSUME NEW u \in Task PROVE Agrees(r, u)
  <2>1. Agrees(s, u)
    BY DEF Good
  <2>2. CASE u = t
    <3>1. ASSUME NEW m \in PendingSessions(r, t)
          PROVE  m = r.lock[t] /\ m = Len(r.sess[t]) /\ r.task[t] = ActiveStateOf(r.sess[t][m].kind)
      <4>1. /\ m \in DOMAIN s.sess[t] /\ m = s.lock[t] /\ m = Len(s.sess[t])
            /\ s.task[t] = ActiveStateOf(s.sess[t][m].kind)
        BY <1>6, <2>1, <2>2 DEF Agrees, PendingSessions
      <4>2. list[m].kind = s.sess[t][m].kind
        BY <1>2, <1>4, <4>1
      <4> QED
        BY <1>4, <1>5, <4>1, <4>2
    <3> QED
      BY <1>5, <1>6, <2>1, <2>2, <3>1 DEF Agrees
  <2>3. CASE u # t
    BY <1>5, <2>1, <2>3, AgreesSame
  <2> QED
    BY <2>2, <2>3
<1>8. ValidTaskStates(r.task) /\ ConflictFree(r)
  BY <1>5 DEF Good, ConflictFree, Holders
<1> QED
  BY <1>4, <1>5, <1>7, <1>8 DEF Good, r

LEMMA JudgedGood ==
    ASSUME NEW s, Good(s), NEW t \in Task, NEW n \in PendingSessions(s, t),
           NEW verdict \in {"PASS", "REVISE"}
    PROVE  Good(Judged(s, t, n, verdict))
<1> DEFINE ended(state) == [Ended(s, t, n, "COMPLETED", verdict) EXCEPT
                              !.task[t] = state, !.retry = @ \ {t}]
           awaiting == AwaitingLead(s, t)
           first    == CHOOSE m \in awaiting : \A k \in awaiting : k <= m
<1>1. "COMPLETED" \in Status \ Pending /\ verdict \in Finals
  BY DEF Status, Pending, Terminal, Finals
<1>2. /\ Ended(s, t, n, "COMPLETED", verdict) \in RunType
      /\ DOMAIN Ended(s, t, n, "COMPLETED", verdict).sess[t] = DOMAIN s.sess[t]
  <2>1. s \in RunType /\ s.sess[t] \in Seq(Session) /\ n \in DOMAIN s.sess[t]
    BY OnePending DEF Good
  <2>2. Release(s, t).sess = s.sess
    BY <2>1 DEF Release, RunType
  <2>3. DOMAIN Ended(s, t, n, "COMPLETED", verdict).sess[t] = DOMAIN s.sess[t]
    BY <2>1, <2>2 DEF Ended, Set, Release, RunType
  <2> QED
    BY <1>1, <2>3, EndedShape
<1>3. ASSUME NEW state \in TaskState \ ActiveStates
      PROVE  Good(ended(state)) /\ DOMAIN ended(state).sess[t] = DOMAIN s.sess[t]
  <2> DEFINE e == Ended(s, t, n, "COMPLETED", verdict)
  <2>1. Good([e EXCEPT !.task[t] = state, !.retry = e.retry \ {t}, !.held = e.held])
    <3>1. e.retry \ {t} \in SUBSET Task /\ e.held \in SUBSET Task
      BY <1>2 DEF RunType
    <3>2. Good(EndedAs(s, t, n, "COMPLETED", verdict, state, e.retry \ {t}, e.held))
      BY <1>1, <3>1, EndedGood
    <3> QED
      BY <3>2 DEF EndedAs
  <2>2. e \in RunType /\ DOMAIN e.sess[t] = DOMAIN s.sess[t]
    BY <1>2
  <2> HIDE DEF e
  <2>3. [e EXCEPT !.task[t] = state, !.retry = @ \ {t}]
          = [e EXCEPT !.task[t] = state, !.retry = e.retry \ {t}, !.held = e.held]
    BY <2>2 DEF RunType
  <2>4. [e EXCEPT !.task[t] = state, !.retry = @ \ {t}].sess = e.sess
    BY <2>2 DEF RunType
  <2> QED
    BY <2>1, <2>2, <2>3, <2>4 DEF e
<1>4. /\ \A v : AppliedState(v) \in TaskState \ ActiveStates
      /\ "IMPLEMENTED" \in TaskState \ ActiveStates
  BY DEF AppliedState, TaskState, ActiveStates
<1>5. n \in DOMAIN s.sess[t] /\ {"COMPARED", "SECOND", "AWAITING"} \subseteq Leads
  BY OnePending DEF Leads
<1> HIDE DEF ended
<1>6. CASE awaiting # {}
  <2>1. first \in DOMAIN s.sess[t]
    <3>1. \E m \in awaiting : \A k \in awaiting : k <= m
      <4>1. awaiting \subseteq 1..Len(s.sess[t]) /\ Len(s.sess[t]) \in Nat
        BY DEF AwaitingLead, Good, RunType
      <4> QED
        BY <1>6, <4>1, LastOfInterval
    <3> QED
      BY <3>1 DEF AwaitingLead
  <2> DEFINE x == ended(AppliedState(s.sess[t][first].final))
             y == Relabelled(x, t, first, "COMPARED")
  <2>2. Good(x) /\ DOMAIN x.sess[t] = DOMAIN s.sess[t]
    BY <1>3, <1>4
  <2>3. Good(y) /\ DOMAIN y.sess[t] = DOMAIN s.sess[t]
    BY <1>5, <2>1, <2>2, RelabelledGood
  <2>4. Good(Relabelled(y, t, n, "SECOND"))
    BY <1>5, <2>3, RelabelledGood
  <2> QED
    BY <1>6, <2>4 DEF Judged, ended
<1>7. CASE awaiting = {}
  <2>1. Good(Relabelled(ended("IMPLEMENTED"), t, n, "AWAITING"))
    BY <1>3, <1>4, <1>5, RelabelledGood
  <2>2. Good(ended(AppliedState(verdict)))
    BY <1>3, <1>4
  <2> QED
    BY <1>7, <2>1, <2>2 DEF Judged, ended
<1> QED
  BY <1>6, <1>7

LEMMA RejectedGood ==
    ASSUME NEW s, Good(s), NEW t \in Task, NEW n \in PendingSessions(s, t)
    PROVE  Good(Rejected(s, t, n))
<1> DEFINE e == Ended(s, t, n, "COMPLETED", "VERIFICATION_REJECTED")
           r == [e EXCEPT !.task[t] = "IMPLEMENTED"]
<1>1. /\ "COMPLETED" \in Status \ Pending /\ "VERIFICATION_REJECTED" \in Finals
      /\ "IMPLEMENTED" \in TaskState \ ActiveStates
  BY DEF Status, Pending, Terminal, Finals, TaskState, ActiveStates
<1>2. e \in RunType
  BY <1>1, EndedShape
<1>7. e.retry \in SUBSET Task /\ e.held \in SUBSET Task /\ e.held \cup {t} \in SUBSET Task
  BY <1>2 DEF RunType
<1>3. Good([e EXCEPT !.task[t] = "IMPLEMENTED", !.retry = e.retry, !.held = e.held])
  <2>1. Good(EndedAs(s, t, n, "COMPLETED", "VERIFICATION_REJECTED", "IMPLEMENTED", e.retry, e.held))
    BY <1>1, <1>7, EndedGood
  <2> QED
    BY <2>1 DEF EndedAs
<1>4. Good([e EXCEPT !.task[t] = "IMPLEMENTED", !.retry = e.retry, !.held = e.held \cup {t}])
  <2>1. Good(EndedAs(s, t, n, "COMPLETED", "VERIFICATION_REJECTED", "IMPLEMENTED", e.retry,
                     e.held \cup {t}))
    BY <1>1, <1>7, EndedGood
  <2> QED
    BY <2>1 DEF EndedAs
<1> HIDE DEF e
<1>5. r = [e EXCEPT !.task[t] = "IMPLEMENTED", !.retry = e.retry, !.held = e.held]
  BY <1>2 DEF RunType
<1>6. [r EXCEPT !.held = @ \cup {t}]
        = [e EXCEPT !.task[t] = "IMPLEMENTED", !.retry = e.retry, !.held = e.held \cup {t}]
  BY <1>2 DEF RunType
<1> QED
  BY <1>3, <1>4, <1>5, <1>6 DEF Rejected, e

-----------------------------------------------------------------------------
(* Failures and sweeps.                                                     *)

LEMMA FailedGood ==
    ASSUME NEW s, Good(s), NEW t \in Task, NEW n \in PendingSessions(s, t), NEW limited \in BOOLEAN
    PROVE  Good(Failed(s, t, n, limited))
<1> DEFINE e == Ended(s, t, n, "RETRY_WAIT", "")
           state == FailedTaskState(s, t, s.sess[t][n].kind)
           m == [e EXCEPT !.task[t] = state, !.retry = e.retry \cup {t}, !.held = e.held]
           r == Failed(s, t, n, limited)
<1>1. /\ "RETRY_WAIT" \in Status \ Pending /\ "" \in Finals
      /\ state \in TaskState \ ActiveStates
  BY DEF Status, Pending, Terminal, Finals, TaskState, ActiveStates, FailedTaskState
<1>2. e \in RunType
  BY <1>1, EndedShape
<1>3. Good(m)
  <2>1. e.retry \cup {t} \in SUBSET Task /\ e.held \in SUBSET Task
    BY <1>2 DEF RunType
  <2>2. Good(EndedAs(s, t, n, "RETRY_WAIT", "", state, e.retry \cup {t}, e.held))
    BY <1>1, <2>1, EndedGood
  <2> QED
    BY <2>2 DEF EndedAs
<1>4. r = [e EXCEPT !.task[t] = state, !.retry = @ \cup {t}, !.barrier = @ \/ limited]
  BY DEF Failed
<1> HIDE DEF e, state, r
<1>5. /\ r \in RunType /\ r.task = m.task /\ r.active = m.active
      /\ r.lock = m.lock /\ r.sess = m.sess
  <2>1. e.barrier \/ limited \in BOOLEAN
    OBVIOUS
  <2> QED
    BY <1>1, <1>2, <1>4, <2>1 DEF RunType
<1> QED
  BY <1>3, <1>5, SideGood DEF r

LEMMA RetriedType ==
    ASSUME NEW list \in Seq(Session)
    PROVE  /\ Retried(list) \in Seq(Session)
           /\ DOMAIN Retried(list) = DOMAIN list
           /\ \A n \in DOMAIN list :
                list[n].status \notin Pending \/ list[n].thread
                  => Retried(list)[n].status \notin Pending
<1>1. DOMAIN list = 1..Len(list) /\ Len(list) \in Nat
      /\ \A n \in DOMAIN list : list[n] \in Session
  OBVIOUS
<1>2. \A n \in DOMAIN list : Retried(list)[n] \in Session
  BY <1>1 DEF Retried, Session, Status
<1>3. Retried(list) \in [1..Len(list) -> Session]
  BY <1>1, <1>2 DEF Retried
<1>4. ASSUME NEW n \in DOMAIN list, list[n].status \notin Pending \/ list[n].thread
      PROVE  Retried(list)[n].status \notin Pending
  <2>1. CASE list[n].status \notin Pending
    BY <1>1, <2>1 DEF Retried
  <2>2. CASE list[n].status \in Pending /\ list[n].thread
    <3>1. Retried(list)[n] = [list[n] EXCEPT !.status = "RETRY_WAIT"]
      BY <2>2 DEF Retried
    <3> QED
      BY <1>1, <3>1 DEF Session, Pending
  <2> QED
    BY <1>4, <2>1, <2>2
<1> QED
  BY <1>1, <1>3, <1>4

LEMMA SettledGood ==
    ASSUME NEW s, Good(s), NEW T \in SUBSET Observable(s)
    PROVE  Good(Settled(s, T))
<1> DEFINE r == Settled(s, T)
<1>1. T \in SUBSET Task /\ s \in RunType
  BY DEF Observable, Good
<1>2. /\ r.task = [t \in Task |-> IF t \in T THEN "RETRY_WAIT" ELSE s.task[t]]
      /\ r.active = s.active \ T
      /\ r.lock = [t \in Task |-> IF t \in T THEN 0 ELSE s.lock[t]]
      /\ r.sess = [t \in Task |-> IF t \in T THEN Retried(s.sess[t]) ELSE s.sess[t]]
  BY <1>1 DEF Settled, RunType
<1>3. r = [s EXCEPT !.task = r.task, !.active = r.active, !.lock = r.lock, !.sess = r.sess,
                    !.slot = s.slot \ T, !.retry = s.retry \cup T]
  BY <1>1 DEF Settled, RunType
<1> HIDE DEF r
<1>4. \A t \in Task : s.sess[t] \in Seq(Session) /\ Retried(s.sess[t]) \in Seq(Session)
  BY <1>1, RetriedType DEF RunType
<1>5. /\ r.sess \in [Task -> Seq(Session)] /\ r.task \in [Task -> TaskState]
      /\ r.lock \in [Task -> Nat] /\ r.active \in SUBSET Task
      /\ s.slot \ T \in SUBSET Task /\ s.retry \cup T \in SUBSET Task
  BY <1>1, <1>2, <1>4 DEF RunType, TaskState
<1>6. r \in RunType
  BY <1>1, <1>3, <1>5 DEF RunType
<1>7. ASSUME NEW t \in T
      PROVE  PendingSessions(s, t) # {} /\ PendingSessions(r, t) = {}
  <2>1. PICK n \in PendingSessions(s, t) : s.sess[t][n].thread
    BY DEF Observable
  <2>2. PendingSessions(s, t) = {n} /\ s.sess[t] \in Seq(Session)
    BY <1>1, <2>1, OnePending
  <2>3. r.sess[t] = Retried(s.sess[t])
    BY <1>1, <1>2
  <2>4. \A m \in DOMAIN s.sess[t] : s.sess[t][m].status \notin Pending \/ s.sess[t][m].thread
    BY <2>1, <2>2 DEF PendingSessions
  <2> QED
    BY <2>2, <2>3, <2>4, RetriedType DEF PendingSessions
<1>8. \A t \in T : r.task[t] \notin ActiveStates /\ t \notin r.active /\ r.lock[t] = 0
  BY <1>1, <1>2 DEF ActiveStates
<1>9. \A t \in Task \ T : /\ r.task[t] = s.task[t] /\ (t \in r.active <=> t \in s.active)
                          /\ r.lock[t] = s.lock[t] /\ r.sess[t] = s.sess[t]
  BY <1>1, <1>2
<1>10. EndsOn(s, T, r)
  BY <1>6, <1>7, <1>8, <1>9 DEF EndsOn
<1> QED
  BY <1>1, <1>10, EndGood DEF r

-----------------------------------------------------------------------------
(* Stops lifted and stops imposed.                                          *)

\* What transition_task makes of a task that nobody works on.
LEMMA TransitionGood ==
    ASSUME NEW s, Good(s), NEW t \in Task, NEW target \in TaskState \ ActiveStates,
           s.task[t] \notin ActiveStates \cup {"VERIFIED"},
           NEW states \in TransitionResults(s.task, t, target),
           NEW r, r \in RunType, r.task = states,
           r.active = s.active, r.lock = s.lock, r.sess = s.sess
    PROVE  Good(r)
<1>1. s.task \in [Task -> TaskState]
  BY DEF Good, RunType
<1>2. states = [s.task EXCEPT ![t] = target] /\ ValidTaskStates(states)
  BY DEF TransitionResults
<1>3. /\ r.task[t] = target /\ \A u \in Task \ {t} : r.task[u] = s.task[u]
      /\ ValidTaskStates(r.task)
  BY <1>1, <1>2
<1>4. ASSUME r.task[t] \notin UngatedStates
      PROVE  DependenciesEligible(s.task, t)
  <2>1. \A d \in Deps[t] : r.task[d] = "VERIFIED"
    BY <1>3, <1>4 DEF ValidTaskStates, DependenciesEligible, UnmetDependencies
  <2>2. ASSUME target = "VERIFIED" PROVE FALSE
    BY <1>1, <2>2 DEF TransitionResults, LegalTransition, Successors, TaskState, ActiveStates
  <2>3. t \notin Deps[t]
    BY <1>3, <2>1, <2>2
  <2> QED
    BY <1>3, <2>1, <2>3, TaskGraphAssumption DEF DependenciesEligible, UnmetDependencies
<1> QED
  BY <1>3, <1>4, MoveGood

LEMMA GrantFreshHireType ==
    ASSUME NEW s, s \in RunType, NEW t \in Task
    PROVE  LET g == GrantFreshHire(s, t) IN
           /\ g \in RunType /\ g.task = s.task /\ g.active = s.active
           /\ g.lock = s.lock /\ g.sess = s.sess /\ g.revisions = s.revisions
<1> DEFINE earned == s.revisions[t] \div MaxRevisions
<1>1. earned \in Nat
  <2>1. s.revisions[t] \in Nat /\ MaxRevisions \in Nat /\ MaxRevisions > 0
    BY FrontierAssumption DEF RunType
  <2> QED
    BY <2>1
<1> HIDE DEF earned
<1>2. s.hires \in [Task -> Nat]
  BY DEF RunType
<1>3. (IF earned > s.hires[t] THEN earned ELSE s.hires[t]) \in Nat
  BY <1>1, <1>2
<1> DEFINE hires == IF earned > s.hires[t] THEN earned ELSE s.hires[t]
<1> HIDE DEF hires
<1>4. GrantFreshHire(s, t) = s \/ GrantFreshHire(s, t) = [s EXCEPT !.hires[t] = hires]
  BY DEF GrantFreshHire, earned, hires
<1>5. [s.hires EXCEPT ![t] = hires] \in [Task -> Nat]
  BY <1>2, <1>3 DEF hires
<1>6. LET g == [s EXCEPT !.hires[t] = hires] IN
      /\ g \in RunType /\ g.task = s.task /\ g.active = s.active
      /\ g.lock = s.lock /\ g.sess = s.sess /\ g.revisions = s.revisions
  BY <1>5 DEF RunType
<1> QED
  BY <1>4, <1>6

LEMMA UnblockedGood ==
    ASSUME NEW s, Good(s), NEW t \in Task, s.task[t] = "BLOCKED", NEW r \in Unblocked(s, t)
    PROVE  Good(r)
<1> DEFINE g == GrantFreshHire(s, t)
<1>1. /\ g \in RunType /\ g.task = s.task /\ g.active = s.active
      /\ g.lock = s.lock /\ g.sess = s.sess
  BY GrantFreshHireType DEF Good
<1>2. PICK states \in TransitionResults(s.task, t, UnblockTarget(s, t)) :
            r = [g EXCEPT !.task = states]
  BY DEF Unblocked
<1> HIDE DEF g
<1>3. UnblockTarget(s, t) \in TaskState \ ActiveStates
  BY DEF UnblockTarget, TaskState, ActiveStates
<1>4. states \in [Task -> TaskState]
  BY <1>3 DEF TransitionResults, Good, RunType
<1>5. r \in RunType /\ r.task = states /\ r.active = s.active /\ r.lock = s.lock /\ r.sess = s.sess
  BY <1>1, <1>2, <1>4 DEF RunType
<1> QED
  BY <1>3, <1>5, TransitionGood DEF ActiveStates

\* Either file may be the one that is written: the run stays good.
LEMMA CommitGood ==
    ASSUME Good(run), NEW s, Good(s), Commit(s)
    PROVE  Good(run')
<1>1. CASE run' = s
  BY <1>1
<1>2. CASE run' = [run EXCEPT !.held = s.held]
  <2>1. run \in RunType /\ s.held \in SUBSET Task
    BY DEF Good, RunType
  <2>2. /\ run' \in RunType /\ run'.task = run.task /\ run'.active = run.active
        /\ run'.lock = run.lock /\ run'.sess = run.sess
    BY <1>2, <2>1 DEF RunType
  <2> QED
    BY <2>2, SideGood
<1> QED
  BY <1>1, <1>2 DEF Commit

\* Holding and letting go of a task disturbs nothing else.
LEMMA HeldGood ==
    ASSUME NEW s, Good(s), NEW held \in SUBSET Task
    PROVE  Good([s EXCEPT !.held = held])
<1>1. s \in RunType
  BY DEF Good
<1>2. LET r == [s EXCEPT !.held = held] IN
      /\ r \in RunType /\ r.task = s.task /\ r.active = s.active
      /\ r.lock = s.lock /\ r.sess = s.sess
  BY <1>1 DEF RunType
<1> QED
  BY <1>2, SideGood

-----------------------------------------------------------------------------
(* The steps.                                                               *)

LEMMA DoubtFields ==
    ASSUME NEW session \in Session, NEW thread \in BOOLEAN, session.status \in Pending
    PROVE  /\ Doubted(session, thread) \in Session
           /\ Doubted(session, thread).status = "AMBIGUOUS"
           /\ Doubted(session, thread).kind = session.kind
<1> DEFINE phase == FailurePhase(session)
<1>1. session.phase \in Pending \cup {""} /\ "AMBIGUOUS" \in Status
  BY DEF Session, Status, Pending
<1>2. phase \in Pending \cup {""}
  BY <1>1 DEF FailurePhase
<1> HIDE DEF phase
<1> QED
  BY <1>1, <1>2 DEF Session, Doubted, phase

\* The session a relay step leaves in the place of the n-th: it goes on pending.
Carries(t, n, session) ==
    /\ session \in Session /\ session.status \in Pending
    /\ session.kind = run.sess[t][n].kind
    /\ run' = Set(run, t, n, session)

LEMMA RelayCarries ==
    ASSUME Good(run), NEW t \in Task,
           CreateThread(t) \/ StartTurn(t) \/ ThreadGone(t) \/ FailInDoubt(t) \/ FailSend(t)
    PROVE  \E n \in PendingSessions(run, t) : \E session : Carries(t, n, session)
<1>1. \A n \in DOMAIN run.sess[t] : run.sess[t][n] \in Session
  BY DEF Good, RunType
<1>2. \A n \in DOMAIN run.sess[t] :
        run.sess[t][n].status \in Pending => n \in PendingSessions(run, t)
  BY DEF PendingSessions
<1>5. \A session \in Session, status \in Pending :
        LET c == [session EXCEPT !.status = status] IN
        c \in Session /\ c.status = status /\ c.kind = session.kind
  BY DEF Session, Status
<1>6. \A session \in Session, status \in Pending, thread \in BOOLEAN :
        LET c == [session EXCEPT !.status = status, !.thread = thread] IN
        c \in Session /\ c.status = status /\ c.kind = session.kind
  BY DEF Session, Status
<1>7. {"CREATE_REQUESTED", "PREPARED", "ACTIVE", "AMBIGUOUS"} \subseteq Pending
  BY DEF Pending
<1>8. CASE CreateThread(t)
  <2>1. PICK n \in DOMAIN run.sess[t] :
          /\ run.sess[t][n].status = "CREATE_REQUESTED"
          /\ run' = Set(run, t, n, [run.sess[t][n] EXCEPT !.status = "PREPARED", !.thread = TRUE])
    BY <1>8 DEF CreateThread
  <2> DEFINE c == [run.sess[t][n] EXCEPT !.status = "PREPARED", !.thread = TRUE]
  <2>2. n \in PendingSessions(run, t) /\ run.sess[t][n] \in Session
    BY <1>1, <1>2, <1>7, <2>1
  <2>3. c \in Session /\ c.status \in Pending /\ c.kind = run.sess[t][n].kind
    BY <1>6, <1>7, <2>2
  <2>4. Carries(t, n, c)
    BY <2>1, <2>3 DEF Carries
  <2> QED
    BY <2>2, <2>4
<1>9. CASE StartTurn(t)
  <2>1. PICK n \in DOMAIN run.sess[t] :
          /\ run.sess[t][n].status = "PREPARED"
          /\ run' = Set(run, t, n, [run.sess[t][n] EXCEPT !.status = "ACTIVE"])
    BY <1>9 DEF StartTurn
  <2> DEFINE c == [run.sess[t][n] EXCEPT !.status = "ACTIVE"]
  <2>2. n \in PendingSessions(run, t) /\ run.sess[t][n] \in Session
    BY <1>1, <1>2, <1>7, <2>1
  <2>3. c \in Session /\ c.status \in Pending /\ c.kind = run.sess[t][n].kind
    BY <1>5, <1>7, <2>2
  <2>4. Carries(t, n, c)
    BY <2>1, <2>3 DEF Carries
  <2> QED
    BY <2>2, <2>4
<1>10. CASE ThreadGone(t)
  <2>1. PICK n \in DOMAIN run.sess[t] :
          /\ run.sess[t][n].status = "PREPARED"
          /\ run' = Set(run, t, n, [run.sess[t][n] EXCEPT !.status = "CREATE_REQUESTED",
                                                          !.thread = FALSE])
    BY <1>10 DEF ThreadGone
  <2> DEFINE c == [run.sess[t][n] EXCEPT !.status = "CREATE_REQUESTED", !.thread = FALSE]
  <2>2. n \in PendingSessions(run, t) /\ run.sess[t][n] \in Session
    BY <1>1, <1>2, <1>7, <2>1
  <2>3. c \in Session /\ c.status \in Pending /\ c.kind = run.sess[t][n].kind
    BY <1>6, <1>7, <2>2
  <2>4. Carries(t, n, c)
    BY <2>1, <2>3 DEF Carries
  <2> QED
    BY <2>2, <2>4
<1>11. CASE FailInDoubt(t)
  <2>1. PICK n \in PendingSessions(run, t), thread \in BOOLEAN :
          run' = Set(run, t, n, Doubted(run.sess[t][n], thread))
    BY <1>11 DEF FailInDoubt
  <2>2. n \in DOMAIN run.sess[t] /\ run.sess[t][n].status \in Pending
    BY DEF PendingSessions
  <2>3. Carries(t, n, Doubted(run.sess[t][n], thread))
    BY <1>1, <1>7, <2>1, <2>2, DoubtFields DEF Carries
  <2> QED
    BY <2>3
<1>12. CASE FailSend(t)
  <2>1. PICK n \in PendingSessions(run, t) :
          run' = Set(run, t, n, [run.sess[t][n] EXCEPT !.status = "PREPARED"])
    BY <1>12 DEF FailSend
  <2> DEFINE c == [run.sess[t][n] EXCEPT !.status = "PREPARED"]
  <2>2. n \in DOMAIN run.sess[t]
    BY DEF PendingSessions
  <2>3. Carries(t, n, c)
    BY <1>1, <1>5, <1>7, <2>1, <2>2 DEF Carries
  <2> QED
    BY <2>3
<1> QED
  BY <1>8, <1>9, <1>10, <1>11, <1>12

LEMMA RelayGood ==
    ASSUME Good(run), NEW t \in Task,
           CreateThread(t) \/ StartTurn(t) \/ ThreadGone(t) \/ FailInDoubt(t) \/ FailSend(t)
    PROVE  Good(run')
BY RelayCarries, CarryOnGood DEF Carries

LEMMA FailForCertainGood ==
    ASSUME Good(run), NEW t \in Task, FailForCertain(t)
    PROVE  Good(run')
BY FailedGood DEF FailForCertain

LEMMA FinishGood ==
    ASSUME Good(run), NEW t \in Task,
           FinishWork(t) \/ FinishStopped(t) \/ FinishVerdict(t) \/ FinishUnreadable(t)
    PROVE  Good(run')
<1>1. \A n \in DOMAIN run.sess[t] : Consume(t, n) => n \in PendingSessions(run, t)
  BY DEF Consume, IsActive, PendingSessions, Pending
<1>2. /\ DeliveryStates(t) \subseteq TaskState \ ActiveStates
      /\ {"READY", "BLOCKED"} \subseteq TaskState \ ActiveStates
  BY DEF DeliveryStates, TaskState, ActiveStates
<1>3. ASSUME NEW done, Good(done), \E s \in Pass(done) : Commit(s)
      PROVE  Good(run')
  BY <1>3, PassGood, CommitGood
<1>4. CASE FinishWork(t)
  <2>1. PICK n \in DOMAIN run.sess[t], state \in DeliveryStates(t) :
          Consume(t, n) /\ \E s \in Pass(Delivered(run, t, n, state)) : Commit(s)
    BY <1>4 DEF FinishWork
  <2>2. Good(Delivered(run, t, n, state))
    BY <1>1, <1>2, <2>1, WorkerEndsGood
  <2> QED
    BY <1>3, <2>1, <2>2
<1>5. CASE FinishStopped(t)
  <2>1. PICK n \in DOMAIN run.sess[t], state \in {"READY", "BLOCKED"} :
          Consume(t, n) /\ \E s \in Pass(WorkerStopped(run, t, n, state)) : Commit(s)
    BY <1>5 DEF FinishStopped
  <2>2. Good(WorkerStopped(run, t, n, state))
    BY <1>1, <1>2, <2>1, WorkerEndsGood
  <2> QED
    BY <1>3, <2>1, <2>2
<1>6. CASE FinishVerdict(t)
  <2>1. PICK n \in DOMAIN run.sess[t], verdict \in {"PASS", "REVISE"} :
          Consume(t, n) /\ \E s \in Pass(Judged(run, t, n, verdict)) : Commit(s)
    BY <1>6 DEF FinishVerdict, Verdicts
  <2>2. Good(Judged(run, t, n, verdict))
    BY <1>1, <2>1, JudgedGood
  <2> QED
    BY <1>3, <2>1, <2>2
<1>7. CASE FinishUnreadable(t)
  <2>1. PICK n \in DOMAIN run.sess[t] :
          Consume(t, n) /\ \E s \in Pass(Rejected(run, t, n)) : Commit(s)
    BY <1>7 DEF FinishUnreadable
  <2>2. Good(Rejected(run, t, n))
    BY <1>1, <2>1, RejectedGood
  <2> QED
    BY <1>3, <2>1, <2>2
<1> QED
  BY <1>4, <1>5, <1>6, <1>7

LEMMA ReconcileGood ==
    ASSUME Good(run), Reconcile \/ SettleDeadSessions
    PROVE  Good(run')
<1>1. PICK T \in SUBSET Observable(run) : ReconcileOver(T)
  <2>1. DeadSessions(run) \subseteq Observable(run)
    BY DEF DeadSessions, Observable
  <2> QED
    BY <2>1 DEF Reconcile, SettleDeadSessions
<1> DEFINE settled == Settled(run, T)
<1>2. Good(settled)
  BY SettledGood
<1>3. PICK due \in SUBSET DueRetries(settled) : run' = settled \/ run' = Prepare(settled, due)
  BY <1>1 DEF ReconcileOver
<1> HIDE DEF settled
<1> QED
  BY <1>2, <1>3, PrepareGood

LEMMA StopsGood ==
    ASSUME Good(run), NEW t \in Task,
           CloseTicket(t) \/ ReturnStoppedTask(t) \/ OwnerAnswers(t) \/ Escalate(t)
    PROVE  Good(run')
<1>1. run \in RunType /\ \A s : Good(s) => s.held \in SUBSET Task
  BY DEF Good, RunType
<1>2. ASSUME NEW s, Good(s) PROVE Good([s EXCEPT !.held = @ \ {t}])
  <2>1. Good([s EXCEPT !.held = s.held \ {t}])
    BY <1>1, <1>2, HeldGood
  <2> QED
    BY <2>1
<1>3. CASE CloseTicket(t)
  BY <1>2, <1>3 DEF CloseTicket
<1>4. CASE ReturnStoppedTask(t)
  BY <1>4, UnblockedGood DEF ReturnStoppedTask
<1>5. CASE OwnerAnswers(t)
  <2>1. PICK s \in Unblocked(run, t) : \/ run' = [s EXCEPT !.held = @ \ {t}]
                                       \/ run' = [run EXCEPT !.held = @ \ {t}]
    BY <1>5 DEF OwnerAnswers
  <2>2. Good(s)
    BY <1>5, UnblockedGood DEF OwnerAnswers
  <2> QED
    BY <1>2, <2>1, <2>2
<1>6. CASE Escalate(t)
  <2>1. PICK states \in TransitionResults(run.task, t, "BLOCKED") :
          run' = [run EXCEPT !.task = states]
    BY <1>6 DEF Escalate
  <2>2. "BLOCKED" \in TaskState \ ActiveStates
    BY DEF TaskState, ActiveStates
  <2>3. states \in [Task -> TaskState]
    BY <1>1, <2>2 DEF TransitionResults, RunType
  <2>4. /\ run' \in RunType /\ run'.task = states /\ run'.active = run.active
        /\ run'.lock = run.lock /\ run'.sess = run.sess
    BY <1>1, <2>1, <2>3 DEF RunType
  <2>5. run.task[t] \notin ActiveStates \cup {"VERIFIED"}
    BY <1>6 DEF Escalate, Good, Agrees
  <2> QED
    BY <2>2, <2>4, <2>5, TransitionGood
<1> QED
  BY <1>3, <1>4, <1>5, <1>6

-----------------------------------------------------------------------------
(* The theorems.                                                            *)

\* The inductive invariant: the types and what every handler keeps.
IInv == TypeOK /\ Good(run)

LEMMA InitIInv == Init => IInv
<1> SUFFICES ASSUME Init PROVE IInv
  OBVIOUS
<1>1. InitialTaskStates \in [Task -> TaskState]
      /\ \A t \in Task : InitialTaskStates[t] \in {"READY", "WAITING"}
  BY DEF InitialTaskStates, TaskState
<1>2. /\ [t \in Task |-> << >>] \in [Task -> Seq(Session)]
      /\ [t \in Task |-> 0] \in [Task -> Nat]
      /\ [t \in Task |-> 0] \in [Task -> 0..TopEffort]
  BY FrontierAssumption
<1>3. run \in RunType
  BY <1>1, <1>2 DEF Init, InitialRun, RunType
<1>4. /\ run.task = InitialTaskStates /\ run.active = {}
      /\ run.lock = [t \in Task |-> 0] /\ run.sess = [t \in Task |-> << >>]
  BY DEF Init, InitialRun
<1>5. ValidTaskStates(run.task)
  BY <1>4 DEF InitialTaskStates, ValidTaskStates, UngatedStates,
              DependenciesEligible, UnmetDependencies
<1>6. ASSUME NEW t \in Task PROVE Agrees(run, t)
  <2>1. PendingSessions(run, t) = {} /\ run.lock[t] = 0
    BY <1>4 DEF PendingSessions
  <2> QED
    BY <1>1, <1>4, <2>1 DEF Agrees, ActiveStates
<1>7. ConflictFree(run)
  BY <1>4 DEF ConflictFree, Holders
<1>8. TypeOK
  <2>1. pause \in BOOLEAN /\ reading \in SUBSET (Task \X (Nat \ {0}))
    BY Zenon DEF Init
  <2>2. surprises \in 0..MaxSurprises
    BY FrontierAssumption DEF Init
  <2> QED
    BY <1>3, <2>1, <2>2 DEF TypeOK
<1> QED
  BY <1>3, <1>5, <1>6, <1>7, <1>8 DEF IInv, Good

\* Every action keeps the run good, one case for each.
LEMMA NextGood == Good(run) /\ Next => Good(run')
<1> SUFFICES ASSUME Good(run), Next PROVE Good(run')
  OBVIOUS
<1>1. ASSUME NEW t \in Task, TaskStep(t) PROVE Good(run')
  <2>1. CASE CreateThread(t) \/ StartTurn(t) \/ ThreadGone(t) \/ FailInDoubt(t) \/ FailSend(t)
    BY <2>1, RelayGood
  <2>2. CASE FailForCertain(t)
    BY <2>2, FailForCertainGood
  <2>3. CASE Deliver(t)
    BY <2>3 DEF Deliver
  <2>4. CASE FinishWork(t) \/ FinishStopped(t) \/ FinishVerdict(t) \/ FinishUnreadable(t)
    BY <2>4, FinishGood
  <2>5. CASE CloseTicket(t) \/ ReturnStoppedTask(t) \/ OwnerAnswers(t) \/ Escalate(t)
    BY <2>5, StopsGood
  <2> QED
    BY <1>1, <2>1, <2>2, <2>3, <2>4, <2>5 DEF TaskStep
<1>2. CASE Forget
  BY <1>2 DEF Forget
<1>3. CASE Reserve
  BY <1>3, PassGood, CommitGood DEF Reserve
<1>4. CASE Reconcile \/ SettleDeadSessions
  BY <1>4, ReconcileGood
<1>5. CASE RequestPause \/ ResumeRun
  BY <1>5 DEF RequestPause, ResumeRun
<1> QED
  BY <1>1, <1>2, <1>3, <1>4, <1>5 DEF Next

\* The model's own variables keep their types.
LEMMA NextOwn ==
    ASSUME TypeOK, Next
    PROVE  /\ pause' \in BOOLEAN
           /\ reading' \in SUBSET (Task \X (Nat \ {0}))
           /\ surprises' \in 0..MaxSurprises
<1> DEFINE Own == /\ pause' \in BOOLEAN
                  /\ reading' \in SUBSET (Task \X (Nat \ {0}))
                  /\ surprises' \in 0..MaxSurprises
<1>1. /\ pause \in BOOLEAN /\ reading \in SUBSET (Task \X (Nat \ {0}))
      /\ surprises \in 0..MaxSurprises /\ MaxSurprises \in Nat
  BY FrontierAssumption DEF TypeOK
<1>2. Surprise => surprises' \in 0..MaxSurprises
  BY <1>1 DEF Surprise
<1>3. ASSUME NEW t \in Task, TaskStep(t) PROVE Own
  <2>1. CASE CreateThread(t) \/ StartTurn(t)
    BY <1>1, <2>1 DEF CreateThread, StartTurn
  <2>2. CASE ThreadGone(t) \/ FailInDoubt(t) \/ FailSend(t) \/ FailForCertain(t)
    BY <1>1, <1>2, <2>2 DEF ThreadGone, FailInDoubt, FailSend, FailForCertain
  <2>3. CASE Deliver(t)
    <3>1. PICK n \in PendingSessions(run, t) : reading' = reading \cup {<<t, n>>}
      BY <2>3 DEF Deliver
    <3>2. n \in Nat \ {0}
      BY DEF PendingSessions, TypeOK, RunType
    <3> QED
      BY <1>1, <2>3, <3>1, <3>2 DEF Deliver
  <2>4. CASE FinishWork(t) \/ FinishVerdict(t)
    BY <1>1, <2>4 DEF FinishWork, FinishVerdict, Consume
  <2>5. CASE FinishStopped(t) \/ FinishUnreadable(t)
    BY <1>1, <1>2, <2>5 DEF FinishStopped, FinishUnreadable, Consume
  <2>6. CASE CloseTicket(t)
    BY <1>1, <2>6 DEF CloseTicket
  <2>7. CASE ReturnStoppedTask(t) \/ OwnerAnswers(t) \/ Escalate(t)
    BY <1>1, <1>2, <2>7 DEF ReturnStoppedTask, OwnerAnswers, Escalate
  <2> QED
    BY <1>3, <2>1, <2>2, <2>3, <2>4, <2>5, <2>6, <2>7 DEF TaskStep
<1>4. CASE Forget
  BY <1>1, <1>4 DEF Forget
<1>5. CASE Reserve
  BY <1>1, <1>5 DEF Reserve
<1>6. CASE Reconcile
  BY <1>1, <1>2, <1>6 DEF Reconcile, ReconcileOver
<1>7. CASE SettleDeadSessions
  BY <1>1, <1>7 DEF SettleDeadSessions, ReconcileOver
<1>8. CASE RequestPause \/ ResumeRun
  BY <1>1, <1>2, <1>8 DEF RequestPause, ResumeRun
<1> QED
  BY <1>3, <1>4, <1>5, <1>6, <1>7, <1>8 DEF Next

LEMMA NextIInv == IInv /\ [Next]_vars => IInv'
<1> SUFFICES ASSUME IInv, [Next]_vars PROVE IInv'
  OBVIOUS
<1>1. CASE Next
  <2>1. Good(run') /\ run' \in RunType
    BY <1>1, NextGood DEF IInv, Good
  <2>2. TypeOK'
    BY <1>1, <2>1, NextOwn DEF IInv, TypeOK
  <2> QED
    BY <2>1, <2>2 DEF IInv, Good, ValidTaskStates, DependenciesEligible, UnmetDependencies,
                      Agrees, PendingSessions, ConflictFree, Holders
<1>2. CASE UNCHANGED vars
  BY <1>2 DEF vars, IInv, TypeOK, Good, ValidTaskStates, DependenciesEligible,
              UnmetDependencies, Agrees, PendingSessions, ConflictFree, Holders
<1> QED
  BY <1>1, <1>2

\* The inductive invariant holds in every state of every run.
THEOREM Invariance == Spec => []IInv
<1> QED
  BY InitIInv, NextIInv, PTL DEF Spec

\* Every durable state the handlers leave is one the program can load, for every
\* plan and every order of completions, failures, sweeps and decisions.
THEOREM TypeCorrect == Spec => []TypeOK
<1>1. IInv => TypeOK
  BY DEF IInv
<1> QED
  BY <1>1, Invariance, PTL

\* No task is at work, done or waiting for judgement on a dependency that is not
\* accepted.
THEOREM Gated == Spec => []DependencyGate
<1>1. IInv => DependencyGate
  BY DEF IInv, Good, DependencyGate, ValidTaskStates, DependenciesEligible, UnmetDependencies
<1> QED
  BY <1>1, Invariance, PTL

\* A task has at most one producer, and its state, the active set, its lock and
\* its newest session all name it.
THEOREM Single == Spec => []OneProducer
<1>1. IInv => OneProducer
  BY DEF IInv, Good, OneProducer
<1> QED
  BY <1>1, Invariance, PTL

\* Conflicting claims are never held together.
THEOREM Excluded == Spec => []Exclusion
<1>1. IInv => Exclusion
  BY DEF IInv, Good, Exclusion
<1> QED
  BY <1>1, Invariance, PTL

-----------------------------------------------------------------------------
(* The board.  A step of the frontier is a handler, which ends sessions,     *)
(* and then a pass, which starts some; the board sees both in one step.      *)

\* What the board sees of a state, and the tasks whose record says that somebody
\* produced for them.
Accepted(s) == {t \in Task : s.task[t] = "VERIFIED"}

Produced(list) ==
    \E n \in DOMAIN list : list[n].kind \in Production /\ list[n].status \notin Pending

Tried(s) == {t \in Task : Produced(s.sess[t])}

Worked(s) ==
    {t \in Task :
        \/ s.revisions[t] > 0
        \/ s.task[t] \in {"IMPLEMENTED", "VERIFYING", "REVISION_REQUIRED", "REVISING", "VERIFIED"}}

\* No task awaits, undergoes or has passed a judgement that nobody has produced for.
Earned(s) == Worked(s) \subseteq Tried(s)

\* The tasks whose lock was given back, and those that were given one.
Freed(s, b) == {t \in Task : s.lock[t] # 0 /\ b.lock[t] = 0}

\* Sessions that had ended are as they were, or retired behind a newer one; a second
\* judgement stays one.
KeptIn(list, more) ==
    /\ DOMAIN list \subseteq DOMAIN more
    /\ \A n \in DOMAIN list : more[n].kind = list[n].kind
    /\ \A n \in DOMAIN list : list[n].status \notin Pending =>
         /\ more[n].final = list[n].final
         /\ more[n].status \in {list[n].status, "RETIRED_SUPERSEDED"}
         /\ list[n].lead = "SECOND" => more[n].lead = "SECOND"

Kept(s, r) == \A t \in Task : KeptIn(s.sess[t], r.sess[t])

\* From s to b sessions ended: work handed in counts as tried, and at most one task
\* that was being judged came to be accepted.
Closes(s, b) ==
    /\ \A t \in Task : b.lock[t] # 0 => s.lock[t] # 0 /\ b.task[t] = s.task[t]
    /\ Tried(b) = Tried(s) \cup {t \in Freed(s, b) : s.task[t] # "VERIFYING"}
    /\ Worked(b) \subseteq Worked(s) \cup {t \in Freed(s, b) : s.task[t] # "VERIFYING"}
    /\ Accepted(s) \subseteq Accepted(b)
    /\ \A t \in Accepted(b) \ Accepted(s) : s.task[t] = "VERIFYING"
    /\ \A t, u \in Accepted(b) \ Accepted(s) : t = u
    /\ \A t \in Task : DOMAIN b.sess[t] = DOMAIN s.sess[t]
    /\ Kept(s, b)

\* Its judge passed it, or was the second one.
Passed(s, b, t) ==
    \E n \in PendingSessions(s, t) :
        /\ b.sess[t][n].status \notin Pending
        /\ b.sess[t][n].final = "PASS" \/ b.sess[t][n].lead = "SECOND"

Ends(s, b) == Closes(s, b) /\ \A t \in Accepted(b) \ Accepted(s) : Passed(s, b, t)

\* From b to r sessions started, within the worker limit, and nothing else changed
\* that the board sees.
Starts(b, r) ==
    /\ \A t \in Task : b.lock[t] # 0 => r.lock[t] # 0 /\ r.task[t] = b.task[t]
    /\ Tried(r) = Tried(b) /\ Accepted(r) = Accepted(b)
    /\ Worked(r) \subseteq Worked(b)
    /\ Holders(r) = Holders(b) \/ Cardinality(Holders(r)) <= Ceiling
    /\ \A t \in Task : DOMAIN r.sess[t] = DOMAIN b.sess[t] \/ r.lock[t] # 0
    /\ Kept(b, r)

\* The state in between, of a step from s to r.
Between(s, b, r) == Good(b) /\ Ends(s, b) /\ Starts(b, r)

LEMMA CeilingBound == \A limit \in Limits : limit <= Ceiling
BY FrontierAssumption DEF Ceiling

LEMMA EarnedKept ==
    ASSUME NEW s, NEW b, NEW r, Earned(s), Ends(s, b), Starts(b, r)
    PROVE  Earned(r)
BY DEF Earned, Ends, Closes, Starts

\* Where the sessions, locks, states and revisions stay, the board sees nothing.
LEMMA Unseen ==
    ASSUME NEW s, NEW r, r.task = s.task, r.lock = s.lock, r.sess = s.sess,
           r.revisions = s.revisions
    PROVE  Ends(s, r) /\ Starts(s, r)
<1>1. /\ Tried(r) = Tried(s) /\ Accepted(r) = Accepted(s) /\ Worked(r) = Worked(s)
      /\ Holders(r) = Holders(s) /\ Freed(s, r) = {} /\ Kept(s, r)
  BY DEF Tried, Accepted, Worked, Holders, Freed, Kept, KeptIn
<1> QED
  BY <1>1 DEF Ends, Closes, Starts

LEMMA KeptAgain ==
    ASSUME NEW a, NEW b, NEW c, Kept(a, b), Kept(b, c)
    PROVE  Kept(a, c)
<1>1. "RETIRED_SUPERSEDED" \notin Pending
  BY DEF Pending
<1>2. ASSUME NEW t \in Task PROVE KeptIn(a.sess[t], c.sess[t])
  <2>1. KeptIn(a.sess[t], b.sess[t]) /\ KeptIn(b.sess[t], c.sess[t])
    BY DEF Kept
  <2> QED
    BY <1>1, <2>1 DEF KeptIn
<1> QED
  BY <1>2 DEF Kept

LEMMA StartsAgain ==
    ASSUME NEW a, NEW b, NEW c, Starts(a, b), Starts(b, c)
    PROVE  Starts(a, c)
BY KeptAgain DEF Starts

-----------------------------------------------------------------------------
(* What the pass starts.                                                    *)

LEMMA HoldersWork ==
    ASSUME NEW s, Good(s)
    PROVE  /\ Holders(s) = s.active /\ s.active \in SUBSET Task
           /\ IsFiniteSet(s.active) /\ Cardinality(s.active) \in Nat
           /\ \A t \in Holders(s) : s.task[t] \in ActiveStates
<1>1. s.active \in SUBSET Task /\ Holders(s) = s.active
  BY DEF Good, RunType, Agrees, Holders
<1>2. IsFiniteSet(s.active)
  BY <1>1, FS_Subset, TaskGraphAssumption
<1>3. Cardinality(s.active) \in Nat
  BY <1>2, FS_CardinalityType
<1> QED
  BY <1>1, <1>2, <1>3 DEF Good, Agrees

\* Fencing changes neither the number nor the kind of the sessions.
LEMMA FencedKinds ==
    ASSUME NEW list \in Seq(Session), NEW n \in 1..Len(list)
    PROVE  Fenced(list)[n].kind = list[n].kind /\ Fenced(list)[n].lead = list[n].lead
<1>1. n \in DOMAIN list /\ list[n] \in Session
  OBVIOUS
<1>2. \/ Fenced(list)[n] = list[n]
      \/ Fenced(list)[n] = [list[n] EXCEPT !.status = "RETIRED_SUPERSEDED"]
  BY <1>1 DEF Fenced
<1> QED
  BY <1>1, <1>2 DEF Session

\* A new session of a task that had none pending counts for nothing yet.
LEMMA LaunchTries ==
    ASSUME NEW list \in Seq(Session), NEW kind \in Kind,
           \A n \in 1..Len(list) : list[n].status \notin Pending
    PROVE  Produced(Append(Fenced(list), NewSession(kind))) <=> Produced(list)
<1> DEFINE more == Append(Fenced(list), NewSession(kind))
<1>1. /\ DOMAIN list = 1..Len(list) /\ Len(list) \in Nat
      /\ Fenced(list) \in Seq(Session) /\ Len(Fenced(list)) = Len(list)
  BY FencedType
<1>2. NewSession(kind) \in Session /\ NewSession(kind).status \in Pending
  BY NewSessionType
<1>3. DOMAIN more = 1..(Len(list) + 1) /\ more[Len(list) + 1] = NewSession(kind)
  BY <1>1, <1>2
<1>4. \A n \in 1..Len(list) : more[n] = Fenced(list)[n]
  BY <1>1, <1>2
<1>5. \A n \in 1..Len(list) : more[n].kind = list[n].kind /\ more[n].status \notin Pending
  BY <1>4, FencedKinds, FencedType
<1> HIDE DEF more
<1>6. \A n \in DOMAIN more : n \in 1..Len(list) \/ n = Len(list) + 1
  BY <1>1, <1>3
<1>7. 1..Len(list) \subseteq DOMAIN more
  BY <1>1, <1>3
<1>8. ASSUME NEW n \in DOMAIN more, more[n].kind \in Production, more[n].status \notin Pending
      PROVE  Produced(list)
  <2>1. n \in 1..Len(list)
    BY <1>2, <1>3, <1>6, <1>8
  <2> QED
    BY <1>1, <1>5, <1>8, <2>1 DEF Produced
<1>9. ASSUME NEW n \in DOMAIN list, list[n].kind \in Production
      PROVE  Produced(more)
  BY <1>1, <1>5, <1>7, <1>9 DEF Produced
<1> QED
  BY <1>8, <1>9 DEF more, Produced

\* A launch retires what was left behind, and keeps what it ended with.
LEMMA LaunchKeeps ==
    ASSUME NEW list \in Seq(Session), NEW kind \in Kind
    PROVE  KeptIn(list, Append(Fenced(list), NewSession(kind)))
<1> DEFINE more == Append(Fenced(list), NewSession(kind))
<1>1. /\ DOMAIN list = 1..Len(list) /\ Len(list) \in Nat
      /\ Fenced(list) \in Seq(Session) /\ Len(Fenced(list)) = Len(list)
  BY FencedType
<1>2. NewSession(kind) \in Session
  BY NewSessionType
<1>3. DOMAIN list \subseteq DOMAIN more /\ \A n \in DOMAIN list : more[n] = Fenced(list)[n]
  BY <1>1, <1>2
<1> HIDE DEF more
<1>4. ASSUME NEW n \in DOMAIN list
      PROVE  /\ Fenced(list)[n].kind = list[n].kind /\ Fenced(list)[n].lead = list[n].lead
             /\ Fenced(list)[n].final = list[n].final
             /\ Fenced(list)[n].status \in {list[n].status, "RETIRED_SUPERSEDED"}
  <2>1. list[n] \in Session
    OBVIOUS
  <2>2. \/ Fenced(list)[n] = list[n]
        \/ Fenced(list)[n] = [list[n] EXCEPT !.status = "RETIRED_SUPERSEDED"]
    BY DEF Fenced
  <2> QED
    BY <1>1, <2>1, <2>2, FencedKinds DEF Session
<1> QED
  BY <1>3, <1>4 DEF KeptIn, more

\* Launching waiting tasks, each with a session its state calls for, within the limit.
LEMMA LaunchStarts ==
    ASSUME NEW s, Good(s), NEW T \in SUBSET Task, NEW kindOf \in [Task -> Kind],
           \A t \in T : \/ s.task[t] \in {"IMPLEMENTED", "REVISION_REQUIRED"}
                        \/ s.task[t] = "READY" /\ kindOf[t] = "implementation",
           T # {} => Cardinality(s.active \cup T) <= Ceiling
    PROVE  Starts(s, Launch(s, T, kindOf))
<1> DEFINE r == Launch(s, T, kindOf)
<1>1. /\ r.task = [t \in Task |-> IF t \in T THEN ActiveStateOf(kindOf[t]) ELSE s.task[t]]
      /\ r.lock = [t \in Task |-> IF t \in T THEN Len(s.sess[t]) + 1 ELSE s.lock[t]]
      /\ r.sess = [t \in Task |-> IF t \in T
                     THEN Append(Fenced(s.sess[t]), NewSession(kindOf[t])) ELSE s.sess[t]]
      /\ r.revisions = s.revisions
  BY DEF Good, RunType, Launch
<1> HIDE DEF r
<1>2. \A t \in Task : s.sess[t] \in Seq(Session) /\ Len(s.sess[t]) \in Nat
  BY DEF Good, RunType
<1>3. \A t \in T : s.task[t] \notin ActiveStates /\ s.lock[t] = 0 /\ PendingSessions(s, t) = {}
  BY DEF Good, Agrees, ActiveStates
<1>4. \A t \in Task : s.lock[t] # 0 => r.lock[t] # 0 /\ r.task[t] = s.task[t]
  BY <1>1, <1>3
<1>5. Tried(r) = Tried(s)
  <2>1. ASSUME NEW t \in Task PROVE t \in Tried(r) <=> t \in Tried(s)
    <3>1. CASE t \in T
      <4>1. \A n \in 1..Len(s.sess[t]) : s.sess[t][n].status \notin Pending
        BY <1>2, <1>3, <3>1 DEF PendingSessions
      <4>2. r.sess[t] = Append(Fenced(s.sess[t]), NewSession(kindOf[t])) /\ kindOf[t] \in Kind
        BY <1>1, <3>1
      <4>3. Produced(r.sess[t]) <=> Produced(s.sess[t])
        BY <1>2, <4>1, <4>2, LaunchTries
      <4> QED
        BY <4>3 DEF Tried
    <3>2. CASE t \notin T
      <4>1. r.sess[t] = s.sess[t]
        BY <1>1, <3>2
      <4> QED
        BY <4>1 DEF Tried
    <3> QED
      BY <3>1, <3>2
  <2> QED
    BY <2>1 DEF Tried
<1>6. \A kind \in Kind : ActiveStateOf(kind) \in ActiveStates
  BY DEF Kind, Production, ActiveStateOf, ActiveStates
<1>7. Accepted(r) = Accepted(s)
  <2>1. \A t \in T : s.task[t] # "VERIFIED" /\ r.task[t] # "VERIFIED"
    BY <1>1, <1>6 DEF ActiveStates
  <2>2. \A t \in Task \ T : r.task[t] = s.task[t]
    BY <1>1
  <2> QED
    BY <2>1, <2>2 DEF Accepted
<1>8. Worked(r) \subseteq Worked(s)
  <2>1. ASSUME NEW t \in T, s.task[t] = "READY", kindOf[t] = "implementation"
        PROVE  r.task[t] = "RUNNING"
    BY <1>1, <2>1 DEF ActiveStateOf
  <2>2. \A t \in Task \ T : r.task[t] = s.task[t]
    BY <1>1
  <2> QED
    BY <1>1, <2>1, <2>2 DEF Worked
<1>9. Holders(r) = Holders(s) \/ Cardinality(Holders(r)) <= Ceiling
  <2>1. Holders(r) = s.active \cup T
    <3>1. Holders(r) = Holders(s) \cup T
      BY <1>1, <1>2 DEF Holders
    <3> QED
      BY <3>1, HoldersWork
  <2>2. CASE T = {}
    BY <2>1, <2>2, HoldersWork
  <2>3. CASE T # {}
    BY <2>1, <2>3, Zenon
  <2> QED
    BY <2>2, <2>3
<1>10. Kept(s, r)
  <2>1. ASSUME NEW t \in T PROVE KeptIn(s.sess[t], r.sess[t])
    BY <1>1, <1>2, LaunchKeeps
  <2>2. ASSUME NEW t \in Task \ T PROVE KeptIn(s.sess[t], r.sess[t])
    BY <1>1 DEF KeptIn
  <2> QED
    BY <2>1, <2>2 DEF Kept
<1>11. \A t \in Task : DOMAIN r.sess[t] = DOMAIN s.sess[t] \/ r.lock[t] # 0
  BY <1>1, <1>2
<1> QED
  BY <1>4, <1>5, <1>7, <1>8, <1>9, <1>10, <1>11 DEF Starts, r

\* Of finitely many tasks one is declared last.
LEMMA LastDeclared ==
    ASSUME NEW F \in SUBSET Task, F # {}
    PROVE  \E t \in F : Earlier(F, t) = F \ {t}
<1> DEFINE Later(t) == F \ Earlier(F, t)
           Sizes == {Cardinality(Later(t)) : t \in F}
           less == OpToRel(<, Nat)
<1>1. IsFiniteSet(F)
  BY FS_Subset, TaskGraphAssumption
<1>2. \A t \in F : IsFiniteSet(Later(t)) /\ Cardinality(Later(t)) \in Nat
  BY <1>1, FS_Subset, FS_CardinalityType
<1>3. Sizes \subseteq Nat /\ Sizes # {}
  BY <1>2
<1>4. IsWellFoundedOn(less, Nat)
  BY NatLessThanWellFounded
<1>5. \A i, j \in Nat : i < j => <<i, j>> \in less
  BY DEF OpToRel
<1> HIDE DEF less
<1>6. PICK size \in Sizes : \A other \in Sizes : <<other, size>> \notin less
  <2> HIDE DEF Sizes
  <2> QED
    BY <1>3, <1>4, WFMin
<1>7. PICK t \in F : size = Cardinality(Later(t))
  BY <1>6
<1>8. ASSUME NEW u \in F, Rank[u] > Rank[t] PROVE FALSE
  <2>1. \A x \in F : Rank[x] \in Nat
    BY FrontierAssumption
  <2>2. Later(u) \subseteq Later(t) /\ t \notin Later(u) /\ t \in Later(t)
    BY <1>8, <2>1 DEF Earlier
  <2> HIDE DEF Later
  <2>3. Cardinality(Later(u)) < Cardinality(Later(t))
    <3>1. Later(u) # Later(t)
      BY <2>2
    <3>2. /\ Cardinality(Later(u)) <= Cardinality(Later(t))
          /\ Cardinality(Later(u)) = Cardinality(Later(t)) => Later(u) = Later(t)
      BY <1>2, <2>2, FS_Subset
    <3> QED
      BY <1>2, <3>1, <3>2
  <2>4. Cardinality(Later(u)) \in Sizes
    OBVIOUS
  <2> QED
    BY <1>2, <1>5, <1>6, <1>7, <2>3, <2>4
<1>9. \A u \in F \ {t} : Rank[u] < Rank[t]
  <2>1. \A x \in F : Rank[x] \in Nat
    BY FrontierAssumption
  <2>2. \A u \in F : Rank[u] = Rank[t] => u = t
    BY FrontierAssumption
  <2> QED
    BY <1>8, <2>1, <2>2
<1>10. Earlier(F, t) = F \ {t}
  BY <1>9, FrontierAssumption DEF Earlier
<1> QED
  BY <1>10

\* The loop over the follow-ups ends where the limit is reached.
LEMMA FollowupsWithin ==
    ASSUME NEW s, Good(s), NEW limit \in Limits, NEW F \in SUBSET Task, F # {},
           IsFollowupSet(s, limit, F)
    PROVE  Cardinality(s.active \cup F) <= Ceiling
<1>1. PICK t \in F : Earlier(F, t) = F \ {t}
  BY LastDeclared
<1> DEFINE before == s.active \cup (F \ {t})
<1>2. IsFiniteSet(before) /\ Cardinality(before) \in Nat
  <2>1. before \in SUBSET Task
    BY HoldersWork
  <2> QED
    BY <2>1, FS_Subset, FS_CardinalityType, TaskGraphAssumption
<1>3. Cardinality(before) < limit
  <2>1. Reached(s, F, limit, t)
    BY DEF IsFollowupSet
  <2> QED
    BY <1>1, <2>1 DEF Reached
<1>4. s.active \cup F = before \cup {t}
  OBVIOUS
<1> HIDE DEF before
<1>5. Cardinality(before \cup {t}) <= Cardinality(before) + 1
  <2>1. Cardinality(before \cup {t}) = IF t \in before THEN Cardinality(before)
                                       ELSE Cardinality(before) + 1
    BY <1>2, FS_AddElement
  <2> QED
    BY <1>2, <2>1
<1>6. limit \in Nat /\ limit <= Ceiling /\ Ceiling \in Nat
  BY CeilingBound, FrontierAssumption DEF Ceiling
<1>7. Cardinality(before \cup {t}) \in Nat
  BY <1>2, FS_AddElement, FS_CardinalityType
<1>8. Cardinality(before \cup {t}) <= Ceiling
  BY <1>2, <1>3, <1>5, <1>6, <1>7
<1> QED
  BY <1>4, <1>8, Zenon

\* Tasks nobody works on move, none of them to or from acceptance: no session starts
\* or ends by it.
LEMMA QuietMove ==
    ASSUME NEW s, Good(s), NEW r, r.lock = s.lock, r.sess = s.sess,
           \A t \in Task : \/ r.task[t] = s.task[t]
                           \/ /\ s.task[t] \notin ActiveStates \cup {"VERIFIED"}
                              /\ r.task[t] \notin ActiveStates \cup {"VERIFIED"},
           Worked(r) \subseteq Worked(s)
    PROVE  Ends(s, r) /\ Starts(s, r)
<1>1. \A t \in Task : s.lock[t] # 0 => r.task[t] = s.task[t]
  BY DEF Good, Agrees
<1>2. Accepted(r) = Accepted(s)
  BY DEF Accepted
<1>3. /\ Tried(r) = Tried(s) /\ Holders(r) = Holders(s) /\ Freed(s, r) = {}
      /\ Kept(s, r)
  BY DEF Tried, Holders, Freed, Kept, KeptIn
<1> QED
  BY <1>1, <1>2, <1>3 DEF Ends, Closes, Starts

LEMMA PrepareStarts ==
    ASSUME NEW s, Good(s), NEW due \in SUBSET DueRetries(s)
    PROVE  Starts(s, Prepare(s, due)) /\ Starts(s, RouteTickets(s))
<1> DEFINE r == Prepare(s, due)
           routed == RouteTickets(s)
<1>1. \A t \in due : t \in Task /\ s.task[t] = "RETRY_WAIT"
  BY DEF DueRetries, Good, RunType
<1>2. /\ r.task = [t \in Task |-> IF t \in due THEN "READY" ELSE s.task[t]]
      /\ r.lock = s.lock /\ r.sess = s.sess /\ r.revisions = s.revisions
  BY DEF Good, RunType, Prepare
<1>3. /\ routed.task = s.task /\ routed.lock = s.lock /\ routed.sess = s.sess
      /\ routed.revisions = s.revisions
  BY DEF Good, RunType, RouteTickets
<1> HIDE DEF r, routed
<1>4. \A t \in Task : \/ r.task[t] = s.task[t]
                      \/ /\ s.task[t] \notin ActiveStates \cup {"VERIFIED"}
                         /\ r.task[t] \notin ActiveStates \cup {"VERIFIED"}
  BY <1>1, <1>2 DEF ActiveStates
<1>5. Worked(r) \subseteq Worked(s)
  BY <1>1, <1>2 DEF Worked
<1>6. Starts(s, r)
  BY <1>2, <1>4, <1>5, QuietMove
<1>7. Starts(s, routed)
  BY <1>3, Unseen
<1> QED
  BY <1>6, <1>7 DEF r, routed

LEMMA FollowupsStarts ==
    ASSUME NEW s, Good(s), NEW limit \in Limits, NEW F \in SUBSET Task, IsFollowupSet(s, limit, F)
    PROVE  Starts(s, Followups(s, limit, F))
<1> DEFINE kinds == FollowupKinds(s)
           l == Launch(s, F, kinds)
           r == Followups(s, limit, F)
           asked    == {t \in Task \ s.held : s.task[t] = "REVISION_REQUIRED"
                        /\ Reached(s, F, limit, t) /\ SpentBudget(s, t)}
           promoted == {t \in asked : ~LadderTop(s, t)}
           stopped  == asked \ promoted
           confused == {t \in Task : AwaitsFollowup(s, t) /\ Reached(s, F, limit, t)
                                    /\ PendingSessions(s, t) # {}}
<1>1. \A t \in F : /\ s.task[t] \in {"IMPLEMENTED", "REVISION_REQUIRED"}
                   /\ AwaitsFollowup(s, t)
                   /\ Conflicts[t] \cap (Holders(s) \cup Earlier(F, t)) = {}
  BY DEF IsFollowupSet, WantsFollowup, AwaitsFollowup, CanAcquire
<1>2. \A t \in F : Conflicts[t] \cap (Holders(s) \cup F) = {}
  BY <1>1, FrontierAssumption DEF Earlier
<1>3. kinds \in [Task -> Kind]
  BY DEF FollowupKinds, FollowupKind, Kind, Production
<1>4. Good(l) /\ \A t \in Task \ F : l.task[t] = s.task[t]
  BY <1>1, <1>2, <1>3, LaunchGood
<1>5. Starts(s, l)
  <2>1. F # {} => Cardinality(s.active \cup F) <= Ceiling
    BY FollowupsWithin
  <2> QED
    BY <1>1, <1>3, <2>1, LaunchStarts
<1>6. r = [l EXCEPT
            !.revisions = [t \in Task |->
                IF t \in F /\ s.task[t] = "REVISION_REQUIRED" THEN @[t] + 1 ELSE @[t]],
            !.hires  = [t \in Task |-> IF t \in promoted THEN @[t] + 1 ELSE @[t]],
            !.effort = [t \in Task |-> IF t \in promoted THEN @[t] + 1 ELSE @[t]],
            !.task   = [t \in Task |-> IF t \in stopped THEN "BLOCKED" ELSE @[t]],
            !.held   = @ \cup stopped \cup confused]
  BY DEF Followups
<1>7. \A t \in stopped : l.task[t] = "REVISION_REQUIRED"
  <2>1. \A t \in stopped : t \notin F /\ s.task[t] = "REVISION_REQUIRED"
    BY <1>1 DEF AwaitsFollowup
  <2> QED
    BY <1>4, <2>1
<1>8. \A t \in F : s.task[t] = "REVISION_REQUIRED" => l.task[t] = "REVISING"
  BY DEF Launch, FollowupKinds, FollowupKind, ActiveStateOf, Good, RunType
<1> HIDE DEF l, promoted, stopped, confused
<1>9. /\ r.task = [t \in Task |-> IF t \in stopped THEN "BLOCKED" ELSE l.task[t]]
      /\ r.lock = l.lock /\ r.sess = l.sess
      /\ r.revisions = [t \in Task |-> IF t \in F /\ s.task[t] = "REVISION_REQUIRED"
                                        THEN l.revisions[t] + 1 ELSE l.revisions[t]]
  BY <1>4, <1>6 DEF Good, RunType
<1> HIDE DEF r
<1>10. Worked(r) \subseteq Worked(l)
  <2>1. \A t \in Task : \/ r.revisions[t] = l.revisions[t]
                        \/ l.task[t] = "REVISING"
    BY <1>8, <1>9
  <2>2. \A t \in Task : r.task[t] = l.task[t] \/ r.task[t] = "BLOCKED"
    BY <1>9
  <2> QED
    BY <2>1, <2>2 DEF Worked
<1>11. \A t \in Task : \/ r.task[t] = l.task[t]
                       \/ /\ l.task[t] \notin ActiveStates \cup {"VERIFIED"}
                          /\ r.task[t] \notin ActiveStates \cup {"VERIFIED"}
  BY <1>7, <1>9 DEF ActiveStates
<1>12. Starts(l, r)
  BY <1>4, <1>9, <1>10, <1>11, QuietMove
<1> QED
  BY <1>5, <1>12, StartsAgain DEF r

LEMMA ReconcileReadyStarts ==
    ASSUME NEW s, Good(s)
    PROVE  Starts(s, [s EXCEPT !.task = ReconcileReady(@)])
<1> DEFINE r == [s EXCEPT !.task = ReconcileReady(@)]
<1>1. /\ r.task = ReconcileReady(s.task) /\ r.lock = s.lock /\ r.sess = s.sess
      /\ r.revisions = s.revisions
  BY DEF Good, RunType
<1> HIDE DEF r
<1>2. \A t \in Task : \/ r.task[t] = s.task[t]
                      \/ s.task[t] \in {"WAITING", "READY"} /\ r.task[t] = "READY"
  BY <1>1 DEF ReconcileReady, ReadyTaskIds
<1>3. Worked(r) \subseteq Worked(s)
  BY <1>1, <1>2 DEF Worked
<1>4. \A t \in Task : \/ r.task[t] = s.task[t]
                      \/ /\ s.task[t] \notin ActiveStates \cup {"VERIFIED"}
                         /\ r.task[t] \notin ActiveStates \cup {"VERIFIED"}
  BY <1>2 DEF ActiveStates
<1>5. Starts(s, r)
  BY <1>1, <1>3, <1>4, QuietMove
<1> QED
  BY <1>5 DEF r

LEMMA ScheduledStarts ==
    ASSUME NEW s, Good(s), NEW limit \in Limits, NEW S \in SUBSET Available(s),
           IsSelection(s, limit, S), NEW R \in SUBSET S
    PROVE  Starts(s, Scheduled(s, S, R))
<1> DEFINE kinds == [t \in Task |-> "implementation"]
           T == S \ R
           l == Launch(s, T, kinds)
           r == [l EXCEPT !.held = @ \cup R]
<1>1. T \in SUBSET Task /\ \A t \in T : /\ s.task[t] = "READY"
                                        /\ Conflicts[t] \cap (Holders(s) \cup T) = {}
  BY DEF Available, IsSelection, Selectable
<1>2. kinds \in [Task -> Kind] /\ \A t \in Task : kinds[t] = "implementation"
  BY DEF Kind, Production
<1>3. T # {} => Cardinality(s.active \cup T) <= Ceiling
  <2> SUFFICES ASSUME T # {} PROVE Cardinality(s.active \cup T) <= Ceiling
    OBVIOUS
  <2>1. S \in SUBSET Task /\ T \subseteq S
    BY DEF Available
  <2>2. IsFiniteSet(S) /\ IsFiniteSet(T) /\ Cardinality(T) <= Cardinality(S)
        /\ Cardinality(S) \in Nat /\ Cardinality(T) \in Nat
    BY <2>1, FS_Subset, FS_CardinalityType, TaskGraphAssumption
  <2>3. Cardinality(s.active) + Cardinality(S) <= limit
    BY DEF IsSelection, Selectable
  <2>4. IsFiniteSet(s.active) /\ Cardinality(s.active) \in Nat
    BY HoldersWork
  <2> HIDE DEF T
  <2>5. /\ Cardinality(s.active \cup T)
             = Cardinality(s.active) + Cardinality(T) - Cardinality(s.active \cap T)
        /\ Cardinality(s.active \cap T) \in Nat
    <3>1. s.active \cap T \subseteq T
      OBVIOUS
    <3>2. IsFiniteSet(s.active \cap T)
      BY <2>2, <3>1, FS_Subset
    <3>3. Cardinality(s.active \cap T) \in Nat
      BY <3>2, FS_CardinalityType
    <3> QED
      BY <2>2, <2>4, <3>3, FS_Union
  <2>6. limit \in Nat /\ limit <= Ceiling /\ Ceiling \in Nat
    BY CeilingBound, FrontierAssumption DEF Ceiling
  <2> QED
    BY <2>2, <2>3, <2>4, <2>5, <2>6
<1> HIDE DEF T, kinds
<1>4. Good(l)
  BY <1>1, <1>2, LaunchGood
<1>5. Starts(s, l)
  BY <1>1, <1>2, <1>3, LaunchStarts
<1> HIDE DEF l
<1>6. r.task = l.task /\ r.lock = l.lock /\ r.sess = l.sess /\ r.revisions = l.revisions
  BY <1>4 DEF Good, RunType
<1> HIDE DEF r
<1>7. Starts(s, r)
  BY <1>5, <1>6, Unseen, StartsAgain
<1>8. Scheduled(s, S, R) = r
  BY DEF Scheduled, r, l, T, kinds
<1> QED
  BY <1>7, <1>8

LEMMA PassStarts ==
    ASSUME NEW s, Good(s), NEW r \in Pass(s)
    PROVE  Starts(s, r)
<1>1. CASE r = s
  BY <1>1, Unseen
<1>2. ASSUME NEW limit \in Limits, NEW ready \in AfterTickets(s),
             NEW followed \in AfterFollowups(ready, limit),
             r \in AfterScheduling(followed, limit)
      PROVE  Starts(s, r)
  <2>1. Good(ready) /\ Starts(s, ready)
    <3>1. PICK due \in SUBSET DueRetries(s) : ready = RouteTickets(Prepare(s, due))
      BY DEF AfterTickets
    <3>2. Good(Prepare(s, due)) /\ Starts(s, Prepare(s, due))
      BY PrepareGood, PrepareStarts
    <3>3. Starts(Prepare(s, due), RouteTickets(Prepare(s, due)))
      <4> DEFINE p == Prepare(s, due)
      <4>1. Good(p) /\ {} \in SUBSET DueRetries(p)
        BY <3>2
      <4> HIDE DEF p
      <4>2. Starts(p, RouteTickets(p))
        BY <4>1, PrepareStarts
      <4> QED
        BY <4>2 DEF p
    <3> QED
      BY <3>1, <3>2, <3>3, RouteTicketsGood, StartsAgain
  <2>2. Good(followed) /\ Starts(ready, followed)
    <3>1. PICK F \in SUBSET {t \in Task : WantsFollowup(ready, t)} :
            /\ IsFollowupSet(ready, limit, F)
            /\ followed = [Followups(ready, limit, F) EXCEPT !.task = ReconcileReady(@)]
      BY DEF AfterFollowups
    <3>2. F \in SUBSET Task
      OBVIOUS
    <3>3. Good(Followups(ready, limit, F)) /\ Starts(ready, Followups(ready, limit, F))
      BY <2>1, <3>1, <3>2, FollowupsGood, FollowupsStarts
    <3> QED
      BY <3>1, <3>3, ReconcileReadyGood, ReconcileReadyStarts, StartsAgain
  <2>3. PICK S \in SUBSET Available(followed) :
          /\ IsSelection(followed, limit, S)
          /\ \E R \in SUBSET S : r = Scheduled(followed, S, R)
    BY <1>2 DEF AfterScheduling
  <2>4. Starts(followed, r)
    BY <2>2, <2>3, ScheduledStarts
  <2> QED
    BY <2>1, <2>2, <2>4, StartsAgain
<1> QED
  BY <1>1, <1>2 DEF Pass

-----------------------------------------------------------------------------
(* What the handlers end.                                                   *)

\* A session that goes on pending ends nothing.
LEMMA CarryOnEnds ==
    ASSUME NEW s, Good(s), NEW t \in Task, NEW n \in PendingSessions(s, t),
           NEW session \in Session, session.status \in Pending,
           session.kind = s.sess[t][n].kind
    PROVE  Ends(s, Set(s, t, n, session))
<1> DEFINE r == Set(s, t, n, session)
           list == [s.sess[t] EXCEPT ![n] = session]
<1>1. /\ PendingSessions(s, t) = {n} /\ n \in DOMAIN s.sess[t]
      /\ s.sess[t] \in Seq(Session) /\ s.sess[t][n].status \in Pending
  BY OnePending DEF PendingSessions
<1>2. /\ DOMAIN list = DOMAIN s.sess[t] /\ list[n] = session
      /\ \A m \in DOMAIN s.sess[t] : m # n => list[m] = s.sess[t][m]
  BY <1>1, ReplaceSession
<1>3. (Produced(list) <=> Produced(s.sess[t])) /\ KeptIn(s.sess[t], list)
  <2> HIDE DEF list
  <2> QED
    BY <1>1, <1>2 DEF Produced, KeptIn
<1>4. s \in RunType
  BY DEF Good
<1>5. /\ r.sess = [s.sess EXCEPT ![t] = list]
      /\ r.task = s.task /\ r.lock = s.lock /\ r.revisions = s.revisions
  BY <1>4 DEF Set, RunType
<1> HIDE DEF list, r
<1>6. r.sess[t] = list /\ \A u \in Task : u # t => r.sess[u] = s.sess[u]
  BY <1>4, <1>5 DEF RunType
<1>7. Tried(r) = Tried(s)
  BY <1>3, <1>6 DEF Tried
<1>8. Accepted(r) = Accepted(s) /\ Worked(r) = Worked(s) /\ Freed(s, r) = {}
  BY <1>5 DEF Accepted, Worked, Freed
<1>9. Kept(s, r) /\ \A u \in Task : DOMAIN r.sess[u] = DOMAIN s.sess[u]
  BY <1>2, <1>3, <1>6 DEF Kept, KeptIn
<1> QED
  BY <1>5, <1>7, <1>8, <1>9 DEF Ends, Closes, r

\* The session that ends was judging, or its task counts as tried from now on.
LEMMA EndedTries ==
    ASSUME NEW s, Good(s), NEW t \in Task, NEW n \in PendingSessions(s, t),
           NEW status \in Status \ Pending, NEW final \in Finals
    PROVE  LET e == Ended(s, t, n, status, final) IN
           /\ e.revisions = s.revisions
           /\ Produced(e.sess[t]) <=> Produced(s.sess[t]) \/ s.task[t] # "VERIFYING"
           /\ KeptIn(s.sess[t], e.sess[t])
           /\ DOMAIN e.sess[t] = DOMAIN s.sess[t]
           /\ e.sess[t][n].status = status /\ e.sess[t][n].final = final
<1> DEFINE e == Ended(s, t, n, status, final)
           session == [s.sess[t][n] EXCEPT !.status = status, !.final = final]
           list == [s.sess[t] EXCEPT ![n] = session]
<1>1. /\ PendingSessions(s, t) = {n} /\ n \in DOMAIN s.sess[t]
      /\ s.sess[t][n] \in Session /\ s.sess[t] \in Seq(Session)
      /\ s.sess[t][n].status \in Pending
  BY OnePending DEF PendingSessions
<1>2. /\ session \in Session /\ session.status = status
      /\ session.kind = s.sess[t][n].kind /\ session.final = final
  BY <1>1, ResultFields DEF Session
<1> HIDE DEF session
<1>3. /\ DOMAIN list = DOMAIN s.sess[t] /\ list[n] = session
      /\ \A m \in DOMAIN s.sess[t] : m # n => list[m] = s.sess[t][m]
  BY <1>1, <1>2, ReplaceSession
<1> HIDE DEF list
<1>4. s \in RunType
  BY DEF Good
<1>5. e.sess = [s.sess EXCEPT ![t] = list] /\ e.revisions = s.revisions
  <2>1. e = [Release(s, t) EXCEPT !.sess[t][n] = session]
    BY DEF Ended, Set, session
  <2>2. Release(s, t).sess = s.sess /\ Release(s, t).revisions = s.revisions
    BY <1>4 DEF Release, RunType
  <2> HIDE DEF e
  <2>3. e = [Release(s, t) EXCEPT !.sess = [s.sess EXCEPT ![t] = list]]
    BY <2>1, <2>2 DEF list
  <2>4. Release(s, t) \in RunType
    BY <1>4 DEF Release, RunType
  <2> QED
    BY <2>2, <2>3, <2>4 DEF RunType
<1>6. e.sess[t] = list
  BY <1>4, <1>5 DEF RunType
<1>7. s.task[t] # "VERIFYING" <=> s.sess[t][n].kind \in Production
  <2>1. s.task[t] = ActiveStateOf(s.sess[t][n].kind) /\ s.sess[t][n].kind \in Kind
    BY <1>1 DEF Good, Agrees, Session
  <2> QED
    BY <2>1 DEF ActiveStateOf, Kind, Production
<1>8. /\ Produced(list) <=> Produced(s.sess[t]) \/ s.sess[t][n].kind \in Production
      /\ KeptIn(s.sess[t], list)
  BY <1>1, <1>2, <1>3 DEF Produced, KeptIn
<1> QED
  BY <1>2, <1>3, <1>5, <1>6, <1>7, <1>8 DEF e

\* The session of one task ends; what it was not judging is not accepted by it.
LEMMA EndedEnds ==
    ASSUME NEW s, Good(s), NEW t \in Task, NEW n \in PendingSessions(s, t),
           NEW status \in Status \ Pending, NEW final \in Finals,
           NEW state \in TaskState \ ActiveStates,
           state = "VERIFIED" => s.task[t] = "VERIFYING",
           NEW r, r.task[t] = state, \A u \in Task \ {t} : r.task[u] = s.task[u],
           r.lock = Ended(s, t, n, status, final).lock,
           r.sess = Ended(s, t, n, status, final).sess,
           r.revisions = Ended(s, t, n, status, final).revisions
    PROVE  Closes(s, r) /\ (state # "VERIFIED" \/ final = "PASS" => Ends(s, r))
<1> DEFINE e == Ended(s, t, n, status, final)
<1>1. /\ e.lock[t] = 0
      /\ \A u \in Task \ {t} : e.lock[u] = s.lock[u] /\ e.sess[u] = s.sess[u]
  BY EndedShape
<1>2. /\ e.revisions = s.revisions
      /\ Produced(e.sess[t]) <=> Produced(s.sess[t]) \/ s.task[t] # "VERIFYING"
      /\ KeptIn(s.sess[t], e.sess[t]) /\ DOMAIN e.sess[t] = DOMAIN s.sess[t]
      /\ e.sess[t][n].status = status /\ e.sess[t][n].final = final
  BY EndedTries
<1>3. r.lock = e.lock /\ r.sess = e.sess /\ r.revisions = e.revisions
  OBVIOUS
<1> HIDE DEF e
<1>4. s.lock[t] # 0 /\ s.task[t] \in ActiveStates
  BY DEF Good, Agrees
<1>5. Freed(s, r) = {t}
  BY <1>1, <1>3, <1>4 DEF Freed
<1>6. Tried(r) = Tried(s) \cup {u \in Freed(s, r) : s.task[u] # "VERIFYING"}
  BY <1>1, <1>2, <1>3, <1>5 DEF Tried
<1>7. Worked(r) \subseteq Worked(s) \cup {u \in Freed(s, r) : s.task[u] # "VERIFYING"}
  BY <1>2, <1>3, <1>5 DEF Worked
<1>8. /\ Accepted(s) \subseteq Accepted(r)
      /\ \A u \in Accepted(r) \ Accepted(s) : u = t /\ state = "VERIFIED"
  BY <1>4 DEF Accepted, ActiveStates
<1>9. \A u \in Task : r.lock[u] # 0 => s.lock[u] # 0 /\ r.task[u] = s.task[u]
  BY <1>1, <1>3
<1>10. Kept(s, r) /\ \A u \in Task : DOMAIN r.sess[u] = DOMAIN s.sess[u]
  BY <1>1, <1>2, <1>3 DEF Kept, KeptIn
<1>11. Closes(s, r)
  BY <1>6, <1>7, <1>8, <1>9, <1>10 DEF Closes
<1>12. ASSUME state # "VERIFIED" \/ final = "PASS", NEW u \in Accepted(r) \ Accepted(s)
       PROVE  Passed(s, r, u)
  <2>1. u = t /\ final = "PASS"
    BY <1>8, <1>12
  <2> QED
    BY <1>2, <1>3, <2>1 DEF Passed
<1> QED
  BY <1>11, <1>12 DEF Ends

LEMMA WorkerEndsEnds ==
    ASSUME NEW s, Good(s), NEW t \in Task, NEW n \in PendingSessions(s, t),
           NEW state \in TaskState \ ActiveStates, state # "VERIFIED"
    PROVE  /\ Ends(s, Delivered(s, t, n, state))
           /\ Ends(s, WorkerStopped(s, t, n, state))
<1> DEFINE e == Ended(s, t, n, "COMPLETED", "DONE")
           b == Ended(s, t, n, "BLOCKED", "BLOCKED")
           d == Delivered(s, t, n, state)
           w == WorkerStopped(s, t, n, state)
<1>1. {"COMPLETED", "BLOCKED"} \subseteq Status \ Pending /\ {"DONE", "BLOCKED"} \subseteq Finals
  BY DEF Status, Pending, Terminal, Finals
<1>2. e \in RunType /\ b \in RunType /\ e.task = s.task /\ b.task = s.task
  BY <1>1, EndedShape
<1>3. d = [e EXCEPT !.task[t] = state, !.retry = @ \ {t}]
  BY DEF Delivered
<1>4. w = [b EXCEPT !.task[t] = state, !.retry = @ \ {t}, !.held = @ \cup {t}]
  BY DEF WorkerStopped
<1> HIDE DEF d, w
<1>5. Ends(s, d)
  <2>1. /\ d.task[t] = state /\ \A u \in Task \ {t} : d.task[u] = s.task[u]
        /\ d.lock = e.lock /\ d.sess = e.sess /\ d.revisions = e.revisions
    <3> HIDE DEF e
    <3> QED
      BY <1>2, <1>3 DEF RunType
  <2> QED
    BY <1>1, <2>1, EndedEnds
<1>6. Ends(s, w)
  <2>1. /\ w.task[t] = state /\ \A u \in Task \ {t} : w.task[u] = s.task[u]
        /\ w.lock = b.lock /\ w.sess = b.sess /\ w.revisions = b.revisions
    <3> HIDE DEF b
    <3> QED
      BY <1>2, <1>4 DEF RunType
  <2> QED
    BY <1>1, <2>1, EndedEnds
<1> QED
  BY <1>5, <1>6 DEF d, w

LEMMA RejectedEnds ==
    ASSUME NEW s, Good(s), NEW t \in Task, NEW n \in PendingSessions(s, t)
    PROVE  Ends(s, Rejected(s, t, n))
<1> DEFINE e == Ended(s, t, n, "COMPLETED", "VERIFICATION_REJECTED")
           r == Rejected(s, t, n)
           m == [e EXCEPT !.task[t] = "IMPLEMENTED"]
<1>1. /\ "COMPLETED" \in Status \ Pending /\ "VERIFICATION_REJECTED" \in Finals
      /\ "IMPLEMENTED" \in TaskState \ ActiveStates
  BY DEF Status, Pending, Terminal, Finals, TaskState, ActiveStates
<1>2. e \in RunType /\ e.task = s.task
  BY <1>1, EndedShape
<1>3. r = m \/ r = [m EXCEPT !.held = @ \cup {t}]
  BY DEF Rejected
<1> HIDE DEF r
<1>4. /\ r.task[t] = "IMPLEMENTED" /\ \A u \in Task \ {t} : r.task[u] = s.task[u]
      /\ r.lock = e.lock /\ r.sess = e.sess /\ r.revisions = e.revisions
  <2> HIDE DEF e
  <2>1. /\ m.task = [e.task EXCEPT ![t] = "IMPLEMENTED"] /\ m.lock = e.lock
        /\ m.sess = e.sess /\ m.revisions = e.revisions /\ DOMAIN m = DOMAIN e
    BY <1>2 DEF RunType
  <2> HIDE DEF m
  <2>2. /\ r.task = m.task /\ r.lock = m.lock /\ r.sess = m.sess /\ r.revisions = m.revisions
    BY <1>2, <1>3, <2>1 DEF RunType
  <2>3. e.task \in [Task -> TaskState]
    BY <1>2 DEF RunType
  <2> QED
    BY <1>2, <2>1, <2>2, <2>3
<1>5. Ends(s, r)
  BY <1>1, <1>4, EndedEnds
<1> QED
  BY <1>5 DEF r

LEMMA FailedEnds ==
    ASSUME NEW s, Good(s), NEW t \in Task, NEW n \in PendingSessions(s, t), NEW limited \in BOOLEAN
    PROVE  Ends(s, Failed(s, t, n, limited))
<1> DEFINE e == Ended(s, t, n, "RETRY_WAIT", "")
           state == FailedTaskState(s, t, s.sess[t][n].kind)
           r == Failed(s, t, n, limited)
<1>1. /\ "RETRY_WAIT" \in Status \ Pending /\ "" \in Finals
      /\ state \in TaskState \ ActiveStates /\ state # "VERIFIED"
  BY DEF Status, Pending, Terminal, Finals, TaskState, ActiveStates, FailedTaskState
<1> HIDE DEF state
<1> DEFINE status == "RETRY_WAIT"
           final == ""
<1>0. status \in Status \ Pending /\ final \in Finals
  BY <1>1
<1> HIDE DEF status, final
<1>2. e \in RunType /\ e.task = s.task
  <2>1. LET x == Ended(s, t, n, status, final) IN x \in RunType /\ x.task = s.task
    BY <1>0, EndedShape
  <2> QED
    BY <2>1 DEF status, final
<1>3. r = [e EXCEPT !.task[t] = state, !.retry = @ \cup {t}, !.barrier = @ \/ limited]
  BY DEF Failed, state
<1> HIDE DEF r
<1>4. /\ r.task[t] = state /\ \A u \in Task \ {t} : r.task[u] = s.task[u]
      /\ r.lock = e.lock /\ r.sess = e.sess /\ r.revisions = e.revisions
  <2> HIDE DEF e
  <2> QED
    BY <1>2, <1>3 DEF RunType
<1>5. Ends(s, r)
  <2>1. /\ r.lock = Ended(s, t, n, status, final).lock
        /\ r.sess = Ended(s, t, n, status, final).sess
        /\ r.revisions = Ended(s, t, n, status, final).revisions
    BY <1>4 DEF status, final
  <2>2. state \in TaskState \ ActiveStates /\ (state = "VERIFIED" => s.task[t] = "VERIFYING")
         /\ state # "VERIFIED"
    BY <1>1
  <2>3. r.task[t] = state /\ \A u \in Task \ {t} : r.task[u] = s.task[u]
    BY <1>4
  <2> HIDE DEF e
  <2> QED
    BY <1>0, <2>1, <2>2, <2>3, EndedEnds
<1> QED
  BY <1>5 DEF r

\* A part in a second judgement is a note on the session, nothing more.
LEMMA RelabelledEnds ==
    ASSUME NEW s, NEW b, Good(b), Closes(s, b), NEW t \in Task, NEW n \in DOMAIN b.sess[t],
           NEW lead \in Leads,
           \/ n \in PendingSessions(s, t)
           \/ n \in DOMAIN s.sess[t] /\ s.sess[t][n].lead # "SECOND"
    PROVE  LET r == Relabelled(b, t, n, lead) IN
           /\ Closes(s, r) /\ r.task = b.task /\ r.sess[t][n].lead = lead
           /\ \A m \in DOMAIN b.sess[t] : r.sess[t][m].status = b.sess[t][m].status
<1> DEFINE r == Relabelled(b, t, n, lead)
           session == [b.sess[t][n] EXCEPT !.lead = lead]
           list == [b.sess[t] EXCEPT ![n] = session]
<1>1. b \in RunType /\ b.sess[t] \in Seq(Session) /\ b.sess[t][n] \in Session
  BY DEF Good, RunType
<1>2. /\ session \in Session /\ session.status = b.sess[t][n].status
      /\ session.kind = b.sess[t][n].kind /\ session.lead = lead
      /\ session.final = b.sess[t][n].final
  BY <1>1, LeadFields DEF Session
<1>3. r = [b EXCEPT !.sess = [b.sess EXCEPT ![t] = list]]
  BY DEF Relabelled, Set
<1> HIDE DEF session
<1>4. /\ DOMAIN list = DOMAIN b.sess[t] /\ list[n] = session
      /\ \A m \in DOMAIN b.sess[t] : m # n => list[m] = b.sess[t][m]
  BY <1>1, <1>2, ReplaceSession
<1> HIDE DEF list, r
<1>5. /\ r.task = b.task /\ r.lock = b.lock /\ r.revisions = b.revisions
      /\ r.sess[t] = list /\ \A u \in Task : u # t => r.sess[u] = b.sess[u]
  BY <1>1, <1>3 DEF RunType
<1>6. Produced(list) <=> Produced(b.sess[t])
  BY <1>2, <1>4 DEF Produced
<1>7. /\ Tried(r) = Tried(b) /\ Accepted(r) = Accepted(b) /\ Worked(r) = Worked(b)
      /\ Freed(s, r) = Freed(s, b)
  BY <1>5, <1>6 DEF Tried, Accepted, Worked, Freed
<1>8. Kept(s, r) /\ \A u \in Task : DOMAIN r.sess[u] = DOMAIN s.sess[u]
  <2>1. \A u \in Task : KeptIn(s.sess[u], b.sess[u]) /\ DOMAIN b.sess[u] = DOMAIN s.sess[u]
    BY DEF Closes, Kept
  <2>2. KeptIn(s.sess[t], list)
    BY <1>2, <1>4, <2>1 DEF KeptIn, PendingSessions
  <2> QED
    BY <1>4, <1>5, <2>1, <2>2 DEF Kept
<1>9. Closes(s, r)
  BY <1>5, <1>7, <1>8 DEF Closes
<1>10. /\ r.sess[t][n].lead = lead
       /\ \A m \in DOMAIN b.sess[t] : r.sess[t][m].status = b.sess[t][m].status
  BY <1>2, <1>4, <1>5
<1> QED
  BY <1>5, <1>9, <1>10 DEF r

LEMMA JudgedEnds ==
    ASSUME NEW s, Good(s), NEW t \in Task, NEW n \in PendingSessions(s, t),
           s.task[t] = "VERIFYING", NEW verdict \in {"PASS", "REVISE"}
    PROVE  Ends(s, Judged(s, t, n, verdict))
<1> DEFINE e == Ended(s, t, n, "COMPLETED", verdict)
           ended(state) == [Ended(s, t, n, "COMPLETED", verdict) EXCEPT
                              !.task[t] = state, !.retry = @ \ {t}]
           awaiting == AwaitingLead(s, t)
           first    == CHOOSE m \in awaiting : \A k \in awaiting : k <= m
<1>1. "COMPLETED" \in Status \ Pending /\ verdict \in Finals
  BY DEF Status, Pending, Terminal, Finals
<1>2. e \in RunType /\ e.task = s.task /\ DOMAIN e.sess[t] = DOMAIN s.sess[t]
  <2>1. s \in RunType /\ s.sess[t] \in Seq(Session) /\ n \in DOMAIN s.sess[t]
    BY OnePending DEF Good
  <2>2. Release(s, t).sess = s.sess
    BY <2>1 DEF Release, RunType
  <2>3. DOMAIN e.sess[t] = DOMAIN s.sess[t]
    BY <2>1, <2>2 DEF Ended, Set, Release, RunType
  <2> QED
    BY <1>1, <2>3, EndedShape
<1>3. ASSUME NEW state \in TaskState \ ActiveStates
      PROVE  /\ Closes(s, ended(state)) /\ Good(ended(state))
             /\ DOMAIN ended(state).sess[t] = DOMAIN s.sess[t]
             /\ state # "VERIFIED" \/ verdict = "PASS" => Ends(s, ended(state))
             /\ ended(state).task[t] = state /\ ended(state).sess[t][n].status \notin Pending
             /\ \A u \in Task \ {t} : ended(state).task[u] = s.task[u]
  <2>1. ended(state) = EndedAs(s, t, n, "COMPLETED", verdict, state, e.retry \ {t}, e.held)
    <3>1. EndedAs(s, t, n, "COMPLETED", verdict, state, e.retry \ {t}, e.held)
            = [e EXCEPT !.task[t] = state, !.retry = e.retry \ {t}, !.held = e.held]
      BY DEF EndedAs
    <3> HIDE DEF e
    <3>2. [e EXCEPT !.task[t] = state, !.retry = @ \ {t}]
            = [e EXCEPT !.task[t] = state, !.retry = e.retry \ {t}, !.held = e.held]
      BY <1>2 DEF RunType
    <3> QED
      BY <3>1, <3>2 DEF e
  <2>2. e.retry \ {t} \in SUBSET Task /\ e.held \in SUBSET Task
    BY <1>2 DEF RunType
  <2>3. Good(ended(state))
    BY <1>1, <2>1, <2>2, EndedGood
  <2> DEFINE x == ended(state)
  <2>4. x = [e EXCEPT !.task[t] = state, !.retry = @ \ {t}]
    OBVIOUS
  <2> HIDE DEF x
  <2>5. /\ x.task[t] = state /\ \A u \in Task \ {t} : x.task[u] = s.task[u]
        /\ x.lock = e.lock /\ x.sess = e.sess /\ x.revisions = e.revisions
    <3> HIDE DEF e
    <3> QED
      BY <1>2, <2>4 DEF RunType
  <2>6. /\ Closes(s, x) /\ DOMAIN x.sess[t] = DOMAIN s.sess[t]
        /\ state # "VERIFIED" \/ verdict = "PASS" => Ends(s, x)
    BY <1>1, <1>2, <2>5, EndedEnds
  <2>7. e.sess[t][n].status = "COMPLETED"
    BY <1>1, EndedTries
  <2>8. x.sess[t][n].status \notin Pending
    BY <2>5, <2>7 DEF Pending
  <2> QED
    BY <2>3, <2>5, <2>6, <2>8 DEF x
<1>4. /\ \A v : AppliedState(v) \in TaskState \ ActiveStates
      /\ "IMPLEMENTED" \in TaskState \ ActiveStates
  BY DEF AppliedState, TaskState, ActiveStates
<1>5. n \in DOMAIN s.sess[t] /\ {"COMPARED", "SECOND", "AWAITING"} \subseteq Leads
  BY OnePending DEF Leads
<1> HIDE DEF ended
<1>6. CASE awaiting # {}
  <2>1. first \in DOMAIN s.sess[t] /\ s.sess[t][first].lead # "SECOND"
    <3>1. \E m \in awaiting : \A k \in awaiting : k <= m
      <4>1. awaiting \subseteq 1..Len(s.sess[t]) /\ Len(s.sess[t]) \in Nat
        BY DEF AwaitingLead, Good, RunType
      <4> QED
        BY <1>6, <4>1, LastOfInterval
    <3>2. first \in awaiting
      BY <3>1
    <3> QED
      BY <3>2 DEF AwaitingLead
  <2> DEFINE state == AppliedState(s.sess[t][first].final)
             x == ended(state)
             y == Relabelled(x, t, first, "COMPARED")
             z == Relabelled(y, t, n, "SECOND")
  <2>2. /\ Good(x) /\ Closes(s, x) /\ DOMAIN x.sess[t] = DOMAIN s.sess[t]
        /\ x.task[t] = state /\ x.sess[t][n].status \notin Pending
        /\ \A u \in Task \ {t} : x.task[u] = s.task[u]
    BY <1>3, <1>4
  <2>3. /\ Good(y) /\ Closes(s, y) /\ DOMAIN y.sess[t] = DOMAIN s.sess[t]
        /\ y.task = x.task /\ y.sess[t][n].status \notin Pending
    <3> HIDE DEF x, first
    <3> QED
      BY <1>5, <2>1, <2>2, RelabelledGood, RelabelledEnds
  <2>4. /\ Closes(s, z) /\ z.task = y.task
        /\ z.sess[t][n].lead = "SECOND" /\ z.sess[t][n].status \notin Pending
    <3> HIDE DEF y
    <3> QED
      BY <1>5, <2>3, RelabelledEnds
  <2>5. Ends(s, z)
    <3> HIDE DEF x, y, z
    <3>1. \A u \in Accepted(z) \ Accepted(s) : u = t
      BY <2>2, <2>3, <2>4 DEF Accepted
    <3>2. Passed(s, z, t)
      BY <2>4 DEF Passed
    <3> QED
      BY <2>4, <3>1, <3>2 DEF Ends
  <2> QED
    BY <1>6, <2>5 DEF Judged, ended
<1>7. CASE awaiting = {}
  <2> DEFINE x == ended("IMPLEMENTED")
             y == Relabelled(x, t, n, "AWAITING")
  <2>1. /\ Good(x) /\ Closes(s, x) /\ DOMAIN x.sess[t] = DOMAIN s.sess[t]
        /\ x.task[t] = "IMPLEMENTED" /\ \A u \in Task \ {t} : x.task[u] = s.task[u]
    BY <1>3, <1>4
  <2>2. Ends(s, y)
    <3>1. Closes(s, y) /\ y.task = x.task
      <4> HIDE DEF x
      <4> QED
        BY <1>5, <2>1, RelabelledEnds
    <3> HIDE DEF x, y
    <3>2. Accepted(y) \subseteq Accepted(s)
      BY <2>1, <3>1 DEF Accepted
    <3> QED
      BY <3>1, <3>2 DEF Ends
  <2>3. Ends(s, ended(AppliedState(verdict)))
    <3>1. AppliedState(verdict) # "VERIFIED" \/ verdict = "PASS"
      BY DEF AppliedState
    <3> QED
      BY <1>3, <1>4, <3>1
  <2> QED
    BY <1>7, <2>2, <2>3 DEF Judged, ended
<1> QED
  BY <1>6, <1>7

\* The sweep ends what it was told is over, and accepts nothing.
LEMMA SettledEnds ==
    ASSUME NEW s, Good(s), NEW T \in SUBSET Observable(s)
    PROVE  Ends(s, Settled(s, T))
<1> DEFINE r == Settled(s, T)
<1>1. T \in SUBSET Task /\ s \in RunType
  BY DEF Observable, Good
<1>2. /\ r.task = [t \in Task |-> IF t \in T THEN "RETRY_WAIT" ELSE s.task[t]]
      /\ r.lock = [t \in Task |-> IF t \in T THEN 0 ELSE s.lock[t]]
      /\ r.sess = [t \in Task |-> IF t \in T THEN Retried(s.sess[t]) ELSE s.sess[t]]
      /\ r.revisions = s.revisions
  BY <1>1 DEF Settled, RunType
<1> HIDE DEF r
<1>3. ASSUME NEW t \in T
      PROVE  /\ s.lock[t] # 0 /\ s.task[t] \in ActiveStates
             /\ Produced(r.sess[t]) <=> Produced(s.sess[t]) \/ s.task[t] # "VERIFYING"
             /\ KeptIn(s.sess[t], r.sess[t]) /\ DOMAIN r.sess[t] = DOMAIN s.sess[t]
  <2>1. PICK n \in PendingSessions(s, t) : s.sess[t][n].thread
    BY DEF Observable
  <2>2. PendingSessions(s, t) = {n} /\ s.sess[t] \in Seq(Session)
        /\ n \in DOMAIN s.sess[t] /\ s.sess[t][n] \in Session /\ s.sess[t][n].status \in Pending
    BY <1>1, <2>1, OnePending DEF PendingSessions
  <2>3. s.task[t] = ActiveStateOf(s.sess[t][n].kind) /\ s.sess[t][n].kind \in Kind
    BY <1>1, <2>2 DEF Good, Agrees, Session
  <2>4. s.task[t] # "VERIFYING" <=> s.sess[t][n].kind \in Production
    BY <2>3 DEF ActiveStateOf, Kind, Production
  <2>5. r.sess[t] = Retried(s.sess[t])
    BY <1>1, <1>2
  <2>6. \A m \in DOMAIN s.sess[t] : m # n => s.sess[t][m].status \notin Pending
    BY <2>2 DEF PendingSessions
  <2>7. /\ DOMAIN Retried(s.sess[t]) = DOMAIN s.sess[t]
        /\ Retried(s.sess[t])[n] = [s.sess[t][n] EXCEPT !.status = "RETRY_WAIT"]
        /\ \A m \in DOMAIN s.sess[t] : m # n => Retried(s.sess[t])[m] = s.sess[t][m]
    BY <2>1, <2>2, <2>6 DEF Retried
  <2>8. /\ Retried(s.sess[t])[n].kind = s.sess[t][n].kind
        /\ Retried(s.sess[t])[n].status \notin Pending
    BY <2>2, <2>7 DEF Session, Pending
  <2>9. /\ Produced(Retried(s.sess[t])) <=> Produced(s.sess[t]) \/ s.sess[t][n].kind \in Production
        /\ KeptIn(s.sess[t], Retried(s.sess[t]))
    BY <2>2, <2>7, <2>8 DEF Produced, KeptIn
  <2>10. s.lock[t] # 0 /\ s.task[t] \in ActiveStates
    BY <1>1, <2>1 DEF Good, Agrees
  <2> QED
    BY <2>4, <2>5, <2>7, <2>9, <2>10
<1>4. Freed(s, r) = T
  BY <1>1, <1>2, <1>3 DEF Freed
<1>5. Tried(r) = Tried(s) \cup {t \in Freed(s, r) : s.task[t] # "VERIFYING"}
  <2>1. \A t \in Task \ T : r.sess[t] = s.sess[t]
    BY <1>2
  <2> QED
    BY <1>1, <1>3, <1>4, <2>1 DEF Tried
<1>6. Worked(r) \subseteq Worked(s) /\ Accepted(r) = Accepted(s)
  <2>1. \A t \in T : s.task[t] # "VERIFIED" /\ r.task[t] = "RETRY_WAIT"
    BY <1>1, <1>2, <1>3 DEF ActiveStates
  <2>2. \A t \in Task \ T : r.task[t] = s.task[t]
    BY <1>2
  <2> QED
    BY <1>2, <2>1, <2>2 DEF Worked, Accepted
<1>7. \A t \in Task : r.lock[t] # 0 => s.lock[t] # 0 /\ r.task[t] = s.task[t]
  BY <1>2
<1>8. Kept(s, r) /\ \A t \in Task : DOMAIN r.sess[t] = DOMAIN s.sess[t]
  <2>1. \A t \in Task \ T : r.sess[t] = s.sess[t]
    BY <1>2
  <2> QED
    BY <1>3, <2>1 DEF Kept, KeptIn
<1>9. Ends(s, r)
  BY <1>5, <1>6, <1>7, <1>8 DEF Ends, Closes
<1> QED
  BY <1>9 DEF r

-----------------------------------------------------------------------------
(* The refinement.                                                          *)

\* Either file may be the one that is written: a crash leaves the board as it was.
LEMMA CommitBetween ==
    ASSUME Good(run), NEW b, Good(b), Ends(run, b), \E s \in Pass(b) : Commit(s)
    PROVE  \E c : Between(run, c, run')
<1>1. PICK s \in Pass(b) : Commit(s)
  OBVIOUS
<1>2. CASE run' = s
  BY <1>1, <1>2, PassStarts DEF Between
<1>3. CASE run' = [run EXCEPT !.held = s.held]
  <2>1. /\ run'.task = run.task /\ run'.lock = run.lock /\ run'.sess = run.sess
        /\ run'.revisions = run.revisions
    BY <1>3 DEF Good, RunType
  <2> QED
    BY <2>1, Unseen DEF Between
<1> QED
  BY <1>1, <1>2, <1>3 DEF Commit

LEMMA FinishBetween ==
    ASSUME Good(run), NEW t \in Task,
           FinishWork(t) \/ FinishStopped(t) \/ FinishVerdict(t) \/ FinishUnreadable(t)
    PROVE  \E c : Between(run, c, run')
<1>1. \A n \in DOMAIN run.sess[t] : Consume(t, n) => n \in PendingSessions(run, t)
  BY DEF Consume, IsActive, PendingSessions, Pending
<1>2. /\ DeliveryStates(t) \subseteq (TaskState \ ActiveStates) \ {"VERIFIED"}
      /\ {"READY", "BLOCKED"} \subseteq (TaskState \ ActiveStates) \ {"VERIFIED"}
  BY DEF DeliveryStates, TaskState, ActiveStates
<1>3. CASE FinishWork(t)
  <2>1. PICK n \in DOMAIN run.sess[t], state \in DeliveryStates(t) :
          Consume(t, n) /\ \E s \in Pass(Delivered(run, t, n, state)) : Commit(s)
    BY <1>3 DEF FinishWork
  <2>2. Good(Delivered(run, t, n, state)) /\ Ends(run, Delivered(run, t, n, state))
    BY <1>1, <1>2, <2>1, WorkerEndsGood, WorkerEndsEnds
  <2> QED
    BY <2>1, <2>2, CommitBetween
<1>4. CASE FinishStopped(t)
  <2>1. PICK n \in DOMAIN run.sess[t], state \in {"READY", "BLOCKED"} :
          Consume(t, n) /\ \E s \in Pass(WorkerStopped(run, t, n, state)) : Commit(s)
    BY <1>4 DEF FinishStopped
  <2>2. Good(WorkerStopped(run, t, n, state)) /\ Ends(run, WorkerStopped(run, t, n, state))
    BY <1>1, <1>2, <2>1, WorkerEndsGood, WorkerEndsEnds
  <2> QED
    BY <2>1, <2>2, CommitBetween
<1>5. CASE FinishVerdict(t)
  <2>1. PICK n \in DOMAIN run.sess[t], verdict \in {"PASS", "REVISE"} :
          /\ Consume(t, n) /\ run.sess[t][n].kind = "verifier"
          /\ \E s \in Pass(Judged(run, t, n, verdict)) : Commit(s)
    BY <1>5 DEF FinishVerdict, Verdicts
  <2>2. run.task[t] = "VERIFYING"
    BY <2>1 DEF Consume, ActiveStateOf
  <2>3. Good(Judged(run, t, n, verdict)) /\ Ends(run, Judged(run, t, n, verdict))
    BY <1>1, <2>1, <2>2, JudgedGood, JudgedEnds
  <2> QED
    BY <2>1, <2>3, CommitBetween
<1>6. CASE FinishUnreadable(t)
  <2>1. PICK n \in DOMAIN run.sess[t] :
          Consume(t, n) /\ \E s \in Pass(Rejected(run, t, n)) : Commit(s)
    BY <1>6 DEF FinishUnreadable
  <2>2. Good(Rejected(run, t, n)) /\ Ends(run, Rejected(run, t, n))
    BY <1>1, <2>1, RejectedGood, RejectedEnds
  <2> QED
    BY <2>1, <2>2, CommitBetween
<1> QED
  BY <1>3, <1>4, <1>5, <1>6

LEMMA ReconcileBetween ==
    ASSUME Good(run), Reconcile \/ SettleDeadSessions
    PROVE  \E c : Between(run, c, run')
<1>1. PICK T \in SUBSET Observable(run) : ReconcileOver(T)
  <2>1. DeadSessions(run) \subseteq Observable(run)
    BY DEF DeadSessions, Observable
  <2> QED
    BY <2>1 DEF Reconcile, SettleDeadSessions
<1> DEFINE settled == Settled(run, T)
<1>2. Good(settled) /\ Ends(run, settled)
  BY SettledGood, SettledEnds
<1>3. PICK due \in SUBSET DueRetries(settled) : run' = settled \/ run' = Prepare(settled, due)
  BY <1>1 DEF ReconcileOver
<1> HIDE DEF settled
<1>4. Starts(settled, settled) /\ Starts(settled, Prepare(settled, due))
  BY <1>2, PrepareStarts, Unseen
<1> QED
  BY <1>2, <1>3, <1>4 DEF Between

\* What a task was unblocked to: judgement, only where somebody has produced before.
LEMMA UnblockedEnds ==
    ASSUME NEW s, Good(s), NEW t \in Task, s.task[t] = "BLOCKED", NEW r \in Unblocked(s, t)
    PROVE  Ends(s, r)
<1> DEFINE g == GrantFreshHire(s, t)
           target == UnblockTarget(s, t)
<1>1. /\ g \in RunType /\ g.task = s.task /\ g.lock = s.lock /\ g.sess = s.sess
      /\ g.revisions = s.revisions
  BY GrantFreshHireType DEF Good
<1>2. r = [g EXCEPT !.task = [s.task EXCEPT ![t] = target]]
  BY DEF Unblocked, TransitionResults
<1>3. /\ target \in {"IMPLEMENTED", "READY"}
      /\ target = "IMPLEMENTED" => s.revisions[t] > 0
  BY DEF UnblockTarget
<1> HIDE DEF g, target
<1>4. s.task \in [Task -> TaskState]
  BY DEF Good, RunType
<1>5. /\ r.lock = s.lock /\ r.sess = s.sess /\ r.revisions = s.revisions
      /\ r.task[t] = target /\ \A u \in Task \ {t} : r.task[u] = s.task[u]
  BY <1>1, <1>2, <1>4 DEF RunType
<1>6. Worked(r) \subseteq Worked(s)
  BY <1>3, <1>5 DEF Worked
<1>7. \A u \in Task : \/ r.task[u] = s.task[u]
                      \/ /\ s.task[u] \notin ActiveStates \cup {"VERIFIED"}
                         /\ r.task[u] \notin ActiveStates \cup {"VERIFIED"}
  BY <1>3, <1>5 DEF ActiveStates
<1> QED
  BY <1>5, <1>6, <1>7, QuietMove

LEMMA StopsBetween ==
    ASSUME Good(run), NEW t \in Task,
           CloseTicket(t) \/ ReturnStoppedTask(t) \/ OwnerAnswers(t) \/ Escalate(t)
    PROVE  \E c : Between(run, c, run')
<1>1. ASSUME NEW s, Good(s), Ends(run, s), run' = s \/ run' = [s EXCEPT !.held = @ \ {t}]
      PROVE  \E c : Between(run, c, run')
  <2>1. /\ run'.task = s.task /\ run'.lock = s.lock /\ run'.sess = s.sess
        /\ run'.revisions = s.revisions
    BY <1>1 DEF Good, RunType
  <2> QED
    BY <1>1, <2>1, Unseen DEF Between
<1>2. Ends(run, run)
  BY Unseen
<1>3. CASE CloseTicket(t)
  BY <1>1, <1>2, <1>3 DEF CloseTicket
<1>4. CASE ReturnStoppedTask(t)
  BY <1>1, <1>4, UnblockedGood, UnblockedEnds DEF ReturnStoppedTask
<1>5. CASE OwnerAnswers(t)
  <2>1. PICK s \in Unblocked(run, t) : \/ run' = [s EXCEPT !.held = @ \ {t}]
                                       \/ run' = [run EXCEPT !.held = @ \ {t}]
    BY <1>5 DEF OwnerAnswers
  <2>2. Good(s) /\ Ends(run, s)
    BY <1>5, UnblockedGood, UnblockedEnds DEF OwnerAnswers
  <2> QED
    BY <1>1, <1>2, <2>1, <2>2
<1>6. CASE Escalate(t)
  <2>1. run' = [run EXCEPT !.task = [run.task EXCEPT ![t] = "BLOCKED"]]
    BY <1>6 DEF Escalate, TransitionResults
  <2>2. run.task[t] \notin ActiveStates \cup {"VERIFIED"}
    BY <1>6 DEF Escalate, Good, Agrees
  <2>3. run \in RunType /\ run.task \in [Task -> TaskState]
    BY DEF Good, RunType
  <2>4. /\ run'.lock = run.lock /\ run'.sess = run.sess /\ run'.revisions = run.revisions
        /\ run'.task[t] = "BLOCKED" /\ \A u \in Task \ {t} : run'.task[u] = run.task[u]
    BY <2>1, <2>3 DEF RunType
  <2>5. Worked(run') \subseteq Worked(run)
    BY <2>4 DEF Worked
  <2>6. \A u \in Task : \/ run'.task[u] = run.task[u]
                        \/ /\ run.task[u] \notin ActiveStates \cup {"VERIFIED"}
                           /\ run'.task[u] \notin ActiveStates \cup {"VERIFIED"}
    BY <2>2, <2>4 DEF ActiveStates
  <2> QED
    BY <1>2, <2>4, <2>5, <2>6, QuietMove DEF Between
<1> QED
  BY <1>3, <1>4, <1>5, <1>6

\* Every step ends sessions and then starts some, in the board's sense.
LEMMA NextBetween ==
    ASSUME Good(run), Next
    PROVE  \E c : Between(run, c, run')
<1>1. run' = run => Between(run, run, run')
  BY Unseen DEF Between
<1>2. ASSUME NEW t \in Task, TaskStep(t) PROVE \E c : Between(run, c, run')
  <2>1. CASE CreateThread(t) \/ StartTurn(t) \/ ThreadGone(t) \/ FailInDoubt(t) \/ FailSend(t)
    <3>1. Good(run') /\ Ends(run, run')
      BY <2>1, RelayCarries, RelayGood, CarryOnEnds DEF Carries
    <3>2. Starts(run', run')
      BY Unseen
    <3> QED
      BY <3>1, <3>2 DEF Between
  <2>2. CASE FailForCertain(t)
    <3>1. Good(run') /\ Ends(run, run')
      BY <2>2, FailedGood, FailedEnds DEF FailForCertain
    <3>2. Starts(run', run')
      BY Unseen
    <3> QED
      BY <3>1, <3>2 DEF Between
  <2>3. CASE Deliver(t)
    BY <1>1, <2>3 DEF Deliver
  <2>4. CASE FinishWork(t) \/ FinishStopped(t) \/ FinishVerdict(t) \/ FinishUnreadable(t)
    BY <2>4, FinishBetween
  <2>5. CASE CloseTicket(t) \/ ReturnStoppedTask(t) \/ OwnerAnswers(t) \/ Escalate(t)
    BY <2>5, StopsBetween
  <2> QED
    BY <1>2, <2>1, <2>2, <2>3, <2>4, <2>5 DEF TaskStep
<1>3. CASE Forget
  BY <1>1, <1>3 DEF Forget
<1>4. CASE Reserve
  BY <1>4, CommitBetween, Unseen DEF Reserve
<1>5. CASE Reconcile \/ SettleDeadSessions
  BY <1>5, ReconcileBetween
<1>6. CASE RequestPause \/ ResumeRun
  BY <1>1, <1>6 DEF RequestPause, ResumeRun
<1> QED
  BY <1>2, <1>3, <1>4, <1>5, <1>6 DEF Next

\* What the board's workers are, in the frontier's records.
LEMMA WorkersAreHolders ==
    ASSUME Good(run)
    PROVE  /\ BoardWorker \in [Task -> {"none", "producer", "judge"}]
           /\ \A t \in Task :
                /\ BoardWorker[t] = "judge" <=> run.task[t] = "VERIFYING"
                /\ BoardWorker[t] = "none" <=> run.lock[t] = 0
           /\ {t \in Task : BoardWorker[t] # "none"} = Holders(run)
BY DEF Good, Agrees, BoardWorker, ActiveStates, Holders

\* WorkBoard counts with its own instance of the standard module.
LEMMA BoardCounts == \A S : Board!Cardinality(S) = Cardinality(S)
BY DEF Board!Cardinality, Cardinality

LEMMA BoardStep ==
    ASSUME Good(run), Good(run'), Earned(run'), NEW b, Between(run, b, run')
    PROVE  Board!Next
<1> DEFINE off == Freed(run, b)
           won == Accepted(b) \ Accepted(run)
           on  == {t \in Task : b.lock[t] = 0 /\ run'.lock[t] # 0}
           w   == BoardWorker
<1>1. /\ w \in [Task -> {"none", "producer", "judge"}]
      /\ \A t \in Task : w[t] = "judge" <=> run.task[t] = "VERIFYING"
      /\ \A t \in Task : w[t] = "none" <=> run.lock[t] = 0
      /\ {t \in Task : w[t] # "none"} = Holders(run)
  BY WorkersAreHolders
<1>2. PICK v : v = w'
  OBVIOUS
<1>3. /\ v \in [Task -> {"none", "producer", "judge"}]
      /\ \A t \in Task : v[t] = "judge" <=> run'.task[t] = "VERIFYING"
      /\ \A t \in Task : v[t] = "none" <=> run'.lock[t] = 0
      /\ {t \in Task : v[t] # "none"} = Holders(run')
  BY <1>2 DEF Good, Agrees, BoardWorker, ActiveStates, Holders
<1>4. Good(b) /\ Ends(run, b) /\ Starts(b, run')
  BY DEF Between
<1> HIDE DEF w
<1>5. won \subseteq {t \in off : w[t] = "judge"}
  <2>1. ASSUME NEW t \in won PROVE t \in off /\ run.task[t] = "VERIFYING"
    <3>1. t \in Task /\ b.task[t] = "VERIFIED" /\ run.task[t] = "VERIFYING"
      BY <1>4 DEF Ends, Closes, Accepted
    <3>2. run.lock[t] # 0 /\ b.lock[t] = 0
      BY <1>4, <3>1 DEF Good, Agrees, ActiveStates
    <3> QED
      BY <3>1, <3>2 DEF Freed
  <2> QED
    BY <1>1, <2>1 DEF Freed
<1>6. Cardinality(won) <= 1
  <2>1. CASE won = {}
    <3>1. Cardinality(won) = 0
      BY <2>1, FS_EmptySet
    <3> QED
      BY <3>1
  <2>2. CASE won # {}
    <3>1. PICK t \in won : TRUE
      BY <2>2
    <3>2. won = {t}
      BY <1>4, <3>1 DEF Ends, Closes
    <3>3. Cardinality({t}) = 1
      BY FS_Singleton
    <3>4. Cardinality(won) = 1
      BY <3>2, <3>3, Zenon
    <3> QED
      BY <3>4
  <2> QED
    BY <2>1, <2>2
<1>7. Accepted(run') = Accepted(run) \cup won
  BY <1>4 DEF Ends, Closes, Starts
<1>8. Tried(run') = Tried(run) \cup {t \in off : w[t] = "producer"}
  <2>1. \A t \in off : w[t] = "producer" <=> run.task[t] # "VERIFYING"
    BY <1>1 DEF Freed
  <2> QED
    BY <1>4, <2>1 DEF Ends, Closes, Starts, Freed
<1>9. ASSUME NEW t \in on
      PROVE  /\ v[t] \in {"producer", "judge"}
             /\ t \notin Accepted(run') /\ Deps[t] \subseteq Accepted(run')
             /\ v[t] = "judge" => t \in Tried(run')
  <2>1. v[t] \in {"producer", "judge"}
    BY <1>3
  <2>2. run'.task[t] \in ActiveStates
    BY DEF Good, Agrees
  <2>3. Deps[t] \subseteq Accepted(run')
    BY <2>2, TaskGraphAssumption DEF Good, ValidTaskStates, UngatedStates, ActiveStates,
                            DependenciesEligible, UnmetDependencies, Accepted
  <2>4. t \notin Accepted(run')
    BY <2>2 DEF Accepted, ActiveStates
  <2>5. v[t] = "judge" => t \in Tried(run')
    BY <1>3 DEF Earned, Worked
  <2> QED
    BY <2>1, <2>3, <2>4, <2>5
<1>10. ASSUME NEW t \in Task \ on PROVE v[t] = IF t \in off THEN "none" ELSE w[t]
  <2>1. CASE t \in off
    BY <1>3, <2>1 DEF Freed
  <2>2. CASE run.lock[t] = 0
    BY <1>1, <1>3, <1>4, <2>2 DEF Ends, Closes, Freed
  <2>3. CASE run.lock[t] # 0 /\ t \notin off
    <3>1. b.lock[t] # 0
      BY <2>3 DEF Freed
    <3>2. run'.lock[t] # 0 /\ run'.task[t] = run.task[t]
      BY <1>4, <3>1 DEF Ends, Closes, Starts
    <3>3. w[t] \in {"producer", "judge"} /\ v[t] \in {"producer", "judge"}
      BY <1>1, <1>3, <2>3, <3>2
    <3> QED
      BY <1>1, <1>3, <2>3, <3>2, <3>3
  <2> QED
    BY <2>1, <2>2, <2>3
<1>11. \A t \in on : Conflicts[t] \cap Holders(run') = {}
  BY DEF Good, ConflictFree, Holders
<1>12. on # {} => Cardinality(Holders(run')) <= Ceiling
  <2>1. ASSUME NEW t \in on PROVE Holders(run') # Holders(b)
    BY DEF Holders
  <2> QED
    BY <1>4, <2>1 DEF Starts
<1>13. /\ off \in SUBSET Holders(run)
       /\ on \in SUBSET ((Task \ Holders(run)) \cup off)
  BY DEF Freed, Holders
<1>14. /\ Accepted(run) = {t \in Task : run.task[t] = "VERIFIED"}
       /\ Accepted(run') = {t \in Task : run.task[t] = "VERIFIED"}'
       /\ Tried(run) = Attempted /\ Tried(run') = Attempted'
  BY DEF Accepted, Tried, Produced, Attempted
<1> HIDE DEF off, won, on
<1>15. Board!Step(off, won, on)
  <2>1. {t \in Task : run.task[t] = "VERIFIED"}' = {t \in Task : run.task[t] = "VERIFIED"} \cup won
    BY <1>7, <1>14
  <2>2. Attempted' = Attempted \cup {t \in off : w[t] = "producer"}
    BY <1>8, <1>14
  <2>3. \A t \in on : v[t] \in {"producer", "judge"} /\ Board!MayStart(t, v[t])
    BY <1>9, <1>14 DEF Board!MayStart
  <2>4. Board!Working(v) = Holders(run')
    BY <1>3 DEF Board!Working
  <2>5. on # {} => Board!Cardinality(Board!Working(v)) <= Ceiling
    BY <1>12, <2>4, BoardCounts
  <2>6. BoardWorker' = v /\ w = BoardWorker
    BY <1>2 DEF w
  <2>7. \A t \in Task :
          IF t \in on THEN v[t] \in {"producer", "judge"} /\ Board!MayStart(t, v[t])
          ELSE v[t] = IF t \in off THEN "none" ELSE w[t]
    BY <1>10, <2>3
  <2>8. \A t \in on : Conflicts[t] \cap Board!Working(v) = {}
    BY <1>11, <2>4
  <2>9. v \in [Task -> {"none", "producer", "judge"}]
    BY <1>3
  <2>10. /\ BoardWorker' \in [Task -> {"none", "producer", "judge"}]
         /\ \A t \in on : Conflicts[t] \cap Board!Working(BoardWorker') = {}
         /\ on # {} => Board!Cardinality(Board!Working(BoardWorker')) <= Ceiling
    BY <2>5, <2>6, <2>8, <2>9, Zenon
  <2>11. \A t \in Task :
           IF t \in on
           THEN BoardWorker'[t] \in {"producer", "judge"} /\ Board!MayStart(t, BoardWorker'[t])
           ELSE BoardWorker'[t] = IF t \in off THEN "none" ELSE BoardWorker[t]
    BY <2>6, <2>7 DEF Board!MayStart
  <2>12. Attempted' = Attempted \cup {t \in off : BoardWorker[t] = "producer"}
    BY <2>2 DEF w
  <2> QED
    BY <2>1, <2>10, <2>11, <2>12, Zenon DEF Board!Step
<1>16. Board!Working(BoardWorker) = Holders(run)
  BY <1>1 DEF Board!Working, w
<1>17. won \in SUBSET {t \in off : BoardWorker[t] = "judge"}
  BY <1>5 DEF w
<1>18. Board!Cardinality(won) <= 1
  BY <1>6, BoardCounts
<1>19. /\ off \in SUBSET Board!Working(BoardWorker)
       /\ on \in SUBSET ((Task \ Board!Working(BoardWorker)) \cup off)
  BY <1>13, <1>16
<1> QED
  BY <1>15, <1>17, <1>18, <1>19, Zenon DEF Board!Next, Board!Step

\* The strengthening the refinement needs.
BoardInv == Good(run) /\ Earned(run)

LEMMA InitBoardInv == Init => BoardInv /\ Board!Init
<1> SUFFICES ASSUME Init PROVE BoardInv /\ Board!Init
  OBVIOUS
<1>1. Good(run)
  BY InitIInv DEF IInv
<1>2. /\ run.task = InitialTaskStates /\ run.active = {}
      /\ run.sess = [t \in Task |-> << >>] /\ run.revisions = [t \in Task |-> 0]
  BY DEF Init, InitialRun
<1>3. \A t \in Task : run.task[t] \in {"READY", "WAITING"}
  BY <1>2 DEF InitialTaskStates
<1>4. Earned(run)
  BY <1>2, <1>3 DEF Earned, Worked
<1>5. Board!Init
  BY <1>2, <1>3 DEF Board!Init, Attempted, BoardWorker
<1> QED
  BY <1>1, <1>4, <1>5 DEF BoardInv

LEMMA NextBoardInv == BoardInv /\ [Next]_vars => BoardInv' /\ [Board!Next]_(Board!boardVars)
<1> SUFFICES ASSUME BoardInv, [Next]_vars PROVE BoardInv' /\ [Board!Next]_(Board!boardVars)
  OBVIOUS
<1>1. CASE Next
  <2>1. PICK b : Between(run, b, run')
    BY <1>1, NextBetween DEF BoardInv
  <2>2. Good(run') /\ Earned(run')
    BY <1>1, <2>1, NextGood, EarnedKept DEF BoardInv, Between
  <2>3. Board!Next
    BY <2>1, <2>2, BoardStep DEF BoardInv
  <2>4. BoardInv'
    BY <2>2 DEF BoardInv, Good, Earned, Worked, Tried, Produced, ValidTaskStates,
                DependenciesEligible, UnmetDependencies, Agrees, PendingSessions,
                ConflictFree, Holders
  <2> QED
    BY <2>3, <2>4
<1>2. CASE UNCHANGED vars
  <2>1. run' = run
    BY <1>2 DEF vars
  <2>2. BoardInv'
    BY <2>1 DEF BoardInv, Good, Earned, Worked, Tried, Produced, ValidTaskStates,
                DependenciesEligible, UnmetDependencies, Agrees, PendingSessions,
                ConflictFree, Holders
  <2>3. UNCHANGED Board!boardVars
    BY <2>1 DEF Board!boardVars, Attempted, BoardWorker
  <2> QED
    BY <2>2, <2>3
<1> QED
  BY <1>1, <1>2

\* Whatever the handlers, the passes and the crashes do together, the board sees
\* workers taken off, at most one judged task accepted, and workers put on accepted
\* ground, in no conflict and within the limit.
THEOREM Implements == Spec => BoardSpec
<1> QED
  BY InitBoardInv, NextBoardInv, PTL DEF Spec, BoardSpec, Board!Spec

\* Whoever works, works on accepted ground and not on accepted work, and nothing is
\* accepted that nobody produced for.
THEOREM Grounded == Spec => []Board!OnAcceptedGround
<1>1. BoardInv => Board!OnAcceptedGround
  <2> SUFFICES ASSUME BoardInv PROVE Board!OnAcceptedGround
    OBVIOUS
  <2>1. \A t \in Task : BoardWorker[t] # "none" => run.task[t] \in ActiveStates
    BY WorkersAreHolders DEF BoardInv, Good, Agrees
  <2>2. ASSUME NEW t \in Task, run.task[t] \in ActiveStates
        PROVE  \A d \in Deps[t] : d \in Task /\ run.task[d] = "VERIFIED"
    BY <2>2, TaskGraphAssumption DEF BoardInv, Good, ValidTaskStates, UngatedStates,
                            ActiveStates, DependenciesEligible, UnmetDependencies
  <2>3. \A t \in Task : run.task[t] = "VERIFIED" => t \in Attempted
    BY DEF BoardInv, Earned, Worked, Tried, Produced, Attempted
  <2> QED
    BY <2>1, <2>2, <2>3 DEF Board!OnAcceptedGround, Board!Working, ActiveStates
<1> QED
  BY <1>1, InitBoardInv, NextBoardInv, PTL DEF Spec

\* A session that ended stays as it ended: no completion delivered twice or late, no
\* sweep and no pass touches it, but to retire it.
THEOREM Retired == Spec => RetiredForGood
<1> DEFINE Stays ==
      \A t \in Task : \A n \in DOMAIN run.sess[t] :
          run.sess[t][n].status \notin Pending =>
             /\ run'.sess[t][n].final = run.sess[t][n].final
             /\ run'.sess[t][n].status \in {run.sess[t][n].status, "RETIRED_SUPERSEDED"}
<1>1. BoardInv /\ [Next]_vars => [Stays]_vars
  <2> SUFFICES ASSUME BoardInv, Next PROVE Stays
    BY DEF vars
  <2>1. PICK b : Between(run, b, run')
    BY NextBetween DEF BoardInv
  <2>2. Kept(run, run')
    BY <2>1, KeptAgain DEF Between, Ends, Closes, Starts
  <2> QED
    BY <2>2 DEF Kept, KeptIn
<1>2. Spec => []BoardInv
  BY InitBoardInv, NextBoardInv, PTL DEF Spec
<1> QED
  BY <1>1, <1>2, PTL DEF Spec, RetiredForGood
-----------------------------------------------------------------------------
(* Accepted work was judged.                                                *)

\* The judgement a second lead gave is applied from the first lead's session, which
\* may be older than the work: only where no second lead judged does acceptance say
\* that the last work was passed.
TwiceJudged(s, t) == \E n \in DOMAIN s.sess[t] : s.sess[t][n].lead = "SECOND"

OneLead == \A t \in Task : ~TwiceJudged(run, t)

JudgedWork(s, t) ==
    s.task[t] = "VERIFIED" /\ ~TwiceJudged(s, t) =>
        \A p \in LastProduction(s, t) :
            \E n \in DOMAIN s.sess[t] : n > p /\ s.sess[t][n].final = "PASS"

\* Nobody works for an accepted task, so all its sessions stay as they are.
LEMMA AcceptedRests ==
    ASSUME NEW s, Good(s), NEW t \in Task, s.task[t] = "VERIFIED"
    PROVE  s.lock[t] = 0 /\ PendingSessions(s, t) = {}
BY DEF Good, Agrees, ActiveStates

\* What was judged stays judged.
LEMMA JudgedStays ==
    ASSUME NEW s, NEW r, NEW t \in Task, PendingSessions(s, t) = {},
           DOMAIN r.sess[t] = DOMAIN s.sess[t], KeptIn(s.sess[t], r.sess[t]),
           s.task[t] = "VERIFIED", JudgedWork(s, t)
    PROVE  JudgedWork(r, t)
<1>1. \A n \in DOMAIN s.sess[t] :
        /\ r.sess[t][n].kind = s.sess[t][n].kind
        /\ r.sess[t][n].final = s.sess[t][n].final
        /\ s.sess[t][n].lead = "SECOND" => r.sess[t][n].lead = "SECOND"
  BY DEF PendingSessions, KeptIn
<1>2. LastProduction(r, t) = LastProduction(s, t)
  BY <1>1 DEF LastProduction
<1>3. TwiceJudged(s, t) => TwiceJudged(r, t)
  BY <1>1 DEF TwiceJudged
<1> QED
  BY <1>1, <1>2, <1>3 DEF JudgedWork

\* The session that judged is the last one, and no work is.
LEMMA JudgedNow ==
    ASSUME NEW s, Good(s), NEW b, NEW r, NEW t \in Task, s.task[t] = "VERIFYING",
           Passed(s, b, t), DOMAIN b.sess[t] = DOMAIN s.sess[t],
           DOMAIN r.sess[t] = DOMAIN s.sess[t],
           KeptIn(s.sess[t], b.sess[t]), KeptIn(b.sess[t], r.sess[t])
    PROVE  JudgedWork(r, t)
<1>1. PICK n \in PendingSessions(s, t) :
        /\ b.sess[t][n].status \notin Pending
        /\ b.sess[t][n].final = "PASS" \/ b.sess[t][n].lead = "SECOND"
  BY DEF Passed
<1>2. /\ n \in DOMAIN s.sess[t] /\ s.sess[t] \in Seq(Session) /\ n = Len(s.sess[t])
      /\ s.task[t] = ActiveStateOf(s.sess[t][n].kind) /\ s.sess[t][n].kind \in Kind
  BY <1>1, OnePending DEF Good, Agrees, Session
<1>3. s.sess[t][n].kind \notin Production
  BY <1>2 DEF ActiveStateOf, Kind, Production
<1>4. /\ r.sess[t][n].kind \notin Production
      /\ r.sess[t][n].final = "PASS" \/ r.sess[t][n].lead = "SECOND"
  BY <1>1, <1>2, <1>3 DEF KeptIn
<1>5. ASSUME NEW p \in LastProduction(r, t) PROVE n > p
  <2>1. p \in 1..Len(s.sess[t]) /\ p # n
    BY <1>2, <1>4 DEF LastProduction
  <2> QED
    BY <1>2, <2>1
<1> QED
  BY <1>2, <1>4, <1>5 DEF JudgedWork, TwiceJudged

LEMMA JudgedKept ==
    ASSUME NEW s, Good(s), NEW b, NEW r, Good(r), Between(s, b, r),
           NEW t \in Task, JudgedWork(s, t)
    PROVE  JudgedWork(r, t)
<1> SUFFICES ASSUME r.task[t] = "VERIFIED" PROVE JudgedWork(r, t)
  BY DEF JudgedWork
<1>1. /\ DOMAIN b.sess[t] = DOMAIN s.sess[t]
      /\ KeptIn(s.sess[t], b.sess[t]) /\ KeptIn(b.sess[t], r.sess[t])
  BY DEF Between, Ends, Closes, Starts, Kept
<1>2. DOMAIN r.sess[t] = DOMAIN s.sess[t]
  BY <1>1, AcceptedRests DEF Between, Starts
<1>3. t \in Accepted(b)
  BY DEF Between, Starts, Accepted
<1>4. CASE s.task[t] = "VERIFIED"
  <2>1. PendingSessions(s, t) = {}
    BY <1>4, AcceptedRests
  <2>2. KeptIn(s.sess[t], r.sess[t])
    BY KeptAgain DEF Between, Ends, Closes, Starts, Kept
  <2> QED
    BY <1>2, <1>4, <2>1, <2>2, JudgedStays
<1>5. CASE s.task[t] # "VERIFIED"
  <2>1. t \in Accepted(b) \ Accepted(s)
    BY <1>3, <1>5 DEF Accepted
  <2>2. s.task[t] = "VERIFYING" /\ Passed(s, b, t)
    BY <2>1 DEF Between, Ends, Closes
  <2> QED
    BY <1>1, <1>2, <2>2, JudgedNow
<1> QED
  BY <1>4, <1>5

JudgedInv == BoardInv /\ \A t \in Task : JudgedWork(run, t)

LEMMA NextJudgedInv == JudgedInv /\ [Next]_vars => JudgedInv'
<1> SUFFICES ASSUME JudgedInv, [Next]_vars PROVE JudgedInv'
  OBVIOUS
<1>1. BoardInv /\ BoardInv' /\ Good(run) /\ Good(run')
  <2>1. BoardInv /\ BoardInv'
    BY NextBoardInv DEF JudgedInv
  <2>2. Good(run)
    BY <2>1 DEF BoardInv
  <2>3. Good(run')
    BY <2>2, NextGood DEF vars
  <2> QED
    BY <2>1, <2>2, <2>3
<1>2. CASE Next
  <2>1. PICK b : Between(run, b, run')
    BY <1>1, <1>2, NextBetween
  <2>2. \A t \in Task : JudgedWork(run', t)
    BY <1>1, <2>1, JudgedKept DEF JudgedInv
  <2> QED
    BY <1>1, <2>2 DEF JudgedInv, JudgedWork, TwiceJudged, LastProduction
<1>3. CASE UNCHANGED vars
  BY <1>1, <1>3 DEF JudgedInv, JudgedWork, TwiceJudged, LastProduction, vars
<1> QED
  BY <1>2, <1>3

\* As long as no second lead has judged, an accepted task was passed by a verifier
\* that started after the last session that worked on it, however many attempts
\* failed, were lost or were judged before.
THEOREM AcceptedJudged == Spec => [](OneLead => AcceptedWorkWasJudged)
<1>1. Init => JudgedInv
  <2> SUFFICES ASSUME Init PROVE JudgedInv
    OBVIOUS
  <2>1. \A t \in Task : run.task[t] # "VERIFIED"
    BY DEF Init, InitialRun, InitialTaskStates
  <2> QED
    BY <2>1, InitBoardInv DEF JudgedInv, JudgedWork
<1>2. JudgedInv => (OneLead => AcceptedWorkWasJudged)
  BY DEF JudgedInv, JudgedWork, OneLead, AcceptedWorkWasJudged
<1> QED
  BY <1>1, <1>2, NextJudgedInv, PTL DEF Spec
=============================================================================
