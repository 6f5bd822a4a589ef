--------------------------- MODULE WorkerProofs ---------------------------
(***************************************************************************)
(* Proofs about Staffing, for every set of tasks, of professions and of    *)
(* skills, for every plan a run may begin with and every number of changes *)
(* of it; and about Dispatch, for any number of reservations, processes,   *)
(* threads, kills and surprises.  The two share no variable: who may work, *)
(* and how many turns the work has.                                        *)
(***************************************************************************)
EXTENDS Staffing, Dispatch, FunctionTheorems, FiniteSetTheorems, TLAPS

-----------------------------------------------------------------------------
(* The inductive invariant                                                   *)

Screeners == [for : Nat \ {0}, lost : BOOLEAN]
Hires == [for : Nat, skills : SUBSET Skill]
Prompts == [for : Nat, hired : Nat, skills : SUBSET Skill]
Changes == {NoChange} \cup [by : Task, whole : BOOLEAN]

Runs == [plan : Plan, version : Nat \ {0}, screening : BOOLEAN, versions : Nat,
         task : [Task -> TaskState], screener : [Task -> SUBSET Screeners],
         tried : [Task -> 0..MaxScreeningAttempts], hire : [Task -> Hires],
         prompt : [Task -> Prompts], roster : SUBSET Task, stopped : SUBSET Task,
         change : Changes, started : BOOLEAN]

\* Nothing is of a version to come.
Dated(s, t) ==
    /\ \A z \in s.screener[t] : z.for <= s.version
    /\ s.hire[t].for <= s.version

\* A screener is at work for a task that has no worker and no work done: only such a task
\* is put on trial again, and what is done is not screened for.
Screening(s, t) ==
    /\ \A y, z \in s.screener[t] : y = z
    /\ s.screener[t] # {} => s.task[t] \in {"READY", "BLOCKED"}

\* The prompts there are are those of the sessions at work.
Prompted(s, t) ==
    /\ IF s.task[t] \in Active THEN s.prompt[t].for # 0 ELSE s.prompt[t] = NoPrompt
    /\ s.prompt[t].skills # {} => s.prompt[t].hired = s.prompt[t].for
    /\ s.task[t] = "VERIFYING" => s.prompt[t].skills \cap Market = {}

\* Whoever is at work has a lead who may accept it.
Led(s, t) == s.task[t] \in Active => CanLead(s.plan[t], RoleOf[t])

Sound(s, t) == Dated(s, t) /\ Screening(s, t) /\ Prompted(s, t) /\ Led(s, t)

\* A change is only ever asked for while another version may come.
Bounded(s) ==
    /\ s.version <= s.versions
    /\ s.change # NoChange => s.version < s.versions

Good(s) == s \in Runs /\ Bounded(s) /\ \A t \in Task : Sound(s, t)

\* Once a profession has a standard, one of its accepted tasks names a lead of it, and
\* every lead that any of its tasks names is of the standard.
Upheld(plan, settled, role) ==
    standard[role] # {} =>
        /\ \E t \in Staff(role) \cap settled : CanLead(plan[t], role)
        /\ \A t \in Staff(role) : CanLead(plan[t], role) => plan[t] \in standard[role]

IInv ==
    /\ Good(run)
    /\ usable \subseteq Pack /\ standard \in [Role -> SUBSET Role]
    /\ \A role \in Role : Upheld(run.plan, Settled(run), role)

-----------------------------------------------------------------------------
(* Records of a run                                                          *)

\* What is sound of a task is said by what the run holds of that task.
LEMMA SoundHere ==
    ASSUME NEW r, NEW v, NEW t, Sound(v, t),
           r.version = v.version, r.plan[t] = v.plan[t], r.task[t] = v.task[t],
           r.prompt[t] = v.prompt[t], r.screener[t] = v.screener[t], r.hire[t] = v.hire[t]
    PROVE  Sound(r, t)
  BY DEF Sound, Dated, Screening, Prompted, Led

LEMMA RunFields ==
    ASSUME NEW s \in Runs
    PROVE  /\ s.plan \in Plan /\ s.version \in Nat \ {0} /\ s.screening \in BOOLEAN
           /\ s.versions \in Nat /\ s.task \in [Task -> TaskState]
           /\ s.screener \in [Task -> SUBSET Screeners]
           /\ s.tried \in [Task -> 0..MaxScreeningAttempts] /\ s.hire \in [Task -> Hires]
           /\ s.prompt \in [Task -> Prompts] /\ s.roster \in SUBSET Task
           /\ s.stopped \in SUBSET Task /\ s.change \in Changes /\ s.started \in BOOLEAN
  BY DEF Runs

\* The fields a handler changes for one task.
LEMMA RunChanged ==
    ASSUME NEW s \in Runs, NEW t \in Task, NEW state \in TaskState, NEW prompt \in Prompts,
           NEW screener \in SUBSET Screeners, NEW tried \in 0..MaxScreeningAttempts,
           NEW hire \in Hires, NEW stopped \in SUBSET Task, NEW started \in BOOLEAN,
           NEW change \in Changes, NEW roster \in SUBSET Task
    PROVE  LET v == [s EXCEPT !.task[t] = state, !.prompt[t] = prompt,
                              !.screener[t] = screener, !.tried[t] = tried,
                              !.hire[t] = hire, !.stopped = stopped, !.started = started,
                              !.change = change, !.roster = roster]
           IN  v \in Runs
  BY DEF Runs

-----------------------------------------------------------------------------
(* The roster                                                                *)

LEMMA SettledIs ==
    ASSUME NEW s
    PROVE  Settled(s) \in SUBSET Task
  BY DEF Settled

\* A task that has a lead of another profession is no fault, and one that has not is.
LEMMA FaultyNames ==
    ASSUME NEW plan \in Plan, NEW settled \in SUBSET Task, NEW exempt \in SUBSET Task,
           NEW current, NEW t \in Task, t \notin exempt,
           t \notin Faulty(plan, exempt, settled, current)
    PROVE  CanLead(plan[t], RoleOf[t])
  <1>1. plan[t] \in Role \cup {NoLead} /\ RoleOf[t] \in Role
    BY LeadsAssumption DEF Plan
  <1>2. plan[t] \notin {NoLead, RoleOf[t]}
    BY DEF Faulty
  <1> QED
    BY <1>1, <1>2 DEF CanLead

LEMMA FaultyOfTasks ==
    ASSUME NEW plan, NEW exempt, NEW settled, NEW current
    PROVE  Faulty(plan, exempt, settled, current) \subseteq Task
  BY DEF Faulty

\* The gate changes the tickets of the roster alone, and whoever it does not hold is
\* accepted or has its lead.
LEMMA GateStaffs ==
    ASSUME NEW s \in Runs
    PROVE  /\ StaffingGate(s) \in Runs
           /\ \E roster \in SUBSET Task : StaffingGate(s) = [s EXCEPT !.roster = roster]
           /\ \A t \in Task \ Settled(s) :
                 t \notin StaffingGate(s).roster => CanLead(s.plan[t], RoleOf[t])
  <1> DEFINE settled == Settled(s)
             faulty  == Faulty(s.plan, settled, settled, s.plan)
             held    == s.roster \cup ((IF s.started THEN faulty ELSE Task) \ settled)
  <1>1. s.plan \in Plan /\ settled \in SUBSET Task /\ s.roster \in SUBSET Task
    BY RunFields, SettledIs
  <1>2. faulty \subseteq Task
    BY FaultyOfTasks
  <1>3. Unstaffed(s.plan, settled) = faulty
    BY DEF Unstaffed
  <1>4. \A t \in Task \ settled : t \notin faulty => CanLead(s.plan[t], RoleOf[t])
    BY <1>1, FaultyNames
  <1>5. held \in SUBSET Task
    BY <1>1, <1>2
  <1> HIDE DEF settled, faulty
  <1>6. CASE Whole(s)
    <2>1. faulty = {} /\ StaffingGate(s) = s
      BY <1>3, <1>6 DEF Whole, StaffingGate, settled
    <2>2. s = [s EXCEPT !.roster = s.roster]
      BY DEF Runs
    <2> QED
      BY <1>1, <1>4, <2>1, <2>2 DEF settled
  <1>7. CASE ~Whole(s)
    <2>1. StaffingGate(s) = [s EXCEPT !.roster = held]
      BY <1>3, <1>7 DEF StaffingGate, settled
    <2> HIDE DEF held
    <2>2. StaffingGate(s) \in Runs /\ StaffingGate(s).roster = held
      BY <1>5, <2>1 DEF Runs
    <2> QED
      BY <1>4, <1>5, <2>1, <2>2 DEF held, settled
  <1> QED
    BY <1>6, <1>7

-----------------------------------------------------------------------------
(* Prompts and sessions                                                      *)

LEMMA HiredFits ==
    ASSUME NEW s \in Runs, NEW t \in Task, usable \subseteq Pack
    PROVE  /\ Carried(s, t) \in SUBSET Skill
           /\ Carried(s, t) # {} => s.hire[t].for = s.version
  <1>1. s.hire[t] \in Hires
    BY RunFields
  <1> QED
    BY <1>1 DEF Carried, RecordedHiring, Hires

\* A prompt carries what was hired for this very contract, an acceptor's nothing that
\* came from outside.
LEMMA PromptIs ==
    ASSUME NEW s \in Runs, NEW t \in Task, usable \subseteq Pack,
           NEW phase \in {"implementation", "verification", "revision"}
    PROVE  LET p == BuildPrompt(s, t, phase)
           IN  /\ p \in Prompts /\ p.for = s.version
               /\ p.skills # {} => p.hired = p.for
               /\ phase = "verification" => p.skills \cap Market = {}
  <1>1. s.version \in Nat \ {0} /\ s.hire[t] \in Hires
    BY RunFields
  <1>2. PICK carried \in SUBSET Skill : /\ carried = Carried(s, t)
                                        /\ carried # {} => s.hire[t].for = s.version
    BY HiredFits
  <1> DEFINE shown == IF phase = "verification" THEN carried \ Market ELSE carried
  <1>3. BuildPrompt(s, t, phase) = [for |-> s.version, hired |-> s.hire[t].for, skills |-> shown]
    BY <1>2 DEF BuildPrompt
  <1>4. shown \in SUBSET Skill
    BY <1>2
  <1>5. shown # {} => s.hire[t].for = s.version
    BY <1>2
  <1>6. phase = "verification" => shown \cap Market = {}
    OBVIOUS
  <1> HIDE DEF shown
  <1> QED
    BY <1>1, <1>3, <1>4, <1>5, <1>6 DEF Prompts, Hires

\* What a pass may do for one task.
Serves(s, v, t) ==
    /\ v \in Runs /\ Sound(v, t)
    /\ v.plan = s.plan /\ v.version = s.version /\ v.versions = s.versions
    /\ v.task[t] = "VERIFIED" <=> s.task[t] = "VERIFIED"

LEMMA BegunServes ==
    ASSUME NEW s \in Runs, NEW t \in Task, Sound(s, t), usable \subseteq Pack,
           s.screener[t] = {}, CanLead(s.plan[t], RoleOf[t]), s.task[t] # "VERIFIED",
           NEW state \in Active, NEW phase \in {"implementation", "verification", "revision"},
           state = "VERIFYING" => phase = "verification"
    PROVE  Serves(s, Begun(s, t, state, phase), t)
  <1>1. PICK p \in Prompts : /\ p = BuildPrompt(s, t, phase) /\ p.for = s.version
                             /\ p.skills # {} => p.hired = p.for
                             /\ phase = "verification" => p.skills \cap Market = {}
    BY PromptIs
  <1>2. PICK v : v = Begun(s, t, state, phase)
    OBVIOUS
  <1>3. v = [s EXCEPT !.task[t] = state, !.prompt[t] = p, !.started = TRUE]
    BY <1>1, <1>2 DEF Begun
  <1>4. state \in TaskState /\ state # "VERIFIED"
    BY DEF Active, TaskState
  <1>5. /\ v \in Runs /\ v.plan = s.plan /\ v.version = s.version /\ v.versions = s.versions
        /\ v.task[t] = state /\ v.prompt[t] = p /\ v.screener[t] = {} /\ v.hire[t] = s.hire[t]
    BY <1>3, <1>4, RunFields DEF Runs
  <1>6. s.version # 0
    BY RunFields
  <1>7. Sound(v, t)
    <2>1. Dated(v, t)
      BY <1>5 DEF Sound, Dated
    <2>2. Screening(v, t)
      BY <1>5 DEF Screening
    <2>3. Prompted(v, t)
      BY <1>1, <1>5, <1>6 DEF Prompted
    <2>4. Led(v, t)
      BY <1>5 DEF Led
    <2> QED
      BY <2>1, <2>2, <2>3, <2>4 DEF Sound
  <1> QED
    BY <1>2, <1>4, <1>5, <1>7 DEF Serves

\* A ready task, told that it may start: its worker begins, or a stop holds it for a
\* screener it cannot have beside that worker.
LEMMA ReservedServes ==
    ASSUME NEW s \in Runs, NEW t \in Task, Sound(s, t), usable \subseteq Pack,
           CanLead(s.plan[t], RoleOf[t]), s.task[t] = "READY"
    PROVE  Serves(s, Reserved(s, t), t)
  <1>1. CASE s.screener[t] = {}
    <2>1. Serves(s, Begun(s, t, "RUNNING", "implementation"), t)
      BY <1>1, BegunServes DEF Active
    <2> QED
      BY <1>1, <2>1 DEF Reserved
  <1>2. CASE s.screener[t] # {}
    <2>1. PICK v : v = [s EXCEPT !.stopped = @ \cup {t}]
      OBVIOUS
    <2>2. /\ v \in Runs /\ v.plan = s.plan /\ v.version = s.version /\ v.versions = s.versions
          /\ v.task = s.task /\ v.prompt = s.prompt /\ v.screener = s.screener
          /\ v.hire = s.hire
      BY <2>1, RunFields DEF Runs
    <2>3. Sound(v, t)
      BY <2>2, SoundHere
    <2> QED
      BY <1>2, <2>1, <2>2, <2>3 DEF Reserved, Serves
  <1> QED
    BY <1>1, <1>2

LEMMA ScreenedServes ==
    ASSUME NEW s \in Runs, NEW t \in Task, Sound(s, t), usable \subseteq Pack,
           CanLead(s.plan[t], RoleOf[t]), s.task[t] = "READY", NEW brief \in BOOLEAN
    PROVE  Serves(s, Screened(s, t, brief), t)
  <1>1. Serves(s, Reserved(s, t), t)
    BY ReservedServes
  <1>2. Serves(s, s, t)
    BY DEF Serves
  <1>3. Serves(s, Reserved(Unscreened(s, t), t), t)
    <2>1. PICK v : v = Unscreened(s, t)
      OBVIOUS
    <2>2. PICK h \in Hires : h = [for |-> s.version, skills |-> {}]
      BY RunFields DEF Hires
    <2>3. h.for = s.version
      BY <2>2
    <2>4. v = [s EXCEPT !.hire[t] = h]
      BY <2>1, <2>2 DEF Unscreened
    <2>5. /\ v \in Runs /\ v.plan = s.plan /\ v.version = s.version /\ v.versions = s.versions
          /\ v.task = s.task /\ v.prompt = s.prompt /\ v.screener = s.screener
          /\ v.hire[t] = h
      BY <2>4, RunFields DEF Runs
    <2>6. s.version <= s.version
      BY RunFields
    <2>7. Sound(v, t)
      BY <2>3, <2>5, <2>6 DEF Sound, Dated, Screening, Prompted, Led
    <2>8. Serves(v, Reserved(v, t), t)
      BY <2>5, <2>7, ReservedServes
    <2> QED
      BY <2>1, <2>5, <2>8 DEF Serves
  <1>4. PendingScreener(s, t) = {} => Serves(s, ReserveScreening(s, t), t)
    <2> SUFFICES ASSUME s.screener[t] = {} PROVE Serves(s, ReserveScreening(s, t), t)
      BY DEF PendingScreener
    <2>1. PICK v : v = ReserveScreening(s, t)
      OBVIOUS
    <2>2. PICK z \in Screeners : z = [for |-> s.version, lost |-> FALSE]
      BY RunFields DEF Screeners
    <2>3. z.for = s.version
      BY <2>2
    <2>4. PICK n \in 0..MaxScreeningAttempts :
             n = IF s.tried[t] < MaxScreeningAttempts THEN s.tried[t] + 1 ELSE s.tried[t]
      BY RunFields DEF MaxScreeningAttempts
    <2>5. v = [s EXCEPT !.screener[t] = {z}, !.tried[t] = n]
      BY <2>1, <2>2, <2>4 DEF ReserveScreening
    <2>6. /\ v \in Runs /\ v.plan = s.plan /\ v.version = s.version /\ v.versions = s.versions
          /\ v.task = s.task /\ v.prompt = s.prompt /\ v.screener[t] = {z}
          /\ v.hire = s.hire
      BY <2>5, RunFields DEF Runs
    <2>7. s.version <= s.version
      BY RunFields
    <2>8. Sound(v, t)
      BY <2>3, <2>6, <2>7 DEF Sound, Dated, Screening, Prompted, Led
    <2> QED
      BY <2>1, <2>6, <2>8 DEF Serves
  <1> QED
    BY <1>1, <1>2, <1>3, <1>4 DEF Screened

LEMMA ServedServes ==
    ASSUME NEW s \in Runs, NEW t \in Task, Sound(s, t), usable \subseteq Pack,
           NEW brief \in BOOLEAN,
           t \notin s.roster /\ s.task[t] # "VERIFIED" => CanLead(s.plan[t], RoleOf[t])
    PROVE  Serves(s, Served(s, t, brief), t)
  <1>1. Serves(s, s, t)
    BY DEF Serves
  <1>2. ASSUME t \notin Held(s), s.task[t] = "IMPLEMENTED"
        PROVE  Serves(s, Begun(s, t, "VERIFYING", "verification"), t)
    BY <1>2, BegunServes DEF Held, Sound, Screening, Active
  <1>3. ASSUME t \notin Held(s), s.task[t] = "REVISION_REQUIRED"
        PROVE  Serves(s, Begun(s, t, "REVISING", "revision"), t)
    BY <1>3, BegunServes DEF Held, Sound, Screening, Active
  <1>4. ASSUME t \notin Held(s), s.task[t] = "READY"
        PROVE  Serves(s, Screened(s, t, brief), t)
    BY <1>4, ScreenedServes DEF Held
  <1> QED
    BY <1>1, <1>2, <1>3, <1>4 DEF Served

-----------------------------------------------------------------------------
(* The pass                                                                  *)

\* What every handler leaves of the run it hands to the pass.
SameGround(s, v) ==
    /\ v.plan = s.plan /\ v.version = s.version /\ v.versions = s.versions
    /\ v.change = s.change /\ Settled(v) = Settled(s)

LEMMA PassServes ==
    ASSUME NEW g \in Runs, NEW f, usable \subseteq Pack, Bounded(g),
           \A t \in Task : Sound(g, t) /\ Serves(g, f[t], t)
    PROVE  Good(Pass(g, f)) /\ SameGround(g, Pass(g, f))
  <1>1. CASE g.change # NoChange
    BY <1>1 DEF Pass, Good, SameGround
  <1>2. CASE g.change = NoChange
    <2>1. PICK v : v = Pass(g, f)
      OBVIOUS
    <2> DEFINE task == [t \in Task |-> f[t].task[t]]
               prompt == [t \in Task |-> f[t].prompt[t]]
               screener == [t \in Task |-> f[t].screener[t]]
               tried == [t \in Task |-> f[t].tried[t]]
               hire == [t \in Task |-> f[t].hire[t]]
               stopped == UNION {f[t].stopped : t \in Task}
               started == \E t \in Task : f[t].started
    <2>2. v = [g EXCEPT !.task = task, !.prompt = prompt, !.screener = screener,
                        !.tried = tried, !.hire = hire, !.stopped = stopped,
                        !.started = started]
      BY <1>2, <2>1 DEF Pass
    <2>3. \A t \in Task : /\ f[t].task[t] \in TaskState /\ f[t].prompt[t] \in Prompts
                          /\ f[t].screener[t] \in SUBSET Screeners
                          /\ f[t].tried[t] \in 0..MaxScreeningAttempts
                          /\ f[t].hire[t] \in Hires /\ f[t].stopped \in SUBSET Task
      <3> SUFFICES ASSUME NEW t \in Task
                   PROVE  /\ f[t].task[t] \in TaskState /\ f[t].prompt[t] \in Prompts
                          /\ f[t].screener[t] \in SUBSET Screeners
                          /\ f[t].tried[t] \in 0..MaxScreeningAttempts
                          /\ f[t].hire[t] \in Hires /\ f[t].stopped \in SUBSET Task
        OBVIOUS
      <3>1. f[t] \in Runs
        BY DEF Serves
      <3> QED
        BY <3>1, RunFields
    <2>4. /\ task \in [Task -> TaskState] /\ prompt \in [Task -> Prompts]
          /\ screener \in [Task -> SUBSET Screeners]
          /\ tried \in [Task -> 0..MaxScreeningAttempts]
          /\ hire \in [Task -> Hires] /\ stopped \in SUBSET Task /\ started \in BOOLEAN
      BY <2>3
    <2>5. \A t \in Task : /\ task[t] = f[t].task[t] /\ prompt[t] = f[t].prompt[t]
                          /\ screener[t] = f[t].screener[t] /\ hire[t] = f[t].hire[t]
      OBVIOUS
    <2> HIDE DEF task, prompt, screener, tried, hire, stopped, started
    <2>6. /\ v \in Runs /\ v.plan = g.plan /\ v.version = g.version
          /\ v.versions = g.versions /\ v.change = g.change /\ v.task = task /\ v.prompt = prompt
          /\ v.screener = screener /\ v.hire = hire
      BY <2>2, <2>4 DEF Runs
    <2>7. ASSUME NEW t \in Task PROVE Sound(v, t)
      <3>1. Sound(f[t], t) /\ f[t].plan = g.plan /\ f[t].version = g.version
        BY DEF Serves
      <3> QED
        BY <2>5, <2>6, <3>1, SoundHere
    <2>8. Settled(v) = Settled(g)
      BY <2>5, <2>6 DEF Settled, Serves
    <2>9. Bounded(v)
      BY <2>6 DEF Bounded
    <2> QED
      BY <2>1, <2>6, <2>7, <2>8, <2>9 DEF Good, SameGround
  <1> QED
    BY <1>1, <1>2

\* A handler that leaves a good run leaves one after its pass.
LEMMA AfterServes ==
    ASSUME NEW s, Good(s), usable \subseteq Pack, After(s)
    PROVE  Good(run') /\ SameGround(s, run')
  <1>1. PICK brief \in BOOLEAN :
           run' = Pass(StaffingGate(s), [t \in Task |-> Served(StaffingGate(s), t, brief)])
    BY DEF After
  <1>2. s \in Runs
    BY DEF Good
  <1>3. PICK g : g = StaffingGate(s)
    OBVIOUS
  <1>4. PICK roster \in SUBSET Task : g = [s EXCEPT !.roster = roster]
    BY <1>2, <1>3, GateStaffs
  <1>5. /\ g \in Runs /\ g.plan = s.plan /\ g.version = s.version /\ g.versions = s.versions
        /\ g.task = s.task /\ g.prompt = s.prompt /\ g.screener = s.screener
        /\ g.hire = s.hire /\ g.change = s.change
    BY <1>2, <1>4 DEF Runs
  <1>6. ASSUME NEW t \in Task PROVE Sound(g, t)
    BY <1>5, SoundHere DEF Good
  <1>7. Settled(g) = Settled(s)
    BY <1>5 DEF Settled
  <1>8. \A t \in Task : t \notin g.roster /\ g.task[t] # "VERIFIED" => CanLead(g.plan[t], RoleOf[t])
    BY <1>2, <1>3, <1>5, GateStaffs DEF Settled
  <1> DEFINE f == [t \in Task |-> Served(g, t, brief)]
  <1>9. ASSUME NEW t \in Task PROVE Serves(g, f[t], t)
    BY <1>5, <1>6, <1>8, ServedServes
  <1>10. run' = Pass(g, f)
    BY <1>1, <1>3
  <1> HIDE DEF f
  <1>11. Good(run') /\ SameGround(g, run')
    BY <1>5, <1>6, <1>9, <1>10, PassServes DEF Good, Bounded
  <1> QED
    BY <1>5, <1>7, <1>11 DEF SameGround

-----------------------------------------------------------------------------
(* The steps                                                                 *)

\* A handler that changes what the run holds of one task.
LEMMA OneTask ==
    ASSUME NEW s, Good(s), NEW v \in Runs, NEW t \in Task,
           v.plan = s.plan, v.version = s.version, Bounded(v), Sound(v, t),
           \A u \in Task \ {t} : /\ v.task[u] = s.task[u] /\ v.prompt[u] = s.prompt[u]
                                 /\ v.screener[u] = s.screener[u] /\ v.hire[u] = s.hire[u]
    PROVE  Good(v)
  <1>1. ASSUME NEW u \in Task PROVE Sound(v, u)
    <2>1. CASE u = t
      BY <2>1
    <2>2. CASE u # t
      <3>1. Sound(s, u)
        BY DEF Good
      <3> QED
        BY <2>2, <3>1, SoundHere
    <2> QED
      BY <2>1, <2>2
  <1> QED
    BY <1>1 DEF Good

\* A task that leaves its worker, or is put off, for a state in which nobody works.
PutDown(s, t, to, change) ==
    [s EXCEPT !.task[t] = to, !.prompt[t] = NoPrompt, !.change = change]

LEMMA PutDownServes ==
    ASSUME NEW s \in Runs, Good(s), NEW t \in Task, NEW to \in TaskState \ Active,
           s.screener[t] = {} \/ to \in {"READY", "BLOCKED"},
           NEW change \in Changes, change # NoChange => s.version < s.versions
    PROVE  LET v == PutDown(s, t, to, change)
           IN  /\ Good(v) /\ v.plan = s.plan /\ v.version = s.version
               /\ v.versions = s.versions /\ v.change = change
               /\ \A u \in Task : v.task[u] = IF u = t THEN to ELSE s.task[u]
  <1>1. PICK v : v = PutDown(s, t, to, change)
    OBVIOUS
  <1>2. PICK p \in Prompts : p = NoPrompt
    BY DEF NoPrompt, Prompts
  <1>3. p.skills = {}
    BY <1>2 DEF NoPrompt
  <1>4. s \in Runs /\ Bounded(s) /\ Sound(s, t)
    BY DEF Good
  <1>5. v = [s EXCEPT !.task[t] = to, !.prompt[t] = p, !.change = change]
    BY <1>1, <1>2 DEF PutDown
  <1>6. /\ v \in Runs /\ v.plan = s.plan /\ v.version = s.version
        /\ v.versions = s.versions /\ v.change = change
        /\ v.task = [s.task EXCEPT ![t] = to] /\ v.prompt = [s.prompt EXCEPT ![t] = p]
        /\ v.screener = s.screener /\ v.hire = s.hire
    BY <1>4, <1>5 DEF Runs
  <1>7. v.task[t] = to /\ v.prompt[t] = p
    BY <1>4, <1>6, RunFields
  <1>8. \A u \in Task \ {t} : v.task[u] = s.task[u] /\ v.prompt[u] = s.prompt[u]
    BY <1>4, <1>6, RunFields
  <1>9. Bounded(v)
    BY <1>4, <1>6 DEF Bounded
  <1>10. Sound(v, t)
    BY <1>2, <1>3, <1>4, <1>6, <1>7 DEF Sound, Dated, Screening, Prompted, Led, Active
  <1>11. Good(v)
    BY <1>6, <1>8, <1>9, <1>10, OneTask
  <1> QED
    BY <1>1, <1>6, <1>7, <1>8, <1>11

\* The sessions of screeners end and hires are made.
LEMMA ScreenersChange ==
    ASSUME NEW s, Good(s), NEW t \in Task, NEW zs \in SUBSET Screeners, NEW h \in Hires,
           \A y, z \in zs : y = z, \A z \in zs : z.for <= s.version,
           zs # {} => s.screener[t] # {}, h.for <= s.version, NEW stopped \in SUBSET Task
    PROVE  LET v == [s EXCEPT !.screener[t] = zs, !.hire[t] = h, !.stopped = stopped]
           IN  Good(v) /\ SameGround(s, v)
  <1>1. PICK v : v = [s EXCEPT !.screener[t] = zs, !.hire[t] = h, !.stopped = stopped]
    OBVIOUS
  <1>2. s \in Runs /\ Bounded(s) /\ Sound(s, t)
    BY DEF Good
  <1>3. /\ v \in Runs /\ v.plan = s.plan /\ v.version = s.version
        /\ v.versions = s.versions /\ v.change = s.change /\ v.task = s.task
        /\ v.prompt = s.prompt /\ v.screener = [s.screener EXCEPT ![t] = zs]
        /\ v.hire = [s.hire EXCEPT ![t] = h]
    BY <1>1, <1>2 DEF Runs
  <1>4. v.screener[t] = zs /\ v.hire[t] = h
    BY <1>2, <1>3, RunFields
  <1>5. \A u \in Task \ {t} : v.screener[u] = s.screener[u] /\ v.hire[u] = s.hire[u]
    BY <1>2, <1>3, RunFields
  <1>6. Bounded(v)
    BY <1>2, <1>3 DEF Bounded
  <1>7. Sound(v, t)
    BY <1>2, <1>3, <1>4 DEF Sound, Dated, Screening, Prompted, Led
  <1>8. /\ v \in Runs /\ v.plan = s.plan /\ v.version = s.version
        /\ \A u \in Task \ {t} :
             /\ v.task[u] = s.task[u] /\ v.prompt[u] = s.prompt[u]
             /\ v.screener[u] = s.screener[u] /\ v.hire[u] = s.hire[u]
    <2>1. v.task = s.task /\ v.prompt = s.prompt
      BY <1>3
    <2>2. \A u \in Task \ {t} : v.task[u] = s.task[u] /\ v.prompt[u] = s.prompt[u]
      BY <2>1
    <2> QED
      BY <1>3, <1>5, <2>2
  <1>9. Good(v)
    BY ONLY Good(s), t \in Task, <1>6, <1>7, <1>8, OneTask
  <1> QED
    BY <1>1, <1>3, <1>9 DEF SameGround, Settled

\* What the standard of the professions rests on is untouched.
LEMMA UpheldStays ==
    ASSUME IInv, Settled(run') = Settled(run), run'.plan = run.plan, standard' = standard
    PROVE  \A role \in Role : Upheld(run.plan, Settled(run), role)'
  BY DEF IInv, Upheld, Staff

\* A handler that changes neither the plan nor what is accepted.
LEMMA QuietStep ==
    ASSUME IInv, NEW s, Good(s), s.plan = run.plan, Settled(s) = Settled(run), After(s),
           UNCHANGED <<usable, standard>>
    PROVE  IInv'
  <1>1. Good(run') /\ SameGround(s, run')
    BY AfterServes DEF IInv
  <1>2. Settled(run') = Settled(run) /\ run'.plan = run.plan
    BY <1>1 DEF SameGround
  <1>3. \A role \in Role : Upheld(run.plan, Settled(run), role)'
    BY <1>2, UpheldStays
  <1>4. Good(run)'
    BY <1>1 DEF Good, Bounded, Sound, Dated, Screening, Prompted, Led
  <1> QED
    BY <1>3, <1>4 DEF IInv

LEMMA SweepStep == ASSUME IInv, Sweep PROVE IInv'
  BY QuietStep DEF Sweep, IInv

LEMMA AnswerStep == ASSUME IInv, AnswerScreening PROVE IInv'
  <1>1. PICK t \in Task : \E z \in run.screener[t] :
           \/ RefuseRequisition(t, z)
           \/ \E asked \in Requisitions : \E admitted \in Admitted(asked) :
                 Hire(t, z, Resolved(asked) \cup admitted)
    BY DEF AnswerScreening
  <1>2. Good(run) /\ run \in Runs /\ usable \subseteq Pack
    BY DEF IInv, Good
  <1>3. run.screener[t] \in SUBSET Screeners /\ run.hire[t] \in Hires /\ run.stopped \in SUBSET Task
    BY <1>2, RunFields
  <1>4. PICK z \in run.screener[t] :
           \/ RefuseRequisition(t, z)
           \/ \E asked \in Requisitions : \E admitted \in Admitted(asked) :
                 Hire(t, z, Resolved(asked) \cup admitted)
    BY <1>1
  <1>5. PICK zs \in SUBSET Screeners : zs = run.screener[t] \ {z}
    BY <1>3
  <1>6. /\ \A x, y \in zs : x = y
        /\ \A y \in zs : y.for <= run.version
        /\ zs # {} => run.screener[t] # {}
        /\ z.for <= run.version /\ run.hire[t].for <= run.version
    BY <1>2, <1>5 DEF Good, Sound, Dated, Screening
  <1>7. CASE RefuseRequisition(t, z)
    <2>1. PICK s : s = [run EXCEPT !.screener[t] = zs, !.hire[t] = run.hire[t],
                                   !.stopped = run.stopped]
      OBVIOUS
    <2>2. Good(s) /\ SameGround(run, s)
      BY <1>2, <1>3, <1>6, <2>1, ScreenersChange
    <2>3. s = [run EXCEPT !.screener[t] = @ \ {z}]
      BY <1>2, <1>5, <2>1 DEF Runs
    <2>4. After(s) /\ UNCHANGED <<usable, standard>>
      BY <1>7, <2>3 DEF RefuseRequisition
    <2> QED
      BY <2>2, <2>4, QuietStep DEF SameGround
  <1>8. ASSUME NEW skills \in SUBSET Skill, Hire(t, z, skills)
        PROVE  IInv'
    <2>1. PICK h \in Hires : h = [for |-> z.for, skills |-> skills]
      BY <1>3 DEF Hires, Screeners
    <2>2. h.for <= run.version
      BY <1>6, <2>1
    <2>3. PICK s : s = [run EXCEPT !.screener[t] = zs, !.hire[t] = h, !.stopped = run.stopped]
      OBVIOUS
    <2>4. Good(s) /\ SameGround(run, s)
      BY <1>2, <1>3, <1>6, <2>2, <2>3, ScreenersChange
    <2>5. s = [run EXCEPT !.screener[t] = @ \ {z}, !.hire[t] = [for |-> z.for, skills |-> skills]]
      BY <1>2, <1>5, <2>1, <2>3 DEF Runs
    <2>6. After(s) /\ UNCHANGED <<usable, standard>>
      BY <1>8, <2>5 DEF Hire
    <2> QED
      BY <2>4, <2>6, QuietStep DEF SameGround
  <1>9. \A asked \in Requisitions : \A admitted \in Admitted(asked) :
           Resolved(asked) \cup admitted \in SUBSET Skill
    BY <1>2 DEF Requisitions, Admitted, Resolved, Skill
  <1> QED
    BY <1>4, <1>7, <1>8, <1>9

LEMMA LoseStep == ASSUME IInv, LoseScreener PROVE IInv'
  <1>1. PICK t \in Task : \E z \in run.screener[t] :
           /\ run' = [run EXCEPT !.screener[t] = (@ \ {z}) \cup {[z EXCEPT !.lost = TRUE]},
                                 !.stopped = @ \cup {t}]
           /\ UNCHANGED <<usable, standard>>
    BY DEF LoseScreener
  <1>2. PICK z \in run.screener[t] :
           /\ run' = [run EXCEPT !.screener[t] = (@ \ {z}) \cup {[z EXCEPT !.lost = TRUE]},
                                 !.stopped = @ \cup {t}]
           /\ UNCHANGED <<usable, standard>>
    BY <1>1
  <1>3. Good(run) /\ run \in Runs
    BY DEF IInv, Good
  <1>4. run.screener[t] \in SUBSET Screeners /\ run.hire[t] \in Hires /\ run.stopped \in SUBSET Task
    BY <1>3, RunFields
  <1>5. PICK y \in Screeners : y = [z EXCEPT !.lost = TRUE] /\ y.for = z.for
    <2>1. z \in Screeners
      BY <1>4
    <2>2. [z EXCEPT !.lost = TRUE] \in Screeners /\ [z EXCEPT !.lost = TRUE].for = z.for
      BY <2>1 DEF Screeners
    <2> QED
      BY <2>2
  <1>6. /\ \A a, b \in run.screener[t] : a = b
        /\ z.for <= run.version /\ run.hire[t].for <= run.version
    BY <1>3 DEF Good, Sound, Dated, Screening
  <1>7. (run.screener[t] \ {z}) \cup {y} = {y}
    BY <1>6
  <1>8. PICK stopped \in SUBSET Task : stopped = run.stopped \cup {t}
    BY <1>4
  <1>9. run' = [run EXCEPT !.screener[t] = {y}, !.hire[t] = run.hire[t], !.stopped = stopped]
    <2>1. run' = [run EXCEPT !.screener[t] = {y}, !.stopped = stopped]
      BY <1>2, <1>5, <1>7, <1>8
    <2> QED
      BY <1>3, <2>1 DEF Runs
  <1>10. Good(run') /\ SameGround(run, run')
    BY <1>3, <1>4, <1>5, <1>6, <1>9, ScreenersChange
  <1>11. \A role \in Role : Upheld(run.plan, Settled(run), role)'
    BY <1>2, <1>10, UpheldStays DEF SameGround
  <1> QED
    BY <1>2, <1>10, <1>11 DEF IInv, Good, Bounded, Sound, Dated, Screening, Prompted, Led

LEMMA FinishStep == ASSUME IInv, Finish PROVE IInv'
  <1>1. PICK t \in Task, to \in {"IMPLEMENTED", "READY"} :
           /\ run.task[t] \in {"RUNNING", "REVISING"}
           /\ After([run EXCEPT !.task[t] = to, !.prompt[t] = NoPrompt])
           /\ UNCHANGED <<usable, standard>>
    BY DEF Finish
  <1>2. Good(run) /\ run \in Runs /\ Sound(run, t)
    BY DEF IInv, Good
  <1>3. run.change \in Changes /\ (run.change # NoChange => run.version < run.versions)
    BY <1>2, RunFields DEF Good, Bounded
  <1>4. run.screener[t] = {}
    BY <1>1, <1>2 DEF Sound, Screening
  <1>5. to \in TaskState \ Active
    BY DEF TaskState, Active
  <1>6. PICK s : s = PutDown(run, t, to, run.change)
    OBVIOUS
  <1>7. /\ Good(s) /\ s.plan = run.plan /\ s.version = run.version
        /\ s.versions = run.versions /\ s.change = run.change
        /\ \A u \in Task : s.task[u] = IF u = t THEN to ELSE run.task[u]
    BY <1>2, <1>3, <1>4, <1>5, <1>6, PutDownServes
  <1>8. s = [run EXCEPT !.task[t] = to, !.prompt[t] = NoPrompt]
    BY <1>2, <1>6 DEF Runs, PutDown
  <1>9. Settled(s) = Settled(run)
    BY <1>1, <1>2, <1>7, RunFields DEF Settled
  <1> QED
    BY <1>1, <1>7, <1>8, <1>9, QuietStep

\* The first acceptance of a profession is of a task with a lead, whose lead its standard
\* then has among all that the profession names.
LEMMA JudgeStep == ASSUME IInv, Judge PROVE IInv'
  <1>1. PICK t \in Task, to \in {"VERIFIED", "REVISION_REQUIRED"} :
           /\ run.task[t] = "VERIFYING"
           /\ After([run EXCEPT !.task[t] = to, !.prompt[t] = NoPrompt])
           /\ standard' = IF to = "VERIFIED" /\ standard[RoleOf[t]] = {}
                          THEN [standard EXCEPT ![RoleOf[t]] = StandardOf(run.plan, RoleOf[t])]
                          ELSE standard
           /\ UNCHANGED usable
    BY DEF Judge
  <1>2. Good(run) /\ run \in Runs /\ Sound(run, t) /\ usable \subseteq Pack
    BY DEF IInv, Good
  <1>3. run.change \in Changes /\ (run.change # NoChange => run.version < run.versions)
    BY <1>2, RunFields DEF Good, Bounded
  <1>4. run.screener[t] = {} /\ CanLead(run.plan[t], RoleOf[t])
    BY <1>1, <1>2 DEF Sound, Screening, Led, Active
  <1>5. to \in TaskState \ Active
    BY DEF TaskState, Active
  <1>6. PICK s : s = PutDown(run, t, to, run.change)
    OBVIOUS
  <1>7. /\ Good(s) /\ s.plan = run.plan
        /\ \A u \in Task : s.task[u] = IF u = t THEN to ELSE run.task[u]
    BY <1>2, <1>3, <1>4, <1>5, <1>6, PutDownServes
  <1>8. s = [run EXCEPT !.task[t] = to, !.prompt[t] = NoPrompt]
    BY <1>2, <1>6 DEF Runs, PutDown
  <1>9. Good(run') /\ SameGround(s, run')
    BY <1>1, <1>2, <1>7, <1>8, AfterServes
  <1>10. /\ run'.plan = run.plan /\ Settled(run) \subseteq Settled(run')
         /\ to = "VERIFIED" => t \in Settled(run')
    BY <1>1, <1>7, <1>9 DEF SameGround, Settled
  <1>11. RoleOf[t] \in Role /\ standard \in [Role -> SUBSET Role]
    BY LeadsAssumption DEF IInv
  <1>12. StandardOf(run.plan, RoleOf[t]) \in SUBSET Role
    BY DEF StandardOf, CanLead
  <1>13. standard' \in [Role -> SUBSET Role]
    BY <1>1, <1>11, <1>12
  <1>14. ASSUME NEW role \in Role PROVE Upheld(run.plan, Settled(run), role)'
    <2>1. CASE standard'[role] = standard[role]
      BY <1>10, <2>1 DEF Upheld, IInv
    <2>2. CASE standard'[role] # standard[role]
      <3>1. role = RoleOf[t] /\ standard'[role] = StandardOf(run.plan, role) /\ to = "VERIFIED"
        BY <1>1, <1>11, <2>2
      <3>2. t \in Staff(role) \cap Settled(run')
        BY <1>10, <3>1 DEF Staff
      <3>3. \A u \in Staff(role) : CanLead(run.plan[u], role) => run.plan[u] \in standard'[role]
        BY <3>1 DEF StandardOf
      <3> QED
        BY <1>4, <1>10, <3>1, <3>2, <3>3 DEF Upheld
    <2> QED
      BY <2>1, <2>2
  <1> QED
    BY <1>1, <1>2, <1>9, <1>13, <1>14
    DEF IInv, Good, Bounded, Sound, Dated, Screening, Prompted, Led

LEMMA CatalogStep == ASSUME IInv, MoveCatalog PROVE IInv'
  BY DEF MoveCatalog, IInv, Good, Bounded, Sound, Dated, Screening, Prompted, Led, Upheld

LEMMA RequestStep == ASSUME IInv, RequestChange PROVE IInv'
  <1>1. PICK t \in Task \ Settled(run) :
        /\ run.change = NoChange /\ run.version < run.versions
        /\ run.task[t] = "RUNNING" \/ (t \in Held(run) /\ run.task[t] \notin Active)
        /\ After([run EXCEPT !.task[t] = "BLOCKED", !.prompt[t] = NoPrompt,
                             !.change = [by |-> t, whole |-> t \in run.roster]])
        /\ UNCHANGED <<usable, standard>>
    BY DEF RequestChange
  <1>2. Good(run) /\ run \in Runs
    BY DEF IInv, Good
  <1>3. PICK change \in Changes : change = [by |-> t, whole |-> t \in run.roster]
    <2>1. PICK whole \in BOOLEAN : whole = (t \in run.roster)
      <3>1. (t \in run.roster) \in BOOLEAN
        OBVIOUS
      <3> QED
        BY <3>1, Zenon
    <2>2. t \in Task
      OBVIOUS
    <2>3. [by |-> t, whole |-> whole] \in [by : Task, whole : BOOLEAN]
      BY <2>2
    <2> QED
      BY <2>1, <2>3 DEF Changes
  <1>4. "BLOCKED" \in TaskState \ Active
    BY DEF TaskState, Active
  <1>5. PICK s : s = PutDown(run, t, "BLOCKED", change)
    OBVIOUS
  <1>6. /\ Good(s) /\ s.plan = run.plan
        /\ \A u \in Task : s.task[u] = IF u = t THEN "BLOCKED" ELSE run.task[u]
    BY <1>1, <1>2, <1>4, <1>5, PutDownServes
  <1>7. Settled(s) = Settled(run)
    BY <1>1, <1>6 DEF Settled
  <1>8. After(s)
    BY <1>1, <1>3, <1>5 DEF PutDown
  <1> QED
    BY <1>1, <1>6, <1>7, <1>8, QuietStep

\* Tickets open and close.
LEMMA TicketsServe ==
    ASSUME NEW s \in Runs, Good(s), NEW v \in Runs, v.plan = s.plan, v.version = s.version,
           v.task = s.task, v.prompt = s.prompt, v.screener = s.screener, v.hire = s.hire,
           Bounded(v)
    PROVE  Good(v) /\ v.plan = s.plan /\ Settled(v) = Settled(s)
  <1>1. ASSUME NEW t \in Task PROVE Sound(v, t)
    BY SoundHere DEF Good
  <1> QED
    BY <1>1 DEF Good, Settled

LEMMA RefuseStep == ASSUME IInv, RefuseChange PROVE IInv'
  <1>1. run.change # NoChange /\ Good(run) /\ run \in Runs
    BY DEF IInv, Good, RefuseChange
  <1>2. run.change \in Changes /\ run.stopped \in SUBSET Task
    BY <1>1, RunFields
  <1>3. run.change.by \in Task
    BY <1>1, <1>2 DEF Changes
  <1>4. PICK stopped \in SUBSET Task : stopped = run.stopped \cup {run.change.by}
    BY <1>2, <1>3
  <1>5. PICK s : s = [run EXCEPT !.change = NoChange, !.stopped = stopped]
    OBVIOUS
  <1>6. NoChange \in Changes
    BY DEF Changes
  <1>7. /\ s \in Runs /\ s.plan = run.plan /\ s.version = run.version
        /\ s.versions = run.versions /\ s.change = NoChange /\ s.task = run.task
        /\ s.prompt = run.prompt /\ s.screener = run.screener /\ s.hire = run.hire
    BY <1>1, <1>5, <1>6 DEF Runs
  <1>8. Bounded(s)
    BY <1>1, <1>7 DEF Good, Bounded
  <1>9. Good(s) /\ s.plan = run.plan /\ Settled(s) = Settled(run)
    BY <1>1, <1>7, <1>8, TicketsServe
  <1>10. After(s) /\ UNCHANGED <<usable, standard>>
    BY <1>4, <1>5 DEF RefuseChange
  <1> QED
    BY <1>9, <1>10, QuietStep

LEMMA CloseStep == ASSUME IInv, CloseTicket PROVE IInv'
  <1>1. Good(run) /\ run \in Runs
    BY DEF IInv, Good
  <1>2. UNCHANGED <<usable, standard>>
    BY DEF CloseTicket
  <1>3. CASE After([run EXCEPT !.roster = {}])
    <2>1. PICK s : s = [run EXCEPT !.roster = {}]
      OBVIOUS
    <2>2. /\ s \in Runs /\ s.plan = run.plan /\ s.version = run.version
          /\ s.versions = run.versions /\ s.change = run.change /\ s.task = run.task
          /\ s.prompt = run.prompt /\ s.screener = run.screener /\ s.hire = run.hire
      BY <1>1, <2>1 DEF Runs
    <2>3. Bounded(s)
      BY <1>1, <2>2 DEF Good, Bounded
    <2>4. Good(s) /\ s.plan = run.plan /\ Settled(s) = Settled(run)
      BY <1>1, <2>2, <2>3, TicketsServe
    <2> QED
      BY <1>2, <1>3, <2>1, <2>4, QuietStep
  <1>4. ASSUME NEW t \in Task,
               After([run EXCEPT !.stopped = @ \ {t},
                                 !.task[t] = IF @ = "BLOCKED" /\ run.change.by # t
                                             THEN "READY" ELSE @])
        PROVE  IInv'
    <2>1. run.task[t] \in TaskState /\ run.stopped \in SUBSET Task
      BY <1>1, RunFields
    <2>2. PICK to \in TaskState :
             to = IF run.task[t] = "BLOCKED" /\ run.change.by # t THEN "READY" ELSE run.task[t]
      BY <2>1 DEF TaskState
    <2>3. PICK stopped \in SUBSET Task : stopped = run.stopped \ {t}
      BY <2>1
    <2>4. PICK s : s = [run EXCEPT !.stopped = stopped, !.task[t] = to]
      OBVIOUS
    <2>5. /\ s \in Runs /\ s.plan = run.plan /\ s.version = run.version
          /\ s.versions = run.versions /\ s.change = run.change
          /\ s.task = [run.task EXCEPT ![t] = to]
          /\ s.prompt = run.prompt /\ s.screener = run.screener /\ s.hire = run.hire
      BY <1>1, <2>4 DEF Runs
    <2>6. \A u \in Task : s.task[u] = IF u = t THEN to ELSE run.task[u]
      BY <1>1, <2>5, RunFields
    <2>7. Bounded(s)
      BY <1>1, <2>5 DEF Good, Bounded
    <2>8. Sound(run, t)
      BY <1>1 DEF Good
    <2>9. Sound(s, t)
      BY <2>2, <2>5, <2>6, <2>8 DEF Sound, Dated, Screening, Prompted, Led, Active
    <2>10. Good(s)
      BY <1>1, <2>5, <2>6, <2>7, <2>9, OneTask
    <2>11. Settled(s) = Settled(run)
      BY <2>2, <2>6 DEF Settled
    <2>12. After(s)
      BY <1>4, <2>2, <2>3, <2>4
    <2> QED
      BY <1>2, <2>5, <2>10, <2>11, <2>12, QuietStep
  <1>5. run.stopped \in SUBSET Task
    BY <1>1, RunFields
  <1> QED
    BY <1>3, <1>4, <1>5 DEF CloseTicket

-----------------------------------------------------------------------------
(* Changes of the plan                                                       *)

\* A set that is not divided and has a member has that one alone.
LEMMA Undivided ==
    ASSUME NEW S, IsFiniteSet(S), ~(Cardinality(S) > 1), NEW x \in S
    PROVE  S = {x}
  <1>1. SUFFICES ASSUME NEW y \in S, y # x PROVE FALSE
    OBVIOUS
  <1>2. {x, y} \subseteq S /\ IsFiniteSet({x}) /\ Cardinality({x}) = 1
    BY FS_Singleton
  <1>3. Cardinality({x} \cup {y}) = 2
    BY <1>1, <1>2, FS_AddElement
  <1>4. {x, y} = {x} \cup {y}
    OBVIOUS
  <1>5. Cardinality({x, y}) <= Cardinality(S)
    BY <1>2, FS_Subset
  <1>6. Cardinality(S) \in Nat
    BY FS_CardinalityType
  <1> QED
    BY <1>3, <1>4, <1>5, <1>6

LEMMA NamedFinite ==
    ASSUME NEW plan, NEW tasks \in SUBSET Task
    PROVE  IsFiniteSet(NamedBy(plan, tasks))
  <1>1. IsFiniteSet(tasks)
    BY LeadsAssumption, FS_Subset
  <1> DEFINE named == {plan[t] : t \in tasks}
             name == [t \in tasks |-> plan[t]]
  <1>2. name \in Surjection(tasks, named)
    <2>1. name \in [tasks -> named] /\ \A x \in named : \E t \in tasks : name[t] = x
      OBVIOUS
    <2> QED
      BY <2>1, Fun_IsSurj
  <1>3. IsFiniteSet(named)
    BY <1>1, <1>2, FS_Surjection
  <1> QED
    BY <1>3, FS_Subset DEF NamedBy

\* R30 through a change: whatever lead an admissible change gives to a task of a
\* profession with a standard, some task of the profession already named.
LEMMA LeadsAreKept ==
    ASSUME NEW s \in Runs, NEW next \in Plan, NEW by \in Task, NEW whole \in BOOLEAN,
           NEW rewritten \in SUBSET Task, by \in rewritten,
           Admissible(s, next, by, whole, rewritten),
           NEW role \in Role, standard[role] # {}, Upheld(s.plan, Settled(s), role),
           NEW u \in Staff(role), CanLead(next[u], role)
    PROVE  \E t \in Staff(role) : s.plan[t] = next[u]
  <1> DEFINE settled == Settled(s)
             same == {t \in Task \ rewritten : next[t] = s.plan[t]}
             history == History(next, settled, s.plan)
  <1>1. /\ \A t \in settled : next[t] = s.plan[t] /\ t \notin rewritten
        /\ Faulty(next, same, settled, s.plan) = {}
        /\ \A t \in Task \ (rewritten \cup same \cup {by}) :
              \/ ProfessionLeads(s.plan, RoleOf[t]) = {}
              \/ next[t] \in ProfessionLeads(s.plan, RoleOf[t])
    BY DEF Admissible
  <1>2. PICK t \in Staff(role) \cap settled : CanLead(s.plan[t], role)
    BY DEF Upheld
  <1>3. history = settled
    BY <1>1 DEF History
  <1>4. u \in Task /\ RoleOf[u] = role /\ next[u] \in Role \ {role} /\ NoLead \notin Role
    BY LeadsAssumption DEF Staff, CanLead
  <1>5. CASE u \in settled \/ u \in same
    BY <1>1, <1>5
  <1>6. CASE u \notin settled /\ u \in rewritten
    <2>1. role \notin Divided(next, settled, s.plan) \cup Moved(next, settled, s.plan)
      BY <1>1, <1>3, <1>4, <1>6 DEF Faulty
    <2> DEFINE named == NamedBy(next, Staff(role) \ settled)
    <2>2. next[u] \in named
      BY <1>4, <1>6 DEF NamedBy
    <2>3. ~(Cardinality(named) > 1)
      BY <1>3, <2>1 DEF Divided
    <2>4. IsFiniteSet(named)
      BY NamedFinite DEF Staff
    <2>5. named = {next[u]}
      BY <2>2, <2>3, <2>4, Undivided
    <2>6. next[t] \in Accepted(next, role, history)
      BY <1>1, <1>2, <1>3 DEF Accepted
    <2>7. next[u] \in Accepted(next, role, history) \cup Kept(s.plan, role, settled)
      BY <1>3, <1>4, <2>1, <2>5, <2>6 DEF Moved
    <2>8. CASE next[u] \in Accepted(next, role, history)
      BY <1>1, <1>3, <2>8 DEF Accepted
    <2>9. CASE next[u] \in Kept(s.plan, role, settled)
      BY <2>9 DEF Kept
    <2> QED
      BY <2>7, <2>8, <2>9
  <1>7. CASE u \notin rewritten /\ u \notin same
    <2>1. s.plan[t] \in ProfessionLeads(s.plan, role)
      BY <1>2, <1>4 DEF ProfessionLeads, NamedBy, CanLead
    <2>2. next[u] \in ProfessionLeads(s.plan, role)
      BY <1>1, <1>4, <1>7, <2>1
    <2> QED
      BY <2>2 DEF ProfessionLeads, NamedBy
  <1> QED
    BY <1>5, <1>6, <1>7

LEMMA UpheldThrough ==
    ASSUME NEW s \in Runs, NEW next \in Plan, NEW by \in Task, NEW whole \in BOOLEAN,
           NEW rewritten \in SUBSET Task, by \in rewritten,
           Admissible(s, next, by, whole, rewritten),
           NEW role \in Role, Upheld(s.plan, Settled(s), role)
    PROVE  Upheld(next, Settled(s), role)
  <1> SUFFICES ASSUME standard[role] # {}
               PROVE  /\ \E t \in Staff(role) \cap Settled(s) : CanLead(next[t], role)
                      /\ \A u \in Staff(role) : CanLead(next[u], role) => next[u] \in standard[role]
    BY DEF Upheld
  <1>1. \A t \in Settled(s) : next[t] = s.plan[t]
    BY DEF Admissible
  <1>2. \E t \in Staff(role) \cap Settled(s) : CanLead(next[t], role)
    BY <1>1 DEF Upheld
  <1>3. ASSUME NEW u \in Staff(role), CanLead(next[u], role)
        PROVE  next[u] \in standard[role]
    <2>1. PICK t \in Staff(role) : s.plan[t] = next[u]
      BY <1>3, LeadsAreKept
    <2> QED
      BY <1>3, <2>1 DEF Upheld
  <1> QED
    BY <1>2, <1>3

LEMMA ApplyStep == ASSUME IInv, ApplyChange PROVE IInv'
  <1>1. PICK next \in Plan, others \in SUBSET (Task \ {run.change.by}) :
          /\ Admissible(run, next, run.change.by, run.change.whole, others \cup {run.change.by})
          /\ After([run EXCEPT !.plan = next, !.version = @ + 1, !.change = NoChange,
                               !.tried = [t \in Task |-> 0],
                               !.task = [t \in Task |->
                                   IF t \in others \cup {run.change.by} THEN "READY"
                                                                        ELSE run.task[t]]])
    BY DEF ApplyChange
  <1>2. /\ Good(run) /\ run \in Runs /\ usable \subseteq Pack
        /\ run.change # NoChange /\ UNCHANGED <<usable, standard>>
        /\ \A t \in Task : run.task[t] \notin Active
    BY DEF IInv, Good, ApplyChange
  <1>3. run.change \in Changes
    BY <1>2, RunFields
  <1>4. run.change.by \in Task /\ run.change.whole \in BOOLEAN
    BY <1>2, <1>3 DEF Changes
  <1>5. PICK rewritten \in SUBSET Task : rewritten = others \cup {run.change.by}
    BY <1>4
  <1> DEFINE task == [t \in Task |-> IF t \in rewritten THEN "READY" ELSE run.task[t]]
             tried == [t \in Task |-> 0]
  <1>6. task \in [Task -> TaskState] /\ tried \in [Task -> 0..MaxScreeningAttempts]
    BY <1>2, RunFields DEF TaskState, MaxScreeningAttempts
  <1>7. \A t \in Task : task[t] = IF t \in rewritten THEN "READY" ELSE run.task[t]
    OBVIOUS
  <1>8. PICK s : s = [run EXCEPT !.plan = next, !.version = @ + 1, !.change = NoChange,
                                 !.tried = tried, !.task = task]
    OBVIOUS
  <1>9. After(s)
    BY <1>1, <1>5, <1>8
  <1> HIDE DEF task, tried
  <1>10. PICK version \in Nat \ {0} : version = run.version + 1
    BY <1>2, RunFields
  <1>11. NoChange \in Changes
    BY DEF Changes
  <1>12. /\ s \in Runs /\ s.plan = next /\ s.version = version
         /\ s.versions = run.versions /\ s.change = NoChange /\ s.task = task
         /\ s.prompt = run.prompt /\ s.screener = run.screener /\ s.hire = run.hire
    BY <1>2, <1>6, <1>8, <1>10, <1>11 DEF Runs
  <1>13. run.version \in Nat /\ run.versions \in Nat
    BY <1>2, RunFields
  <1>14. Bounded(s)
    BY <1>2, <1>10, <1>12, <1>13 DEF Good, Bounded
  <1>15. ASSUME NEW t \in Task PROVE Sound(s, t)
    <2>1. Sound(run, t) /\ run.task[t] \notin Active
      BY <1>2 DEF Good
    <2>2. run.screener[t] \in SUBSET Screeners /\ run.hire[t] \in Hires
      BY <1>2, RunFields
    <2>3. Dated(s, t)
      <3>1. run.hire[t].for \in Nat /\ \A z \in run.screener[t] : z.for \in Nat
        BY <2>2 DEF Screeners, Hires
      <3> QED
        BY <1>10, <1>12, <1>13, <2>1, <3>1 DEF Sound, Dated
    <2>4. s.task[t] \notin Active
      BY <1>7, <1>12, <2>1 DEF Active
    <2>5. Prompted(s, t)
      BY <1>12, <2>1, <2>4 DEF Sound, Prompted, Active
    <2>6. Screening(s, t) /\ Led(s, t)
      BY <1>7, <1>12, <2>1, <2>4 DEF Sound, Screening, Led
    <2> QED
      BY <2>3, <2>5, <2>6 DEF Sound
  <1>16. Good(s)
    BY <1>12, <1>14, <1>15 DEF Good
  <1>17. Admissible(run, next, run.change.by, run.change.whole, rewritten)
    BY <1>1, <1>5
  <1>18. Settled(s) = Settled(run)
    BY <1>7, <1>12, <1>17 DEF Admissible, Settled
  <1>19. ASSUME NEW role \in Role PROVE Upheld(next, Settled(run), role)
    <2>1. Upheld(run.plan, Settled(run), role)
      BY DEF IInv
    <2> QED
      BY <1>2, <1>4, <1>5, <1>17, <2>1, UpheldThrough
  <1>20. Good(run') /\ SameGround(s, run')
    BY <1>2, <1>9, <1>16, AfterServes
  <1>21. run'.plan = next /\ Settled(run') = Settled(run)
    BY <1>12, <1>18, <1>20 DEF SameGround
  <1>22. \A role \in Role : Upheld(run.plan, Settled(run), role)'
    BY <1>2, <1>19, <1>21 DEF Upheld
  <1>23. Good(run)'
    BY <1>20 DEF Good, Bounded, Sound, Dated, Screening, Prompted, Led
  <1> QED
    BY <1>2, <1>22, <1>23 DEF IInv

-----------------------------------------------------------------------------
(* The invariant                                                             *)

LEMMA InitIInv == ASSUME Init PROVE IInv
  <1>1. PICK start \in Starts :
          /\ run = [plan |-> start.plan, version |-> 1, screening |-> start.screening,
                    versions |-> start.versions,
                    task |-> [t \in Task |-> IF t \in start.settled THEN "VERIFIED" ELSE "READY"],
                    screener |-> [t \in Task |-> {}], tried |-> [t \in Task |-> 0],
                    hire |-> [t \in Task |-> NoHire], prompt |-> [t \in Task |-> NoPrompt],
                    roster |-> {}, stopped |-> {}, change |-> NoChange,
                    started |-> start.settled # {}]
          /\ standard = [role \in Role |->
                IF Accepted(start.plan, role, start.settled) = {} THEN {}
                ELSE StandardOf(start.plan, role)]
    BY DEF Init
  <1>2. /\ start.plan \in Plan /\ start.settled \in SUBSET Task
        /\ start.screening \in BOOLEAN /\ start.versions \in Nat \ {0}
    BY StaffingAssumption
  <1> DEFINE task == [t \in Task |-> IF t \in start.settled THEN "VERIFIED" ELSE "READY"]
             screener == [t \in Task |-> {}]
             tried == [t \in Task |-> 0]
             hire == [t \in Task |-> NoHire]
             prompt == [t \in Task |-> NoPrompt]
             started == start.settled # {}
  <1>3. NoHire \in Hires /\ NoPrompt \in Prompts /\ NoChange \in Changes
    BY DEF NoHire, Hires, NoPrompt, Prompts, Changes
  <1>4. NoHire.for = 0 /\ NoPrompt.skills = {}
    BY DEF NoHire, NoPrompt
  <1>5. /\ task \in [Task -> TaskState] /\ screener \in [Task -> SUBSET Screeners]
        /\ tried \in [Task -> 0..MaxScreeningAttempts] /\ hire \in [Task -> Hires]
        /\ prompt \in [Task -> Prompts] /\ started \in BOOLEAN
    BY <1>3 DEF TaskState, MaxScreeningAttempts
  <1>6. \A t \in Task : /\ task[t] = IF t \in start.settled THEN "VERIFIED" ELSE "READY"
                        /\ screener[t] = {} /\ hire[t] = NoHire /\ prompt[t] = NoPrompt
    OBVIOUS
  <1>7. run = [plan |-> start.plan, version |-> 1, screening |-> start.screening,
               versions |-> start.versions, task |-> task, screener |-> screener,
               tried |-> tried, hire |-> hire, prompt |-> prompt, roster |-> {},
               stopped |-> {}, change |-> NoChange, started |-> started]
    BY <1>1
  <1> HIDE DEF task, screener, tried, hire, prompt, started
  <1>8. /\ run \in Runs /\ run.plan = start.plan /\ run.version = 1
        /\ run.versions = start.versions /\ run.change = NoChange /\ run.task = task
        /\ run.screener = screener /\ run.hire = hire /\ run.prompt = prompt
    BY <1>2, <1>3, <1>5, <1>7 DEF Runs
  <1>9. Bounded(run)
    BY <1>2, <1>8 DEF Bounded
  <1>10. ASSUME NEW t \in Task PROVE Sound(run, t)
    BY <1>4, <1>6, <1>8 DEF Sound, Dated, Screening, Prompted, Led, Active
  <1>11. Settled(run) = start.settled
    BY <1>2, <1>6, <1>8 DEF Settled
  <1>12. standard \in [Role -> SUBSET Role]
    BY <1>1 DEF StandardOf, CanLead
  <1>13. ASSUME NEW role \in Role PROVE Upheld(run.plan, Settled(run), role)
    BY <1>1, <1>8, <1>11 DEF Upheld, Accepted, StandardOf
  <1> QED
    BY <1>8, <1>9, <1>10, <1>12, <1>13 DEF IInv, Good, Init

LEMMA NextIInv == ASSUME IInv, [Next]_vars PROVE IInv'
  <1>1. CASE UNCHANGED vars
    BY <1>1 DEF vars, IInv, Good, Bounded, Sound, Dated, Screening, Prompted, Led, Upheld
  <1> QED
    BY <1>1, AnswerStep, LoseStep, FinishStep, JudgeStep, SweepStep, CatalogStep,
       RequestStep, ApplyStep, RefuseStep, CloseStep DEF Next

\* Every run is sound of every task, and upholds the standards of its professions.
THEOREM Invariance == Spec => []IInv
  <1>1. Init => IInv
    BY InitIInv
  <1>2. IInv /\ [Next]_vars => IInv'
    BY NextIInv
  <1> QED
    BY <1>1, <1>2, PTL DEF Spec

-----------------------------------------------------------------------------
(* What it gives                                                             *)

LEMMA Typed == ASSUME IInv PROVE TypeOK
  <1>1. run \in Runs /\ Bounded(run)
    BY DEF IInv, Good
  <1>2. run.plan \in Plan /\ run.version \in 1..run.versions /\ run.task \in [Task -> TaskState]
    BY <1>1, RunFields DEF Bounded
  <1>3. ASSUME NEW t \in Task
        PROVE  /\ \A z \in run.screener[t] : z.for \in 1..run.version /\ z.lost \in BOOLEAN
               /\ run.tried[t] \in 0..MaxScreeningAttempts
               /\ run.hire[t].for \in 0..run.version /\ run.hire[t].skills \subseteq Skill
               /\ run.prompt[t] # NoPrompt <=> run.task[t] \in Active
    <2>1. Dated(run, t) /\ Prompted(run, t)
      BY DEF IInv, Good, Sound
    <2>2. /\ run.screener[t] \in SUBSET Screeners /\ run.hire[t] \in Hires
          /\ run.tried[t] \in 0..MaxScreeningAttempts /\ run.version \in Nat
      BY <1>1, RunFields
    <2>3. \A z \in run.screener[t] : z.for \in 1..run.version /\ z.lost \in BOOLEAN
      BY <2>1, <2>2 DEF Dated, Screeners
    <2>4. run.hire[t].for \in 0..run.version /\ run.hire[t].skills \subseteq Skill
      BY <2>1, <2>2 DEF Dated, Hires
    <2>5. NoPrompt.for = 0
      BY DEF NoPrompt
    <2>6. run.prompt[t] # NoPrompt <=> run.task[t] \in Active
      BY <2>1, <2>5 DEF Prompted
    <2> QED
      BY <2>2, <2>3, <2>4, <2>6
  <1>4. run.roster \subseteq Task /\ run.stopped \subseteq Task
    BY <1>1, RunFields
  <1>5. run.change.by \in Task \cup {NoTask}
    BY <1>1, RunFields DEF Changes, NoChange
  <1>6. usable \subseteq Pack /\ standard \in [Role -> SUBSET Role]
    BY DEF IInv
  <1> QED
    BY <1>2, <1>3, <1>4, <1>5, <1>6 DEF TypeOK

\* A task has one screener at a time, of whatever version of the graph, and none beside
\* its worker (screening_gate, complete_screening_session and every loss of one).
THEOREM OneScreenerAlways == Spec => []OneScreener
  <1>1. ASSUME IInv PROVE OneScreener
    <2>1. ASSUME NEW t \in Task
          PROVE  /\ Cardinality(run.screener[t]) <= 1
                 /\ run.screener[t] # {} => run.task[t] \notin Active
      <3>1. Screening(run, t)
        BY <1>1 DEF IInv, Good, Sound
      <3>2. CASE run.screener[t] = {}
        BY <3>2, FS_EmptySet
      <3>3. CASE run.screener[t] # {}
        <4>1. PICK z : run.screener[t] = {z}
          BY <3>1, <3>3 DEF Screening
        <4>2. Cardinality({z}) = 1
          BY FS_Singleton
        <4> QED
          BY <3>1, <4>1, <4>2 DEF Screening, Active
      <3> QED
        BY <3>2, <3>3
    <2> QED
      BY <1>1, <2>1, Typed DEF OneScreener
  <1> QED
    BY <1>1, Invariance, PTL

\* A worker carries no skill chosen for another contract than its own, and its acceptor
\* none that came from outside, however the catalogue and the plan move (_build_descriptor).
THEOREM PromptsFitAlways == Spec => []PromptsFit
  <1>1. ASSUME IInv PROVE PromptsFit
    BY <1>1 DEF IInv, Good, Sound, Prompted, PromptsFit
  <1> QED
    BY <1>1, Invariance, PTL

\* R30: once its first work is accepted a profession keeps its leads, however often the
\* plan is changed (validate_department_leads and the commit of a change).
THEOREM KeepsItsLeadAlways == Spec => []KeepsItsLead
  <1>1. ASSUME IInv PROVE KeepsItsLead
    <2> SUFFICES ASSUME NEW t \in Task \ Settled(run), standard[RoleOf[t]] # {},
                        NEW lead \in LeadsOfTask(run.plan, t, Settled(run)),
                        CanLead(lead, RoleOf[t])
                 PROVE  lead \in standard[RoleOf[t]]
      BY DEF KeepsItsLead
    <2>1. RoleOf[t] \in Role
      BY LeadsAssumption
    <2>2. Upheld(run.plan, Settled(run), RoleOf[t])
      BY <1>1, <2>1 DEF IInv
    <2>3. PICK u \in Staff(RoleOf[t]) : lead = run.plan[u]
      BY DEF LeadsOfTask, LeadsOf, NamedBy, Staff
    <2> QED
      BY <2>2, <2>3 DEF Upheld
  <1> QED
    BY <1>1, Invariance, PTL

-----------------------------------------------------------------------------
(* The way out                                                               *)

\* The lead to give to the rest of a profession: one that accepted some of it, or else
\* one that it names, or else another profession.
Choice(plan, settled, role) ==
    IF Accepted(plan, role, settled) # {} THEN CHOOSE x \in Accepted(plan, role, settled) : TRUE
    ELSE IF ProfessionLeads(plan, role) # {} THEN CHOOSE x \in ProfessionLeads(plan, role) : TRUE
    ELSE CHOOSE x \in Role \ {role} : TRUE

LEMMA ChoiceLeads ==
    ASSUME NEW plan \in Plan, NEW settled \in SUBSET Task, NEW role \in Role,
           Role \ {role} # {}
    PROVE  LET lead == Choice(plan, settled, role)
           IN  /\ CanLead(lead, role)
               /\ Accepted(plan, role, settled) # {} => lead \in Accepted(plan, role, settled)
               /\ ProfessionLeads(plan, role) # {} => lead \in ProfessionLeads(plan, role)
  <1>1. ProfessionLeads(plan, role) \subseteq Role \ {role}
    BY DEF ProfessionLeads, NamedBy, Staff, Plan
  <1>2. Accepted(plan, role, settled) \subseteq ProfessionLeads(plan, role)
    BY LeadsAssumption DEF Accepted, ProfessionLeads, NamedBy, Staff, CanLead
  <1> QED
    BY <1>1, <1>2 DEF Choice, CanLead

\* A plan that gives all that is left of each profession one lead has no fault in it.
LEMMA OneLeadEach ==
    ASSUME NEW next \in Plan, NEW current, NEW settled \in SUBSET Task,
           NEW exempt \in SUBSET Task, NEW leadOf \in [Role -> Role],
           \A t \in settled : next[t] = current[t],
           \A t \in Task \ settled : next[t] = leadOf[RoleOf[t]],
           settled \subseteq exempt,
           \A role \in Role :
              /\ CanLead(leadOf[role], role)
              /\ Accepted(next, role, settled) # {} => leadOf[role] \in Accepted(next, role, settled)
    PROVE  Faulty(next, exempt, settled, current) = {}
  <1>1. History(next, settled, current) = settled
    BY DEF History
  <1>2. ASSUME NEW role \in Role PROVE NamedBy(next, Staff(role) \ settled) \subseteq {leadOf[role]}
    BY DEF NamedBy, Staff
  <1>3. ASSUME NEW role \in Role PROVE role \notin Divided(next, settled, current)
    <2>1. PICK named : named = NamedBy(next, Staff(role) \ settled)
      OBVIOUS
    <2>2. named = {} \/ named = {leadOf[role]}
      BY <1>2, <2>1
    <2>3. ~(Cardinality(named) > 1)
      <3>1. CASE named = {}
        BY <3>1, FS_EmptySet
      <3>2. CASE named = {leadOf[role]}
        <4>1. Cardinality({leadOf[role]}) = 1
          BY FS_Singleton
        <4>2. Cardinality(named) = 1
          BY <3>2, <4>1, Zenon
        <4> QED
          BY <4>2
      <3> QED
        BY <2>2, <3>1, <3>2
    <2> QED
      BY <1>1, <2>1, <2>3 DEF Divided
  <1>4. ASSUME NEW role \in Role PROVE role \notin Moved(next, settled, current)
    BY <1>1, <1>2 DEF Moved
  <1>5. \A t \in Task \ exempt : next[t] \notin {NoLead, RoleOf[t]}
    BY LeadsAssumption DEF CanLead
  <1> QED
    BY <1>3, <1>4, <1>5, LeadsAssumption DEF Faulty, Divided, Moved

\* No run is stopped for want of a lead that no change could give it, as long as a plan
\* knows more than one profession (validate_department_leads against the admission of a
\* change by _apply_plan_change_in_state).
THEOREM NoDeadEndAlways ==
    ASSUME \A role \in Role : Role \ {role} # {}
    PROVE  Spec => []NoDeadEnd
  <1>1. ASSUME IInv PROVE NoDeadEnd
    <2> DEFINE settled == Settled(run)
    <2>1. run.plan \in Plan /\ settled \in SUBSET Task
      BY <1>1, RunFields, SettledIs DEF IInv, Good
    <2> SUFFICES ASSUME NEW by \in Task \ settled
                 PROVE  \E next \in Plan : Admissible(run, next, by, TRUE, {by})
      BY <2>1 DEF NoDeadEnd
    <2>2. PICK leadOf : leadOf = [role \in Role |-> Choice(run.plan, settled, role)]
      OBVIOUS
    <2>3. ASSUME NEW role \in Role
          PROVE  /\ leadOf[role] = Choice(run.plan, settled, role)
                 /\ CanLead(leadOf[role], role)
                 /\ Accepted(run.plan, role, settled) # {}
                       => leadOf[role] \in Accepted(run.plan, role, settled)
                 /\ ProfessionLeads(run.plan, role) # {}
                       => leadOf[role] \in ProfessionLeads(run.plan, role)
      BY <2>1, <2>2, ChoiceLeads
    <2>4. leadOf \in [Role -> Role]
      BY <2>2, <2>3 DEF CanLead
    <2>5. PICK next : next = [t \in Task |-> IF t \in settled THEN run.plan[t] ELSE leadOf[RoleOf[t]]]
      OBVIOUS
    <2>6. next \in Plan
      BY <2>1, <2>4, <2>5, LeadsAssumption DEF Plan
    <2>7. \A t \in settled : next[t] = run.plan[t]
      BY <2>1, <2>5
    <2>8. \A t \in Task \ settled : next[t] = leadOf[RoleOf[t]]
      BY <2>5
    <2>9. \A role \in Role : Accepted(next, role, settled) = Accepted(run.plan, role, settled)
      BY <2>7 DEF Accepted
    <2> HIDE DEF settled
    <2> DEFINE same == {t \in Task \ {by} : next[t] = run.plan[t]}
    <2>10. Faulty(next, same, settled, run.plan) = {}
      BY <2>1, <2>3, <2>4, <2>6, <2>7, <2>8, <2>9, OneLeadEach
    <2>11. Faulty(next, settled, settled, next) = {}
      BY <2>1, <2>3, <2>4, <2>6, <2>7, <2>8, <2>9, OneLeadEach
    <2>12. ASSUME NEW t \in Task \ ({by} \cup same \cup {by})
           PROVE  \/ ProfessionLeads(run.plan, RoleOf[t]) = {}
                  \/ next[t] \in ProfessionLeads(run.plan, RoleOf[t])
      BY <2>3, <2>7, <2>8, LeadsAssumption
    <2> QED
      BY <2>6, <2>7, <2>10, <2>11, <2>12 DEF Admissible, Unstaffed, settled
  <1> QED
    BY <1>1, Invariance, PTL

-----------------------------------------------------------------------------
(* Dispatch: the inductive invariant                                         *)

Early == {"own", "gate", "reset", "create", "invoke"}
Steps == Early \cup {"none", "ack", "unfit", "place", "claim", "send", "sent", "wait", "fail",
                     "complete", "exit", "adopt", "die"}
Phases == Status \cup {"none", "APP_SERVER_CREATED"}
Dispatches == {"none", "SCHEDULED", "SPAWN_FAILED", "RUNNING", "AMBIGUOUS", "FAILED", "RETRY_WAIT",
               "COMPLETED", "ADVANCING", "RETIRED"}
Ends == {"none", "cut", "completed"}

Row == [status : Status, thread : Thread \cup {None}, phase : Phases, dispatch : Dispatches,
        pid : Pid \cup {None}, conn : Pid \cup {None}, exited : BOOLEAN]
Dispatcher == [pc : Steps, token : Session, owns : BOOLEAN, thread : Thread \cup {None},
               definitive : BOOLEAN, next : SUBSET Session]
ServerThread == [of : Session \cup {0}, users : SUBSET Pid, running : SUBSET Pid,
                 last : Ends, done : Nat, gone : BOOLEAN]

\* A reservation has a thread from its creation on.
Filled(x) ==
    /\ x.status \in {"PREPARED", "SEND_RELAYING", "ACTIVE", "COMPLETED"} => x.thread # None
    /\ x.status = "AMBIGUOUS" /\ x.phase \in {"PREPARED", "SEND_RELAYING"} => x.thread # None
    /\ x.status \in {"FREE", "CREATE_REQUESTED", "RELAYING"} => x.thread = None

Lists ==
    /\ spawning \subseteq [token : Session, child : Pid \cup {None}]
    /\ seen \subseteq Session /\ tickets \subseteq Session /\ late \subseteq Session
    /\ stops \subseteq Thread

Rows ==
    /\ session \in [Session -> Row] /\ \A s \in Session : Filled(session[s])
    /\ proc \in [Pid -> Dispatcher] /\ server \in [Thread -> ServerThread]

\* The dispatcher has claimed a turn and not yet recorded what became of it.
Drives(a) ==
    a.pc \in {"send", "sent", "wait", "complete"} \/ (a.pc = "fail" /\ a.thread # None)

\* The one turn of the reservation may still be claimed.
Unclaimed(x) ==
    \/ x.status \in {"FREE", "CREATE_REQUESTED", "RELAYING", "PREPARED"}
    \/ x.status = "AMBIGUOUS" /\ x.phase = "PREPARED"

Tried(t) == server[t].running # {} \/ server[t].done # 0
Untried(s) == \A t \in Thread : server[t].of = s => ~Tried(t)

\* A thread is of the reservation that names it, and of the dispatcher that has it.
Belongs ==
    /\ \A s \in Session : session[s].thread # None => server[session[s].thread].of = s
    /\ \A p \in Pid :
          /\ proc[p].pc \in {"ack", "unfit", "send"} =>
                proc[p].thread # None /\ server[proc[p].thread].of = Of(p)
          /\ proc[p].pc \in Early => proc[p].thread = None
          /\ proc[p].pc = "adopt" => proc[p].next # {}

\* Of the reservations no dispatcher wrote on too late: what may still be claimed nobody
\* drives, and no turn of it was ever started.
Open ==
    \A s \in Session \ late : Unclaimed(session[s]) =>
        Untried(s) /\ \A p \in Pid : Of(p) = s => ~Drives(proc[p])

OneDriver ==
    \A p, q \in Pid :
        Of(p) \notin late /\ Drives(proc[p]) /\ Drives(proc[q]) /\ Of(p) = Of(q) => p = q

\* A turn that was refused for certain did not start.
Driven(p) ==
    LET a == proc[p]
        x == session[Of(p)]
    IN  Of(p) \notin late =>
        /\ a.pc = "send" => Untried(Of(p))
        /\ a.pc \in {"wait", "complete"} => x.status # "SEND_RELAYING"
        /\ a.pc = "fail" /\ a.thread # None /\ a.definitive /\ x.status = "SEND_RELAYING" =>
              Untried(Of(p))
        /\ Drives(a) /\ x.status = "SEND_RELAYING" => x.thread = a.thread

OneTried ==
    /\ \A t, u \in Thread :
          server[t].of \notin late \cup {0} /\ server[t].of = server[u].of /\ Tried(t) /\ Tried(u)
             => t = u
    /\ \A t \in Thread : server[t].of \notin late =>
          /\ \A p, q \in server[t].running : p = q
          /\ server[t].done \in {0, 1} /\ (server[t].running # {} => server[t].done = 0)

Turns == Belongs /\ Open /\ OneDriver /\ (\A p \in Pid : Driven(p)) /\ OneTried
TurnInv == Lists /\ Rows /\ Turns

-----------------------------------------------------------------------------
(* Dispatch: steps that open no turn                                         *)

SessionMoves(s, x, y) ==
    /\ s \notin late' =>
          /\ Unclaimed(y) => Unclaimed(x)
          /\ y.status = "SEND_RELAYING" => x.status = "SEND_RELAYING" /\ y.thread = x.thread
    /\ y.thread # None => y.thread = x.thread \/ server[y.thread].of = s

\* y is the row of the dispatcher's reservation after the step.
ProcMoves(a, b, y) ==
    /\ b.token \notin late' /\ Drives(b) =>
          /\ Drives(a) /\ b.token = a.token /\ b.thread = a.thread
          /\ b.pc = "send" => a.pc = "send"
          /\ b.pc \in {"wait", "complete"} =>
                a.pc \in {"wait", "complete"} \/ y.status # "SEND_RELAYING"
          /\ b.pc = "fail" /\ b.definitive =>
                y.status # "SEND_RELAYING" \/ a.pc = "send" \/ (a.pc = "fail" /\ a.definitive)
    /\ b.pc \in {"ack", "unfit", "send"} => b.thread # None /\ server[b.thread].of = b.token
    /\ b.pc \in Early => b.thread = None
    /\ b.pc = "adopt" => b.next # {}

ThreadMoves(t, u) ==
    /\ u.of = t.of
    /\ t.of \notin late' =>
          /\ u.running \subseteq t.running
          /\ u.done = t.done \/ (u.done = t.done + 1 /\ u.running # t.running)

SessionsGo ==
    /\ session' \in [Session -> Row]
    /\ \A s \in Session : Filled(session'[s]) /\ SessionMoves(s, session[s], session'[s])
ProcsGo ==
    /\ proc' \in [Pid -> Dispatcher]
    /\ \A p \in Pid : ProcMoves(proc[p], proc'[p], session'[proc'[p].token])
ServerGoes ==
    /\ server' \in [Thread -> ServerThread]
    /\ \A t \in Thread : ThreadMoves(server[t], server'[t])

LEMMA QuietKeeps ==
    ASSUME TurnInv, SessionsGo, ProcsGo, ServerGoes, Lists', late \subseteq late'
    PROVE  TurnInv'
<1>1. Rows /\ Belongs /\ Open /\ OneDriver /\ (\A p \in Pid : Driven(p)) /\ OneTried
  BY DEF TurnInv, Turns
<1>2. Rows'
  BY DEF Rows, SessionsGo, ProcsGo, ServerGoes
<1>3. None \notin Thread /\ None \notin Pid /\ 0 \notin Session
  BY DispatchAssumption DEF Thread, Pid, Session
<1>4. \A t \in Thread : server'[t].of = server[t].of
  BY DEF ServerGoes, ThreadMoves
<1>13. ASSUME NEW t \in Thread, server[t].of \notin late', Tried(t)' PROVE Tried(t)
  <2>1. ThreadMoves(server[t], server'[t])
    BY DEF ServerGoes
  <2> QED
    BY <1>13, <2>1 DEF ThreadMoves, Tried
<1>5. ASSUME NEW s \in Session \ late', Untried(s) PROVE Untried(s)'
  <2> SUFFICES ASSUME NEW t \in Thread, server'[t].of = s, Tried(t)' PROVE FALSE
    BY DEF Untried
  <2>1. server[t].of = s /\ ~Tried(t)
    BY <1>4, <1>5 DEF Untried
  <2> QED
    BY <1>13, <2>1
<1>6. /\ \A p \in Pid : ProcMoves(proc[p], proc'[p], session'[proc'[p].token])
      /\ \A s \in Session : SessionMoves(s, session[s], session'[s])
      /\ \A p \in Pid : proc[p].token \in Session /\ proc'[p].token \in Session
      /\ \A p \in Pid : /\ proc[p].thread \in Thread \cup {None}
                        /\ proc'[p].thread \in Thread \cup {None}
      /\ \A s \in Session : /\ session[s].thread \in Thread \cup {None}
                            /\ session'[s].thread \in Thread \cup {None}
  BY <1>1, <1>2 DEF SessionsGo, ProcsGo, Rows, Row, Dispatcher
<1>7. Belongs'
  <2>1. ASSUME NEW s \in Session, session'[s].thread # None
        PROVE  server'[session'[s].thread].of = s
    <3>1. session'[s].thread = session[s].thread \/ server[session'[s].thread].of = s
      BY <1>6, <2>1 DEF SessionMoves
    <3>2. session'[s].thread \in Thread
      BY <1>6, <2>1
    <3>3. server[session'[s].thread].of = s
      BY <1>1, <2>1, <3>1 DEF Belongs
    <3> QED
      BY <1>4, <3>2, <3>3
  <2>2. ASSUME NEW p \in Pid, proc'[p].pc \in {"ack", "unfit", "send"}
        PROVE  proc'[p].thread # None /\ server'[proc'[p].thread].of = proc'[p].token
    <3>1. ProcMoves(proc[p], proc'[p], session'[proc'[p].token])
      BY <1>6
    <3>2. proc'[p].thread # None /\ server[proc'[p].thread].of = proc'[p].token
      BY <2>2, <3>1 DEF ProcMoves
    <3> QED
      BY <1>4, <1>6, <3>2
  <2>3. ASSUME NEW p \in Pid
        PROVE  /\ proc'[p].pc \in Early => proc'[p].thread = None
               /\ proc'[p].pc = "adopt" => proc'[p].next # {}
    <3>1. ProcMoves(proc[p], proc'[p], session'[proc'[p].token])
      BY <1>6
    <3> QED
      BY <3>1 DEF ProcMoves
  <2> QED
    BY <2>1, <2>2, <2>3 DEF Belongs, Of
<1>8. \A p \in Pid : proc'[p].token \notin late' /\ Drives(proc'[p]) =>
         Drives(proc[p]) /\ proc'[p].token = proc[p].token /\ proc'[p].thread = proc[p].thread
  BY <1>6 DEF ProcMoves
<1>9. Open'
  <2> SUFFICES ASSUME NEW s \in Session \ late', Unclaimed(session'[s])
               PROVE  Untried(s)' /\ \A p \in Pid : proc'[p].token = s => ~Drives(proc'[p])
    BY DEF Open, Of
  <2>1. Unclaimed(session[s])
    BY <1>6 DEF SessionMoves
  <2>2. Untried(s) /\ \A p \in Pid : proc[p].token = s => ~Drives(proc[p])
    BY <1>1, <2>1 DEF Open, Of
  <2> QED
    BY <1>5, <1>8, <2>2
<1>10. OneDriver'
  BY <1>1, <1>8 DEF OneDriver, Of
<1>11. ASSUME NEW p \in Pid PROVE Driven(p)'
  <2>1. CASE ~Drives(proc'[p]) \/ proc'[p].token \in late'
    BY <2>1 DEF Driven, Drives, Of
  <2>2. CASE Drives(proc'[p]) /\ proc'[p].token \notin late'
    <3> DEFINE s == proc[p].token
               b == proc'[p]
    <3>1. /\ Drives(proc[p]) /\ b.token = s /\ b.thread = proc[p].thread
          /\ s \in Session \ late' /\ s \notin late
      BY <1>6, <1>8, <2>2
    <3>2. ProcMoves(proc[p], b, session'[s]) /\ b.token \notin late'
      BY <1>6, <2>2, <3>1
    <3>3. SessionMoves(s, session[s], session'[s])
      BY <1>6, <3>1
    <3>4. Driven(p)
      BY <1>1
    <3>5. Untried(s) => Untried(s)'
      BY <1>5, <3>1
    <3>6. b.pc = "send" => Untried(s)'
      BY <2>2, <3>2, <3>4, <3>5 DEF ProcMoves, Driven, Of
    <3>7. b.pc \in {"wait", "complete"} => session'[s].status # "SEND_RELAYING"
      BY <2>2, <3>2, <3>3, <3>4 DEF ProcMoves, SessionMoves, Driven, Of
    <3>8. b.pc = "fail" /\ b.thread # None /\ b.definitive /\ session'[s].status = "SEND_RELAYING"
             => Untried(s)'
      BY <2>2, <3>1, <3>2, <3>3, <3>4, <3>5 DEF ProcMoves, SessionMoves, Driven, Of
    <3>9. session'[s].status = "SEND_RELAYING" => session'[s].thread = b.thread
      BY <3>1, <3>3, <3>4 DEF SessionMoves, Driven, Of
    <3> HIDE DEF b
    <3>10. proc'[p] = b /\ b.token = s
      BY <3>1 DEF b
    <3> QED
      BY <3>6, <3>7, <3>8, <3>9, <3>10 DEF Driven, Of
  <2> QED
    BY <2>1, <2>2
<1>12. OneTried'
  <2>1. ASSUME NEW t \in Thread, server'[t].of \notin late'
        PROVE  /\ \A p, q \in server'[t].running : p = q
               /\ server'[t].done \in {0, 1} /\ (server'[t].running # {} => server'[t].done = 0)
    <3>1. ThreadMoves(server[t], server'[t]) /\ server[t].of \notin late' /\ server[t].of \notin late
      <4>1. ThreadMoves(server[t], server'[t])
        BY DEF ServerGoes
      <4>2. server[t].of \notin late'
        BY <1>4, <2>1
      <4> QED
        BY <4>1, <4>2
    <3>2. /\ \A p, q \in server[t].running : p = q
          /\ server[t].done \in {0, 1} /\ (server[t].running # {} => server[t].done = 0)
      BY <1>1, <3>1 DEF OneTried
    <3>3. CASE server'[t].done = server[t].done
      BY <3>1, <3>2, <3>3 DEF ThreadMoves
    <3>4. CASE server'[t].done = server[t].done + 1 /\ server'[t].running # server[t].running
      <4>1. server[t].running # {} /\ server'[t].running = {}
        BY <3>1, <3>2, <3>4 DEF ThreadMoves
      <4> QED
        BY <3>2, <3>4, <4>1
    <3> QED
      BY <3>1, <3>3, <3>4 DEF ThreadMoves
  <2>2. ASSUME NEW t \in Thread, NEW u \in Thread, server'[t].of \notin late' \cup {0},
               server'[t].of = server'[u].of, Tried(t)', Tried(u)'
        PROVE  t = u
    <3>1. /\ server[t].of = server[u].of /\ server[t].of \notin late' /\ server[t].of # 0
      BY <1>4, <2>2
    <3>2. Tried(t) /\ Tried(u)
      BY <1>13, <2>2, <3>1
    <3> QED
      BY <1>1, <3>1, <3>2 DEF OneTried
  <2> QED
    BY <2>1, <2>2 DEF OneTried
<1> QED
  BY <1>2, <1>7, <1>9, <1>10, <1>11, <1>12 DEF TurnInv, Turns

LEMMA SessionSame ==
    ASSUME TurnInv, UNCHANGED session
    PROVE  SessionsGo
BY DEF TurnInv, Rows, SessionsGo, SessionMoves

LEMMA SessionSet ==
    ASSUME TurnInv, NEW s \in Session, NEW y \in Row, session' = [session EXCEPT ![s] = y],
           Filled(y), SessionMoves(s, session[s], y)
    PROVE  SessionsGo
<1>1. session \in [Session -> Row] /\ \A r \in Session : Filled(session[r])
  BY DEF TurnInv, Rows
<1>2. \A r \in Session : session'[r] = IF r = s THEN y ELSE session[r]
  BY <1>1
<1> QED
  BY <1>1, <1>2 DEF SessionsGo, SessionMoves

LEMMA ProcsSame ==
    ASSUME TurnInv, UNCHANGED proc
    PROVE  ProcsGo
BY DEF TurnInv, Rows, Turns, Belongs, ProcsGo, ProcMoves, Of

LEMMA ProcSet ==
    ASSUME TurnInv, NEW p \in Pid, NEW b \in Dispatcher, proc' = [proc EXCEPT ![p] = b],
           ProcMoves(proc[p], b, session'[b.token])
    PROVE  ProcsGo
<1>1. proc \in [Pid -> Dispatcher]
  BY DEF TurnInv, Rows
<1>2. \A q \in Pid : proc'[q] = IF q = p THEN b ELSE proc[q]
  BY <1>1
<1>3. ASSUME NEW q \in Pid, q # p PROVE ProcMoves(proc[q], proc'[q], session'[proc'[q].token])
  <2>1. /\ proc'[q] = proc[q] /\ (proc[q].pc \in Early => proc[q].thread = None)
        /\ proc[q].pc = "adopt" => proc[q].next # {}
        /\ proc[q].pc \in {"ack", "unfit", "send"} =>
              proc[q].thread # None /\ server[proc[q].thread].of = proc[q].token
    BY <1>2, <1>3 DEF TurnInv, Turns, Belongs, Of
  <2> QED
    BY <2>1 DEF ProcMoves
<1> QED
  BY <1>1, <1>2, <1>3 DEF ProcsGo

\* A dispatcher goes on without a turn of its own.
LEMMA ProcGoes ==
    ASSUME TurnInv, NEW p \in Pid, NEW c \in Steps, proc' = [proc EXCEPT ![p].pc = c],
           c \notin {"send", "sent", "wait", "complete", "fail", "ack", "unfit", "adopt"},
           c \in Early => proc[p].pc \in Early
    PROVE  ProcsGo
<1> DEFINE a == proc[p]
           b == [a EXCEPT !.pc = c]
<1>1. a \in Dispatcher /\ (a.pc \in Early => a.thread = None)
  BY DEF TurnInv, Rows, Turns, Belongs
<1>2. proc' = [proc EXCEPT ![p] = b]
  OBVIOUS
<1>3. b \in Dispatcher /\ b.pc = c /\ b.thread = a.thread
  BY <1>1 DEF Dispatcher
<1> HIDE DEF b
<1>4. ProcMoves(a, b, session'[b.token])
  BY <1>1, <1>3 DEF ProcMoves, Drives
<1> QED
  BY <1>2, <1>3, <1>4, ProcSet

\* A process comes or goes.
LEMMA ProcUnborn ==
    ASSUME TurnInv, NEW p \in Pid, NEW b \in Dispatcher, proc' = [proc EXCEPT ![p] = b],
           b.pc \in {"none", "own", "die"}, b.thread = None
    PROVE  ProcsGo
<1>1. ProcMoves(proc[p], b, session'[b.token])
  BY DEF ProcMoves, Drives, Early
<1> QED
  BY <1>1, ProcSet

LEMMA UnbornFields ==
    ASSUME NEW s \in Session, NEW c \in {"none", "own", "die"}
    PROVE  LET b == [Unborn EXCEPT !.pc = c, !.token = s]
           IN  b \in Dispatcher /\ b.pc = c /\ b.thread = None /\ b.token = s
BY DEF Unborn, Dispatcher, Steps, Early

LEMMA UnbornIs == Unborn \in Dispatcher /\ Unborn.pc = "none" /\ Unborn.thread = None
<1>1. 1 \in Session
  BY DispatchAssumption DEF Session
<1> QED
  BY <1>1 DEF Unborn, Dispatcher, Steps

LEMMA RaisesGo ==
    ASSUME TurnInv, NEW p \in Pid, Raises(p)
    PROVE  ProcsGo
<1> DEFINE s == Of(p)
           b == [Unborn EXCEPT !.pc = "die", !.token = s]
<1>1. s \in Session
  BY DEF TurnInv, Rows, Of, Dispatcher
<1>2. proc' = [proc EXCEPT ![p] = b]
  BY DEF Raises
<1> HIDE DEF s
<1>3. b \in Dispatcher /\ b.pc = "die" /\ b.thread = None
  BY <1>1, UnbornFields
<1> HIDE DEF b
<1> QED
  BY <1>2, <1>3, ProcUnborn

LEMMA ServerSame ==
    ASSUME TurnInv, UNCHANGED server
    PROVE  ServerGoes
BY DEF TurnInv, Rows, ServerGoes, ThreadMoves

LEMMA ServerCloses ==
    ASSUME TurnInv, NEW p \in Pid, server' = Closed(p)
    PROVE  ServerGoes
<1> SUFFICES ASSUME NEW t \in Thread
             PROVE  server'[t] \in ServerThread /\ ThreadMoves(server[t], server'[t])
  BY DEF ServerGoes, Closed
<1>1. server[t] \in ServerThread
  BY DEF TurnInv, Rows
<1> DEFINE users == server[t].users \ {p}
           running == server[t].running \ {p}
           last == IF p \in server[t].running THEN "cut" ELSE server[t].last
           u == [server[t] EXCEPT !.users = users, !.running = running, !.last = last]
<1>2. server'[t] = u
  BY DEF Closed
<1>3. users \in SUBSET Pid /\ running \in SUBSET Pid /\ last \in Ends
      /\ running \subseteq server[t].running
  BY <1>1 DEF ServerThread, Ends
<1> HIDE DEF users, running, last
<1>4. u \in ServerThread /\ u.of = server[t].of /\ u.running = running /\ u.done = server[t].done
  BY <1>1, <1>3 DEF ServerThread
<1> QED
  BY <1>2, <1>3, <1>4 DEF ThreadMoves
-----------------------------------------------------------------------------
(* Dispatch: the rows the steps write                                        *)

LEMMA RowOf ==
    ASSUME TurnInv, NEW s \in Session
    PROVE  session[s] \in Row /\ Filled(session[s])
BY DEF TurnInv, Rows

LEMMA ProcOf ==
    ASSUME TurnInv, NEW p \in Pid
    PROVE  /\ proc[p] \in Dispatcher /\ Of(p) \in Session
           /\ session[Of(p)] \in Row /\ Filled(session[Of(p)])
           /\ proc[p].pc \in {"ack", "unfit", "send"} => proc[p].thread # None
<1>1. proc[p] \in Dispatcher /\ (proc[p].pc \in {"ack", "unfit", "send"} => proc[p].thread # None)
  BY DEF TurnInv, Rows, Turns, Belongs
<1>2. Of(p) \in Session
  BY <1>1 DEF Of, Dispatcher
<1> QED
  BY <1>1, <1>2, RowOf

\* Who drives a reservation and how it was launched say nothing of its turn.
LEMMA SameTurn ==
    ASSUME NEW s \in Session, NEW x \in Row, NEW y \in Row, Filled(x),
           y.status = x.status, y.thread = x.thread, y.phase = x.phase
    PROVE  Filled(y) /\ SessionMoves(s, x, y)
BY DEF Filled, SessionMoves, Unclaimed

\* A reservation that has ended is not launched again.
LEMMA EndedTurn ==
    ASSUME NEW s \in Session, NEW x \in Row, NEW y \in Row,
           y.status \in {"RETRY_WAIT", "RETIRED"}, y.thread = x.thread
    PROVE  Filled(y) /\ SessionMoves(s, x, y)
BY DEF Filled, SessionMoves, Unclaimed

LEMMA ScheduledRow ==
    ASSUME NEW x \in Row
    PROVE  LET y == Scheduled(x)
           IN  /\ y \in Row /\ y.thread = x.thread /\ y.phase = x.phase
               /\ y.status = IF x.status = "RELAYING" THEN "CREATE_REQUESTED" ELSE x.status
<1> DEFINE status == IF x.status = "RELAYING" THEN "CREATE_REQUESTED" ELSE x.status
           conn == IF x.status = "RELAYING" THEN None ELSE x.conn
           y == [x EXCEPT !.status = status, !.dispatch = "SCHEDULED", !.pid = None, !.conn = conn]
<1>1. Scheduled(x) = y
  BY DEF Scheduled
<1>2. status \in Status /\ conn \in Pid \cup {None}
  BY DEF Row, Status, Pending
<1> HIDE DEF status, conn
<1>3. y \in Row /\ y.thread = x.thread /\ y.phase = x.phase /\ y.status = status
  BY <1>2 DEF Row, Dispatches
<1> HIDE DEF y
<1> QED
  BY <1>1, <1>3 DEF status

LEMMA AskedRow ==
    ASSUME NEW x \in Row
    PROVE  LET y == Asked(x) IN y \in Row /\ y.thread = x.thread /\ y.status = "CREATE_REQUESTED"
BY DEF Asked, Row, Status, Pending

LEMMA ClearedRow ==
    ASSUME NEW x \in Row, NEW d \in Dispatches
    PROVE  LET y == Cleared(x, d)
           IN  y \in Row /\ y.thread = x.thread /\ y.phase = x.phase /\ y.status = x.status
<1>1. CASE x.dispatch = "none"
  BY <1>1 DEF Cleared
<1>2. CASE x.dispatch # "none"
  <2> DEFINE y == [x EXCEPT !.dispatch = d, !.pid = None, !.conn = None]
  <2>1. y \in Row /\ y.thread = x.thread /\ y.phase = x.phase /\ y.status = x.status
    BY DEF Row
  <2> QED
    BY <1>2, <2>1 DEF Cleared
<1> QED
  BY <1>1, <1>2

\* What a failure makes of a reservation: in doubt, to be sent again, or over.
LEMMA FailedRow ==
    ASSUME NEW x \in Row, NEW d \in BOOLEAN
    PROVE  LET phase == IF x.status = "AMBIGUOUS" /\ x.phase # "none" THEN x.phase ELSE x.status
               y == Failed(x, d)
           IN  /\ y \in Row /\ y.thread = x.thread
               /\ ~d => y.status = "AMBIGUOUS" /\ y.phase = phase
               /\ d /\ phase \in {"PREPARED", "SEND_RELAYING"} => y.status = "PREPARED"
               /\ d /\ phase \notin {"PREPARED", "SEND_RELAYING"} => y.status = "RETRY_WAIT"
<1> DEFINE phase == IF x.status = "AMBIGUOUS" /\ x.phase # "none" THEN x.phase ELSE x.status
<1>1. phase \in Phases
  BY DEF Row, Phases
<1> HIDE DEF phase
<1>2. CASE ~d
  <2> DEFINE c == Cleared(x, "AMBIGUOUS")
             y == [c EXCEPT !.status = "AMBIGUOUS", !.phase = phase]
  <2>1. c \in Row /\ c.thread = x.thread
    BY ClearedRow DEF Dispatches
  <2>2. Failed(x, d) = y
    BY <1>2 DEF Failed, phase
  <2> HIDE DEF c
  <2>3. y \in Row /\ y.thread = c.thread /\ y.status = "AMBIGUOUS" /\ y.phase = phase
    BY <1>1, <2>1 DEF Row, Status, Pending
  <2> HIDE DEF y
  <2> QED
    BY <1>2, <2>1, <2>2, <2>3 DEF phase
<1>3. CASE d /\ phase \in {"PREPARED", "SEND_RELAYING"}
  <2> DEFINE c == Cleared(x, "FAILED")
             y == [c EXCEPT !.status = "PREPARED"]
  <2>1. c \in Row /\ c.thread = x.thread
    BY ClearedRow DEF Dispatches
  <2>2. Failed(x, d) = y
    BY <1>3 DEF Failed, phase
  <2> HIDE DEF c
  <2>3. y \in Row /\ y.thread = c.thread /\ y.status = "PREPARED"
    BY <2>1 DEF Row, Status, Pending
  <2> HIDE DEF y
  <2> QED
    BY <1>3, <2>1, <2>2, <2>3 DEF phase
<1>4. CASE d /\ phase \notin {"PREPARED", "SEND_RELAYING"}
  <2> DEFINE c == Cleared(x, "RETRY_WAIT")
             y == [c EXCEPT !.status = "RETRY_WAIT"]
  <2>1. c \in Row /\ c.thread = x.thread
    BY ClearedRow DEF Dispatches
  <2>2. Failed(x, d) = y
    BY <1>4 DEF Failed, phase
  <2> HIDE DEF c
  <2>3. y \in Row /\ y.thread = c.thread /\ y.status = "RETRY_WAIT"
    BY <2>1 DEF Row, Status, Pending
  <2> HIDE DEF y
  <2> QED
    BY <1>4, <2>1, <2>2, <2>3 DEF phase
<1> QED
  BY <1>2, <1>3, <1>4

\* A completion ends an active session and asks for reservations nobody had.
LEMMA CompletedSessions ==
    ASSUME TurnInv, NEW s \in Session, session[s].status = "ACTIVE", NEW d \in Dispatches,
           NEW n \in SUBSET Session, Successors(n), session' = Completed(s, d, n)
    PROVE  SessionsGo /\ session'[s].status # "SEND_RELAYING"
<1> DEFINE done == [session[s] EXCEPT !.status = "COMPLETED", !.dispatch = d]
<1>1. \A r \in Session : session[r] \in Row /\ Filled(session[r])
  BY RowOf
<1>2. done \in Row /\ done.thread = session[s].thread /\ done.status = "COMPLETED"
  BY <1>1 DEF Row, Status
<1>3. \A r \in n : session[r].status = "FREE"
  BY DEF Successors, Fresh
<1>4. \A r \in Session : session'[r] = IF r = s THEN done
                                       ELSE IF r \in n THEN Asked(session[r]) ELSE session[r]
  BY DEF Completed
<1>5. session' \in [Session -> Row]
  <2>1. \A r \in Session : Asked(session[r]) \in Row
    BY <1>1, AskedRow
  <2> HIDE DEF done
  <2>2. \A r \in Session : session'[r] \in Row
    BY <1>1, <1>2, <1>4, <2>1
  <2>3. DOMAIN session' = Session /\ session' = [r \in Session |-> session'[r]]
    BY DEF Completed
  <2> QED
    BY <2>2, <2>3
<1> HIDE DEF done
<1>6. ASSUME NEW r \in Session PROVE Filled(session'[r]) /\ SessionMoves(r, session[r], session'[r])
  <2>1. CASE r = s
    BY <1>1, <1>2, <1>4, <2>1 DEF Filled, SessionMoves, Unclaimed
  <2>2. CASE r # s /\ r \in n
    <3>1. LET y == session'[r] IN y \in Row /\ y.thread = session[r].thread
                                  /\ y.status = "CREATE_REQUESTED"
      BY <1>1, <1>4, <2>2, AskedRow
    <3>2. session[r].status = "FREE" /\ session[r].thread = None
      BY <1>1, <1>3, <2>2 DEF Filled
    <3> QED
      BY <3>1, <3>2 DEF Filled, SessionMoves, Unclaimed
  <2>3. CASE r # s /\ r \notin n
    BY <1>1, <1>4, <2>3 DEF SessionMoves
  <2> QED
    BY <2>1, <2>2, <2>3
<1> QED
  BY <1>2, <1>4, <1>5, <1>6 DEF SessionsGo

-----------------------------------------------------------------------------
(* Dispatch: who raises a dispatcher, and the others                         *)

LEMMA RaiseKeeps ==
    ASSUME TurnInv, NEW s \in Session, Schedule(s)
    PROVE  TurnInv'
<1> DEFINE x == session[s]
           y == Scheduled(x)
           w == [token |-> s, child |-> None]
<1>1. /\ session' = [session EXCEPT ![s] = y] /\ spawning' = spawning \cup {w}
      /\ x.status \in Launchable \cup {"RELAYING"}
      /\ UNCHANGED <<proc, server, stops, tickets, seen, late>>
  BY DEF Schedule, Raisable
<1>2. x \in Row /\ Filled(x)
  BY RowOf
<1>3. y \in Row /\ y.thread = x.thread
      /\ y.status = IF x.status = "RELAYING" THEN "CREATE_REQUESTED" ELSE x.status
  BY <1>2, ScheduledRow
<1>4. w \in [token : Session, child : Pid \cup {None}]
  OBVIOUS
<1> HIDE DEF x, y, w
<1>5. Filled(y) /\ SessionMoves(s, x, y)
  BY <1>1, <1>2, <1>3 DEF Filled, SessionMoves, Unclaimed, Launchable
<1>6. SessionsGo
  BY <1>1, <1>3, <1>5, SessionSet DEF x
<1>7. Lists'
  BY <1>1, <1>4 DEF TurnInv, Lists
<1> QED
  BY <1>1, <1>6, <1>7, ProcsSame, ServerSame, QuietKeeps

LEMMA SpawnKeeps ==
    ASSUME TurnInv, NEW w \in spawning, Popen(w) \/ PopenFails(w) \/ Bind(w)
    PROVE  TurnInv'
<1>1. w \in [token : Session, child : Pid \cup {None}]
  BY DEF TurnInv, Lists
<1>2. w.token \in Session /\ w.child \in Pid \cup {None}
  BY <1>1
<1>3. CASE Popen(w)
  <2>1. PICK p \in Pid :
           /\ proc' = [proc EXCEPT ![p] = [Unborn EXCEPT !.pc = "own", !.token = w.token]]
           /\ spawning' = (spawning \ {w}) \cup {[w EXCEPT !.child = p]}
    BY <1>3 DEF Popen
  <2>2. UNCHANGED <<session, server, stops, tickets, seen, late>>
    BY <1>3 DEF Popen
  <2>3. [w EXCEPT !.child = p] \in [token : Session, child : Pid \cup {None}]
    BY <1>1
  <2>4. Lists'
    BY <2>1, <2>2, <2>3 DEF TurnInv, Lists
  <2> DEFINE b == [Unborn EXCEPT !.pc = "own", !.token = w.token]
  <2>5. b \in Dispatcher /\ b.pc = "own" /\ b.thread = None
    BY <1>2, UnbornFields
  <2>6. proc' = [proc EXCEPT ![p] = b]
    BY <2>1
  <2> HIDE DEF b
  <2>7. ProcsGo
    BY <2>5, <2>6, ProcUnborn
  <2> QED
    BY <2>2, <2>4, <2>7, SessionSame, ServerSame, QuietKeeps
<1>4. CASE PopenFails(w) \/ Bind(w)
  <2> DEFINE s == w.token
             x == session[s]
             y == IF PopenFails(w) THEN [x EXCEPT !.dispatch = "SPAWN_FAILED", !.pid = None]
                                   ELSE [x EXCEPT !.dispatch = "RUNNING", !.pid = w.child]
  <2>1. /\ session' = [session EXCEPT ![s] = y] /\ spawning' = spawning \ {w}
        /\ UNCHANGED <<proc, server, stops, tickets, seen, late>>
    BY <1>4 DEF PopenFails, Bind
  <2>2. x \in Row /\ Filled(x)
    BY <1>2, RowOf
  <2> HIDE DEF x
  <2>3. y \in Row /\ y.status = x.status /\ y.thread = x.thread /\ y.phase = x.phase
    BY <1>2, <2>2 DEF Row, Dispatches
  <2> HIDE DEF y
  <2>4. SessionsGo
    BY <1>2, <2>1, <2>2, <2>3, SameTurn, SessionSet DEF x
  <2>5. Lists'
    BY <2>1 DEF TurnInv, Lists
  <2> QED
    BY <2>1, <2>4, <2>5, ProcsSame, ServerSame, QuietKeeps
<1> QED
  BY <1>3, <1>4

\* Steps of the others that change no row, no process and no turn.
LEMMA OthersKeep ==
    ASSUME TurnInv, UNCHANGED <<session, proc, server, spawning, late>>,
           seen' \subseteq Session, tickets' \subseteq Session, stops' \subseteq Thread
    PROVE  TurnInv'
<1>1. Lists'
  BY DEF TurnInv, Lists
<1> QED
  BY <1>1, SessionSame, ProcsSame, ServerSame, QuietKeeps

LEMMA SessionKeeps ==
    ASSUME TurnInv, SessionsGo, UNCHANGED <<proc, server, spawning, tickets, late>>,
           seen' \subseteq Session, stops' \subseteq Thread
    PROVE  TurnInv'
<1>1. Lists'
  BY DEF TurnInv, Lists
<1> QED
  BY <1>1, ProcsSame, ServerSame, QuietKeeps

LEMMA ReconcileKeeps ==
    ASSUME TurnInv, Reconcile
    PROVE  TurnInv'
<1>1. /\ session' = [s \in Session |->
            IF s \in seen /\ session[s].status \in Pending THEN Retired(session[s]) ELSE session[s]]
      /\ UNCHANGED <<proc, server, spawning, stops, tickets, late>> /\ seen' = {}
  BY DEF Reconcile
<1>2. ASSUME NEW s \in Session
      PROVE  /\ session'[s] \in Row
             /\ Filled(session'[s]) /\ SessionMoves(s, session[s], session'[s])
  <2>1. session[s] \in Row /\ Filled(session[s])
    BY RowOf
  <2>2. LET y == Retired(session[s])
        IN  y \in Row /\ y.status = "RETRY_WAIT" /\ y.thread = session[s].thread
    BY <2>1 DEF Retired, Row, Status
  <2>3. CASE session'[s] = Retired(session[s])
    BY <2>1, <2>2, <2>3, EndedTurn
  <2>4. CASE session'[s] = session[s]
    BY <2>1, <2>4 DEF SessionMoves
  <2> QED
    BY <1>1, <2>3, <2>4
<1>3. SessionsGo
  BY <1>1, <1>2 DEF SessionsGo
<1>4. stops' \subseteq Thread
  BY <1>1 DEF TurnInv, Lists
<1>5. seen' \subseteq Session /\ UNCHANGED <<proc, server, spawning, tickets, late>>
  BY <1>1
<1> QED
  BY <1>3, <1>4, <1>5, SessionKeeps

LEMMA ReserveKeeps ==
    ASSUME TurnInv, Reserve
    PROVE  TurnInv'
<1>1. PICK s \in Fresh : session' = [session EXCEPT ![s] = Asked(session[s])]
  BY DEF Reserve
<1>2. UNCHANGED <<proc, server, spawning, stops, tickets, seen, late>>
  BY DEF Reserve
<1> DEFINE x == session[s]
           y == Asked(x)
<1>3. s \in Session /\ x.status = "FREE"
  BY DEF Fresh
<1>4. x \in Row /\ Filled(x)
  BY <1>3, RowOf
<1>5. y \in Row /\ y.thread = x.thread /\ y.status = "CREATE_REQUESTED"
  BY <1>4, AskedRow
<1> HIDE DEF x, y
<1>6. Filled(y) /\ SessionMoves(s, x, y)
  BY <1>3, <1>4, <1>5 DEF Filled, SessionMoves, Unclaimed
<1>7. SessionsGo
  BY <1>1, <1>3, <1>5, <1>6, SessionSet DEF x, y
<1> QED
  BY <1>2, <1>7, SessionKeeps DEF TurnInv, Lists

LEMMA RecreateKeeps ==
    ASSUME TurnInv, NEW s \in Session, Recreate(s)
    PROVE  TurnInv'
<1> DEFINE x == session[s]
           y == [x EXCEPT !.status = "RETIRED", !.dispatch = "RETIRED", !.pid = None]
<1>1. /\ session' = [session EXCEPT ![s] = y]
      /\ UNCHANGED <<proc, server, spawning, stops, tickets, seen, late>>
  BY DEF Recreate
<1>2. x \in Row
  BY RowOf
<1> HIDE DEF x
<1>3. y \in Row /\ y.status = "RETIRED" /\ y.thread = x.thread
  BY <1>2 DEF Row, Status, Dispatches
<1> HIDE DEF y
<1>4. SessionsGo
  BY <1>1, <1>2, <1>3, EndedTurn, SessionSet DEF x
<1> QED
  BY <1>1, <1>4, SessionKeeps DEF TurnInv, Lists

LEMMA StopHookKeeps ==
    ASSUME TurnInv, NEW t \in Thread, StopHook(t)
    PROVE  TurnInv'
<1>1. UNCHANGED <<proc, server, spawning, tickets, seen, late>> /\ stops' \subseteq stops
  BY DEF StopHook
<1>2. SessionsGo
  <2>1. CASE UNCHANGED session
    BY <2>1, SessionSame
  <2>2. CASE \E s \in Session, n \in SUBSET Session :
                /\ session[s].status = "ACTIVE" /\ Successors(n)
                /\ session' = Completed(s, session[s].dispatch, n)
    <3>1. PICK s \in Session, n \in SUBSET Session :
             /\ session[s].status = "ACTIVE" /\ Successors(n)
             /\ session' = Completed(s, session[s].dispatch, n)
      BY <2>2
    <3>2. session[s].dispatch \in Dispatches
      <4>1. session[s] \in Row
        BY RowOf
      <4> QED
        BY <4>1 DEF Row
    <3> QED
      BY <3>1, <3>2, CompletedSessions
  <2> QED
    BY <2>1, <2>2 DEF StopHook, Only
<1> QED
  BY <1>1, <1>2, SessionKeeps DEF TurnInv, Lists

\* A turn that ends on the server was its thread's only one.
LEMMA TurnEndsKeep ==
    ASSUME TurnInv, NEW t \in Thread, TurnCompletes(t) \/ TurnFails(t) \/ LoseThread(t)
    PROVE  TurnInv'
<1> DEFINE x == server[t]
<1>1. x \in ServerThread
  BY DEF TurnInv, Rows
<1>2. \E y \in ServerThread :
         /\ server' = [server EXCEPT ![t] = y] /\ ThreadMoves(x, y)
  <2>1. CASE LoseThread(t)
    <3> DEFINE y == [x EXCEPT !.gone = TRUE]
    <3>1. server' = [server EXCEPT ![t] = y]
      BY <2>1 DEF LoseThread
    <3> HIDE DEF x
    <3>2. y \in ServerThread /\ y.of = x.of /\ y.running = x.running /\ y.done = x.done
      BY <1>1 DEF ServerThread
    <3> QED
      BY <3>1, <3>2 DEF ThreadMoves
  <2>2. CASE TurnCompletes(t)
    <3>1. PICK p \in x.running :
             server' = [server EXCEPT ![t].running = x.running \ {p}, ![t].done = x.done + 1,
                                      ![t].last = "completed"]
      BY <2>2 DEF TurnCompletes
    <3> DEFINE rest == x.running \ {p}
               count == x.done + 1
               y == [x EXCEPT !.running = rest, !.done = count, !.last = "completed"]
    <3>2. server' = [server EXCEPT ![t] = y]
      BY <3>1
    <3>3. rest \in SUBSET Pid /\ rest \subseteq x.running /\ rest # x.running
          /\ count \in Nat /\ count = x.done + 1
      BY <1>1 DEF ServerThread
    <3> HIDE DEF x, rest, count
    <3>4. y \in ServerThread /\ y.of = x.of /\ y.running = rest /\ y.done = count
      BY <1>1, <3>3 DEF ServerThread, Ends
    <3> HIDE DEF y
    <3> QED
      BY <3>2, <3>3, <3>4 DEF ThreadMoves
  <2>3. CASE TurnFails(t)
    <3>1. PICK p \in x.running :
             server' = [server EXCEPT ![t].running = x.running \ {p}, ![t].last = "cut"]
      BY <2>3 DEF TurnFails
    <3> DEFINE rest == x.running \ {p}
               y == [x EXCEPT !.running = rest, !.last = "cut"]
    <3>2. server' = [server EXCEPT ![t] = y]
      BY <3>1
    <3>3. rest \in SUBSET Pid /\ rest \subseteq x.running
      BY <1>1 DEF ServerThread
    <3> HIDE DEF x, rest
    <3>4. y \in ServerThread /\ y.of = x.of /\ y.running = rest /\ y.done = x.done
      BY <1>1, <3>3 DEF ServerThread, Ends
    <3> QED
      BY <3>2, <3>3, <3>4 DEF ThreadMoves
  <2> QED
    BY <2>1, <2>2, <2>3
<1>3. ServerGoes
  <2>1. PICK y \in ServerThread :
           /\ server' = [server EXCEPT ![t] = y] /\ ThreadMoves(x, y)
    BY <1>2
  <2>2. server \in [Thread -> ServerThread]
    BY DEF TurnInv, Rows
  <2>3. \A u \in Thread : server'[u] = IF u = t THEN y ELSE server[u]
    BY <2>1, <2>2
  <2> QED
    BY <2>1, <2>2, <2>3 DEF ServerGoes, ThreadMoves
<1>4. /\ UNCHANGED <<session, proc, spawning, tickets, seen, late>>
      /\ stops' \subseteq stops \cup {t}
  BY DEF TurnCompletes, TurnFails, LoseThread
<1>5. Lists'
  BY <1>4 DEF TurnInv, Lists
<1> QED
  BY <1>3, <1>4, <1>5, SessionSame, ProcsSame, QuietKeeps

-----------------------------------------------------------------------------
(* Dispatch: the steps of a dispatcher that open no turn                     *)

LEMMA ProcKeeps ==
    ASSUME TurnInv, SessionsGo, ProcsGo, ServerGoes, UNCHANGED <<spawning, stops, seen, late>>,
           tickets' \subseteq Session
    PROVE  TurnInv'
<1>1. Lists'
  BY DEF TurnInv, Lists
<1> QED
  BY <1>1, QuietKeeps

LEMMA LateKeeps ==
    ASSUME TurnInv, SessionsGo, ProcsGo, ServerGoes, UNCHANGED <<spawning, stops, tickets, seen>>,
           late \subseteq late', late' \subseteq Session
    PROVE  TurnInv'
<1>1. Lists'
  BY DEF TurnInv, Lists
<1> QED
  BY <1>1, QuietKeeps

\* A dispatcher fails before it has claimed a turn, or once the turn is no longer in doubt.
LEMMA FailGoes ==
    ASSUME TurnInv, NEW p \in Pid, NEW d \in BOOLEAN,
           proc' = [proc EXCEPT ![p].pc = "fail", ![p].definitive = d],
           proc[p].pc \in {"invoke", "send", "sent", "wait"},
           d /\ proc[p].pc \in {"sent", "wait"} /\ Of(p) \notin late' =>
              session'[Of(p)].status # "SEND_RELAYING"
    PROVE  ProcsGo
<1> DEFINE a == proc[p]
           b == [a EXCEPT !.pc = "fail", !.definitive = d]
<1>1. a \in Dispatcher /\ (a.pc \in Early => a.thread = None)
  BY DEF TurnInv, Rows, Turns, Belongs
<1>2. proc' = [proc EXCEPT ![p] = b]
  OBVIOUS
<1>3. b \in Dispatcher /\ b.pc = "fail" /\ b.thread = a.thread /\ b.definitive = d
      /\ b.token = a.token
  BY <1>1 DEF Dispatcher, Steps
<1> HIDE DEF b
<1>4. ProcMoves(a, b, session'[b.token])
  BY <1>1, <1>3 DEF ProcMoves, Drives, Early, Of
<1> QED
  BY <1>2, <1>3, <1>4, ProcSet

LEMMA DieKeeps ==
    ASSUME TurnInv, NEW p \in Pid, Die(p) \/ Kill(p)
    PROVE  TurnInv'
<1>1. /\ proc' = [proc EXCEPT ![p] = Unborn] /\ server' = Closed(p)
      /\ UNCHANGED <<session, spawning, stops, seen, late>>
      /\ tickets' \subseteq tickets \cup {Of(p)}
  BY DEF Die, Kill
<1>2. Of(p) \in Session
  BY ProcOf
<1>3. tickets' \subseteq Session
  BY <1>1, <1>2 DEF TurnInv, Lists
<1>4. ProcsGo
  BY <1>1, UnbornIs, ProcUnborn
<1> QED
  BY <1>1, <1>3, <1>4, SessionSame, ServerCloses, ProcKeeps

LEMMA OwnKeeps ==
    ASSUME TurnInv, NEW p \in Pid, Own(p)
    PROVE  TurnInv'
<1> DEFINE c == CASE session[Of(p)].status \in Launchable -> "gate"
                  [] session[Of(p)].status = "COMPLETED" -> "exit"
                  [] OTHER -> "die"
           o == Owns(p)
           a == proc[p]
           b == [a EXCEPT !.owns = o, !.pc = c]
<1>1. /\ proc' = [proc EXCEPT ![p].owns = o, ![p].pc = c]
      /\ UNCHANGED <<session, server, spawning, stops, tickets, seen, late>> /\ a.pc = "own"
  BY DEF Own, At
<1>2. c \in {"gate", "exit", "die"} /\ o \in BOOLEAN
  BY DEF Owns
<1>3. a \in Dispatcher /\ a.thread = None
  BY <1>1 DEF TurnInv, Rows, Turns, Belongs, Early
<1> HIDE DEF c, o
<1>6. proc' = [proc EXCEPT ![p] = b]
  BY <1>1
<1> HIDE DEF a
<1>4. b \in Dispatcher /\ b.thread = None /\ b.pc = c
  BY <1>2, <1>3 DEF Dispatcher, Steps, Early
<1> HIDE DEF b
<1>5. ProcMoves(a, b, session'[b.token])
  BY <1>2, <1>4 DEF ProcMoves, Drives, Early
<1>7. ProcsGo
  BY <1>4, <1>5, <1>6, ProcSet DEF a
<1> QED
  BY <1>1, <1>7, SessionSame, ServerSame, ProcKeeps DEF TurnInv, Lists

LEMMA WaysKeep ==
    ASSUME TurnInv, NEW p \in Pid, Gate(p)
    PROVE  TurnInv'
<1>1. /\ UNCHANGED <<session, server, spawning, stops, tickets, seen, late>>
      /\ \/ Raises(p)
         \/ \E c \in {"reset", "create", "claim"} :
               /\ proc' = [proc EXCEPT ![p].pc = c]
               /\ c \in Early => proc[p].pc \in Early
  BY DEF Gate, Goto, At, Early
<1>2. ProcsGo
  <2>1. ASSUME NEW c \in {"reset", "create", "claim"},
               proc' = [proc EXCEPT ![p].pc = c], c \in Early => proc[p].pc \in Early
        PROVE  ProcsGo
    BY <2>1, ProcGoes DEF Steps, Early
  <2> QED
    BY <1>1, <2>1, RaisesGo
<1> QED
  BY <1>1, <1>2, SessionSame, ServerSame, ProcKeeps DEF TurnInv, Lists

\* A thread that is gone is forgotten in time, no turn of the reservation being claimed, or
\* too late.
LEMMA ResetKeeps ==
    ASSUME TurnInv, NEW p \in Pid, Reset(p)
    PROVE  TurnInv'
<1> DEFINE s == Of(p)
           x == session[s]
           y == [x EXCEPT !.status = "CREATE_REQUESTED", !.thread = None, !.exited = FALSE]
<1>1. /\ session' = [session EXCEPT ![s] = y] /\ proc' = [proc EXCEPT ![p].pc = "create"]
      /\ UNCHANGED <<server, spawning, stops, tickets, seen>> /\ proc[p].pc = "reset"
  BY DEF Reset, Goto, At
<1>2. x \in Row /\ s \in Session
  BY ProcOf
<1>3. /\ late \subseteq late' /\ late' \subseteq Session
      /\ s \in late' \/ Unclaimed(x)
  BY <1>2 DEF Reset, LateReset, Unclaimed, TurnInv, Lists
<1> HIDE DEF x, s
<1>4. y \in Row /\ y.status = "CREATE_REQUESTED" /\ y.thread = None
  BY <1>2 DEF Row, Status, Pending
<1> HIDE DEF y
<1>5. Filled(y) /\ SessionMoves(s, x, y)
  BY <1>3, <1>4 DEF Filled, SessionMoves
<1>6. SessionsGo
  BY <1>1, <1>2, <1>4, <1>5, SessionSet DEF x
<1>7. ProcsGo
  BY <1>1, ProcGoes DEF Steps, Early
<1> QED
  BY <1>1, <1>3, <1>6, <1>7, ServerSame, LateKeeps

LEMMA CreateKeeps ==
    ASSUME TurnInv, NEW p \in Pid, Create(p)
    PROVE  TurnInv'
<1> DEFINE s == Of(p)
           x == session[s]
           y == [x EXCEPT !.status = "RELAYING"]
<1>1. UNCHANGED <<server, spawning, stops, tickets, seen, late>> /\ proc[p].pc = "create"
  BY DEF Create, At
<1>2. CASE x.status = "CREATE_REQUESTED"
  <2>1. session' = [session EXCEPT ![s] = y] /\ proc' = [proc EXCEPT ![p].pc = "invoke"]
    BY <1>2 DEF Create, Goto
  <2>2. x \in Row /\ s \in Session /\ Filled(x)
    BY ProcOf
  <2> HIDE DEF x, s
  <2>3. y \in Row /\ y.status = "RELAYING" /\ y.thread = x.thread
    BY <2>2 DEF Row, Status, Pending
  <2> HIDE DEF y
  <2>4. Filled(y) /\ SessionMoves(s, x, y)
    BY <1>2, <2>2, <2>3 DEF Filled, SessionMoves, Unclaimed
  <2>5. SessionsGo
    BY <2>1, <2>2, <2>3, <2>4, SessionSet DEF x
  <2>6. ProcsGo
    BY <1>1, <2>1, ProcGoes DEF Steps, Early
  <2> QED
    BY <1>1, <2>5, <2>6, ServerSame, ProcKeeps DEF TurnInv, Lists
<1>3. CASE x.status # "CREATE_REQUESTED"
  <2>1. UNCHANGED session /\ Raises(p)
    BY <1>3 DEF Create, Only
  <2>2. ProcsGo
    BY <2>1, RaisesGo
  <2> QED
    BY <1>1, <2>1, <2>2, SessionSame, ServerSame, ProcKeeps DEF TurnInv, Lists
<1> QED
  BY <1>2, <1>3

\* What was created is recorded as found, or as unfit; a reservation that went on without it
\* is left alone.
LEMMA CreatedKeeps ==
    ASSUME TurnInv, NEW p \in Pid, Unfit(p) \/ Acknowledge(p)
    PROVE  TurnInv'
<1> DEFINE s == Of(p)
           x == session[s]
           a == proc[p]
<1>1. /\ UNCHANGED <<server, spawning, stops, tickets, seen, late>> /\ a.pc \in {"unfit", "ack"}
      /\ Raises(p) \/ proc' = [proc EXCEPT ![p].pc = "claim"]
  BY DEF Unfit, Acknowledge, At, Goto
<1>2. /\ x \in Row /\ s \in Session /\ a.thread \in Thread /\ server[a.thread].of = s
      /\ a.thread # None /\ a.owns \in BOOLEAN
  <2>1. a \in Dispatcher /\ a.thread # None
    BY <1>1, ProcOf
  <2>2. server[a.thread].of = s
    BY <1>1 DEF TurnInv, Turns, Belongs
  <2> QED
    BY <2>1, <2>2, ProcOf DEF Dispatcher
<1>3. ProcsGo
  <2>1. CASE proc' = [proc EXCEPT ![p].pc = "claim"]
    BY <2>1, ProcGoes DEF Steps, Early
  <2> QED
    BY <1>1, <2>1, RaisesGo
<1>4. SessionsGo
  <2>1. CASE UNCHANGED session
    BY <2>1, SessionSame
  <2>2. CASE Unfit(p) /\ x.status = "RELAYING"
    <3> DEFINE thread == a.thread
               y == [x EXCEPT !.status = "AMBIGUOUS", !.phase = "APP_SERVER_CREATED",
                              !.thread = thread]
    <3>1. session' = [session EXCEPT ![s] = y]
      BY <2>2 DEF Unfit
    <3>2. thread \in Thread /\ server[thread].of = s
      BY <1>2
    <3> HIDE DEF x, s, thread
    <3>3. y \in Row /\ y.status = "AMBIGUOUS" /\ y.phase = "APP_SERVER_CREATED" /\ y.thread = thread
      BY <1>2, <3>2 DEF Row, Status, Pending, Phases
    <3> HIDE DEF y
    <3>4. Filled(y) /\ SessionMoves(s, x, y)
      BY <3>2, <3>3 DEF Filled, SessionMoves, Unclaimed
    <3> QED
      BY <1>2, <3>1, <3>3, <3>4, SessionSet DEF x
  <2>3. CASE Acknowledge(p) /\ x.status = "RELAYING" /\ x.thread = None
    <3> DEFINE thread == a.thread
               conn == IF a.owns THEN p ELSE None
               y == [x EXCEPT !.status = "PREPARED", !.thread = thread, !.exited = FALSE,
                              !.conn = conn]
    <3>1. session' = [session EXCEPT ![s] = y]
      BY <2>3 DEF Acknowledge, Prepared
    <3>2. thread \in Thread /\ thread # None /\ server[thread].of = s /\ conn \in Pid \cup {None}
      BY <1>2
    <3> HIDE DEF x, s, thread, conn
    <3>3. y \in Row /\ y.status = "PREPARED" /\ y.thread = thread
      BY <1>2, <3>2 DEF Row, Status, Pending
    <3> HIDE DEF y
    <3>4. Filled(y) /\ SessionMoves(s, x, y)
      BY <2>3, <3>2, <3>3 DEF Filled, SessionMoves, Unclaimed
    <3> QED
      BY <1>2, <3>1, <3>3, <3>4, SessionSet DEF x
  <2> QED
    BY <2>1, <2>2, <2>3 DEF Unfit, Acknowledge, Only
<1> QED
  BY <1>1, <1>3, <1>4, ServerSame, ProcKeeps DEF TurnInv, Lists

\* The turn that was sent is recorded, unless the reservation is no longer the one it was
\* sent for.
LEMMA SentKeeps ==
    ASSUME TurnInv, NEW p \in Pid, Sent(p)
    PROVE  TurnInv'
<1> DEFINE s == Of(p)
           x == session[s]
           y == [x EXCEPT !.status = "ACTIVE"]
           a == proc[p]
           b == [a EXCEPT !.pc = "wait"]
<1>1. UNCHANGED <<server, spawning, stops, tickets, seen, late>> /\ a.pc = "sent"
  BY DEF Sent, At
<1>2. x \in Row /\ s \in Session /\ Filled(x) /\ a \in Dispatcher
  BY ProcOf
<1>3. s \notin late /\ x.status = "SEND_RELAYING" => x.thread = a.thread
  BY <1>1 DEF TurnInv, Turns, Driven, Drives
<1>4. CASE x.thread = a.thread /\ x.status \in {"SEND_RELAYING", "ACTIVE"}
  <2>1. session' = [session EXCEPT ![s] = y] /\ proc' = [proc EXCEPT ![p] = b]
    BY <1>4 DEF Sent, Goto
  <2>2. session \in [Session -> Row]
    BY DEF TurnInv, Rows
  <2>3. b \in Dispatcher /\ b.token = s /\ b.pc = "wait" /\ b.thread = a.thread
    BY <1>2 DEF Dispatcher, Steps, Of
  <2> HIDE DEF x, b
  <2>4. y \in Row /\ y.status = "ACTIVE" /\ y.thread = x.thread
    BY <1>2 DEF Row, Status, Pending
  <2> HIDE DEF y
  <2>5. Filled(y) /\ SessionMoves(s, x, y)
    BY <1>2, <1>4, <2>4 DEF Filled, SessionMoves, Unclaimed
  <2>6. SessionsGo
    BY <1>2, <2>1, <2>4, <2>5, SessionSet DEF x
  <2>7. session'[b.token].status = "ACTIVE"
    BY <1>2, <2>1, <2>2, <2>3, <2>4
  <2>8. ProcMoves(a, b, session'[b.token])
    BY <1>1, <2>3, <2>7 DEF ProcMoves, Drives, Early, Of
  <2>9. ProcsGo
    BY <2>1, <2>3, <2>8, ProcSet
  <2> QED
    BY <1>1, <2>6, <2>9, ServerSame, ProcKeeps DEF TurnInv, Lists
<1>5. CASE ~(x.thread = a.thread /\ x.status \in {"SEND_RELAYING", "ACTIVE"})
  <2>1. /\ UNCHANGED session
        /\ proc' = [proc EXCEPT ![p].pc = "fail", ![p].definitive = TRUE]
    BY <1>5 DEF Sent, Only
  <2>2. Of(p) \notin late' => session'[Of(p)].status # "SEND_RELAYING"
    BY <1>1, <1>3, <1>5, <2>1
  <2>3. ProcsGo
    BY <1>1, <2>1, <2>2, FailGoes
  <2> QED
    BY <1>1, <2>1, <2>3, SessionSame, ServerSame, ProcKeeps DEF TurnInv, Lists
<1> QED
  BY <1>4, <1>5

LEMMA WaitKeeps ==
    ASSUME TurnInv, NEW p \in Pid, Wait(p)
    PROVE  TurnInv'
<1>1. /\ UNCHANGED <<session, server, spawning, stops, tickets, seen, late>> /\ proc[p].pc = "wait"
      /\ \/ proc' = [proc EXCEPT ![p].pc = "fail", ![p].definitive = TRUE]
         \/ proc' = [proc EXCEPT ![p].pc = "complete"]
  BY DEF Wait, At, Fails, Refused, Goto
<1>2. Of(p) \notin late' => session'[Of(p)].status # "SEND_RELAYING"
  BY <1>1 DEF TurnInv, Turns, Driven
<1>3. CASE proc' = [proc EXCEPT ![p].pc = "fail", ![p].definitive = TRUE]
  <2>1. ProcsGo
    BY <1>1, <1>2, <1>3, FailGoes
  <2> QED
    BY <1>1, <2>1, SessionSame, ServerSame, ProcKeeps DEF TurnInv, Lists
<1>4. CASE proc' = [proc EXCEPT ![p].pc = "complete"]
  <2> DEFINE a == proc[p]
             b == [a EXCEPT !.pc = "complete"]
  <2>1. a \in Dispatcher
    BY ProcOf
  <2>2. b \in Dispatcher /\ b.token = a.token /\ b.pc = "complete" /\ b.thread = a.thread
    BY <2>1 DEF Dispatcher, Steps
  <2>3. proc' = [proc EXCEPT ![p] = b]
    BY <1>4
  <2> HIDE DEF b
  <2>4. ProcMoves(a, b, session'[b.token])
    BY <1>1, <2>2 DEF ProcMoves, Drives, Early
  <2>5. ProcsGo
    BY <2>2, <2>3, <2>4, ProcSet
  <2> QED
    BY <1>1, <2>5, SessionSame, ServerSame, ProcKeeps DEF TurnInv, Lists
<1> QED
  BY <1>1, <1>3, <1>4

LEMMA CompleteKeeps ==
    ASSUME TurnInv, NEW p \in Pid, Complete(p)
    PROVE  TurnInv'
<1> DEFINE s == Of(p)
           x == session[s]
<1>1. UNCHANGED <<server, spawning, stops, tickets, seen, late>> /\ proc[p].pc = "complete"
  BY DEF Complete, At
<1>2. x \in Row /\ s \in Session /\ Filled(x) /\ proc[p] \in Dispatcher
  BY ProcOf
<1>3. SessionsGo
  <2>1. CASE UNCHANGED session
    BY <2>1, SessionSame
  <2>2. CASE /\ x.status = "ACTIVE"
             /\ session' = [session EXCEPT ![s] = Failed(x, FALSE)]
    <3> DEFINE y == Failed(x, FALSE)
    <3>1. y \in Row /\ y.thread = x.thread /\ y.status = "AMBIGUOUS" /\ y.phase = "ACTIVE"
      BY <1>2, <2>2, FailedRow
    <3>2. session' = [session EXCEPT ![s] = y]
      BY <2>2
    <3> HIDE DEF x, y
    <3>3. Filled(y) /\ SessionMoves(s, x, y)
      BY <3>1 DEF Filled, SessionMoves, Unclaimed
    <3> QED
      BY <1>2, <3>1, <3>2, <3>3, SessionSet DEF x
  <2>3. CASE /\ x.status = "ACTIVE"
             /\ \E d \in Dispatches, n \in SUBSET Session :
                   Successors(n) /\ session' = Completed(s, d, n)
    BY <1>2, <2>3, CompletedSessions
  <2>4. ASSUME NEW n \in SUBSET Session, x.status = "ACTIVE", Successors(n),
               session' = Completed(s, CASE ~(proc[p].owns /\ Owns(p)) -> x.dispatch
                                         [] n = {} -> "COMPLETED"
                                         [] OTHER -> "ADVANCING", n)
        PROVE  \E d \in Dispatches, m \in SUBSET Session :
                  Successors(m) /\ session' = Completed(s, d, m)
    <3>1. x.dispatch \in Dispatches
      BY <1>2 DEF Row
    <3>2. (CASE ~(proc[p].owns /\ Owns(p)) -> x.dispatch
             [] n = {} -> "COMPLETED"
             [] OTHER -> "ADVANCING") \in Dispatches
      BY <3>1 DEF Dispatches
    <3> QED
      BY <2>4, <3>2
  <2> QED
    BY <2>1, <2>2, <2>3, <2>4 DEF Complete, Only
<1>4. ProcsGo
  <2>1. CASE proc' = [proc EXCEPT ![p].pc = "exit"]
    BY <2>1, ProcGoes DEF Steps, Early
  <2>2. CASE \E n \in SUBSET Session : proc' = [proc EXCEPT ![p].pc = "exit", ![p].next = n]
    <3>1. PICK n \in SUBSET Session : proc' = [proc EXCEPT ![p].pc = "exit", ![p].next = n]
      BY <2>2
    <3> DEFINE a == proc[p]
               b == [a EXCEPT !.pc = "exit", !.next = n]
    <3>2. b \in Dispatcher /\ b.pc = "exit"
      BY <1>2 DEF Dispatcher, Steps
    <3>3. proc' = [proc EXCEPT ![p] = b]
      BY <3>1
    <3> HIDE DEF b
    <3>4. ProcMoves(a, b, session'[b.token])
      BY <3>2 DEF ProcMoves, Drives, Early
    <3> QED
      BY <3>2, <3>3, <3>4, ProcSet
  <2> QED
    BY <2>1, <2>2 DEF Complete, Goto
<1> QED
  BY <1>1, <1>3, <1>4, ServerSame, ProcKeeps DEF TurnInv, Lists

LEMMA ExitKeeps ==
    ASSUME TurnInv, NEW p \in Pid, Exit(p)
    PROVE  TurnInv'
<1> DEFINE s == Of(p)
           x == session[s]
           a == proc[p]
<1>1. UNCHANGED <<spawning, stops, tickets, seen, late>> /\ server' = Closed(p)
  BY DEF Exit
<1>2. x \in Row /\ s \in Session /\ Filled(x) /\ a \in Dispatcher
  BY ProcOf
<1>3. SessionsGo
  <2>1. CASE UNCHANGED session
    BY <2>1, SessionSame
  <2>2. CASE session' = [session EXCEPT ![s].conn = None,
                           ![s].pid = IF x.dispatch = "COMPLETED" THEN None ELSE @]
    <3> DEFINE pid == IF x.dispatch = "COMPLETED" THEN None ELSE x.pid
               y == [x EXCEPT !.conn = None, !.pid = pid]
    <3>1. session' = [session EXCEPT ![s] = y]
      BY <2>2
    <3>2. pid \in Pid \cup {None}
      BY <1>2 DEF Row
    <3> HIDE DEF x, pid
    <3>3. y \in Row /\ y.status = x.status /\ y.thread = x.thread /\ y.phase = x.phase
      BY <1>2, <3>2 DEF Row
    <3> HIDE DEF y
    <3>4. Filled(y) /\ SessionMoves(s, x, y)
      BY <1>2, <3>3, SameTurn
    <3> QED
      BY <1>2, <3>1, <3>3, <3>4, SessionSet DEF x
  <2> QED
    BY <2>1, <2>2 DEF Exit, Only
<1>4. ProcsGo
  <2>1. CASE Raises(p)
    BY <2>1, RaisesGo
  <2>2. CASE proc' = [proc EXCEPT ![p] = Unborn]
    BY <2>2, UnbornIs, ProcUnborn
  <2>3. CASE proc' = [proc EXCEPT ![p].pc = "adopt"] /\ Cardinality(a.next) = 1
    <3> DEFINE b == [a EXCEPT !.pc = "adopt"]
    <3>1. a.next # {}
      BY <2>3, FS_EmptySet
    <3>2. b \in Dispatcher /\ b.pc = "adopt" /\ b.next = a.next
      BY <1>2 DEF Dispatcher, Steps
    <3>3. proc' = [proc EXCEPT ![p] = b]
      BY <2>3
    <3> HIDE DEF b
    <3>4. ProcMoves(a, b, session'[b.token])
      BY <3>1, <3>2 DEF ProcMoves, Drives, Early
    <3> QED
      BY <3>2, <3>3, <3>4, ProcSet
  <2> QED
    BY <2>1, <2>2, <2>3 DEF Exit, Goto
<1> QED
  BY <1>1, <1>3, <1>4, ServerCloses, ProcKeeps DEF TurnInv, Lists

LEMMA AdoptKeeps ==
    ASSUME TurnInv, NEW p \in Pid, Adopt(p)
    PROVE  TurnInv'
<1> DEFINE s == Of(p)
           n == CHOOSE r \in proc[p].next : TRUE
<1>1. UNCHANGED <<server, spawning, stops, tickets, seen, late>> /\ proc[p].pc = "adopt"
  BY DEF Adopt, At
<1>2. n \in Session /\ s \in Session
  <2>1. proc[p].next # {} /\ proc[p].next \subseteq Session
    BY <1>1 DEF TurnInv, Rows, Turns, Belongs, Dispatcher
  <2> QED
    BY <2>1, ProcOf
<1>3. CASE UNCHANGED session /\ Raises(p)
  <2>1. ProcsGo
    BY <1>3, RaisesGo
  <2> QED
    BY <1>1, <1>3, <2>1, SessionSame, ServerSame, ProcKeeps DEF TurnInv, Lists
<1>4. CASE /\ session' = [session EXCEPT ![s].dispatch = "COMPLETED", ![s].pid = None,
                                         ![n].dispatch = "RUNNING", ![n].pid = p]
           /\ proc' = [proc EXCEPT ![p] = [Unborn EXCEPT !.pc = "own", !.token = n]]
  <2> HIDE DEF n, s
  <2>1. session \in [Session -> Row] /\ \A r \in Session : Filled(session[r])
    BY DEF TurnInv, Rows
  <2>2. ASSUME NEW r \in Session
        PROVE  LET y == session'[r]
               IN  /\ y \in Row /\ y.status = session[r].status /\ y.thread = session[r].thread
                   /\ y.phase = session[r].phase
    <3> DEFINE x == session[r]
               over == [x EXCEPT !.dispatch = "COMPLETED", !.pid = None]
               taken == [x EXCEPT !.dispatch = "RUNNING", !.pid = p]
               both == [over EXCEPT !.dispatch = "RUNNING", !.pid = p]
    <3>1. session'[r] = IF r = n THEN IF r = s THEN both ELSE taken
                        ELSE IF r = s THEN over ELSE x
      BY <1>2, <1>4, <2>1
    <3>2. x \in Row
      BY <2>1
    <3> HIDE DEF x
    <3>3. over \in Row /\ over.status = x.status /\ over.thread = x.thread /\ over.phase = x.phase
      BY <3>2 DEF Row, Dispatches
    <3>4. taken \in Row /\ taken.status = x.status /\ taken.thread = x.thread
          /\ taken.phase = x.phase
      BY <3>2 DEF Row, Dispatches
    <3> HIDE DEF over, taken
    <3>5. both \in Row /\ both.status = x.status /\ both.thread = x.thread /\ both.phase = x.phase
      BY <3>3 DEF Row, Dispatches
    <3> HIDE DEF both
    <3> QED
      BY <3>1, <3>2, <3>3, <3>4, <3>5 DEF x
  <2>3. SessionsGo
    <3>1. session' \in [Session -> Row]
      BY <1>4, <2>1, <2>2
    <3>2. \A r \in Session : Filled(session'[r]) /\ SessionMoves(r, session[r], session'[r])
      BY <2>1, <2>2, SameTurn
    <3> QED
      BY <3>1, <3>2 DEF SessionsGo
  <2> DEFINE b == [Unborn EXCEPT !.pc = "own", !.token = n]
  <2>4. b \in Dispatcher /\ b.pc = "own" /\ b.thread = None
    BY <1>2, UnbornFields
  <2>5. proc' = [proc EXCEPT ![p] = b]
    BY <1>4
  <2> HIDE DEF b
  <2>6. ProcsGo
    BY <2>4, <2>5, ProcUnborn
  <2> QED
    BY <1>1, <2>3, <2>6, ServerSame, ProcKeeps DEF TurnInv, Lists
<1> QED
  BY <1>3, <1>4 DEF Adopt, Goto, Only

-----------------------------------------------------------------------------
(* Dispatch: the steps that open a turn                                      *)

\* Who has a reservation that one dispatcher drives drives it too.
LEMMA OtherDriver ==
    ASSUME TurnInv, NEW p \in Pid, NEW q \in Pid, Of(p) \notin late,
           Drives(proc[p]), Of(q) = Of(p), q # p
    PROVE  ~Drives(proc[q])
BY DEF TurnInv, Turns, OneDriver

\* A process that drives nothing owes nothing.
LEMMA IdleDriven ==
    ASSUME NEW p \in Pid, ~Drives(proc[p])
    PROVE  Driven(p)
BY DEF Driven, Drives

\* The one claim of a turn.
LEMMA ClaimKeeps ==
    ASSUME TurnInv, NEW p \in Pid, Claim(p)
    PROVE  TurnInv'
<1> DEFINE s == Of(p)
           x == session[s]
           a == proc[p]
<1>1. UNCHANGED <<server, spawning, stops, tickets, seen, late>>
  BY DEF Claim
<1>2. x \in Row /\ s \in Session /\ Filled(x) /\ a \in Dispatcher
  BY ProcOf
<1>3. CASE UNCHANGED session /\ Raises(p)
  <2>1. ProcsGo
    BY <1>3, RaisesGo
  <2> QED
    BY <1>1, <1>3, <2>1, SessionSame, ServerSame, ProcKeeps DEF TurnInv, Lists
<1>4. CASE /\ x.status = "PREPARED" /\ s \notin late
           /\ session' = [session EXCEPT ![s].status = "SEND_RELAYING",
                                         ![s].exited = @ \/ CreatorGone(x)]
           /\ proc' = [proc EXCEPT ![p].pc = "send", ![p].thread = x.thread]
  <2> DEFINE exited == x.exited \/ CreatorGone(x)
             thread == x.thread
             y == [x EXCEPT !.status = "SEND_RELAYING", !.exited = exited]
             b == [a EXCEPT !.pc = "send", !.thread = thread]
  <2>1. session' = [session EXCEPT ![s] = y] /\ proc' = [proc EXCEPT ![p] = b]
    BY <1>4
  <2>2. exited \in BOOLEAN /\ thread \in Thread /\ thread # None /\ thread = x.thread
    BY <1>2, <1>4 DEF Row, Filled
  <2> HIDE DEF exited, thread
  <2>3. y \in Row /\ y.status = "SEND_RELAYING" /\ y.thread = thread
    <3> HIDE DEF x
    <3> QED
      BY <1>2, <2>2 DEF Row, Status, Pending
  <2>4. b \in Dispatcher /\ b.pc = "send" /\ b.thread = thread /\ b.token = s
    BY <1>2, <2>2 DEF Dispatcher, Steps, Of
  <2> HIDE DEF y, b
  <2>5. /\ session \in [Session -> Row] /\ \A r \in Session : Filled(session[r])
        /\ proc \in [Pid -> Dispatcher]
        /\ Belongs /\ Open /\ OneDriver /\ (\A q \in Pid : Driven(q)) /\ OneTried
        /\ late' = late
    BY <1>1 DEF TurnInv, Rows, Turns
  <2>6. /\ \A r \in Session : session'[r] = IF r = s THEN y ELSE session[r]
        /\ \A q \in Pid : proc'[q] = IF q = p THEN b ELSE proc[q]
    BY <2>1, <2>5
  <2>7. Untried(s) /\ \A q \in Pid : Of(q) = s => ~Drives(proc[q])
    BY <1>2, <1>4, <2>5 DEF Open, Unclaimed
  <2>8. Rows'
    <3>1. Filled(y)
      BY <2>2, <2>3 DEF Filled
    <3> QED
      BY <1>1, <2>1, <2>3, <2>4, <2>5, <2>6, <3>1 DEF TurnInv, Rows
  <2>9. Lists'
    BY <1>1 DEF TurnInv, Lists
  <2>10. Belongs'
    <3>1. server[thread].of = s
      BY <1>2, <2>2, <2>5 DEF Belongs
    <3> QED
      BY <1>1, <1>2, <2>2, <2>3, <2>4, <2>5, <2>6, <3>1 DEF Belongs, Of, Early
  <2>11. \A r \in Session : Untried(r)' <=> Untried(r)
    BY <1>1 DEF Untried, Tried
  <2>12. Open'
    <3> SUFFICES ASSUME NEW r \in Session \ late, Unclaimed(session'[r])
                 PROVE  Untried(r)' /\ \A q \in Pid : proc'[q].token = r => ~Drives(proc'[q])
      BY <2>5 DEF Open, Of
    <3>1. r # s
      BY <1>2, <2>3, <2>6 DEF Unclaimed
    <3> QED
      BY <2>4, <2>5, <2>6, <2>11, <3>1 DEF Open, Of
  <2>13. OneDriver'
    BY <2>4, <2>5, <2>6, <2>7 DEF OneDriver, Of
  <2>14. ASSUME NEW q \in Pid PROVE Driven(q)'
    <3>1. CASE q = p
      <4>1. proc'[q] = b /\ proc'[q].token = s /\ session'[proc'[q].token] = y
        BY <1>2, <2>4, <2>6, <3>1
      <4>2. \A r \in Session : r = proc'[q].token => Untried(r)'
        BY <2>7, <2>11, <4>1
      <4>3. Untried(proc[q].token)'
        BY <1>2, <4>1, <4>2
      <4>4. proc'[q].pc = "send" /\ session'[proc'[q].token].thread = proc'[q].thread
        BY <2>3, <2>4, <4>1
      <4> QED
        BY <4>3, <4>4 DEF Driven, Drives, Of
    <3>2. CASE q # p /\ Of(q) = s
      <4>1. proc'[q] = proc[q] /\ ~Drives(proc'[q])
        BY <2>6, <2>7, <3>2
      <4> QED
        BY <4>1 DEF Driven, Drives, Of
    <3>3. CASE q # p /\ Of(q) # s
      <4>1. proc'[q] = proc[q] /\ session'[proc[q].token] = session[proc[q].token]
            /\ proc[q].token \in Session
        BY <2>5, <2>6, <3>3 DEF Of, Dispatcher
      <4> QED
        BY <2>5, <2>11, <4>1 DEF Driven, Of
    <3> QED
      BY <3>1, <3>2, <3>3
  <2>15. OneTried'
    BY <1>1, <2>5 DEF OneTried, Tried
  <2> QED
    BY <2>8, <2>9, <2>10, <2>12, <2>13, <2>14, <2>15 DEF TurnInv, Turns
<1>5. CASE /\ x.status = "PREPARED" /\ s \in late
           /\ session' = [session EXCEPT ![s].status = "SEND_RELAYING",
                                         ![s].exited = @ \/ CreatorGone(x)]
           /\ proc' = [proc EXCEPT ![p].pc = "send", ![p].thread = x.thread]
  <2> DEFINE exited == x.exited \/ CreatorGone(x)
             thread == x.thread
             y == [x EXCEPT !.status = "SEND_RELAYING", !.exited = exited]
             b == [a EXCEPT !.pc = "send", !.thread = thread]
  <2>1. session' = [session EXCEPT ![s] = y] /\ proc' = [proc EXCEPT ![p] = b]
    BY <1>5
  <2>2. exited \in BOOLEAN /\ thread \in Thread /\ thread # None /\ thread = x.thread
    BY <1>2, <1>5 DEF Row, Filled
  <2> HIDE DEF exited, thread
  <2>3. y \in Row /\ y.status = "SEND_RELAYING" /\ y.thread = thread
    <3> HIDE DEF x
    <3> QED
      BY <1>2, <2>2 DEF Row, Status, Pending
  <2>4. b \in Dispatcher /\ b.pc = "send" /\ b.thread = thread /\ b.token = s
    BY <1>2, <2>2 DEF Dispatcher, Steps, Of
  <2> HIDE DEF y, b
  <2>5. Filled(y) /\ SessionMoves(s, x, y)
    BY <1>1, <1>5, <2>2, <2>3 DEF Filled, SessionMoves
  <2>6. SessionsGo
    BY <1>2, <2>1, <2>3, <2>5, SessionSet
  <2>7. server[thread].of = s
    BY <1>2, <2>2 DEF TurnInv, Turns, Belongs
  <2>8. ProcMoves(a, b, session'[b.token])
    BY <1>1, <1>5, <2>2, <2>4, <2>7 DEF ProcMoves, Early
  <2>9. ProcsGo
    BY <2>1, <2>4, <2>8, ProcSet
  <2> QED
    BY <1>1, <2>6, <2>9, ServerSame, ProcKeeps DEF TurnInv, Lists
<1> QED
  BY <1>3, <1>4, <1>5 DEF Claim, Claimable, Only

\* The turn starts on the thread, heard of or not.
LEMMA StartedKeeps ==
    ASSUME TurnInv, NEW p \in Pid, proc[p].pc = "send", Of(p) \notin late,
           LET t == proc[p].thread
           IN  server' = [server EXCEPT ![t].users = @ \cup {p}, ![t].running = @ \cup {p}],
           \/ proc' = [proc EXCEPT ![p].pc = "fail", ![p].definitive = FALSE]
           \/ proc' = [proc EXCEPT ![p].pc = "sent"],
           UNCHANGED <<session, spawning, stops, tickets, seen, late>>
    PROVE  TurnInv'
<1> DEFINE s == Of(p)
           a == proc[p]
           t == a.thread
           x == server[t]
           users == x.users \cup {p}
           running == x.running \cup {p}
           y == [x EXCEPT !.users = users, !.running = running]
           b == proc'[p]
<1>1. /\ session \in [Session -> Row] /\ proc \in [Pid -> Dispatcher]
      /\ server \in [Thread -> ServerThread] /\ \A r \in Session : Filled(session[r])
      /\ Belongs /\ Open /\ OneDriver /\ (\A q \in Pid : Driven(q)) /\ OneTried
      /\ late' = late
  BY DEF TurnInv, Rows, Turns
<1>2. s \in Session /\ t \in Thread /\ x.of = s
  <2>1. a \in Dispatcher /\ a.thread # None
    BY ProcOf
  <2> QED
    BY <1>1, <2>1, ProcOf DEF Belongs, Dispatcher
<1>3. Untried(s) /\ Drives(a)
  BY <1>1 DEF Driven, Drives
<1>4. x.running = {} /\ x.done = 0
  BY <1>2, <1>3 DEF Untried, Tried
<1>5. server' = [server EXCEPT ![t] = y]
  OBVIOUS
<1>6. x \in ServerThread /\ users \in SUBSET Pid /\ running \in SUBSET Pid /\ running = {p}
  BY <1>1, <1>2, <1>4 DEF ServerThread
<1> HIDE DEF x, users, running
<1>7. y \in ServerThread /\ y.of = s /\ y.running = {p} /\ y.done = 0
  BY <1>2, <1>4, <1>6 DEF ServerThread
<1> HIDE DEF y
<1>8. \A u \in Thread : server'[u] = IF u = t THEN y ELSE server[u]
  BY <1>1, <1>5
<1>9. /\ \A q \in Pid \ {p} : proc'[q] = proc[q]
      /\ proc' \in [Pid -> Dispatcher] /\ b.token = s /\ b.thread = t
      /\ b.pc = "sent" \/ (b.pc = "fail" /\ ~b.definitive)
  <2>1. ASSUME NEW c \in Dispatcher, proc' = [proc EXCEPT ![p] = c]
        PROVE  proc' \in [Pid -> Dispatcher] /\ b = c /\ \A q \in Pid \ {p} : proc'[q] = proc[q]
    BY <1>1, <2>1
  <2>2. CASE proc' = [proc EXCEPT ![p].pc = "fail", ![p].definitive = FALSE]
    <3> DEFINE c == [a EXCEPT !.pc = "fail", !.definitive = FALSE]
    <3>1. c \in Dispatcher /\ c.token = s /\ c.thread = t /\ c.pc = "fail" /\ ~c.definitive
      BY <1>1 DEF Dispatcher, Steps, Of
    <3>2. proc' = [proc EXCEPT ![p] = c]
      BY <2>2
    <3> HIDE DEF c, b
    <3> QED
      BY <2>1, <3>1, <3>2
  <2>3. CASE proc' = [proc EXCEPT ![p].pc = "sent"]
    <3> DEFINE c == [a EXCEPT !.pc = "sent"]
    <3>1. c \in Dispatcher /\ c.token = s /\ c.thread = t /\ c.pc = "sent"
      BY <1>1 DEF Dispatcher, Steps, Of
    <3>2. proc' = [proc EXCEPT ![p] = c]
      BY <2>3
    <3> HIDE DEF c, b
    <3> QED
      BY <2>1, <3>1, <3>2
  <2> QED
    BY <2>2, <2>3
<1> HIDE DEF b
<1>10. \A q \in Pid : proc'[q] = IF q = p THEN b ELSE proc[q]
  BY <1>9 DEF b
<1>11. \A r \in Session \ {s} : Untried(r) => Untried(r)'
  <2> SUFFICES ASSUME NEW r \in Session \ {s}, Untried(r), NEW u \in Thread, server'[u].of = r
               PROVE  ~Tried(u)'
    BY DEF Untried
  <2>1. u # t /\ server'[u] = server[u]
    BY <1>7, <1>8
  <2> QED
    BY <2>1 DEF Untried, Tried
<1>12. \A u \in Thread : server'[u].of = server[u].of
  BY <1>2, <1>7, <1>8 DEF x
<1>13. Rows' /\ Lists'
  BY <1>1, <1>5, <1>7, <1>9 DEF TurnInv, Rows, Lists
<1>14. Belongs'
  <2>1. \A r \in Session : session[r].thread \in Thread \cup {None}
    BY <1>1 DEF Row
  <2>2. \A q \in Pid : proc[q].thread \in Thread \cup {None}
    BY <1>1 DEF Dispatcher
  <2> QED
    BY <1>1, <1>9, <1>10, <1>12, <2>1, <2>2 DEF Belongs, Of, Early
<1>15. Open'
  <2> SUFFICES ASSUME NEW r \in Session \ late, Unclaimed(session[r])
               PROVE  Untried(r)' /\ \A q \in Pid : proc'[q].token = r => ~Drives(proc'[q])
    BY <1>1 DEF Open, Of
  <2>1. r # s /\ Untried(r) /\ \A q \in Pid : Of(q) = r => ~Drives(proc[q])
    BY <1>1, <1>3 DEF Open
  <2> QED
    BY <1>9, <1>10, <1>11, <2>1 DEF Of
<1>16. OneDriver'
  <2>1. \A q \in Pid \ {p} : Of(q) = s => ~Drives(proc[q])
    BY <1>3, OtherDriver
  <2> QED
    BY <1>1, <1>9, <1>10, <2>1 DEF OneDriver, Of
<1>17. ASSUME NEW q \in Pid PROVE Driven(q)'
  <2>1. CASE q = p
    <3>1. session[s].status = "SEND_RELAYING" => session[s].thread = t
      BY <1>1, <1>3 DEF Driven
    <3>2. proc'[q] = b
      BY <1>10, <2>1
    <3> QED
      BY <1>9, <3>1, <3>2 DEF Driven, Of
  <2>2. CASE q # p /\ Of(q) = s
    <3>1. proc'[q] = proc[q] /\ ~Drives(proc'[q])
      BY <1>3, <1>10, <2>2, OtherDriver
    <3> QED
      BY <3>1 DEF Driven, Drives, Of
  <2>3. CASE q # p /\ Of(q) # s
    <3>1. proc'[q] = proc[q] /\ proc[q].token \in Session \ {s}
      BY <1>1, <1>10, <2>3 DEF Of, Dispatcher
    <3> QED
      BY <1>1, <1>11, <3>1 DEF Driven, Of
  <2> QED
    BY <2>1, <2>2, <2>3
<1>18. OneTried'
  <2>1. \A u \in Thread : Tried(u)' => u = t \/ Tried(u)
    BY <1>8 DEF Tried
  <2>2. \A u \in Thread : u # t /\ server[u].of = s => ~Tried(u)
    BY <1>3 DEF Untried
  <2>3. server[t].of = s
    BY <1>2 DEF x
  <2>4. ASSUME NEW u \in Thread, NEW v \in Thread, server'[u].of \notin late \cup {0},
               server'[u].of = server'[v].of,
               Tried(u)', Tried(v)'
        PROVE  u = v
    <3> HIDE DEF t
    <3> QED
      BY <1>1, <1>2, <1>12, <2>1, <2>2, <2>3, <2>4 DEF OneTried
  <2>5. ASSUME NEW u \in Thread, server'[u].of \notin late
        PROVE  /\ \A q, r \in server'[u].running : q = r
               /\ server'[u].done \in {0, 1} /\ (server'[u].running # {} => server'[u].done = 0)
    <3>1. CASE u = t
      <4>1. server'[u].running = {p} /\ server'[u].done = 0
        BY <1>7, <1>8, <3>1
      <4> QED
        BY <4>1
    <3>2. CASE u # t
      <4>1. server'[u] = server[u]
        BY <1>8, <3>2
      <4> QED
        BY <1>1, <2>5, <4>1 DEF OneTried
    <3> QED
      BY <3>1, <3>2
  <2> QED
    BY <1>1, <2>4, <2>5 DEF OneTried
<1> QED
  BY <1>13, <1>14, <1>15, <1>16, <1>17, <1>18 DEF TurnInv, Turns

LEMMA LateStartedKeeps ==
    ASSUME TurnInv, NEW p \in Pid, proc[p].pc = "send", Of(p) \in late,
           LET t == proc[p].thread
           IN  server' = [server EXCEPT ![t].users = @ \cup {p}, ![t].running = @ \cup {p}],
           \/ proc' = [proc EXCEPT ![p].pc = "fail", ![p].definitive = FALSE]
           \/ proc' = [proc EXCEPT ![p].pc = "sent"],
           UNCHANGED <<session, spawning, stops, tickets, seen, late>>
    PROVE  TurnInv'
<1> DEFINE a == proc[p]
           t == a.thread
           x == server[t]
           users == x.users \cup {p}
           running == x.running \cup {p}
           y == [x EXCEPT !.users = users, !.running = running]
<1>1. server \in [Thread -> ServerThread] /\ a \in Dispatcher
  BY DEF TurnInv, Rows
<1>2. t \in Thread /\ x.of = Of(p)
  <2>1. a.thread # None
    BY ProcOf
  <2> QED
    BY <1>1, <2>1 DEF TurnInv, Turns, Belongs, Dispatcher
<1>3. ServerGoes
  <2>1. server' = [server EXCEPT ![t] = y]
    OBVIOUS
  <2>2. x \in ServerThread /\ users \in SUBSET Pid /\ running \in SUBSET Pid
    BY <1>1, <1>2 DEF ServerThread
  <2> HIDE DEF x, users, running
  <2>3. y \in ServerThread /\ y.of = x.of
    BY <2>2 DEF ServerThread
  <2> HIDE DEF y
  <2>4. \A u \in Thread : server'[u] = IF u = t THEN y ELSE server[u]
    BY <1>1, <2>1
  <2>5. \A u \in Thread : ThreadMoves(server[u], server'[u])
    BY <1>2, <2>3, <2>4 DEF ThreadMoves, x
  <2> QED
    BY <1>1, <2>1, <2>3, <2>5 DEF ServerGoes
<1>4. ProcsGo
  <2>1. CASE proc' = [proc EXCEPT ![p].pc = "fail", ![p].definitive = FALSE]
    BY <2>1, FailGoes
  <2>2. CASE proc' = [proc EXCEPT ![p].pc = "sent"]
    <3> DEFINE b == [a EXCEPT !.pc = "sent"]
    <3>1. b \in Dispatcher /\ b.pc = "sent" /\ b.token = Of(p)
      BY <1>1 DEF Dispatcher, Steps, Of
    <3>2. proc' = [proc EXCEPT ![p] = b]
      BY <2>2
    <3> HIDE DEF b
    <3>3. ProcMoves(a, b, session'[b.token])
      BY <3>1 DEF ProcMoves, Early
    <3> QED
      BY <3>1, <3>2, <3>3, ProcSet
  <2> QED
    BY <2>1, <2>2
<1> QED
  BY <1>3, <1>4, SessionSame, ProcKeeps DEF TurnInv, Lists

LEMMA SendKeeps ==
    ASSUME TurnInv, NEW p \in Pid, Send(p)
    PROVE  TurnInv'
<1>1. UNCHANGED <<session, spawning, stops, tickets, seen, late>> /\ proc[p].pc = "send"
  BY DEF Send, At
<1>2. CASE /\ UNCHANGED server
           /\ \E d \in BOOLEAN : proc' = [proc EXCEPT ![p].pc = "fail", ![p].definitive = d]
  <2>1. ProcsGo
    BY <1>1, <1>2, FailGoes
  <2> QED
    BY <1>1, <1>2, <2>1, SessionSame, ServerSame, ProcKeeps DEF TurnInv, Lists
<1> DEFINE started == LET t == proc[p].thread
                      IN  [server EXCEPT ![t].users = @ \cup {p}, ![t].running = @ \cup {p}]
<1>3. CASE /\ server' = started
           /\ \/ proc' = [proc EXCEPT ![p].pc = "fail", ![p].definitive = FALSE]
              \/ proc' = [proc EXCEPT ![p].pc = "sent"]
  BY <1>1, <1>3, StartedKeeps, LateStartedKeeps
<1>4. CASE /\ UNCHANGED server
           /\ \/ proc' = [proc EXCEPT ![p].pc = "fail", ![p].definitive = FALSE]
              \/ proc' = [proc EXCEPT ![p].pc = "fail", ![p].definitive = TRUE]
  BY <1>2, <1>4
<1> QED
  BY <1>3, <1>4 DEF Send, Fails, Refused, Only

\* thread/start: a thread of the reservation that has run nothing, or none.
LEMMA InvokeKeeps ==
    ASSUME TurnInv, NEW p \in Pid, Invoke(p)
    PROVE  TurnInv'
<1> DEFINE s == Of(p)
           a == proc[p]
<1>1. UNCHANGED <<session, spawning, stops, tickets, seen, late>> /\ a.pc = "invoke"
  BY DEF Invoke, At
<1>2. CASE /\ UNCHANGED server
           /\ \E d \in BOOLEAN : proc' = [proc EXCEPT ![p].pc = "fail", ![p].definitive = d]
  <2>1. ProcsGo
    BY <1>1, <1>2, FailGoes
  <2> QED
    BY <1>1, <1>2, <2>1, SessionSame, ServerSame, ProcKeeps DEF TurnInv, Lists
<1>3. CASE \E t \in Thread :
              /\ server[t] = Absent
              /\ \E y \in ServerThread : /\ server' = [server EXCEPT ![t] = y]
                                       /\ y.of = s /\ y.running = {} /\ y.done = 0
              /\ \/ \E c \in {"ack", "unfit"} :
                       proc' = [proc EXCEPT ![p].pc = c, ![p].thread = t]
                 \/ proc' = [proc EXCEPT ![p].pc = "fail", ![p].definitive = FALSE]
  <2>1. PICK t \in Thread, y \in ServerThread :
           /\ server[t] = Absent /\ server' = [server EXCEPT ![t] = y]
           /\ y.of = s /\ y.running = {} /\ y.done = 0
           /\ \/ \E c \in {"ack", "unfit"} :
                    proc' = [proc EXCEPT ![p].pc = c, ![p].thread = t]
              \/ proc' = [proc EXCEPT ![p].pc = "fail", ![p].definitive = FALSE]
    BY <1>3
  <2>2. /\ session \in [Session -> Row] /\ proc \in [Pid -> Dispatcher]
        /\ server \in [Thread -> ServerThread] /\ \A r \in Session : Filled(session[r])
        /\ Belongs /\ Open /\ OneDriver /\ (\A q \in Pid : Driven(q)) /\ OneTried
        /\ late' = late
    BY <1>1 DEF TurnInv, Rows, Turns
  <2>3. s \in Session /\ a \in Dispatcher /\ a.thread = None
    BY <1>1, <2>2, ProcOf DEF Belongs, Early
  <2> DEFINE b == proc'[p]
  <2>4. y.of = s /\ y.running = {} /\ y.done = 0
    BY <2>1
  <2>5. server[t].of = 0 /\ server[t].running = {} /\ server[t].done = 0
    BY <2>1 DEF Absent
  <2>6. \A u \in Thread : server'[u] = IF u = t THEN y ELSE server[u]
    BY <2>1, <2>2
  <2>7. /\ \A q \in Pid \ {p} : proc'[q] = proc[q]
        /\ proc' \in [Pid -> Dispatcher] /\ b.token = s
        /\ \/ b.pc \in {"ack", "unfit"} /\ b.thread = t
           \/ b.pc = "fail" /\ b.thread = None
    <3>1. ASSUME NEW c \in Dispatcher, proc' = [proc EXCEPT ![p] = c]
          PROVE  proc' \in [Pid -> Dispatcher] /\ b = c /\ \A q \in Pid \ {p} : proc'[q] = proc[q]
      BY <2>2, <3>1
    <3>2. CASE proc' = [proc EXCEPT ![p].pc = "fail", ![p].definitive = FALSE]
      <4> DEFINE c == [a EXCEPT !.pc = "fail", !.definitive = FALSE]
      <4>1. c \in Dispatcher /\ c.token = s /\ c.thread = None /\ c.pc = "fail"
        BY <2>3 DEF Dispatcher, Steps, Of
      <4>2. proc' = [proc EXCEPT ![p] = c]
        BY <3>2
      <4> HIDE DEF c, b
      <4> QED
        BY <3>1, <4>1, <4>2
    <3>3. ASSUME NEW pc \in {"ack", "unfit"}, proc' = [proc EXCEPT ![p].pc = pc, ![p].thread = t]
          PROVE  /\ \A q \in Pid \ {p} : proc'[q] = proc[q]
                 /\ proc' \in [Pid -> Dispatcher] /\ b.token = s
                 /\ b.pc \in {"ack", "unfit"} /\ b.thread = t
      <4> DEFINE c == [a EXCEPT !.pc = pc, !.thread = t]
      <4>1. c \in Dispatcher /\ c.token = s /\ c.thread = t /\ c.pc = pc
        BY <2>3 DEF Dispatcher, Steps, Of
      <4>2. proc' = [proc EXCEPT ![p] = c]
        BY <3>3
      <4> HIDE DEF c, b
      <4> QED
        BY <3>1, <4>1, <4>2
    <3> QED
      BY <2>1, <3>2, <3>3
  <2> HIDE DEF b
  <2>8. \A q \in Pid : proc'[q] = IF q = p THEN b ELSE proc[q]
    BY <2>7 DEF b
  <2>9. ~Drives(b)
    BY <2>7 DEF Drives
  <2>10. \A u \in Thread : (Tried(u)' <=> Tried(u)) /\ (u # t => server'[u].of = server[u].of)
    BY <2>4, <2>5, <2>6 DEF Tried
  <2>11. \A r \in Session : Untried(r) => Untried(r)'
    BY <2>4, <2>6, <2>10 DEF Untried, Tried
  <2>12. Rows' /\ Lists'
    <3>1. server' \in [Thread -> ServerThread]
      BY <2>1, <2>2
    <3> QED
      BY <1>1, <2>2, <2>7, <3>1 DEF TurnInv, Rows, Lists
  <2>13. Belongs'
    <3>1. \A u \in Thread : server[u].of \in Session => server'[u].of = server[u].of
      BY <2>5, <2>6 DEF Session
    <3>2. \A r \in Session : session[r].thread \in Thread \cup {None}
      BY <2>2 DEF Row
    <3>3. \A q \in Pid : proc[q].thread \in Thread \cup {None} /\ proc[q].token \in Session
      BY <2>2 DEF Dispatcher
    <3>4. server'[t].of = s /\ t # None
      BY <2>4, <2>6, DispatchAssumption DEF Thread
    <3> QED
      BY <1>1, <2>2, <2>7, <2>8, <3>1, <3>2, <3>3, <3>4 DEF Belongs, Of, Early
  <2>14. Open'
    BY <1>1, <2>2, <2>8, <2>9, <2>11 DEF Open, Of
  <2>15. OneDriver'
    BY <2>2, <2>8, <2>9 DEF OneDriver, Of
  <2>16. ASSUME NEW q \in Pid PROVE Driven(q)'
    <3>1. CASE q = p
      <4>1. ~Drives(proc'[q])
        BY <2>8, <2>9, <3>1
      <4> QED
        BY <4>1 DEF Driven, Drives, Of
    <3>2. CASE q # p
      <4>1. proc'[q] = proc[q] /\ proc[q].token \in Session
        BY <2>2, <2>8, <3>2 DEF Dispatcher
      <4> QED
        BY <1>1, <2>2, <2>11, <4>1 DEF Driven, Of
    <3> QED
      BY <3>1, <3>2
  <2>17. OneTried'
    <3>1. \A u, v \in Thread :
             server'[u].of \notin late \cup {0} /\ server'[u].of = server'[v].of /\ Tried(u)' /\ Tried(v)' => u = v
      <4>1. ~Tried(t)
        BY <2>5 DEF Tried
      <4> QED
        BY <2>2, <2>10, <4>1 DEF OneTried
    <3>2. ASSUME NEW u \in Thread, server'[u].of \notin late
          PROVE  /\ \A q, r \in server'[u].running : q = r
                 /\ server'[u].done \in {0, 1}
                 /\ (server'[u].running # {} => server'[u].done = 0)
      BY <2>2, <2>4, <2>6, <3>2 DEF OneTried
    <3> QED
      BY <2>2, <3>1, <3>2 DEF OneTried
  <2> QED
    BY <2>12, <2>13, <2>14, <2>15, <2>16, <2>17 DEF TurnInv, Turns
<1>4. ASSUME NEW t \in Thread, server[t] = Absent,
             server' \in {[server EXCEPT ![t].of = s, ![t].users = {p}],
                          [server EXCEPT ![t].of = s]}
      PROVE  \E y \in ServerThread : /\ server' = [server EXCEPT ![t] = y]
                                     /\ y.of = s /\ y.running = {} /\ y.done = 0
  <2> DEFINE x == server[t]
  <2>1. s \in Session /\ x \in ServerThread
    BY ProcOf DEF TurnInv, Rows
  <2>4. x.running = {} /\ x.done = 0
    BY <1>4 DEF Absent
  <2> HIDE DEF s, x
  <2>2. CASE server' = [server EXCEPT ![t].of = s, ![t].users = {p}]
    <3> DEFINE y == [x EXCEPT !.of = s, !.users = {p}]
    <3>1. y \in ServerThread /\ y.of = s /\ y.running = {} /\ y.done = 0
      BY <2>1, <2>4 DEF ServerThread
    <3>2. server' = [server EXCEPT ![t] = y]
      BY <2>2 DEF x
    <3> HIDE DEF y
    <3> QED
      BY <3>1, <3>2
  <2>3. CASE server' = [server EXCEPT ![t].of = s]
    <3> DEFINE y == [x EXCEPT !.of = s]
    <3>1. y \in ServerThread /\ y.of = s /\ y.running = {} /\ y.done = 0
      BY <2>1, <2>4 DEF ServerThread
    <3>2. server' = [server EXCEPT ![t] = y]
      BY <2>3 DEF x
    <3> HIDE DEF y
    <3> QED
      BY <3>1, <3>2
  <2> QED
    BY <1>4, <2>2, <2>3
<1>5. CASE ~\E d \in BOOLEAN :
              UNCHANGED server /\ proc' = [proc EXCEPT ![p].pc = "fail", ![p].definitive = d]
  <2>1. \E t \in Thread :
           /\ server[t] = Absent
           /\ server' \in {[server EXCEPT ![t].of = s, ![t].users = {p}],
                           [server EXCEPT ![t].of = s]}
           /\ \/ \E c \in {"ack", "unfit"} :
                    proc' = [proc EXCEPT ![p].pc = c, ![p].thread = t]
              \/ proc' = [proc EXCEPT ![p].pc = "fail", ![p].definitive = FALSE]
    BY <1>5 DEF Invoke, Fails, Refused, Only
  <2> QED
    BY <1>3, <1>4, <2>1
<1> QED
  BY <1>2, <1>5

\* The send was certainly refused: its turn did not start and may be claimed again.
LEMMA RefusedKeeps ==
    ASSUME TurnInv, NEW p \in Pid, NEW y \in Row, proc[p].pc = "fail", proc[p].thread # None,
           proc[p].definitive, Of(p) \notin late, session[Of(p)].status = "SEND_RELAYING",
           session' = [session EXCEPT ![Of(p)] = y],
           y.status = "PREPARED", y.thread = session[Of(p)].thread,
           Raises(p),
           UNCHANGED <<server, spawning, stops, tickets, seen, late>>
    PROVE  TurnInv'
<1> DEFINE s == Of(p)
           x == session[s]
           b == [Unborn EXCEPT !.pc = "die", !.token = s]
<1>1. /\ session \in [Session -> Row] /\ proc \in [Pid -> Dispatcher]
      /\ \A r \in Session : Filled(session[r])
      /\ Belongs /\ Open /\ OneDriver /\ (\A q \in Pid : Driven(q)) /\ OneTried
  BY DEF TurnInv, Rows, Turns
<1>2. s \in Session /\ Filled(x)
  BY ProcOf
<1>3. Drives(proc[p]) /\ Untried(s)
  BY <1>1 DEF Driven, Drives
<1>4. Filled(y)
  BY <1>2 DEF Filled
<1>5. b \in Dispatcher /\ b.pc = "die" /\ b.token = s
  <2> HIDE DEF s
  <2> QED
    BY <1>2, UnbornFields
<1>6. proc' = [proc EXCEPT ![p] = b]
  BY DEF Raises
<1> HIDE DEF b
<1>7. /\ \A r \in Session : session'[r] = IF r = s THEN y ELSE session[r]
      /\ \A q \in Pid : proc'[q] = IF q = p THEN b ELSE proc[q]
  BY <1>1, <1>6
<1>8. Rows' /\ Lists'
  BY <1>1, <1>4, <1>5, <1>6, <1>7 DEF TurnInv, Rows, Lists
<1>9. Belongs'
  BY <1>1, <1>5, <1>7 DEF Belongs, Of, Early
<1>10. \A r \in Session : Untried(r)' <=> Untried(r)
  BY DEF Untried, Tried
<1>11. \A q \in Pid : q # p /\ Of(q) = s => ~Drives(proc[q])
  BY <1>3, OtherDriver
<1>12. Open'
  <2> SUFFICES ASSUME NEW r \in Session \ late, Unclaimed(session'[r])
               PROVE  Untried(r)' /\ \A q \in Pid : proc'[q].token = r => ~Drives(proc'[q])
    BY DEF Open, Of
  <2>1. ~Drives(b)
    BY <1>5 DEF Drives
  <2>2. CASE r = s
    BY <1>3, <1>7, <1>10, <1>11, <2>1, <2>2 DEF Of
  <2>3. CASE r # s
    BY <1>1, <1>5, <1>7, <1>10, <2>3 DEF Open, Of
  <2> QED
    BY <2>2, <2>3
<1>13. OneDriver'
  <2>1. ~Drives(b)
    BY <1>5 DEF Drives
  <2> QED
    BY <1>1, <1>7, <2>1 DEF OneDriver, Of
<1>14. ASSUME NEW q \in Pid PROVE Driven(q)'
  <2>1. CASE q = p \/ Of(q) = s
    <3>1. ~Drives(proc'[q])
      BY <1>5, <1>7, <1>11, <2>1 DEF Drives
    <3> QED
      BY <3>1 DEF Driven, Drives, Of
  <2>2. CASE q # p /\ Of(q) # s
    <3>1. proc'[q] = proc[q] /\ session'[proc[q].token] = session[proc[q].token]
          /\ proc[q].token \in Session
      BY <1>1, <1>7, <2>2 DEF Of, Dispatcher
    <3> QED
      BY <1>1, <1>10, <3>1 DEF Driven, Of
  <2> QED
    BY <2>1, <2>2
<1>15. OneTried'
  BY <1>1 DEF OneTried, Tried
<1> QED
  BY <1>8, <1>9, <1>12, <1>13, <1>14, <1>15 DEF TurnInv, Turns

LEMMA FailKeeps ==
    ASSUME TurnInv, NEW p \in Pid, Fail(p)
    PROVE  TurnInv'
<1> DEFINE s == Of(p)
           x == session[s]
           a == proc[p]
           d == a.definitive
           y == Failed(x, d)
           phase == IF x.status = "AMBIGUOUS" /\ x.phase # "none" THEN x.phase ELSE x.status
<1>1. /\ UNCHANGED <<server, spawning, stops, tickets, seen>> /\ a.pc = "fail"
      /\ Raises(p)
  BY DEF Fail, At
<1>2. x \in Row /\ s \in Session /\ Filled(x) /\ a \in Dispatcher /\ d \in BOOLEAN
  <2>1. a \in Dispatcher
    BY ProcOf
  <2> QED
    BY <2>1, ProcOf DEF Dispatcher
<1>3. ProcsGo
  BY <1>1, RaisesGo
<1>6. late \subseteq late' /\ late' \subseteq Session /\ (s \in late' \/ (late' = late /\ ~LateRefusal(p)))
  BY <1>2 DEF Fail, TurnInv, Lists
<1>4. CASE x.status \notin Phase(p)
  BY <1>1, <1>3, <1>4, <1>6, SessionSame, ServerSame, LateKeeps DEF Fail, Only
<1>5. CASE x.status \in Phase(p)
  <2>1. session' = [session EXCEPT ![s] = y]
    BY <1>5 DEF Fail
  <2>2. /\ y \in Row /\ y.thread = x.thread
        /\ ~d => y.status = "AMBIGUOUS" /\ y.phase = phase
        /\ d /\ phase \in {"PREPARED", "SEND_RELAYING"} => y.status = "PREPARED"
        /\ d /\ phase \notin {"PREPARED", "SEND_RELAYING"} => y.status = "RETRY_WAIT"
    BY <1>2, FailedRow
  <2> HIDE DEF y
  <2>3. ASSUME SessionMoves(s, x, y), Filled(y) PROVE TurnInv'
    <3>1. SessionsGo
      BY <1>2, <2>1, <2>2, <2>3, SessionSet
    <3> QED
      BY <1>1, <1>3, <1>6, <3>1, ServerSame, LateKeeps
  <2>4. CASE ~d
    <3>1. SessionMoves(s, x, y) /\ Filled(y)
      BY <1>2, <2>2, <2>4 DEF SessionMoves, Filled, Unclaimed
    <3> QED
      BY <2>3, <3>1
  <2>5. CASE d /\ phase \notin {"PREPARED", "SEND_RELAYING"}
    <3>1. SessionMoves(s, x, y) /\ Filled(y)
      BY <1>2, <2>2, <2>5, EndedTurn
    <3> QED
      BY <2>3, <3>1
  <2>6. CASE d /\ phase = "PREPARED"
    <3>1. SessionMoves(s, x, y) /\ Filled(y)
      BY <1>2, <2>2, <2>6 DEF SessionMoves, Filled, Unclaimed
    <3> QED
      BY <2>3, <3>1
  <2>8. CASE d /\ phase = "SEND_RELAYING" /\ s \in late'
    <3>1. SessionMoves(s, x, y) /\ Filled(y)
      BY <1>2, <2>2, <2>8 DEF SessionMoves, Filled
    <3> QED
      BY <2>3, <3>1
  <2>7. CASE d /\ phase = "SEND_RELAYING" /\ s \notin late'
    <3>1. a.thread # None
      BY <1>6, <2>7 DEF LateRefusal
    <3>2. x.status = "SEND_RELAYING"
      BY <1>5, <2>7, <3>1 DEF Phase
    <3> QED
      BY <1>1, <1>6, <2>1, <2>2, <2>7, <3>1, <3>2, RefusedKeeps
  <2> QED
    BY <1>2, <2>4, <2>5, <2>6, <2>7, <2>8
<1> QED
  BY <1>4, <1>5

LEMMA AsideKeeps ==
    ASSUME TurnInv, WakeLooks \/ Resume \/ RequestPause
                    \/ \E s \in Session : SettleLostCreate(s) \/ Rearm(s)
    PROVE  TurnInv'
<1>1. seen \subseteq Session /\ tickets \subseteq Session /\ stops \subseteq Thread
  BY DEF TurnInv, Lists
<1>2. UNCHANGED <<session, proc, server, spawning, stops, late>>
  BY DEF WakeLooks, Resume, RequestPause, SettleLostCreate, Rearm
<1>3. seen' \subseteq Session /\ tickets' \subseteq Session
  BY <1>1 DEF WakeLooks, Resume, RequestPause, SettleLostCreate, Rearm, Overdue
<1> QED
  BY <1>1, <1>2, <1>3, OthersKeep

-----------------------------------------------------------------------------
(* Dispatch: the invariant holds, and what it says                           *)

LEMMA InitTurnInv == DispatchInit => TurnInv
<1> SUFFICES ASSUME DispatchInit PROVE TurnInv
  OBVIOUS
<1>1. 1 \in Session /\ None \notin Thread
  BY DispatchAssumption DEF Session, Thread
<1>2. Blank \in Row /\ Blank.status = "FREE" /\ Blank.thread = None
  BY DEF Blank, Row, Status, Phases, Dispatches
<1>3. LET y == Asked(Blank) IN y \in Row /\ y.status = "CREATE_REQUESTED" /\ y.thread = None
  BY <1>2, AskedRow
<1>4. Unborn \in Dispatcher /\ Unborn.pc = "none" /\ Unborn.thread = None
  BY UnbornIs
<1>5. Absent \in ServerThread /\ Absent.of = 0 /\ Absent.running = {} /\ Absent.done = 0
  BY DEF Absent, ServerThread, Ends
<1>6. /\ \A s \in Session : session[s] \in {Blank, Asked(Blank)}
      /\ \A p \in Pid : proc[p] = Unborn
      /\ \A t \in Thread : server[t] = Absent
      /\ session = [s \in Session |-> session[s]] /\ proc = [p \in Pid |-> proc[p]]
      /\ server = [t \in Thread |-> server[t]]
      /\ spawning = {} /\ seen = {} /\ tickets = {} /\ stops = {} /\ late = {}
  BY DEF DispatchInit
<1>7. Lists
  BY <1>6 DEF Lists
<1>8. \A s \in Session : session[s] \in Row /\ session[s].thread = None
                         /\ session[s].status \in {"FREE", "CREATE_REQUESTED"}
  BY <1>2, <1>3, <1>6
<1>9. Rows
  <2>1. session \in [Session -> Row] /\ proc \in [Pid -> Dispatcher]
        /\ server \in [Thread -> ServerThread]
    BY <1>4, <1>5, <1>6, <1>8
  <2> QED
    BY <1>8, <2>1 DEF Rows, Filled
<1>10. \A t \in Thread : ~Tried(t)
  BY <1>5, <1>6 DEF Tried
<1>11. \A p \in Pid : ~Drives(proc[p])
  BY <1>4, <1>6 DEF Drives
<1>12. Belongs
  BY <1>4, <1>6, <1>8 DEF Belongs, Early
<1>13. Open /\ OneDriver /\ \A p \in Pid : Driven(p)
  BY <1>10, <1>11, IdleDriven DEF Open, OneDriver, Untried
<1>14. OneTried
  BY <1>5, <1>6, <1>10 DEF OneTried
<1> QED
  BY <1>7, <1>9, <1>12, <1>13, <1>14 DEF TurnInv, Turns

LEMMA NextTurnInv == TurnInv /\ [DispatchNext]_dispatchVars => TurnInv'
<1> SUFFICES ASSUME TurnInv, [DispatchNext]_dispatchVars
             PROVE  TurnInv'
  OBVIOUS
<1>1. CASE UNCHANGED dispatchVars
  BY <1>1, OthersKeep DEF dispatchVars, TurnInv, Lists
<1>2. ASSUME NEW p \in Pid, Step(p) \/ Kill(p) PROVE TurnInv'
  <2>1. CASE Own(p) \/ Gate(p)
    BY <2>1, OwnKeeps, WaysKeep
  <2>2. CASE Reset(p)
    BY <2>2, ResetKeeps
  <2>3. CASE Create(p) \/ Invoke(p) \/ Unfit(p) \/ Acknowledge(p)
    BY <2>3, CreateKeeps, InvokeKeeps, CreatedKeeps
  <2>4. CASE Claim(p) \/ Send(p) \/ Sent(p) \/ Wait(p)
    BY <2>4, ClaimKeeps, SendKeeps, SentKeeps, WaitKeeps
  <2>5. CASE Fail(p)
    BY <2>5, FailKeeps
  <2>6. CASE Complete(p) \/ Exit(p) \/ Adopt(p)
    BY <2>6, CompleteKeeps, ExitKeeps, AdoptKeeps
  <2>7. CASE Die(p) \/ Kill(p)
    BY <2>7, DieKeeps
  <2> QED
    BY <1>2, <2>1, <2>2, <2>3, <2>4, <2>5, <2>6, <2>7 DEF Step
<1>3. CASE \E w \in spawning : Popen(w) \/ PopenFails(w) \/ Bind(w)
  BY <1>3, SpawnKeeps
<1>4. CASE \E s \in Session : Schedule(s) \/ Recreate(s)
  BY <1>4, RaiseKeeps, RecreateKeeps
<1>5. CASE \E t \in Thread : TurnCompletes(t) \/ TurnFails(t) \/ StopHook(t) \/ LoseThread(t)
  BY <1>5, TurnEndsKeep, StopHookKeeps
<1>6. CASE WakeLooks \/ Resume \/ RequestPause \/ \E s \in Session : SettleLostCreate(s) \/ Rearm(s)
  BY <1>6, AsideKeeps
<1>7. CASE Reserve \/ Reconcile
  BY <1>7, ReserveKeeps, ReconcileKeeps
<1>8. CASE DispatchNext
  BY <1>2, <1>3, <1>4, <1>5, <1>6, <1>7, <1>8 DEF DispatchNext
<1> QED
  BY <1>1, <1>8

\* Of the threads of a reservation one runs at most one turn, the others none.
LEMMA OneTurnFromTurnInv == TurnInv => OneTurnAtATime
<1> SUFFICES ASSUME TurnInv PROVE OneTurnAtATime
  OBVIOUS
<1>1. /\ session \in [Session -> Row] /\ proc \in [Pid -> Dispatcher]
      /\ \A s \in Session : Filled(session[s])
      /\ spawning \subseteq [token : Session, child : Pid \cup {None}]
      /\ seen \subseteq Session /\ tickets \subseteq Session /\ stops \subseteq Thread
      /\ late \subseteq Session
  BY DEF TurnInv, Rows, Lists
<1>2. DispatchTypeOK
  <2>1. ASSUME NEW s \in Session
        PROVE  /\ session[s].status \in Status
               /\ session[s].thread \in Thread \cup {None}
               /\ {session[s].pid, session[s].conn} \subseteq Pid \cup {None}
               /\ Filled(session[s])
    BY <1>1 DEF Row
  <2>2. \A p \in Pid : proc[p].token \in Session /\ proc[p].next \subseteq Session
    BY <1>1 DEF Dispatcher
  <2>3. \A w \in spawning : w.token \in Session /\ w.child \in Pid \cup {None}
    BY <1>1
  <2> QED
    BY <1>1, <2>1, <2>2, <2>3 DEF DispatchTypeOK, Filled
<1>3. ASSUME NEW s \in Session \ late PROVE Cardinality(Running(s)) <= 1
  <2>1. s # 0
    BY <1>3 DEF Session
  <2>2. ASSUME NEW e \in Running(s), NEW f \in Running(s) PROVE e = f
    <3>1. PICK t \in Threads(s) : \E p \in server[t].running : e = <<t, p>>
      BY DEF Running
    <3>2. PICK u \in Threads(s) : \E q \in server[u].running : f = <<u, q>>
      BY DEF Running
    <3>3. t = u
      BY <2>1, <3>1, <3>2 DEF Threads, TurnInv, Turns, OneTried, Tried
    <3>4. \A p, q \in server[t].running : p = q
      BY DEF Threads, TurnInv, Turns, OneTried
    <3> QED
      BY <3>1, <3>2, <3>3, <3>4
  <2>3. CASE Running(s) = {}
    BY <2>3, FS_EmptySet
  <2>4. CASE Running(s) # {}
    <3>1. PICK e \in Running(s) : TRUE
      BY <2>4
    <3>2. Running(s) = {e}
      BY <2>2, <3>1
    <3>3. Cardinality({e}) = 1
      BY FS_Singleton
    <3> QED
      BY <3>2, <3>3
  <2> QED
    BY <2>3, <2>4
<1> QED
  BY <1>2, <1>3 DEF OneTurnAtATime

LEMMA WorkedOnceFromTurnInv == TurnInv => WorkedOnce
<1> SUFFICES ASSUME TurnInv, NEW s \in Session \ late, NEW t \in Threads(s), NEW u \in Threads(s),
                    server[t].done > 0
             PROVE  server[t].done = 1 /\ (u # t => server[u].done = 0)
  BY DEF WorkedOnce
<1>1. s # 0
  BY DEF Session
<1>2. OneTried
  BY DEF TurnInv, Turns
<1>3. t \in Thread /\ u \in Thread /\ server[t].of = s /\ server[u].of = s
  BY DEF Threads
<1>4. server[t].done = 1
  BY <1>2, <1>3 DEF OneTried
<1>5. u # t => server[u].done = 0
  BY <1>1, <1>2, <1>3, <1>4 DEF OneTried, Tried
<1> QED
  BY <1>4, <1>5

\* Two turns of a reservation never run at once, with any number of processes, threads, kills
\* and surprises, whoever raised its dispatchers and when, as long as no dispatcher forgot a
\* thread of it that another one had gone on with (_reset_to_create_requested) or recorded a
\* refused create of it over a claim (record_desktop_failure).  What the others go through is
\* no excuse: the exception is the reservation's own.
THEOREM OneTurnAlways == DispatchSpec => []OneTurnAtATime
<1>1. DispatchSpec => []TurnInv
  BY InitTurnInv, NextTurnInv, PTL DEF DispatchSpec
<1> QED
  BY <1>1, OneTurnFromTurnInv, PTL

\* The work of a reservation is done at most once, whether its dispatchers, its Stop hook or
\* the wake-up end it, with the same exception.
THEOREM WorkedOnceAlways == DispatchSpec => []WorkedOnce
<1>1. DispatchSpec => []TurnInv
  BY InitTurnInv, NextTurnInv, PTL DEF DispatchSpec
<1> QED
  BY <1>1, WorkedOnceFromTurnInv, PTL
=============================================================================
