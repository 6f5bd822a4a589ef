---------------------------- MODULE StagingProofs ----------------------------
(***************************************************************************)
(* Proofs about Staging, for every set of tasks and of files and for every *)
(* number of edits, faults and visits from outside.                        *)
(***************************************************************************)
EXTENDS Staging, FiniteSetTheorems, TLAPS

-----------------------------------------------------------------------------
(* The invariant                                                             *)

Steps == {"READY", "RUNNING", "IMPLEMENTED", "VERIFYING", "REVISION_REQUIRED", "REVISING",
          "VERIFIED"}

Types ==
    /\ canon \in Tree /\ rec \in [Task -> Record] /\ step \in [Task -> Steps]
    /\ job \in [task : SUBSET Task, left : SUBSET Path]
    /\ edits \in [Task -> 0..MaxEdits] /\ faults \in 0..MaxFaults /\ outside \in 0..MaxOutside
    /\ raced \subseteq Path /\ torn \subseteq Task

\* Workspace and proposal hold all of the copy they began as, and beside it only the
\* work of their task.
Grown(t, r) ==
    \A p \in Path : /\ r.base[p] \subseteq r.work[p] /\ r.work[p] \ r.base[p] \subseteq Work(t)
                    /\ r.base[p] \subseteq r.prop[p] /\ r.prop[p] \ r.base[p] \subseteq Work(t)

Records == \A t \in Task : Grown(t, rec[t])

IsPromoted(t) == rec[t].status = "PROMOTED"

\* Run state accepts a task only when its work is in the project.
Accepted == \A t \in Task : step[t] = "VERIFIED" => IsPromoted(t)

\* The file has what the promoted task put there, and no other work of that task.
Holds(file, t, p) == rec[t].prop[p] \subseteq file /\ file \cap Work(t) \subseteq rec[t].prop[p]

InPlace == \A t \in Task : IsPromoted(t) =>
               \A p \in Changes(rec[t]) \ raced : Holds(canon[p], t, p)

\* A promotion under way: the files left are as the copy was taken and as the proposal was
\* judged, the others are installed; what it started from holds the work of every task
\* promoted before it.
Promoting(t) ==
    /\ rec[t].status = "PROMOTING"
    /\ job.left \subseteq Changes(rec[t])
    /\ \A p \in job.left \ raced : /\ rec[t].work[p] = rec[t].prop[p]
                                   /\ canon[p] = rec[t].base[p]
    /\ \A p \in (Changes(rec[t]) \ job.left) \ raced : canon[p] = rec[t].prop[p]
    /\ \A u \in Task : IsPromoted(u) =>
           \A p \in (Changes(rec[t]) \cap Changes(rec[u])) \ raced : Holds(rec[t].base[p], u, p)
    /\ t \notin torn =>
           \A p \in (Path \ Changes(rec[t])) \ raced : canon[p] \cap Work(t) = {}

Applying == job = Idle \/ \E t \in Task : job.task = {t} /\ Promoting(t)

\* Where the work of a task may be that no interrupted promotion has left there.
Traces ==
    \A t \in Task \ torn, p \in Path \ raced :
        /\ canon[p] \cap Work(t) # {} => IsPromoted(t) \/ t \in job.task
        /\ \A u \in Task : rec[u].base[p] \cap Work(t) # {} => IsPromoted(t) /\ t # u

IInv == Types /\ Records /\ Accepted /\ InPlace /\ Applying /\ Traces

-----------------------------------------------------------------------------
(* Marks, records and steps                                                  *)

\* The work of one task is none of another's and none from outside.
LEMMA WorkIsItsOwn ==
    ASSUME NEW t \in Task, NEW u \in Task
    PROVE  Work(t) \subseteq Mark /\ Outside \notin Work(t) /\ (t # u => Work(t) \cap Work(u) = {})
BY StagingAssumption DEF Work, Mark

\* The trees of a record.
LEMMA RecordTrees ==
    ASSUME NEW r \in Record
    PROVE  r.base \in Tree /\ r.work \in Tree /\ r.prop \in Tree
BY DEF Record

LEMMA WithRecordStatus ==
    ASSUME NEW r \in Record, NEW s \in StagingStatus \cup {"NONE", "UNTRACKED"}
    PROVE  LET new == [r EXCEPT !.status = s] IN
           /\ new \in Record /\ new.status = s
           /\ new.base = r.base /\ new.work = r.work /\ new.prop = r.prop
BY DEF Record

\* What Launched leads to, and from where.
LEMMA LaunchedSteps ==
    /\ \A s \in DOMAIN Launched : s \in Steps /\ s # "VERIFIED" /\ Launched[s] \in Steps
                                  /\ Launched[s] # "VERIFIED"
    /\ \A x \in {"RUNNING", "REVISING", "VERIFYING"} :
           \E s \in DOMAIN Launched : Launched[s] = x
<1>1. DOMAIN Launched = {"READY", "IMPLEMENTED", "REVISION_REQUIRED"}
  BY DEF Launched
<1>2. /\ Launched["READY"] = "RUNNING" /\ Launched["IMPLEMENTED"] = "VERIFYING"
      /\ Launched["REVISION_REQUIRED"] = "REVISING"
  BY DEF Launched
<1> QED
  BY <1>1, <1>2 DEF Steps

-----------------------------------------------------------------------------
(* What a change of one record leaves of the invariant                       *)

\* Run state and the rest of the bookkeeping, whatever the operation.
LEMMA SaveKeeps ==
    ASSUME Types, NEW t \in Task, NEW s \in Steps, Save(t, s)
    PROVE  /\ step' \in [Task -> Steps] /\ faults' \in 0..MaxFaults
           /\ \A u \in Task : step'[u] = step[u] \/ (u = t /\ step'[u] = s)
BY StagingAssumption DEF Types, Save

LEMMA FaultKeeps ==
    ASSUME Types, Fault
    PROVE  faults' \in 0..MaxFaults
BY StagingAssumption DEF Types, Fault

\* No promotion runs, and the record of a task that is not promoted becomes another that
\* is not: a copy that grew by its own work alone, taken of a project in which what was
\* cut short is known.
LEMMA RecordKeeps ==
    ASSUME IInv, Unlocked, NEW t \in Task, NEW r \in Record,
           rec' = [rec EXCEPT ![t] = r], ~IsPromoted(t), r.status # "PROMOTED",
           Grown(t, r),
           \A u \in Task \ torn, p \in Path \ raced :
               r.base[p] \cap Work(u) # {} => IsPromoted(u) /\ u # t,
           UNCHANGED <<canon, job, raced, torn>>
    PROVE  rec' \in [Task -> Record] /\ Records' /\ InPlace' /\ Applying' /\ Traces'
           /\ (\A u \in Task : IsPromoted(u)' <=> IsPromoted(u))
<1>1. rec' \in [Task -> Record] /\ rec'[t] = r /\ \A u \in Task : u # t => rec'[u] = rec[u]
  BY DEF IInv, Types
<1>2. \A u \in Task : IsPromoted(u)' <=> IsPromoted(u)
  BY <1>1 DEF IsPromoted
<1>3. Records'
  BY <1>1 DEF IInv, Records, Grown
<1>4. InPlace'
  <2>1. \A u \in Task : IsPromoted(u)' => IsPromoted(u) /\ rec'[u] = rec[u]
    BY <1>1, <1>2
  <2> QED
    BY <2>1 DEF IInv, InPlace, Holds, Changes
<1>5. Applying'
  BY DEF Applying, Unlocked, Idle
<1>6. Traces'
  BY <1>1, <1>2 DEF IInv, Traces
<1> QED
  BY <1>1, <1>2, <1>3, <1>4, <1>5, <1>6

\* With nothing told of a task but a step that is not its acceptance.
LEMMA StepKeeps ==
    ASSUME IInv, NEW t \in Task, NEW s \in Steps, s # "VERIFIED",
           \A u \in Task : step'[u] = step[u] \/ (u = t /\ step'[u] = s),
           \A u \in Task : IsPromoted(u)' <=> IsPromoted(u)
    PROVE  Accepted'
BY DEF IInv, Accepted

\* A copy of the project taken while no promotion runs.
LEMMA CopyIsGood ==
    ASSUME IInv, Unlocked, NEW t \in Task, ~IsPromoted(t)
    PROVE  /\ Copy \in Record /\ Copy.status = "PREPARED" /\ Grown(t, Copy)
           /\ \A u \in Task \ torn, p \in Path \ raced :
                  Copy.base[p] \cap Work(u) # {} => IsPromoted(u) /\ u # t
<1>1. canon \in Tree /\ Promoted \subseteq Task
  BY DEF IInv, Types, Promoted
<1>2. Copy \in Record /\ Copy.status = "PREPARED"
      /\ Copy.base = canon /\ Copy.work = canon /\ Copy.prop = canon
  BY <1>1 DEF Copy, Record, StagingStatus
<1>3. job.task = {}
  BY DEF Unlocked, Idle
<1> QED
  BY <1>2, <1>3 DEF Grown, IInv, Traces

\* A record that keeps its copy, its workspace and its proposal.
LEMMA SameTrees ==
    ASSUME IInv, NEW t \in Task, NEW r, r.base = rec[t].base, r.work = rec[t].work,
           r.prop = rec[t].prop
    PROVE  /\ Grown(t, r)
           /\ \A u \in Task \ torn, p \in Path \ raced :
                  r.base[p] \cap Work(u) # {} => IsPromoted(u) /\ u # t
BY DEF IInv, Records, Grown, Traces

LEMMA PreparedIsGood ==
    ASSUME IInv, Unlocked, NEW t \in Task, ~Refused(t)
    PROVE  /\ ~IsPromoted(t) /\ Prepared(rec[t]) \in Record
           /\ Prepared(rec[t]).status # "PROMOTED" /\ Grown(t, Prepared(rec[t]))
           /\ \A u \in Task \ torn, p \in Path \ raced :
                  Prepared(rec[t]).base[p] \cap Work(u) # {} => IsPromoted(u) /\ u # t
<1>1. ~IsPromoted(t) /\ rec[t] \in Record
  BY DEF Refused, IsPromoted, IInv, Types
<1>2. Prepared(rec[t]) = Copy \/ Prepared(rec[t]) = rec[t]
  BY DEF Prepared
<1>3. CASE Prepared(rec[t]) = Copy
  BY <1>1, <1>3, CopyIsGood
<1>4. CASE Prepared(rec[t]) = rec[t]
  BY <1>1, <1>4, SameTrees DEF IsPromoted
<1> QED
  BY <1>2, <1>3, <1>4

-----------------------------------------------------------------------------
(* Reservation                                                               *)

LEMMA ReserveKeeps ==
    ASSUME IInv, NEW t \in Task, Reserve(t)
    PROVE  IInv'
<1> DEFINE r == Prepared(rec[t])
<1>1. /\ ~IsPromoted(t) /\ r \in Record /\ r.status # "PROMOTED" /\ Grown(t, r)
      /\ \A u \in Task \ torn, p \in Path \ raced :
             r.base[p] \cap Work(u) # {} => IsPromoted(u) /\ u # t
      /\ Unlocked
  BY PreparedIsGood DEF Reserve
<1>2. rec' = [rec EXCEPT ![t] = r] /\ UNCHANGED <<canon, job, raced, torn>>
  BY DEF Reserve
<1> HIDE DEF r
<1>3. rec' \in [Task -> Record] /\ Records' /\ InPlace' /\ Applying' /\ Traces'
      /\ (\A u \in Task : IsPromoted(u)' <=> IsPromoted(u))
  BY <1>1, <1>2, RecordKeeps
<1>4. Launched[step[t]] \in Steps /\ Launched[step[t]] # "VERIFIED"
  BY LaunchedSteps DEF Reserve, Due
<1>5. Save(t, Launched[step[t]]) /\ Types
  BY DEF Reserve, IInv
<1>6. /\ step' \in [Task -> Steps] /\ faults' \in 0..MaxFaults
      /\ \A u \in Task : step'[u] = step[u] \/ (u = t /\ step'[u] = Launched[step[t]])
  BY ONLY <1>4, <1>5, SaveKeeps
<1>7. Accepted'
  BY <1>3, <1>4, <1>6, StepKeeps
<1>8. Types'
  BY <1>3, <1>6 DEF IInv, Types, Reserve
<1> QED
  BY <1>3, <1>7, <1>8 DEF IInv

LEMMA ReserveInVainKeeps ==
    ASSUME IInv, NEW t \in Task, ReserveInVain(t)
    PROVE  IInv'
<1> DEFINE r == Prepared(rec[t])
<1>1. /\ ~IsPromoted(t) /\ r \in Record /\ r.status # "PROMOTED" /\ Grown(t, r)
      /\ \A u \in Task \ torn, p \in Path \ raced :
             r.base[p] \cap Work(u) # {} => IsPromoted(u) /\ u # t
      /\ Unlocked
  BY PreparedIsGood DEF ReserveInVain
<1>2. rec' = [rec EXCEPT ![t] = r] /\ UNCHANGED <<canon, job, raced, torn>>
  BY DEF ReserveInVain
<1> HIDE DEF r
<1>3. rec' \in [Task -> Record] /\ Records' /\ InPlace' /\ Applying' /\ Traces'
      /\ (\A u \in Task : IsPromoted(u)' <=> IsPromoted(u))
  BY <1>1, <1>2, RecordKeeps
<1>4. Accepted'
  BY <1>3 DEF IInv, Accepted, ReserveInVain
<1>5. Types'
  BY <1>3 DEF IInv, Types, ReserveInVain
<1> QED
  BY <1>3, <1>4, <1>5 DEF IInv

LEMMA ReserveInterruptedKeeps ==
    ASSUME IInv, NEW t \in Task, ReserveInterrupted(t)
    PROVE  IInv'
<1>1. PICK s \in {"ABANDONED", "UNTRACKED"} : rec' = [rec EXCEPT ![t].status = s]
  BY DEF ReserveInterrupted
<1> DEFINE r == [rec[t] EXCEPT !.status = s]
<1>2. r \in Record /\ r.status = s /\ r.base = rec[t].base /\ r.work = rec[t].work
      /\ r.prop = rec[t].prop
  BY WithRecordStatus DEF IInv, Types, StagingStatus
<1>3. rec' = [rec EXCEPT ![t] = r] /\ UNCHANGED <<canon, job, raced, torn>> /\ Unlocked
      /\ r.status # "PROMOTED"
  BY <1>1, <1>2 DEF ReserveInterrupted
<1>4. ~IsPromoted(t)
  BY DEF ReserveInterrupted, Refused, IsPromoted
<1> HIDE DEF r
<1>5. rec' \in [Task -> Record] /\ Records' /\ InPlace' /\ Applying' /\ Traces'
      /\ (\A u \in Task : IsPromoted(u)' <=> IsPromoted(u))
  BY <1>2, <1>3, <1>4, SameTrees, RecordKeeps
<1>6. Accepted'
  BY <1>5 DEF IInv, Accepted, ReserveInterrupted
<1>7. faults' \in 0..MaxFaults
  BY FaultKeeps DEF IInv, ReserveInterrupted
<1>8. Types'
  BY <1>5, <1>7 DEF IInv, Types, ReserveInterrupted
<1> QED
  BY <1>5, <1>6, <1>8 DEF IInv

\* The session's task is due again.
LEMMA SessionLostKeeps ==
    ASSUME IInv, NEW t \in Task, SessionLost(t)
    PROVE  IInv'
<1>1. PICK s \in DOMAIN Launched : step' = [step EXCEPT ![t] = s]
  BY DEF SessionLost
<1>2. step' = [step EXCEPT ![t] = s]
  BY <1>1
<1>3. s \in Steps /\ s # "VERIFIED"
  BY <1>1, LaunchedSteps
<1>4. step' \in [Task -> Steps] /\ \A u \in Task : step'[u] = step[u] \/ (u = t /\ step'[u] = s)
  BY <1>2, <1>3 DEF IInv, Types
<1>5. Accepted'
  BY <1>3, <1>4 DEF IInv, Accepted, IsPromoted, SessionLost
<1>6. faults' \in 0..MaxFaults
  BY FaultKeeps DEF IInv, SessionLost
<1>7. Types'
  BY <1>4, <1>6 DEF IInv, Types, SessionLost
<1>8. Records' /\ InPlace' /\ Applying' /\ Traces'
  BY DEF IInv, Records, InPlace, Applying, Traces, Promoting, Holds, IsPromoted, SessionLost
<1> QED
  BY <1>5, <1>7, <1>8 DEF IInv

-----------------------------------------------------------------------------
(* Work                                                                      *)

\* A mark in a workspace is its task's own; one in a file that a promotion has yet to
\* install is a race.
LEMMA EditKeeps ==
    ASSUME IInv, NEW t \in Task, NEW p \in Path, Edit(t, p)
    PROVE  IInv'
<1> DEFINE mark == <<t, edits[t] + 1>>
           work == [rec[t].work EXCEPT ![p] = @ \cup {mark}]
           r == [rec[t] EXCEPT !.work = work]
<1>1. edits[t] \in Nat /\ edits[t] + 1 \in 1..MaxEdits /\ rec[t] \in Record
  BY StagingAssumption DEF Edit, IInv, Types
<1>2. mark \in Work(t) /\ mark \in Mark
  BY <1>1 DEF Work, Mark
<1>3. rec' = [rec EXCEPT ![t] = r]
  BY DEF Edit
<1>4. rec[t].work \in Tree
  BY <1>1, RecordTrees
<1>5. work \in Tree /\ work[p] = rec[t].work[p] \cup {mark}
      /\ \A q \in Path : q # p => work[q] = rec[t].work[q]
  BY <1>2, <1>4 DEF Tree
<1>6. r \in Record /\ r.status = rec[t].status /\ r.base = rec[t].base
      /\ r.prop = rec[t].prop /\ r.work = work
  BY <1>1, <1>5 DEF Record
<1> HIDE DEF mark, work, r
<1>7. rec' \in [Task -> Record] /\ rec'[t] = r /\ \A u \in Task : u # t => rec'[u] = rec[u]
  BY <1>3, <1>6 DEF IInv, Types
<1>8. \A u \in Task : /\ rec'[u].status = rec[u].status /\ rec'[u].base = rec[u].base
                      /\ rec'[u].prop = rec[u].prop
  BY <1>6, <1>7
<1>9. \A u \in Task : (IsPromoted(u)' <=> IsPromoted(u)) /\ Changes(rec[u])' = Changes(rec[u])
  BY <1>8 DEF IsPromoted, Changes
<1>10. raced \subseteq raced' /\ raced' \subseteq Path
       /\ UNCHANGED <<canon, step, job, faults, outside, torn>>
       /\ edits' = [edits EXCEPT ![t] = @ + 1]
  BY DEF Edit, IInv, Types
<1>11. edits' \in [Task -> 0..MaxEdits]
  BY <1>1, <1>10 DEF IInv, Types
<1>12. Types'
  BY <1>7, <1>10, <1>11 DEF IInv, Types
<1>13. Records'
  <2>1. Grown(t, rec[t])
    BY DEF IInv, Records
  <2>2. Grown(t, r)
    BY <1>2, <1>5, <1>6, <2>1 DEF Grown
  <2> QED
    BY <1>7, <2>2 DEF IInv, Records, Grown
<1>14. Accepted'
  BY <1>9, <1>10 DEF IInv, Accepted
<1>15. InPlace'
  BY <1>8, <1>9, <1>10 DEF IInv, InPlace, Holds
<1>16. Applying'
  <2>1. CASE job = Idle
    BY <1>10, <2>1 DEF Applying
  <2>2. ASSUME NEW u \in Task, job.task = {u}, Promoting(u)
        PROVE  Promoting(u)'
    <3>1. \A q \in job.left \ raced' : rec'[u].work[q] = rec[u].work[q]
      <4>1. CASE u # t
        BY <1>7, <4>1
      <4>2. CASE u = t
        <5>1. p \in job.left => p \in raced'
          BY <2>2, <4>2 DEF Edit
        <5> QED
          BY <1>5, <1>6, <1>7, <4>2, <5>1 DEF IInv, Types
      <4> QED
        BY <4>1, <4>2
    <3>2. \A w \in Task, v \in Task, q \in Path :
              Holds(rec[w].base[q], v, q)' <=> Holds(rec[w].base[q], v, q)
      BY <1>8 DEF Holds
    <3>3. job.left \subseteq Path
      BY DEF IInv, Types
    <3> QED
      BY <1>8, <1>9, <1>10, <2>2, <3>1, <3>2, <3>3 DEF Promoting, Changes
  <2> QED
    BY <1>10, <2>1, <2>2 DEF IInv, Applying
<1>17. Traces'
  BY <1>8, <1>9, <1>10 DEF IInv, Traces
<1> QED
  BY <1>12, <1>13, <1>14, <1>15, <1>16, <1>17 DEF IInv

\* An edit from outside is no task's work, and a race while a promotion copies.
LEMMA EditOutsideKeeps ==
    ASSUME IInv, NEW p \in Path, EditOutside(p)
    PROVE  IInv'
<1>1. canon \in Tree /\ Outside \in Mark
  BY DEF IInv, Types, Mark
<1>2. canon' \in Tree /\ canon'[p] = canon[p] \cup {Outside}
      /\ \A q \in Path : q # p => canon'[q] = canon[q]
  BY <1>1 DEF EditOutside, Tree
<1>3. \A t \in Task, q \in Path : canon'[q] \cap Work(t) = canon[q] \cap Work(t)
                                  /\ canon[q] \subseteq canon'[q]
  BY <1>2, WorkIsItsOwn
<1>4. raced \subseteq raced' /\ raced' \subseteq Path /\ (job # Idle => p \in raced')
      /\ UNCHANGED <<rec, step, job, edits, faults, torn>>
  BY DEF EditOutside, IInv, Types, Unlocked
<1>5. outside' \in 0..MaxOutside
  BY StagingAssumption DEF EditOutside, IInv, Types
<1>6. Types'
  BY <1>2, <1>4, <1>5 DEF IInv, Types
<1>7. Records' /\ Accepted'
  BY <1>4 DEF IInv, Records, Accepted, IsPromoted
<1>8. InPlace'
  BY <1>3, <1>4 DEF IInv, InPlace, Holds, IsPromoted, Changes
<1>9. Applying'
  <2>1. CASE job = Idle
    BY <1>4, <2>1 DEF Applying
  <2>2. ASSUME job # Idle, NEW u \in Task, job.task = {u}, Promoting(u)
        PROVE  Promoting(u)'
    <3>1. \A q \in Path \ raced' : q \notin raced /\ canon'[q] = canon[q]
      BY <1>2, <1>4, <2>2
    <3>2. job.left \subseteq Path
      BY DEF IInv, Types
    <3> QED
      BY <1>4, <2>2, <3>1, <3>2 DEF Promoting, Changes, Holds, IsPromoted
  <2> QED
    BY <1>4, <2>1, <2>2 DEF IInv, Applying
<1>10. Traces'
  BY <1>3, <1>4 DEF IInv, Traces, IsPromoted
<1> QED
  BY <1>6, <1>7, <1>8, <1>9, <1>10 DEF IInv

-----------------------------------------------------------------------------
(* Completion                                                                *)

\* A record that is delivered, sent back or passed without a promotion.
LEMMA SealedIsGood ==
    ASSUME IInv, NEW t \in Task, NEW s \in StagingStatus, s # "PROMOTED",
           NEW r, r = [Seal(rec[t]) EXCEPT !.status = s]
    PROVE  /\ r \in Record /\ r.status = s /\ Grown(t, r)
           /\ \A u \in Task \ torn, p \in Path \ raced :
                  r.base[p] \cap Work(u) # {} => IsPromoted(u) /\ u # t
<1>1. rec[t] \in Record
  BY DEF IInv, Types
<1>2. r \in Record /\ r.status = s /\ r.base = rec[t].base /\ r.work = rec[t].work
      /\ r.prop = rec[t].work
  BY <1>1 DEF Seal, Record
<1>3. Grown(t, rec[t])
  BY DEF IInv, Records
<1>4. Grown(t, r)
  BY <1>2, <1>3 DEF Grown
<1> QED
  BY <1>2, <1>4 DEF IInv, Traces

\* The step of a completion that touches nothing but the record and run state.
LEMMA CompletionKeeps ==
    ASSUME IInv, Unlocked, NEW t \in Task, NEW r \in Record, NEW s \in Steps, s # "VERIFIED",
           rec' = [rec EXCEPT ![t] = r], ~IsPromoted(t), r.status # "PROMOTED", Grown(t, r),
           \A u \in Task \ torn, p \in Path \ raced :
               r.base[p] \cap Work(u) # {} => IsPromoted(u) /\ u # t,
           Save(t, s), UNCHANGED <<canon, job, edits, outside, raced, torn>>
    PROVE  IInv'
<1>1. rec' \in [Task -> Record] /\ Records' /\ InPlace' /\ Applying' /\ Traces'
      /\ (\A u \in Task : IsPromoted(u)' <=> IsPromoted(u))
  BY RecordKeeps
<1>2. Types
  BY DEF IInv
<1>3. /\ step' \in [Task -> Steps] /\ faults' \in 0..MaxFaults
      /\ \A u \in Task : step'[u] = step[u] \/ (u = t /\ step'[u] = s)
  BY ONLY <1>2, Save(t, s), SaveKeeps
<1>4. Accepted'
  BY <1>1, <1>3, StepKeeps
<1>5. Types'
  BY <1>1, <1>3 DEF IInv, Types
<1> QED
  BY <1>1, <1>4, <1>5 DEF IInv

LEMMA DeliverKeeps ==
    ASSUME IInv, NEW t \in Task, Deliver(t)
    PROVE  IInv'
<1> DEFINE r == [Seal(rec[t]) EXCEPT !.status = "PROPOSED"]
<1>1. rec[t] \in Record /\ ~IsPromoted(t)
  BY DEF IInv, Types, Deliver, Sealable, IsPromoted
<1>2. r = Seal(rec[t])
  BY <1>1 DEF Seal, Record
<1>3. rec' = [rec EXCEPT ![t] = r] /\ Unlocked /\ Save(t, "IMPLEMENTED")
      /\ UNCHANGED <<canon, job, edits, outside, raced, torn>>
  BY <1>2 DEF Deliver
<1>4. /\ r \in Record /\ r.status = "PROPOSED" /\ Grown(t, r)
      /\ \A u \in Task \ torn, p \in Path \ raced :
             r.base[p] \cap Work(u) # {} => IsPromoted(u) /\ u # t
  <2>1. r = [Seal(rec[t]) EXCEPT !.status = "PROPOSED"] /\ "PROPOSED" \in StagingStatus
    BY DEF StagingStatus
  <2> HIDE DEF r
  <2> QED
    BY <2>1, SealedIsGood
<1>5. "IMPLEMENTED" \in Steps
  BY DEF Steps
<1> HIDE DEF r
<1> QED
  BY <1>1, <1>3, <1>4, <1>5, CompletionKeeps

LEMMA DeliverFailingKeeps ==
    ASSUME IInv, NEW t \in Task, DeliverFailing(t)
    PROVE  IInv'
<1> DEFINE r == [Seal(rec[t]) EXCEPT !.status = "REVISION_REQUIRED"]
<1>1. ~IsPromoted(t)
  BY DEF DeliverFailing, Sealable, IsPromoted
<1>2. rec' = [rec EXCEPT ![t] = r] /\ Unlocked /\ Save(t, "REVISION_REQUIRED")
      /\ UNCHANGED <<canon, job, edits, outside, raced, torn>>
  BY DEF DeliverFailing
<1>3. /\ r \in Record /\ r.status = "REVISION_REQUIRED" /\ Grown(t, r)
      /\ \A u \in Task \ torn, p \in Path \ raced :
             r.base[p] \cap Work(u) # {} => IsPromoted(u) /\ u # t
  <2>1. r = [Seal(rec[t]) EXCEPT !.status = "REVISION_REQUIRED"] /\ "REVISION_REQUIRED" \in StagingStatus
    BY DEF StagingStatus
  <2> HIDE DEF r
  <2> QED
    BY <2>1, SealedIsGood
<1>4. "REVISION_REQUIRED" \in Steps
  BY DEF Steps
<1> HIDE DEF r
<1> QED
  BY <1>1, <1>2, <1>3, <1>4, CompletionKeeps

LEMMA ReviseKeeps ==
    ASSUME IInv, NEW t \in Task, Revise(t)
    PROVE  IInv'
<1> DEFINE r == [rec[t] EXCEPT !.status = "REVISION_REQUIRED"]
<1>1. ~IsPromoted(t)
  BY DEF Revise, IsPromoted
<1>2. rec' = [rec EXCEPT ![t] = r] /\ Unlocked /\ Save(t, "REVISION_REQUIRED")
      /\ UNCHANGED <<canon, job, edits, outside, raced, torn>>
  BY DEF Revise
<1>3. r \in Record /\ r.status = "REVISION_REQUIRED" /\ r.base = rec[t].base
      /\ r.work = rec[t].work /\ r.prop = rec[t].prop
  BY WithRecordStatus DEF IInv, Types, StagingStatus
<1>4. "REVISION_REQUIRED" \in Steps
  BY DEF Steps
<1> HIDE DEF r
<1>5. /\ Grown(t, r)
      /\ \A u \in Task \ torn, p \in Path \ raced :
             r.base[p] \cap Work(u) # {} => IsPromoted(u) /\ u # t
  BY <1>3, SameTrees
<1> QED
  BY <1>1, <1>2, <1>3, <1>4, <1>5, CompletionKeeps

\* The comparison that begins a promotion makes the copy the project of now: it has the
\* work of the tasks promoted before.
LEMMA PassKeeps ==
    ASSUME IInv, NEW t \in Task, Pass(t)
    PROVE  IInv'
<1>1. rec[t] \in Record /\ ~IsPromoted(t) /\ Unlocked
      /\ UNCHANGED <<canon, step, edits, faults, outside, raced, torn>>
  BY DEF IInv, Types, Pass, IsPromoted
<1>2. CASE ~Promotable(rec[t])
  <2> DEFINE r == [rec[t] EXCEPT !.status = "VERIFIED"]
  <2>1. rec' = [rec EXCEPT ![t] = r] /\ UNCHANGED job
    BY <1>2 DEF Pass
  <2>2. r \in Record /\ r.status = "VERIFIED" /\ r.base = rec[t].base
        /\ r.work = rec[t].work /\ r.prop = rec[t].prop
    BY <1>1, WithRecordStatus DEF StagingStatus
  <2> HIDE DEF r
  <2>3. /\ Grown(t, r)
        /\ \A u \in Task \ torn, p \in Path \ raced :
               r.base[p] \cap Work(u) # {} => IsPromoted(u) /\ u # t
    BY <2>2, SameTrees
  <2>4. rec' \in [Task -> Record] /\ Records' /\ InPlace' /\ Applying' /\ Traces'
        /\ (\A u \in Task : IsPromoted(u)' <=> IsPromoted(u))
    BY <1>1, <2>1, <2>2, <2>3, RecordKeeps
  <2> QED
    BY <1>1, <2>1, <2>4 DEF IInv, Types, Accepted
<1>3. CASE Promotable(rec[t])
  <2> DEFINE r == [rec[t] EXCEPT !.status = "PROMOTING"]
  <2>1. rec' = [rec EXCEPT ![t] = r] /\ job' = [task |-> {t}, left |-> Changes(rec[t])]
    BY <1>3 DEF Pass
  <2>2. r \in Record /\ r.status = "PROMOTING" /\ r.base = rec[t].base
        /\ r.work = rec[t].work /\ r.prop = rec[t].prop
    BY <1>1, WithRecordStatus DEF StagingStatus
  <2> HIDE DEF r
  <2>3. rec' \in [Task -> Record] /\ rec'[t] = r /\ \A u \in Task : u # t => rec'[u] = rec[u]
    BY <2>1, <2>2 DEF IInv, Types
  <2>4. \A u \in Task : /\ rec'[u].base = rec[u].base /\ rec'[u].prop = rec[u].prop
                        /\ rec'[u].work = rec[u].work
                        /\ (IsPromoted(u)' <=> IsPromoted(u))
    BY <1>1, <2>2, <2>3 DEF IsPromoted
  <2>5. \A u \in Task : Changes(rec[u])' = Changes(rec[u])
    BY <2>4 DEF Changes
  <2>6. Changes(rec[t]) \subseteq Path /\ job.task = {}
    BY <1>1 DEF Changes, Unlocked, Idle
  <2>7. Types'
    BY <1>1, <2>1, <2>3, <2>6 DEF IInv, Types
  <2>8. Records' /\ Accepted' /\ InPlace' /\ Traces'
    BY <1>1, <2>4, <2>5, <2>6 DEF IInv, Records, Grown, Accepted, InPlace, Holds, Traces
  <2>9. Promoting(t)'
    <3>1. \A p \in Changes(rec[t]) : rec[t].work[p] = rec[t].prop[p] /\ canon[p] = rec[t].base[p]
      BY <1>3 DEF Promotable, NoCanonicalDrift
    <3>2. job'.left = Changes(rec[t])
      BY <2>1
    <3>3. \A u \in Task : IsPromoted(u) =>
              \A p \in (Changes(rec[t]) \cap Changes(rec[u])) \ raced : Holds(rec[t].base[p], u, p)
      BY <3>1 DEF IInv, InPlace
    <3>4. t \notin torn => \A p \in Path \ raced : canon[p] \cap Work(t) = {}
      BY <1>1, <2>6 DEF IInv, Traces
    <3>5. \A u \in Task, p \in Path : Holds(rec[t].base[p], u, p)' <=> Holds(rec[t].base[p], u, p)
      BY <2>4 DEF Holds
    <3> QED
      BY <1>1, <2>2, <2>3, <2>4, <2>5, <2>6, <3>1, <3>2, <3>3, <3>4, <3>5 DEF Promoting
  <2>10. Applying'
    BY <2>1, <2>9 DEF Applying
  <2> QED
    BY <2>7, <2>8, <2>10 DEF IInv
<1> QED
  BY <1>2, <1>3

LEMMA PassAgainKeeps ==
    ASSUME IInv, NEW t \in Task, PassAgain(t)
    PROVE  IInv'
<1>1. Types /\ Save(t, "VERIFIED") /\ "VERIFIED" \in Steps
      /\ UNCHANGED <<canon, rec, job, edits, outside, raced, torn>>
  BY DEF IInv, PassAgain, Steps
<1>2. /\ step' \in [Task -> Steps] /\ faults' \in 0..MaxFaults
      /\ \A u \in Task : step'[u] = step[u] \/ (u = t /\ step'[u] = "VERIFIED")
  BY ONLY <1>1, SaveKeeps
<1>3. Types'
  BY <1>1, <1>2 DEF Types
<1>4. Accepted'
  BY <1>1, <1>2 DEF IInv, Accepted, PassAgain, IsPromoted
<1>5. Records' /\ InPlace' /\ Applying' /\ Traces'
  BY <1>1 DEF IInv, Records, InPlace, Applying, Traces, Promoting, Holds, IsPromoted
<1> QED
  BY <1>3, <1>4, <1>5 DEF IInv

-----------------------------------------------------------------------------
(* The promotion                                                             *)

\* The promotion that is under way.
LEMMA TheJob ==
    ASSUME IInv, NEW t \in Task, t \in job.task
    PROVE  job.task = {t} /\ Promoting(t)
BY DEF IInv, Applying, Idle

\* The files of a promotion, each as its copy was taken or as its proposal was judged.
LEMMA PromotedFiles ==
    ASSUME IInv, NEW t \in Task, t \in job.task, NEW p \in Changes(rec[t]) \ raced
    PROVE  /\ canon[p] = rec[t].base[p] \/ canon[p] = rec[t].prop[p]
           /\ rec[t].base[p] \subseteq canon[p] /\ canon[p] \ rec[t].base[p] \subseteq Work(t)
<1>1. Promoting(t)
  BY TheJob
<1>2. p \in Path
  BY DEF Changes
<1>3. canon[p] = rec[t].base[p] \/ canon[p] = rec[t].prop[p]
  BY <1>1 DEF Promoting
<1>4. /\ rec[t].base[p] \subseteq rec[t].prop[p]
      /\ rec[t].prop[p] \ rec[t].base[p] \subseteq Work(t)
  BY <1>2 DEF IInv, Records, Grown
<1> QED
  BY <1>3, <1>4

\* A file of the project is installed or put back: what the tasks promoted before left in
\* it is in the copy, and so in either.
LEMMA FilesKeep ==
    ASSUME IInv, NEW t \in Task, t \in job.task, canon' \in Tree,
           UNCHANGED raced, \A u \in Task : u # t => rec'[u] = rec[u],
           \A p \in Path \ raced :
               \/ canon'[p] = canon[p]
               \/ p \in Changes(rec[t]) /\ canon'[p] \in {rec[t].base[p], rec[t].prop[p]}
    PROVE  \A u \in Task : u # t /\ IsPromoted(u) =>
               \A p \in Changes(rec[u]) \ raced : Holds(canon[p], u, p)'
<1> SUFFICES ASSUME NEW u \in Task, u # t, IsPromoted(u), NEW p \in Changes(rec[u]) \ raced
             PROVE  rec[u].prop[p] \subseteq canon'[p] /\ canon'[p] \cap Work(u) \subseteq rec[u].prop[p]
  BY DEF Holds
<1>1. p \in Path /\ Holds(canon[p], u, p)
  BY DEF Changes, IInv, InPlace
<1>2. CASE canon'[p] = canon[p]
  BY <1>1, <1>2 DEF Holds
<1>3. CASE p \in Changes(rec[t]) /\ canon'[p] \in {rec[t].base[p], rec[t].prop[p]}
  <2>1. Holds(rec[t].base[p], u, p)
    BY <1>3, TheJob DEF Promoting
  <2>2. /\ rec[t].base[p] \subseteq rec[t].prop[p]
        /\ rec[t].prop[p] \ rec[t].base[p] \subseteq Work(t)
    BY <1>1 DEF IInv, Records, Grown
  <2>3. Work(t) \cap Work(u) = {}
    BY WorkIsItsOwn
  <2>4. rec[t].prop[p] \cap Work(u) \subseteq rec[t].base[p] \cap Work(u)
    BY <2>2, <2>3
  <2> QED
    BY <1>3, <2>1, <2>2, <2>4 DEF Holds
<1> QED
  BY <1>1, <1>2, <1>3

\* And they hold no work but of the task of the promotion and of tasks promoted before.
LEMMA FilesAreTraced ==
    ASSUME IInv, NEW t \in Task, t \in job.task,
           \A p \in Path \ raced :
               \/ canon'[p] = canon[p]
               \/ p \in Changes(rec[t]) /\ canon'[p] \in {rec[t].base[p], rec[t].prop[p]}
    PROVE  \A u \in Task \ torn, p \in Path \ raced :
               u # t /\ canon'[p] \cap Work(u) # {} => IsPromoted(u)
<1> SUFFICES ASSUME NEW u \in Task \ torn, NEW p \in Path \ raced,
                    u # t, canon'[p] \cap Work(u) # {}
             PROVE  IsPromoted(u)
  OBVIOUS
<1>1. CASE canon'[p] = canon[p]
  BY <1>1, TheJob DEF IInv, Traces
<1>2. CASE canon'[p] \in {rec[t].base[p], rec[t].prop[p]}
  <2>1. /\ rec[t].base[p] \subseteq rec[t].prop[p]
        /\ rec[t].prop[p] \ rec[t].base[p] \subseteq Work(t)
    BY DEF IInv, Records, Grown
  <2>2. Work(t) \cap Work(u) = {}
    BY WorkIsItsOwn
  <2>3. rec[t].base[p] \cap Work(u) # {}
    BY <1>2, <2>1, <2>2
  <2> QED
    BY <2>3 DEF IInv, Traces
<1> QED
  BY <1>1, <1>2

\* What installing a file, or putting files back, makes of them.
LEMMA ApplyChangeFiles ==
    ASSUME IInv, NEW p \in Path, ApplyChange(p), NEW t \in job.task
    PROVE  /\ t \in Task /\ canon' \in Tree /\ p \in Changes(rec[t])
           /\ canon'[p] = rec[t].work[p] /\ \A q \in Path : q # p => canon'[q] = canon[q]
           /\ \A q \in Path \ raced :
                  \/ canon'[q] = canon[q]
                  \/ q \in Changes(rec[t]) /\ canon'[q] = rec[t].prop[q]
<1>1. t \in Task /\ job.task = {t} /\ Promoting(t)
  BY TheJob DEF IInv, Types
<1>2. canon' = [canon EXCEPT ![p] = rec[t].work[p]] /\ p \in job.left
  BY <1>1 DEF ApplyChange
<1>3. rec[t] \in Record /\ canon \in Tree
  BY <1>1 DEF IInv, Types
<1>4. rec[t].work[p] \in SUBSET Mark
  BY <1>3, RecordTrees DEF Tree
<1>5. canon' \in Tree /\ canon'[p] = rec[t].work[p]
      /\ \A q \in Path : q # p => canon'[q] = canon[q]
  BY <1>2, <1>3, <1>4 DEF Tree
<1>6. p \in Changes(rec[t]) /\ (p \notin raced => rec[t].work[p] = rec[t].prop[p])
  BY <1>1, <1>2 DEF Promoting
<1> QED
  BY <1>1, <1>5, <1>6

LEMMA RestoredFiles ==
    ASSUME IInv, NEW t \in job.task, NEW P \in SUBSET Changes(rec[t]), canon' = Restored(t, P)
    PROVE  /\ t \in Task /\ canon' \in Tree
           /\ \A q \in Path : canon'[q] = IF q \in P THEN rec[t].base[q] ELSE canon[q]
           /\ \A q \in Path \ raced :
                  \/ canon'[q] = canon[q]
                  \/ q \in Changes(rec[t]) /\ canon'[q] = rec[t].base[q]
<1>1. t \in Task /\ rec[t] \in Record /\ canon \in Tree
  BY DEF IInv, Types
<1>2. rec[t].base \in Tree
  BY <1>1, RecordTrees
<1>3. canon' \in Tree /\ \A q \in Path : canon'[q] = IF q \in P THEN rec[t].base[q] ELSE canon[q]
  BY <1>1, <1>2 DEF Restored, Tree
<1> QED
  BY <1>1, <1>3

LEMMA ApplyChangeKeeps ==
    ASSUME IInv, NEW p \in Path, ApplyChange(p)
    PROVE  IInv'
<1>1. PICK t \in job.task : TRUE
  BY DEF ApplyChange
<1>2. /\ t \in Task /\ canon' \in Tree /\ p \in Changes(rec[t])
      /\ canon'[p] = rec[t].work[p] /\ \A q \in Path : q # p => canon'[q] = canon[q]
      /\ \A q \in Path \ raced :
             \/ canon'[q] = canon[q]
             \/ q \in Changes(rec[t]) /\ canon'[q] = rec[t].prop[q]
  BY ApplyChangeFiles
<1>3. job.task = {t} /\ Promoting(t) /\ ~IsPromoted(t)
  BY <1>2, TheJob DEF Promoting, IsPromoted
<1>4. /\ job \in [task : SUBSET Task, left : SUBSET Path]
      /\ job' = [job EXCEPT !.left = @ \ {p}] /\ p \in job.left
      /\ UNCHANGED <<rec, step, edits, faults, outside, raced, torn>>
  BY DEF ApplyChange, IInv, Types
<1>5. /\ job' \in [task : SUBSET Task, left : SUBSET Path]
      /\ job'.task = {t} /\ job'.left = job.left \ {p}
  BY <1>3, <1>4
<1>6. Types'
  BY <1>2, <1>4, <1>5 DEF IInv, Types
<1>7. Records' /\ Accepted'
  BY <1>4 DEF IInv, Records, Accepted, IsPromoted
<1>8. \A u \in Task : u # t /\ IsPromoted(u) =>
          \A q \in Changes(rec[u]) \ raced : Holds(canon[q], u, q)'
  BY <1>2, <1>4, FilesKeep
<1>9. InPlace'
  BY <1>3, <1>4, <1>8 DEF InPlace, IsPromoted, Changes
<1>10. Promoting(t)'
  <2>1. p \notin raced => canon'[p] = rec[t].prop[p]
    BY <1>2, <1>3, <1>4 DEF Promoting
  <2>2. \A u \in Task, q \in Path : Holds(rec[t].base[q], u, q)' <=> Holds(rec[t].base[q], u, q)
    BY <1>4 DEF Holds
  <2>3. Changes(rec[t]) \subseteq Path
    BY DEF Changes
  <2> QED
    BY <1>2, <1>3, <1>4, <1>5, <2>1, <2>2, <2>3 DEF Promoting, Changes, IsPromoted
<1>11. Applying'
  BY <1>2, <1>5, <1>10 DEF Applying
<1>12. \A u \in Task \ torn, q \in Path \ raced :
           u # t /\ canon'[q] \cap Work(u) # {} => IsPromoted(u)
  BY <1>2, FilesAreTraced
<1>13. Traces'
  BY <1>4, <1>5, <1>12 DEF IInv, Traces, IsPromoted
<1> QED
  BY <1>6, <1>7, <1>9, <1>11, <1>13 DEF IInv

\* What is put back is put back whole: of the task no work is left in the project.
LEMMA RollBackKeeps ==
    ASSUME IInv, RollBack
    PROVE  IInv'
<1>1. PICK t \in job.task : canon' = Restored(t, Changes(rec[t]))
                            /\ rec' = [rec EXCEPT ![t].status = "VERIFIED"]
  BY DEF RollBack
<1>2. /\ t \in Task /\ canon' \in Tree
      /\ \A q \in Path : canon'[q] = IF q \in Changes(rec[t]) THEN rec[t].base[q] ELSE canon[q]
      /\ \A q \in Path \ raced :
             \/ canon'[q] = canon[q]
             \/ q \in Changes(rec[t]) /\ canon'[q] = rec[t].base[q]
  BY <1>1, RestoredFiles
<1>3. job.task = {t} /\ Promoting(t) /\ ~IsPromoted(t)
  BY <1>2, TheJob DEF Promoting, IsPromoted
<1> DEFINE r == [rec[t] EXCEPT !.status = "VERIFIED"]
<1>4. r \in Record /\ r.status = "VERIFIED" /\ r.base = rec[t].base /\ r.work = rec[t].work
      /\ r.prop = rec[t].prop
  BY <1>2, WithRecordStatus DEF IInv, Types, StagingStatus
<1>5. rec' = [rec EXCEPT ![t] = r]
  BY <1>1
<1> HIDE DEF r
<1>6. rec' \in [Task -> Record] /\ rec'[t] = r /\ \A u \in Task : u # t => rec'[u] = rec[u]
  BY <1>2, <1>4, <1>5 DEF IInv, Types
<1>7. \A u \in Task : /\ (IsPromoted(u)' <=> IsPromoted(u)) /\ Changes(rec[u])' = Changes(rec[u])
                      /\ rec'[u].base = rec[u].base /\ rec'[u].prop = rec[u].prop
                      /\ rec'[u].work = rec[u].work
  BY <1>3, <1>4, <1>6 DEF IsPromoted, Changes
<1>8. faults' \in 0..MaxFaults /\ job' = Idle
      /\ UNCHANGED <<step, edits, outside, raced, torn>>
  BY FaultKeeps DEF RollBack, IInv
<1>9. Types'
  BY <1>2, <1>6, <1>8 DEF IInv, Types, Idle
<1>10. Records' /\ Accepted'
  BY <1>7, <1>8 DEF IInv, Records, Grown, Accepted
<1>11. \A u \in Task : u # t /\ IsPromoted(u) =>
           \A q \in Changes(rec[u]) \ raced : Holds(canon[q], u, q)'
  BY <1>2, <1>6, <1>8, FilesKeep
<1>12. InPlace'
  BY <1>3, <1>7, <1>8, <1>11 DEF InPlace
<1>13. Applying'
  BY <1>8 DEF Applying
<1>14. \A u \in Task \ torn, q \in Path \ raced :
           u # t /\ canon'[q] \cap Work(u) # {} => IsPromoted(u)
  BY <1>2, FilesAreTraced
<1>15. t \notin torn => \A q \in Path \ raced : canon'[q] \cap Work(t) = {}
  BY <1>2, <1>3 DEF IInv, Traces, Promoting
<1>16. Traces'
  BY <1>2, <1>7, <1>8, <1>14, <1>15 DEF IInv, Traces
<1> QED
  BY <1>9, <1>10, <1>12, <1>13, <1>16 DEF IInv

LEMMA AbortKeeps ==
    ASSUME IInv, Abort
    PROVE  IInv'
<1>1. PICK t \in job.task, P \in SUBSET Path :
          P \subseteq Changes(rec[t]) /\ canon' = Restored(t, P)
  BY DEF Abort
<1>2. /\ t \in Task /\ canon' \in Tree
      /\ \A q \in Path \ raced :
             \/ canon'[q] = canon[q]
             \/ q \in Changes(rec[t]) /\ canon'[q] = rec[t].base[q]
  BY <1>1, RestoredFiles
<1>3. job.task = {t} /\ Promoting(t) /\ ~IsPromoted(t)
  BY <1>2, TheJob DEF Promoting, IsPromoted
<1>4. faults' \in 0..MaxFaults /\ job' = Idle /\ torn' = torn \cup {t}
      /\ UNCHANGED <<rec, step, edits, outside, raced>>
  BY <1>3, FaultKeeps DEF Abort, IInv
<1>5. Types'
  BY <1>2, <1>4 DEF IInv, Types, Idle
<1>6. Records' /\ Accepted'
  BY <1>4 DEF IInv, Records, Accepted, IsPromoted
<1>7. \A u \in Task : u # t /\ IsPromoted(u) =>
          \A q \in Changes(rec[u]) \ raced : Holds(canon[q], u, q)'
  BY <1>2, <1>4, FilesKeep
<1>8. InPlace'
  BY <1>3, <1>4, <1>7 DEF InPlace, IsPromoted, Changes
<1>9. Applying'
  BY <1>4 DEF Applying
<1>10. \A u \in Task \ torn, q \in Path \ raced :
           u # t /\ canon'[q] \cap Work(u) # {} => IsPromoted(u)
  BY <1>2, FilesAreTraced
<1>11. Traces'
  BY <1>4, <1>10 DEF IInv, Traces, IsPromoted
<1> QED
  BY <1>5, <1>6, <1>8, <1>9, <1>11 DEF IInv

LEMMA FinishKeeps ==
    ASSUME IInv, Finish
    PROVE  IInv'
<1>1. PICK t \in job.task : /\ rec' = [rec EXCEPT ![t].status = "PROMOTED"]
                            /\ Save(t, "VERIFIED")
  BY DEF Finish
<1>2. t \in Task /\ job.task = {t} /\ Promoting(t) /\ job.left = {}
      /\ job' = Idle /\ UNCHANGED <<canon, edits, outside, raced, torn>>
  BY TheJob DEF IInv, Types, Finish
<1> DEFINE r == [rec[t] EXCEPT !.status = "PROMOTED"]
<1>3. r \in Record /\ r.status = "PROMOTED" /\ r.base = rec[t].base /\ r.work = rec[t].work
      /\ r.prop = rec[t].prop
  BY <1>2, WithRecordStatus DEF IInv, Types, StagingStatus
<1>4. rec' = [rec EXCEPT ![t] = r]
  BY <1>1
<1> HIDE DEF r
<1>5. rec' \in [Task -> Record] /\ rec'[t] = r /\ \A u \in Task : u # t => rec'[u] = rec[u]
  BY <1>2, <1>3, <1>4 DEF IInv, Types
<1>6. \A u \in Task : /\ (IsPromoted(u)' <=> IsPromoted(u) \/ u = t)
                      /\ Changes(rec[u])' = Changes(rec[u])
                      /\ rec'[u].base = rec[u].base /\ rec'[u].prop = rec[u].prop
                      /\ rec'[u].work = rec[u].work
  BY <1>3, <1>5 DEF IsPromoted, Changes
<1>7. Types /\ "VERIFIED" \in Steps
  BY DEF IInv, Steps
<1>8. /\ step' \in [Task -> Steps] /\ faults' \in 0..MaxFaults
      /\ \A u \in Task : step'[u] = step[u] \/ (u = t /\ step'[u] = "VERIFIED")
  BY ONLY <1>1, <1>2, <1>7, SaveKeeps
<1>9. Types'
  BY <1>2, <1>5, <1>8 DEF IInv, Types, Idle
<1>10. Records'
  BY <1>6 DEF IInv, Records, Grown
<1>11. Accepted'
  BY <1>6, <1>8 DEF IInv, Accepted
<1>12. InPlace'
  <2>1. \A p \in Changes(rec[t]) \ raced : canon[p] = rec[t].prop[p]
    BY <1>2 DEF Promoting
  <2> QED
    BY <1>2, <1>6, <2>1 DEF IInv, InPlace, Holds
<1>13. Applying'
  BY <1>2 DEF Applying
<1>14. Traces'
  BY <1>2, <1>6 DEF IInv, Traces
<1> QED
  BY <1>9, <1>10, <1>11, <1>12, <1>13, <1>14 DEF IInv

-----------------------------------------------------------------------------
(* The theorems                                                              *)

LEMMA InitIInv ==
    Init => IInv
<1> SUFFICES ASSUME Init PROVE IInv
  OBVIOUS
<1>1. Blank \in Tree /\ \A p \in Path : Blank[p] = {}
  BY DEF Blank, Tree
<1>2. \A t \in Task : /\ rec[t].status = "NONE" /\ rec[t].base = Blank
                      /\ rec[t].work = Blank /\ rec[t].prop = Blank
  BY DEF Init
<1>3. Types
  BY <1>1, StagingAssumption DEF Init, Types, Record, Steps, Idle
<1>4. Records /\ Accepted /\ InPlace /\ Traces
  BY <1>1, <1>2 DEF Init, Records, Grown, Accepted, InPlace, IsPromoted, Traces
<1>5. Applying
  BY DEF Init, Applying
<1> QED
  BY <1>3, <1>4, <1>5 DEF IInv

LEMMA NextIInv ==
    IInv /\ [Next]_vars => IInv'
<1> SUFFICES ASSUME IInv, [Next]_vars PROVE IInv'
  OBVIOUS
<1>1. CASE UNCHANGED vars
  BY <1>1 DEF vars, IInv, Types, Records, Grown, Accepted, InPlace, Applying, Promoting, Traces,
              Holds, Changes, IsPromoted
<1>2. ASSUME NEW t \in Task,
             \/ Reserve(t) \/ ReserveInVain(t) \/ ReserveInterrupted(t) \/ SessionLost(t)
             \/ Deliver(t) \/ DeliverFailing(t) \/ Revise(t) \/ Pass(t) \/ PassAgain(t)
             \/ \E p \in Path : Edit(t, p)
      PROVE  IInv'
  BY <1>2, ReserveKeeps, ReserveInVainKeeps, ReserveInterruptedKeeps, SessionLostKeeps,
     DeliverKeeps, DeliverFailingKeeps, ReviseKeeps, PassKeeps, PassAgainKeeps, EditKeeps
<1>3. ASSUME NEW p \in Path, EditOutside(p) \/ ApplyChange(p)
      PROVE  IInv'
  BY <1>3, EditOutsideKeeps, ApplyChangeKeeps
<1>4. CASE RollBack \/ Abort \/ Finish
  BY <1>4, RollBackKeeps, AbortKeeps, FinishKeeps
<1> QED
  BY <1>1, <1>2, <1>3, <1>4 DEF Next

\* Accepted work is in the project, whole and as it was judged, whatever was promoted,
\* edited, interrupted or put back since.
THEOREM AcceptedIsPromotedAlways == Spec => []AcceptedIsPromoted
<1>1. IInv => AcceptedIsPromoted
  <2> SUFFICES ASSUME IInv PROVE AcceptedIsPromoted
    OBVIOUS
  <2>1. Cardinality(job.task) <= 1
    <3>1. CASE job = Idle
      BY <3>1, FS_EmptySet DEF Idle
    <3>2. ASSUME NEW t \in Task, job.task = {t}
          PROVE  Cardinality(job.task) <= 1
      BY <3>2, FS_Singleton
    <3> QED
      BY <3>1, <3>2 DEF IInv, Applying
  <2>2. TypeOK
    BY <2>1 DEF TypeOK, IInv, Types, Steps
  <2> QED
    BY <2>2 DEF AcceptedIsPromoted, IInv, Accepted, InPlace, Holds, IsPromoted
<1> QED
  BY <1>1, InitIInv, NextIInv, PTL DEF Spec

\* A promotion that is refused or put back leaves no work of its task in the project.
THEOREM OnlyPromotedWorkAlways == Spec => []OnlyPromotedWork
<1>1. IInv => OnlyPromotedWork
  <2> SUFFICES ASSUME IInv, NEW t \in Task \ torn, NEW p \in Path \ raced,
                      canon[p] \cap Work(t) # {}
               PROVE  rec[t].status \in {"PROMOTING", "PROMOTED"}
    BY DEF OnlyPromotedWork
  <2>1. IsPromoted(t) \/ t \in job.task
    BY DEF IInv, Traces
  <2> QED
    BY <2>1, TheJob DEF IsPromoted, Promoting
<1> QED
  BY <1>1, InitIInv, NextIInv, PTL DEF Spec

\* What a step may take out of a file that nobody races for is the work of the promotion
\* it puts back.
Kept == \A p \in Path \ raced' : canon[p] \ canon'[p] \subseteq UNION {Work(t) : t \in job.task}

LEMMA PromotionKeeps ==
    ASSUME IInv, NEW t \in job.task, NEW p \in Path \ raced,
           \/ canon'[p] = canon[p]
           \/ p \in Changes(rec[t]) /\ canon'[p] \in {rec[t].base[p], rec[t].prop[p]}
    PROVE  canon[p] \ canon'[p] \subseteq UNION {Work(u) : u \in job.task}
<1>1. t \in Task
  BY DEF IInv, Types
<1>2. CASE p \in Changes(rec[t]) /\ canon'[p] \in {rec[t].base[p], rec[t].prop[p]}
  <2>1. canon[p] \ rec[t].base[p] \subseteq Work(t)
    BY <1>1, <1>2, PromotedFiles
  <2>2. rec[t].base[p] \subseteq rec[t].prop[p]
    BY <1>1 DEF IInv, Records, Grown
  <2> QED
    BY <1>2, <2>1, <2>2
<1> QED
  BY <1>2

\* Nothing written in the project is overwritten, but for a race the store cannot exclude
\* and the work of the promotion that is put back.
THEOREM NoEditIsLostEver == Spec => NoEditIsLost
<1>1. IInv /\ [Next]_vars => [Kept]_vars
  <2> SUFFICES ASSUME IInv, Next PROVE Kept
    BY DEF Kept
  <2>1. CASE UNCHANGED canon
    BY <2>1 DEF Kept
  <2>2. ASSUME NEW q \in Path, EditOutside(q)
        PROVE  Kept
    <3>1. \A p \in Path : canon[p] \subseteq canon'[p]
      BY <2>2 DEF EditOutside, IInv, Types, Tree
    <3> QED
      BY <3>1 DEF Kept
  <2>3. ASSUME NEW q \in Path, ApplyChange(q)
        PROVE  Kept
    <3>1. PICK t \in job.task : TRUE
      BY <2>3 DEF ApplyChange
    <3>2. raced' = raced
      BY <2>3 DEF ApplyChange
    <3> QED
      BY <2>3, <3>1, <3>2, ApplyChangeFiles, PromotionKeeps DEF Kept
  <2>4. CASE RollBack \/ Abort
    <3>1. PICK t \in job.task : \E P \in SUBSET Changes(rec[t]) : canon' = Restored(t, P)
      BY <2>4 DEF RollBack, Abort
    <3>2. raced' = raced
      BY <2>4 DEF RollBack, Abort
    <3> QED
      BY <3>1, <3>2, RestoredFiles, PromotionKeeps DEF Kept
  <2>5. ASSUME NEW t \in Task,
               \/ Reserve(t) \/ ReserveInVain(t) \/ ReserveInterrupted(t) \/ SessionLost(t)
               \/ Deliver(t) \/ DeliverFailing(t) \/ Revise(t) \/ Pass(t) \/ PassAgain(t)
               \/ \E p \in Path : Edit(t, p)
        PROVE  UNCHANGED canon
    BY <2>5 DEF Reserve, ReserveInVain, ReserveInterrupted, SessionLost, Deliver,
                DeliverFailing, Revise, Pass, PassAgain, Edit
  <2>6. CASE Finish
    BY <2>1, <2>6 DEF Finish
  <2> QED
    BY <2>1, <2>2, <2>3, <2>4, <2>5, <2>6 DEF Next
<1>2. NoEditIsLost <=> [][Kept]_vars
  BY DEF NoEditIsLost, Kept
<1> QED
  BY <1>1, <1>2, InitIInv, NextIInv, PTL DEF Spec
=============================================================================
