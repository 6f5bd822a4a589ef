------------------------------ MODULE Staging ------------------------------
(***************************************************************************)
(* Isolated workspaces and verified promotion (artifact_staging.py and     *)
(* artifact_staging_lifecycle.py), driven by the reservations and the      *)
(* completions of the tasks that own the workspaces.                       *)
(*                                                                         *)
(* A file is the set of the marks left in it: <<t, n>> is the n-th edit of *)
(* task t and Outside an edit made in the project by someone else, so an   *)
(* edit that is overwritten is a mark that disappears.  A record is what   *)
(* record.json and the directory beside it hold.  The store works under a  *)
(* file lock: while one promotion runs (job) no other operation of the     *)
(* store does, but nothing keeps an editor out of either tree.             *)
(***************************************************************************)
EXTENDS Naturals, FiniteSets

CONSTANTS Task, Path, Outside,
          MaxEdits,     \* edits of one task, over all its sessions
          MaxFaults,    \* crashes and failed writes
          MaxOutside    \* edits made in the project from outside

ASSUME StagingAssumption ==
    /\ MaxEdits \in Nat /\ MaxFaults \in Nat /\ MaxOutside \in Nat
    /\ Outside \notin Task \X (1..MaxEdits)

VARIABLES canon,    \* the project's files
          rec,      \* the staging records and their workspaces
          step,     \* where run state holds the task to be
          job,      \* the promotion in progress, in the memory of one process
          edits, faults, outside,
          raced,    \* files somebody wrote while a promotion was copying
    torn      \* tasks of whose promotion a crash or a failed restoration left a part

vars == <<canon, rec, step, job, edits, faults, outside, raced, torn>>

Work(t) == {t} \X (1..MaxEdits)
Mark == (Task \X (1..MaxEdits)) \cup {Outside}
Tree == [Path -> SUBSET Mark]

StagingStatus == {"PREPARED", "PROPOSED", "REVISION_REQUIRED", "VERIFIED",
                  "PROMOTING", "PROMOTED", "ABANDONED"}
\* ... and no directory at all, or a directory without a record.
Record == [status : StagingStatus \cup {"NONE", "UNTRACKED"},
           base : Tree, work : Tree, prop : Tree, seen : SUBSET Task]

Followup == {"IMPLEMENTED", "REVISION_REQUIRED"}
Launched == [READY |-> "RUNNING", IMPLEMENTED |-> "VERIFYING", REVISION_REQUIRED |-> "REVISING"]
Idle == [task |-> {}, left |-> {}]

Blank == [p \in Path |-> {}]

TypeOK ==
    /\ canon \in Tree /\ rec \in [Task -> Record]
    /\ step \in [Task -> {"READY", "RUNNING", "IMPLEMENTED", "VERIFYING", "REVISION_REQUIRED",
                          "REVISING", "VERIFIED"}]
    /\ job \in [task : SUBSET Task, left : SUBSET Path] /\ Cardinality(job.task) <= 1
    /\ edits \in [Task -> 0..MaxEdits] /\ faults \in 0..MaxFaults /\ outside \in 0..MaxOutside
    /\ raced \subseteq Path /\ torn \subseteq Task

Init ==
    /\ canon = Blank
    /\ rec = [t \in Task |-> [status |-> "NONE", base |-> Blank, work |-> Blank,
                              prop |-> Blank, seen |-> {}]]
    /\ step = [t \in Task |-> "READY"]
    /\ job = Idle
    /\ edits = [t \in Task |-> 0] /\ faults = 0 /\ outside = 0
    /\ raced = {} /\ torn = {}

Unlocked == job = Idle

\* What run state is told of a step: nothing, when the process dies before it is saved.
Save(t, state) ==
    \/ step' = [step EXCEPT ![t] = state] /\ UNCHANGED faults
    \/ faults < MaxFaults /\ faults' = faults + 1 /\ UNCHANGED step

Fault == faults < MaxFaults /\ faults' = faults + 1

-----------------------------------------------------------------------------
(* Reservation.                                                             *)

Promoted == {u \in Task : rec[u].status = "PROMOTED"}

WorkspaceIsStale(r) == Promoted \ r.seen # {}

Copy == [status |-> "PREPARED", base |-> canon, work |-> canon, prop |-> canon, seen |-> Promoted]

\* prepare: a copy that the project has moved past is set aside for a new one.
Prepared(r) == IF r.status = "NONE" \/ WorkspaceIsStale(r) THEN Copy ELSE r

\* A follow-up must find the record of its implementation before it prepares.
Refused(t) ==
    \/ rec[t].status \in {"PROMOTED", "ABANDONED", "UNTRACKED"}
    \/ step[t] \in Followup /\ rec[t].status = "NONE"

Due == {t \in Task : step[t] \in DOMAIN Launched}

Reserve(t) ==
    /\ Unlocked /\ t \in Due /\ ~Refused(t)
    /\ rec' = [rec EXCEPT ![t] = Prepared(@)]
    /\ Save(t, Launched[step[t]])
    /\ UNCHANGED <<canon, job, edits, outside, raced, torn>>

\* The refusal of another task's workspace ends the pass that prepared this one.
ReserveInVain(t) ==
    /\ Unlocked /\ t \in Due /\ ~Refused(t)
    /\ \E u \in Due : Refused(u)
    /\ rec' = [rec EXCEPT ![t] = Prepared(@)]
    /\ rec' # rec
    /\ UNCHANGED <<canon, step, job, edits, faults, outside, raced, torn>>

\* The process dies between the fence and the rename, or while it copies.
ReserveInterrupted(t) ==
    /\ Unlocked /\ t \in Due /\ ~Refused(t) /\ Prepared(rec[t]) # rec[t]
    /\ Fault
    /\ \/ rec[t].status # "NONE" /\ rec' = [rec EXCEPT ![t].status = "ABANDONED"]
       \/ rec' = [rec EXCEPT ![t].status = "UNTRACKED"]
    /\ UNCHANGED <<canon, step, job, edits, outside, raced, torn>>

\* The session of a task ends without a completion and the task is due again: for what it
\* was reserved for, or after reconcile_running_work for a new implementation.
SessionLost(t) ==
    /\ Unlocked /\ step[t] \in {"RUNNING", "REVISING", "VERIFYING"}
    /\ \E s \in DOMAIN Launched : (Launched[s] = step[t] \/ s = "READY")
                                   /\ step' = [step EXCEPT ![t] = s]
    /\ Fault
    /\ UNCHANGED <<canon, rec, job, edits, outside, raced, torn>>

-----------------------------------------------------------------------------
(* Work.                                                                    *)

\* A worker writes in its workspace, and so may its verifier while it checks;
\* neither stops doing so because a promotion has begun.
Edit(t, p) ==
    /\ step[t] \in {"RUNNING", "REVISING", "VERIFYING"} /\ edits[t] < MaxEdits
    /\ edits' = [edits EXCEPT ![t] = @ + 1]
    /\ rec' = [rec EXCEPT ![t].work[p] = @ \cup {<<t, edits[t] + 1>>}]
    /\ raced' = IF t \in job.task /\ p \in job.left THEN raced \cup {p} ELSE raced
    /\ UNCHANGED <<canon, step, job, faults, outside, torn>>

EditOutside(p) ==
    /\ outside < MaxOutside
    /\ outside' = outside + 1
    /\ canon' = [canon EXCEPT ![p] = @ \cup {Outside}]
    /\ raced' = IF Unlocked THEN raced ELSE raced \cup {p}
    /\ UNCHANGED <<rec, step, job, edits, faults, torn>>

-----------------------------------------------------------------------------
(* Completion.                                                              *)

Sealable == {"PREPARED", "PROPOSED", "REVISION_REQUIRED"}

Seal(r) == [r EXCEPT !.prop = r.work, !.status = "PROPOSED"]

Changes(r) == {p \in Path : r.base[p] # r.prop[p]}

\* An implementation or a revision is delivered: the proposal is frozen.
Deliver(t) ==
    /\ Unlocked /\ step[t] \in {"RUNNING", "REVISING"} /\ rec[t].status \in Sealable
    /\ rec' = [rec EXCEPT ![t] = Seal(@)]
    /\ Save(t, "IMPLEMENTED")
    /\ UNCHANGED <<canon, job, edits, outside, raced, torn>>

\* It is delivered and the task's deterministic checks fail.
DeliverFailing(t) ==
    /\ Unlocked /\ step[t] \in {"RUNNING", "REVISING"} /\ rec[t].status \in Sealable
    /\ rec' = [rec EXCEPT ![t] = [Seal(@) EXCEPT !.status = "REVISION_REQUIRED"]]
    /\ Save(t, "REVISION_REQUIRED")
    /\ UNCHANGED <<canon, job, edits, outside, raced, torn>>

\* The verifier sends the proposal back, which only a proposal can be.
Revise(t) ==
    /\ Unlocked /\ step[t] = "VERIFYING" /\ rec[t].status = "PROPOSED"
    /\ rec' = [rec EXCEPT ![t].status = "REVISION_REQUIRED"]
    /\ Save(t, "REVISION_REQUIRED")
    /\ UNCHANGED <<canon, job, edits, outside, raced, torn>>

\* (mutated: the project is not compared with what the copy was taken from)
NoCanonicalDrift_Unchecked(r) == TRUE

NoCanonicalDrift(r) == \A p \in Changes(r) : canon[p] = r.base[p]

\* (mutated: the workspace is not compared with the proposal)
Promotable_Unsealed(r) == NoCanonicalDrift(r)

\* The workspace is still what was proposed, and the project what it was taken from.
Promotable(r) == r.work = r.prop /\ NoCanonicalDrift(r)

\* The verifier passes the proposal.  Its acceptance is recorded first and stays
\* recorded when the promotion is refused; otherwise the promotion is under way.
Pass(t) ==
    /\ Unlocked /\ step[t] = "VERIFYING" /\ rec[t].status \in {"PROPOSED", "VERIFIED"}
    /\ IF Promotable(rec[t])
         THEN /\ rec' = [rec EXCEPT ![t].status = "PROMOTING"]
              /\ job' = [task |-> {t}, left |-> Changes(rec[t])]
         ELSE /\ rec' = [rec EXCEPT ![t].status = "VERIFIED"]
              /\ rec' # rec
              /\ UNCHANGED job
    /\ UNCHANGED <<canon, step, edits, faults, outside, raced, torn>>

\* The completion is repeated after a crash: the promotion is found done.
PassAgain(t) ==
    /\ Unlocked /\ step[t] = "VERIFYING" /\ rec[t].status = "PROMOTED"
    /\ \A p \in Changes(rec[t]) : canon[p] = rec[t].prop[p]
    /\ Save(t, "VERIFIED")
    /\ UNCHANGED <<canon, rec, job, edits, outside, raced, torn>>

ApplyChange(p) ==
    /\ p \in job.left
    /\ \E t \in job.task : canon' = [canon EXCEPT ![p] = rec[t].work[p]]
    /\ job' = [job EXCEPT !.left = @ \ {p}]
    /\ UNCHANGED <<rec, step, edits, faults, outside, raced, torn>>

\* (mutated: the restoration ends with the first file)
Restored_First(t, P) ==
    [p \in Path |-> IF p \in P /\ p = CHOOSE q \in P : TRUE THEN rec[t].base[p] ELSE canon[p]]

\* The files of the promotion as the snapshot holds them, for the paths restored.
Restored(t, P) == [p \in Path |-> IF p \in P THEN rec[t].base[p] ELSE canon[p]]

\* A file cannot be installed: all are put back.
RollBack ==
    /\ Fault /\ job.left # {}
    /\ \E t \in job.task : /\ canon' = Restored(t, Changes(rec[t]))
                           /\ rec' = [rec EXCEPT ![t].status = "VERIFIED"]
    /\ job' = Idle
    /\ UNCHANGED <<step, edits, outside, raced, torn>>

\* One of them cannot be put back either, or the process dies while it copies.
Abort ==
    /\ Fault
    /\ \E t \in job.task, P \in SUBSET Path : P \subseteq Changes(rec[t]) /\ canon' = Restored(t, P)
    /\ torn' = torn \cup job.task
    /\ job' = Idle
    /\ UNCHANGED <<rec, step, edits, outside, raced>>

\* All files are in place; the run is told, unless the process dies first.
Finish ==
    /\ ~Unlocked /\ job.left = {}
    /\ \E t \in job.task : rec' = [rec EXCEPT ![t].status = "PROMOTED"] /\ Save(t, "VERIFIED")
    /\ job' = Idle
    /\ UNCHANGED <<canon, edits, outside, raced, torn>>

Next ==
    \/ \E t \in Task :
          \/ Reserve(t) \/ ReserveInVain(t) \/ ReserveInterrupted(t) \/ SessionLost(t)
          \/ Deliver(t) \/ DeliverFailing(t) \/ Revise(t) \/ Pass(t) \/ PassAgain(t)
          \/ \E p \in Path : Edit(t, p)
    \/ \E p \in Path : EditOutside(p) \/ ApplyChange(p)
    \/ RollBack \/ Abort \/ Finish

Spec == Init /\ [][Next]_vars

-----------------------------------------------------------------------------

\* No edit is lost: what is in a file stays there, except the work of a task
\* whose own promotion is taken back, and except where somebody wrote in the
\* instants of a promotion, which the store cannot exclude.
NoEditIsLost ==
    [][\A p \in Path \ raced' : canon[p] \ canon'[p] \subseteq UNION {Work(t) : t \in job.task}]_vars

\* Accepted work is in the project, whole and as it was judged, whatever was promoted,
\* edited or interrupted since.
AcceptedIsPromoted ==
    /\ TypeOK
    /\ \A t \in Task : step[t] = "VERIFIED" =>
           /\ rec[t].status = "PROMOTED"
           /\ \A p \in Changes(rec[t]) \ raced :
                 /\ rec[t].prop[p] \subseteq canon[p]
                 /\ canon[p] \cap Work(t) \subseteq rec[t].prop[p]

\* The project holds no work of a task that is not promoted, but for a promotion under
\* way and for one that was cut short, which nothing undoes or completes: a refused or
\* rolled-back one leaves none.
OnlyPromotedWork ==
    \A t \in Task \ torn, p \in Path \ raced :
        canon[p] \cap Work(t) # {} => rec[t].status \in {"PROMOTING", "PROMOTED"}
=============================================================================
