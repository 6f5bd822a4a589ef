----------------------------- MODULE Acceptance -----------------------------
(***************************************************************************)
(* The acceptance of finished work by the lead of one department (R30):    *)
(* the history of the department's rubric in project memory, the admission *)
(* of a verifier by it, the verdict that must attest it, the ledger of     *)
(* outcomes, and the milestone that is completed and backed up before the  *)
(* run's state says VERIFIED.                                              *)
(* (department_acceptance.py, department_runtime.py, department_gate.py,   *)
(* memory_verification.py, memory_durability.py, lifecycle_completion.py)  *)
(*                                                                         *)
(* A reply is read, weighed and recorded outside the coordinator's lock    *)
(* and applied under it; the dispatcher and the Stop hook may both bring   *)
(* it, and a process may die between any two steps.                        *)
(***************************************************************************)
EXTENDS Naturals, FiniteSets, Sequences

CONSTANTS
    Task,           \* tasks the department judges
    Deliverer,      \* processes that bring the end of a turn
    MaxRejections,  \* MAX_VERIFICATION_REJECTIONS
    MaxTurns,       \* bound: verifiers hired for a task
    MaxRecords      \* bound: records in the department's rubric scope

ASSUME AcceptanceAssumption ==
    MaxRejections \in Nat /\ MaxTurns \in Nat \ {0} /\ MaxRecords \in Nat \ {0}

VARIABLES
    rubric,      \* records in the scope of the department, in the order written
    looked,      \* the bootstrap or a committed plan change saw no rubric yet
    task,        \* task_states
    held,        \* tasks with an open ticket of the department or of the protocol
    rejections,  \* verification_rejections that count
    turns,       \* verifier sessions a task has had
    session,     \* the pending verifier session of a task
    ledger,      \* verification_results
    completed,   \* milestone_completions
    backup,      \* the milestone_completions in memory-backups/latest.sqlite3
    deliver      \* what a deliverer is doing

vars == <<rubric, looked, task, held, rejections, turns, session, ledger, completed,
          backup, deliver>>

run    == <<task, held, rejections, turns, session>>
store  == <<rubric, ledger, completed, backup>>

-----------------------------------------------------------------------------
(* The rubric's history                                                      *)

Verified == {i \in DOMAIN rubric : rubric[i].status = "verified"}

Versions == {rubric[i].version : i \in Verified}

\* stored_rubric_versions: exactly 1..n, or the history is refused.
Clean == Versions = 1..Cardinality(Verified)

\* The record of the highest version, 0 while there is none.
Latest == IF Verified = {} THEN 0
          ELSE CHOOSE i \in Verified : \A j \in Verified : rubric[j].version <= rubric[i].version

FirstOf(v) == CHOOSE i \in Verified : rubric[i].version = v
                 /\ \A j \in Verified : rubric[j].version = v => i <= j

\* stray_rubric_records: all but the first record of each version up to the first gap.
Strays == {i \in Verified : \/ i # FirstOf(rubric[i].version)
                            \/ ~(1..rubric[i].version \subseteq Versions)}

RubricRecord(v) == [version |-> v, status |-> "verified"]

\* _insert_rubric
Insert(v) == Len(rubric) < MaxRecords /\ rubric' = Append(rubric, RubricRecord(v))

\* What ensure_department_rubric leaves behind: version 1 when there is none.
Ensured == IF Verified = {} THEN Append(rubric, RubricRecord(1)) ELSE rubric

\* Only between its commit and its backup does a completion keep the others out of
\* project memory, and until it has saved out of the state of the run.
MemoryFree == \A d \in Deliverer : deliver[d].at # "committed"
Free       == \A d \in Deliverer : deliver[d].at \notin {"committed", "backed"}

-----------------------------------------------------------------------------
(* ensure_all_department_rubrics, at the bootstrap and after a plan change   *)

Look ==
    /\ ~looked /\ Verified = {}
    /\ looked' = TRUE
    /\ UNCHANGED <<run, store, deliver>>

\* write_runtime_rubric asks again under the lock of the rubric's writers.
NoneWritten_Unasked == TRUE

NoneWritten == Verified = {}

WriteFirst ==
    /\ looked /\ MemoryFree
    /\ looked' = FALSE
    /\ IF NoneWritten THEN Insert(1) ELSE UNCHANGED rubric
    /\ UNCHANGED <<run, ledger, completed, backup, deliver>>

-----------------------------------------------------------------------------
(* The verifier                                                              *)

NoSession == [turn |-> 0]

\* admit_verifier and the descriptor's prompt: the lead is given the current version.
AdmitVerifier(t) ==
    /\ Free
    /\ task[t] = "IMPLEMENTED" /\ t \notin held /\ turns[t] < MaxTurns
    /\ Clean /\ Len(rubric) + (IF Verified = {} THEN 1 ELSE 0) <= MaxRecords
    /\ rubric' = Ensured
    /\ task' = [task EXCEPT ![t] = "VERIFYING"]
    /\ turns' = [turns EXCEPT ![t] = @ + 1]
    /\ session' = [session EXCEPT ![t] = [turn |-> turns[t] + 1, reply |-> {},
                                          given |-> IF Verified = {} THEN Len(rubric) + 1 ELSE Latest]]
    /\ UNCHANGED <<looked, held, rejections, ledger, completed, backup, deliver>>

\* stop_for_department, of an ambiguous history, and build_or_hold, of a prompt that
\* cannot be built: this one task is held, with what was taken for it given back.
StopForDepartment(t) ==
    /\ Free
    /\ task[t] = "IMPLEMENTED" /\ t \notin held
    /\ ~Clean
    /\ held' = held \cup {t}
    /\ UNCHANGED <<looked, task, rejections, turns, session, store, deliver>>

\* The lead's turn ends with a verdict that attests a record it was given or found, or none.
Answer(t) ==
    /\ session[t].turn # 0 /\ session[t].reply = {}
    /\ \E verdict \in {"PASS", "REVISE"}, attested \in {0} \cup DOMAIN rubric :
          session' = [session EXCEPT ![t].reply = {[verdict |-> verdict, attested |-> attested]}]
    /\ UNCHANGED <<looked, task, held, rejections, turns, store, deliver>>

\* The turn is lost, or its end cannot be delivered, and the session is retired.  (A
\* history that cannot be read retires it too, but no lead is admitted over one, and
\* none becomes one: HistoryStands.)
Retire(t, state) ==
    /\ task' = [task EXCEPT ![t] = state]
    /\ session' = [session EXCEPT ![t] = NoSession]

\* reconcile_running_work sends a task whose verifier was lost to be implemented anew.
Lose(t) ==
    /\ Free /\ session[t].turn # 0
    /\ \E state \in {"IMPLEMENTED", "RETRY_WAIT"} : Retire(t, state)
    /\ UNCHANGED <<looked, held, rejections, turns, store, deliver>>

-----------------------------------------------------------------------------
(* complete_desktop_worker                                                   *)

Idle == [at |-> "idle"]

\* attestation_refusal: a lead that attests what it was given is never at fault.
Counted_Always(t, reply) == TRUE

Counted(t, reply) == reply.attested # session[t].given

\* record_verification_result: one outcome per task, check, thread and turn.  The same
\* one again is the row that is there; another under that identity is refused.
RecordVerificationResult(outcome) ==
    /\ \A old \in ledger :
          (old.task = outcome.task /\ old.turn = outcome.turn) => old = outcome
    /\ ledger' = ledger \cup {outcome}

\* Outside the lock: verdict_acceptance against the history as it now stands, and the
\* outcome in the ledger.
Weigh(d, t) ==
    /\ deliver[d] = Idle /\ MemoryFree
    /\ Clean
    /\ session[t].turn # 0
    /\ \E reply \in session[t].reply :
          IF reply.attested = Latest
          THEN /\ RecordVerificationResult(
                     [task |-> t, turn |-> session[t].turn, verdict |-> reply.verdict])
               /\ deliver' = [deliver EXCEPT ![d] =
                     [at |-> "recorded", task |-> t, turn |-> session[t].turn,
                      verdict |-> reply.verdict]]
          ELSE /\ deliver' = [deliver EXCEPT ![d] =
                     [at |-> "refused", task |-> t, turn |-> session[t].turn,
                      counted |-> Counted(t, reply)]]
               /\ UNCHANGED ledger
    /\ UNCHANGED <<looked, run, rubric, completed, backup>>

\* The session must still be the one whose reply was read.
StillPending_Any(d) == session[deliver[d].task].turn # 0

StillPending(d) == session[deliver[d].task].turn = deliver[d].turn

\* Everything the deliverer has of a turn somebody else has ended is dropped.
Drop(d) ==
    /\ deliver[d].at \in {"refused", "recorded"} /\ Free
    /\ ~StillPending(d)
    /\ deliver' = [deliver EXCEPT ![d] = Idle]
    /\ UNCHANGED <<looked, run, store>>

\* _reject_verifier_result
Reject(d) ==
    LET t == deliver[d].task
        count == rejections[t] + (IF deliver[d].counted THEN 1 ELSE 0)
    IN /\ deliver[d].at = "refused" /\ Free /\ StillPending(d)
       /\ Retire(t, "IMPLEMENTED")
       /\ rejections' = [rejections EXCEPT ![t] = count]
       /\ held' = IF count > MaxRejections THEN held \cup {t} ELSE held
       /\ deliver' = [deliver EXCEPT ![d] = Idle]
       /\ UNCHANGED <<looked, turns, store>>

SendBack(d) ==
    LET t == deliver[d].task IN
    /\ deliver[d].at = "recorded" /\ deliver[d].verdict = "REVISE" /\ Free /\ StillPending(d)
    /\ task' = [task EXCEPT ![t] = "REVISION_REQUIRED"]
    /\ session' = [session EXCEPT ![t] = NoSession]
    /\ deliver' = [deliver EXCEPT ![d] = Idle]
    /\ UNCHANGED <<looked, held, rejections, turns, store>>

\* mark_milestone_complete commits, then backs up, both under memory.lock; the state
\* of the run is saved after it, under the coordinator's.
Commit(d) ==
    /\ deliver[d].at = "recorded" /\ deliver[d].verdict = "PASS" /\ Free /\ StillPending(d)
    /\ completed' = completed \cup {deliver[d].task}
    /\ deliver' = [deliver EXCEPT ![d].at = "committed"]
    /\ UNCHANGED <<looked, run, rubric, ledger, backup>>

\* _backup_locked copies the database as it is.
BackUp(d) ==
    /\ deliver[d].at = "committed"
    /\ backup' = completed
    /\ deliver' = [deliver EXCEPT ![d].at = "backed"]
    /\ UNCHANGED <<looked, run, rubric, ledger, completed>>

Accept(d) ==
    LET t == deliver[d].task IN
    /\ deliver[d].at = "backed"
    /\ task' = [task EXCEPT ![t] = "VERIFIED"]
    /\ session' = [session EXCEPT ![t] = NoSession]
    /\ deliver' = [deliver EXCEPT ![d] = Idle]
    /\ UNCHANGED <<looked, held, rejections, turns, store>>

\* The process dies: its locks fall, what it wrote stays.
Die(d) ==
    /\ deliver[d] # Idle
    /\ deliver' = [deliver EXCEPT ![d] = Idle]
    /\ UNCHANGED <<looked, run, store>>

-----------------------------------------------------------------------------
\* The worker revises, or implements anew.
Revise(t) ==
    /\ Free /\ task[t] \in {"REVISION_REQUIRED", "RETRY_WAIT"}
    /\ task' = [task EXCEPT ![t] = "IMPLEMENTED"]
    /\ UNCHANGED <<looked, held, rejections, turns, session, store, deliver>>

\* store_department_rubric: by a lead of the department from its own thread, or by the
\* on-call, with an outcome the runtime recorded from another lead's thread.
MayPropose(t) == \E outcome \in ledger : <<outcome.task, outcome.turn>> # <<t, turns[t]>>

Propose ==
    /\ MemoryFree
    /\ \/ \E t \in Task : session[t].turn # 0 /\ MayPropose(t)
       \/ held # {} /\ ledger # {}
    /\ Clean /\ Verified # {}
    /\ Insert(rubric[Latest].version + 1)
    /\ UNCHANGED <<looked, run, ledger, completed, backup, deliver>>

\* supersede_rubric_record: the on-call, on a ticket, retires a stray record.
SupersedeStray(i) ==
    /\ MemoryFree /\ held # {}
    /\ i \in Strays
    /\ rubric' = [rubric EXCEPT ![i].status = "superseded"]
    /\ UNCHANGED <<looked, run, ledger, completed, backup, deliver>>

\* return_stopped_task
Return(t) ==
    /\ Free /\ t \in held
    /\ held' = held \ {t}
    /\ UNCHANGED <<looked, task, rejections, turns, session, store, deliver>>

-----------------------------------------------------------------------------
\* A department without a rubric, with one, or with what build 0.14 could leave behind:
\* version 1 written twice, or once disputed by a model and then written again, or a gap.
Init ==
    /\ rubric \in {<<>>, <<RubricRecord(1)>>, <<RubricRecord(1), RubricRecord(1)>>,
                   <<[RubricRecord(1) EXCEPT !.status = "disputed"], RubricRecord(1)>>}
    /\ looked = FALSE
    /\ task = [t \in Task |-> "IMPLEMENTED"]
    /\ held = {}
    /\ rejections = [t \in Task |-> 0]
    /\ turns = [t \in Task |-> 0]
    /\ session = [t \in Task |-> NoSession]
    /\ ledger = {} /\ completed = {} /\ backup = {}
    /\ deliver = [d \in Deliverer |-> Idle]

Lead(t) == AdmitVerifier(t) \/ StopForDepartment(t) \/ Answer(t) \/ Lose(t)

End(d) == Drop(d) \/ Reject(d) \/ SendBack(d) \/ Commit(d) \/ BackUp(d) \/ Accept(d)

Completion(d) == End(d) \/ Die(d) \/ \E t \in Task : Weigh(d, t)

Next ==
    \/ Look \/ WriteFirst
    \/ \E t \in Task : Lead(t) \/ Revise(t) \/ Return(t)
    \/ \E d \in Deliverer : Completion(d)
    \/ Propose
    \/ \E i \in DOMAIN rubric : SupersedeStray(i)

Spec == Init /\ [][Next]_vars

-----------------------------------------------------------------------------
TypeOK ==
    /\ \A i \in DOMAIN rubric : rubric[i].version \in 1..MaxRecords
    /\ \A t \in Task :
          /\ task[t] \in {"IMPLEMENTED", "VERIFYING", "REVISION_REQUIRED", "RETRY_WAIT", "VERIFIED"}
          /\ task[t] = "VERIFYING" <=> session[t].turn # 0
          /\ session[t].turn \in {0, turns[t]}
    /\ backup \subseteq completed

\* Nothing is VERIFIED unless the verdict of its last verifier, and of no earlier one,
\* is in the ledger as a PASS, and the milestone is complete in project memory and in
\* its backup: whatever was delivered twice, late, or cut short by a crash.
AcceptanceIsOnRecord ==
    /\ TypeOK
    /\ \A t \in Task : task[t] = "VERIFIED" =>
           /\ t \in backup
           /\ \E outcome \in ledger :
                 outcome.task = t /\ outcome.turn = turns[t] /\ outcome.verdict = "PASS"

\* "It must be exactly 1..n": a history that is one stays one, and no record that was
\* the first of its version, which earlier leads attested, ever leaves it.
HistoryStands ==
    [][/\ Clean => Clean'
       /\ \A i \in Verified \ Strays : rubric'[i] = rubric[i]]_vars

\* "Counting them would turn a runtime event into a stop" (attestation_refusal): a lead
\* that attested what it was given brings its task no nearer to the stop, though the
\* rubric advanced under it.
RefusalsAreFair ==
    [][\A t \in Task : rejections'[t] > rejections[t] =>
          \A reply \in session[t].reply : reply.attested # session[t].given]_vars
=============================================================================
