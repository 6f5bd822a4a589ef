------------------------------- MODULE Memory -------------------------------
(***************************************************************************)
(* Project memory (memory.py, memory_conflicts.py, trust.py): truths that  *)
(* rest on evidence, the decisions and constraints of the user and of      *)
(* agents, and the disputes over truths.  Every access to the database is  *)
(* one transaction under the file lock memory.lock; recording a fact,      *)
(* proposing a decision and applying a correction are several, between     *)
(* which another server writes or this one dies.                           *)
(*                                                                         *)
(* A record and a conflict are known by their place, as FACT-003 is by its *)
(* number; a piece of evidence by its kind, which is all that trust.py     *)
(* asks of it, and it never changes once recorded.                         *)
(***************************************************************************)
EXTENDS Naturals, FiniteSets, Sequences

CONSTANTS
    Caller,       \* servers and processes that may be inside a longer operation
    Evidence,     \* the kinds of evidence recorded
    MaxRecords,   \* bound: records created
    MaxConflicts  \* bound: conflicts opened

\* trust.py: what anybody may have written, and what a tool has observed.
UnverifiedKinds == {"external", "migration", "user_instruction"}
DeterministicKinds ==
    {"artifact", "build", "environment_probe", "file", "git", "screenshot", "test", "tool"}

ASSUME MemoryAssumption ==
    /\ Evidence \subseteq UnverifiedKinds \cup DeterministicKinds
    /\ MaxRecords \in Nat /\ MaxConflicts \in Nat

VARIABLES
    records,    \* table records, with the supporting and contradicting evidence
    conflicts,  \* table conflicts; before is in the audit entry of the opening
    call        \* Caller -> how far a longer operation has come

vars == <<records, conflicts, call>>

-----------------------------------------------------------------------------
DecisionStatus == {"proposed", "accepted", "superseded", "rejected"}
TruthStatus    == {"verified", "disputed", "superseded"}
Binding        == {"accepted", "active", "verified"}
Outcomes       == {"supersede_existing", "reject_incoming", "reverified_existing"}
Origins        == {"user", "agent", "project"}

RecordOf(category, origin, status, supports, rubric) ==
    [category |-> category, origin |-> origin, status |-> status,
     supports |-> supports, contradicts |-> {}, rubric |-> rubric]

Facts == {r \in DOMAIN records : records[r].category = "truth"}

\* TRUST_POLICY.row_is_below_truth
BelowTruth(e) == e \in UnverifiedKinds

RestsOnExternal(supports) == \E e \in supports : BelowTruth(e)

\* memory_conflicts.status_before_conflict, of the one conflict that is resolved.
StatusBefore_Verified(i) == "verified"

StatusBefore(i) == conflicts[i].before

Idle == [op |-> "idle"]

Create(record) == Len(records) < MaxRecords /\ records' = Append(records, record)

\* open_conflict_in_transaction: only a truth that is no rubric is disputed,
\* whatever its status.
MayDispute(r) == records[r].category = "truth" /\ ~records[r].rubric

Disputed(table, r) == [table EXCEPT ![r].status = "disputed"]

OpenConflict(r) ==
    /\ Len(conflicts) < MaxConflicts
    /\ conflicts' = Append(conflicts, [on |-> r, before |-> records[r].status,
                                       outcome |-> "needs_review"])

-----------------------------------------------------------------------------
(* record_verified_fact: the fact is created in one transaction and each      *)
(* conflict with what it contradicts is opened in one of its own.  What is   *)
(* asked before, in a transaction of its own too, cannot change meanwhile.   *)

RecordVerifiedFact(c, supports, against) ==
    /\ call[c] = Idle
    /\ supports # {} /\ ~RestsOnExternal(supports)
    /\ \A r \in against : ~records[r].rubric
    /\ Create(RecordOf("truth", "project", "verified", supports, FALSE))
    /\ call' = [call EXCEPT ![c] = IF against = {} THEN Idle
                                   ELSE [op |-> "oppose", left |-> against]]
    /\ UNCHANGED conflicts

\* A longer operation goes on to the next of the records it has left.
Past(stage, r) == IF stage.left = {r} THEN Idle ELSE [stage EXCEPT !.left = @ \ {r}]

\* A record that is no truth makes open_conflict raise: the conflicts that were to
\* follow are never opened.
Oppose(c, r) ==
    /\ call[c].op = "oppose" /\ r \in call[c].left
    /\ IF MayDispute(r)
       THEN /\ OpenConflict(r)
            /\ records' = Disputed(records, r)
            /\ call' = [call EXCEPT ![c] = Past(@, r)]
       ELSE /\ call' = [call EXCEPT ![c] = Idle]
            /\ UNCHANGED <<records, conflicts>>

-----------------------------------------------------------------------------
(* Decisions and constraints                                                 *)

\* propose_decision: an agent's begins as proposed, and a binding one of anybody
\* but the user rests on no outside text.
MayBeDecided(origin, status, supports) ==
    status = "accepted" =>
        /\ origin # "agent"
        /\ origin # "user" => ~RestsOnExternal(supports)

ProposeDecision(origin, status, supports) ==
    /\ MayBeDecided(origin, status, supports)
    /\ Create(RecordOf("decision", origin, status, supports, FALSE))
    /\ UNCHANGED <<conflicts, call>>

\* In force from the moment it is recorded.
AddConstraint(origin, supports) ==
    /\ origin # "user" => ~RestsOnExternal(supports)
    /\ Create(RecordOf("constraint", origin, "active", supports, FALSE))
    /\ UNCHANGED <<conflicts, call>>

\* The second moment: a record that comes into force is asked again what it rests on.
MayBind_Unasked(r, status) == TRUE

MayBind(r, status) ==
    status \in Binding /\ records[r].origin # "user" => ~RestsOnExternal(records[r].supports)

SetDecisionStatus(r, status) ==
    /\ records[r].category = "decision"
    /\ MayBind(r, status)
    /\ records' = [records EXCEPT ![r].status = status]
    /\ UNCHANGED <<conflicts, call>>

-----------------------------------------------------------------------------
(* Evidence attached to a record                                             *)

\* attach_evidence, supports
MaySupport(r, e) ==
    BelowTruth(e) /\ records[r].status \in Binding => records[r].origin = "user"

AttachSupport(r, e) ==
    /\ ~records[r].rubric
    /\ MaySupport(r, e)
    /\ records' = [records EXCEPT ![r].supports = @ \cup {e}]
    /\ UNCHANGED <<conflicts, call>>

\* attach_evidence, contradicts: INSERT OR IGNORE, and only what it inserts disputes.
AttachContradiction(r, e) ==
    /\ ~records[r].rubric
    /\ e \notin records[r].contradicts
    /\ LET linked == [records EXCEPT ![r].contradicts = @ \cup {e}] IN
       IF MayDispute(r)
       THEN OpenConflict(r) /\ records' = Disputed(linked, r)
       ELSE records' = linked /\ UNCHANGED conflicts
    /\ UNCHANGED call

-----------------------------------------------------------------------------
(* Conflicts                                                                 *)

\* open_conflict, by the audit of a worker's rule declaration or any caller.
RaiseConflict(r) ==
    /\ MayDispute(r)
    /\ OpenConflict(r)
    /\ records' = Disputed(records, r)
    /\ UNCHANGED call

ResolveConflict(i, outcome) ==
    LET r == conflicts[i].on
        status == IF outcome = "supersede_existing" THEN "superseded" ELSE StatusBefore(i)
    IN /\ conflicts[i].outcome = "needs_review"
       /\ outcome # "supersede_existing" => ~records[r].rubric
       /\ MayBind(r, status)
       /\ records' = [records EXCEPT ![r].status = status]
       /\ conflicts' = [conflicts EXCEPT ![i].outcome = outcome]
       /\ UNCHANGED call

-----------------------------------------------------------------------------
(* apply_user_correction: her decision first, then one related record after  *)
(* the other, each looked at in one transaction and acted upon in the next.  *)

BeginCorrection(c, related) ==
    /\ call[c] = Idle
    /\ related # {} /\ \A r \in related : ~records[r].rubric
    /\ Create(RecordOf("decision", "user", "accepted", {}, FALSE))
    /\ call' = [call EXCEPT ![c] = [op |-> "correct", left |-> related]]
    /\ UNCHANGED conflicts

\* What is to be done with a related record, as the look at it says.
Treatment(r) ==
    IF /\ records[r].category = "decision" /\ records[r].origin = "agent"
       /\ records[r].status \in {"proposed", "accepted"}
    THEN "retire"
    ELSE IF records[r].category = "truth" /\ records[r].status \in {"verified", "disputed"}
    THEN "dispute"
    ELSE "leave"

Look(c, r) ==
    /\ call[c].op = "correct" /\ r \in call[c].left
    /\ call' = [call EXCEPT ![c] =
                   IF Treatment(r) # "leave"
                   THEN [op |-> Treatment(r), on |-> r, left |-> @.left \ {r}]
                   ELSE Past(@, r)]
    /\ UNCHANGED <<records, conflicts>>

Treated(c) ==
    call' = [call EXCEPT ![c] = IF @.left = {} THEN Idle
                                ELSE [op |-> "correct", left |-> @.left]]

RetireDecision(c) ==
    /\ call[c].op = "retire"
    /\ records' = [records EXCEPT ![call[c].on].status = "superseded"]
    /\ UNCHANGED conflicts
    /\ Treated(c)

DisputeFact(c) ==
    /\ call[c].op = "dispute"
    /\ OpenConflict(call[c].on)
    /\ records' = Disputed(records, call[c].on)
    /\ Treated(c)

-----------------------------------------------------------------------------
\* The process dies between two transactions.
Die(c) ==
    /\ call[c] # Idle
    /\ call' = [call EXCEPT ![c] = Idle]
    /\ UNCHANGED <<records, conflicts>>

\* A memory that is new, or has the rubric of a department the runtime wrote.
Init ==
    /\ records \in {<<>>, <<RecordOf("truth", "project", "verified", {"tool"}, TRUE)>>}
    /\ conflicts = <<>>
    /\ call = [c \in Caller |-> Idle]

Record == DOMAIN records

RecordFact ==
    \E c \in Caller :
        \/ \E supports \in SUBSET Evidence, against \in SUBSET Record :
              RecordVerifiedFact(c, supports, against)
        \/ \E r \in Record : Oppose(c, r)

Decide ==
    \/ \E origin \in Origins, status \in DecisionStatus, supports \in SUBSET Evidence :
          ProposeDecision(origin, status, supports)
    \/ \E origin \in Origins, supports \in SUBSET Evidence : AddConstraint(origin, supports)
    \/ \E r \in Record, status \in DecisionStatus : SetDecisionStatus(r, status)

Attach == \E r \in Record, e \in Evidence : AttachSupport(r, e) \/ AttachContradiction(r, e)

Resolve ==
    \/ \E r \in Record : RaiseConflict(r)
    \/ \E i \in DOMAIN conflicts, outcome \in Outcomes : ResolveConflict(i, outcome)

Correct ==
    \E c \in Caller :
        \/ \E related \in SUBSET Record : BeginCorrection(c, related)
        \/ \E r \in Record : Look(c, r)
        \/ RetireDecision(c)
        \/ DisputeFact(c)

Next == RecordFact \/ Decide \/ Attach \/ Resolve \/ Correct \/ \E c \in Caller : Die(c)

Spec == Init /\ [][Next]_vars

-----------------------------------------------------------------------------
\* The tables as _assert_connection_integrity wants them: every truth has support
\* that is no migration note, and a conflict names a truth.
TypeOK ==
    /\ \A r \in Record :
          LET record == records[r] IN
          /\ record.origin \in Origins /\ record.contradicts \subseteq Evidence
          /\ record.category = "truth" =>
                /\ record.status \in TruthStatus
                /\ record.supports \ {"migration"} # {}
          /\ record.category = "decision" => record.status \in DecisionStatus
          /\ record.category = "constraint" => record.status = "active"
    /\ \A i \in DOMAIN conflicts :
          conflicts[i].on \in Facts /\ conflicts[i].before \in TruthStatus

\* R18, "external content does not decide": nothing that governs the work rests on
\* unverified text, unless the user has said so, by whatever door it came: recorded,
\* promoted, attached while it was disputed or superseded, or returned by a resolution.
ExternalNeverBinds ==
    /\ TypeOK
    /\ \A r \in Record :
           records[r].status \in Binding /\ records[r].origin # "user" =>
               ~RestsOnExternal(records[r].supports)

Open(r)    == {i \in DOMAIN conflicts : conflicts[i].on = r /\ conflicts[i].outcome = "needs_review"}
Ended(r, outcome) == {i \in DOMAIN conflicts : conflicts[i].on = r /\ conflicts[i].outcome = outcome}
Crossed(r) == \E i \in DOMAIN conflicts : conflicts[i].on = r /\ conflicts[i].before = "disputed"

\* A truth is disputed exactly while somebody has a dispute over it to settle, and one
\* that was retired is not in force again; of truths that never had two disputes at once.
DisputesSettle ==
    \A r \in Facts : ~Crossed(r) =>
        /\ records[r].status = "disputed" <=> Open(r) # {}
        /\ Ended(r, "supersede_existing") # {} => records[r].status # "verified"
=============================================================================
