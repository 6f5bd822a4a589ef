---------------------------- MODULE MemoryProofs ----------------------------
(***************************************************************************)
(* Proofs about Memory, for every set of callers and of kinds of evidence  *)
(* and for every bound on the tables.                                      *)
(***************************************************************************)
EXTENDS Memory, TLAPS

-----------------------------------------------------------------------------
(* The types the proofs need                                                 *)

Kinds == UnverifiedKinds \cup DeterministicKinds

Truths == [category : {"truth"}, origin : Origins, status : TruthStatus,
           supports : {s \in SUBSET Kinds : s \ {"migration"} # {}},
           contradicts : SUBSET Evidence, rubric : BOOLEAN]

Decisions == [category : {"decision"}, origin : Origins, status : DecisionStatus,
              supports : SUBSET Kinds, contradicts : SUBSET Evidence, rubric : {FALSE}]

Constraints == [category : {"constraint"}, origin : Origins, status : {"active"},
                supports : SUBSET Kinds, contradicts : SUBSET Evidence, rubric : {FALSE}]

Records == Truths \cup Decisions \cup Constraints

ConflictSet == [on : Nat, before : TruthStatus, outcome : Outcomes \cup {"needs_review"}]

Tables ==
    /\ records \in Seq(Records)
    /\ conflicts \in Seq(ConflictSet)
    /\ \A i \in DOMAIN conflicts : conflicts[i].on \in Facts

\* Where a longer operation may stand: what it still has to look at are records, what it
\* is about to retire is a decision, and what it is about to dispute is a truth.
Stages ==
    {Idle}
    \cup [op : {"oppose", "correct"}, left : SUBSET Record]
    \cup [op : {"retire"}, on : {r \in Record : records[r].category = "decision"},
          left : SUBSET Record]
    \cup [op : {"dispute"}, on : Facts, left : SUBSET Record]

Calls == call \in [Caller -> Stages]

\* What is in force and not the user's rests on no outside text.
Governs(record) ==
    record.status \in Binding /\ record.origin # "user" => ~RestsOnExternal(record.supports)

Governing == \A r \in Record : Governs(records[r])

\* Of a truth that never had two disputes at once: one is open at a time, and one opened
\* after the truth was retired remembers that it was not in force.
Settling ==
    \A r \in Facts : ~Crossed(r) =>
        /\ records[r].status = "disputed" <=> Open(r) # {}
        /\ \A i, j \in Open(r) : i = j
        /\ Ended(r, "supersede_existing") # {} =>
              /\ records[r].status # "verified"
              /\ \A i \in Open(r) : conflicts[i].before # "verified"

IInv == Tables /\ Calls /\ Governing /\ Settling

-----------------------------------------------------------------------------
(* What a change of the tables leaves of the invariant                       *)

\* A record comes to the tables: the ones there keep their places, so that a longer
\* operation still stands where it stood, and no conflict names the new one.
LEMMA CreatedKeeps ==
    ASSUME Tables, Governing, Settling, NEW record \in Records, Governs(record),
           record.category = "truth" => record.status = "verified",
           Create(record), conflicts' = conflicts
    PROVE  /\ Tables' /\ Governing' /\ Settling'
           /\ Record \subseteq Record' /\ Facts \subseteq Facts' /\ Stages \subseteq Stages'
<1> DEFINE n == Len(records) + 1
<1>1. records' \in Seq(Records) /\ Record = 1..Len(records) /\ Record' = 1..n
      /\ Len(records) \in Nat /\ records'[n] = record
      /\ \A r \in Record : r # n /\ r \in Record' /\ records'[r] = records[r]
  BY DEF Tables, Create, Record
<1>2. Record' = Record \cup {n} /\ n \in Nat
  BY <1>1
<1> HIDE DEF n
<1>3. Facts \subseteq Facts' /\ \A r \in Facts' : r = n \/ r \in Facts
  BY <1>1, <1>2 DEF Facts, Record
<1>4. Stages \subseteq Stages'
  <2>1. {r \in Record : records[r].category = "decision"}
        \subseteq {r \in Record' : records'[r].category = "decision"}
    BY <1>1
  <2> QED
    BY <1>1, <1>3, <2>1 DEF Stages
<1>5. Tables'
  BY <1>1, <1>3 DEF Tables
<1>6. Governing'
  BY <1>1, <1>2 DEF Governing
<1>7. \A i \in DOMAIN conflicts : conflicts[i].on # n
  BY <1>1 DEF Tables, Facts, Record
<1>8. ASSUME NEW r \in Facts', ~Crossed(r)'
      PROVE  /\ records'[r].status = "disputed" <=> Open(r)' # {}
             /\ \A i, j \in Open(r)' : i = j
             /\ Ended(r, "supersede_existing")' # {} =>
                   /\ records'[r].status # "verified"
                   /\ \A i \in Open(r)' : conflicts'[i].before # "verified"
  <2>1. Open(r)' = Open(r) /\ Ended(r, "supersede_existing")' = Ended(r, "supersede_existing")
        /\ ~Crossed(r)
    BY <1>8 DEF Open, Ended, Crossed
  <2>2. CASE r \in Facts
    <3>1. records'[r] = records[r]
      BY <1>1, <2>2 DEF Facts, Record
    <3> QED
      BY <2>1, <2>2, <3>1 DEF Settling
  <2>3. CASE r = n
    <3>1. records'[r].status = "verified"
      BY <1>1, <2>3 DEF Facts
    <3>2. Open(r) = {} /\ Ended(r, "supersede_existing") = {}
      BY <1>7, <2>3 DEF Open, Ended
    <3> QED
      BY <2>1, <3>1, <3>2
  <2> QED
    BY <1>3, <2>2, <2>3
<1>9. Settling'
  BY <1>8 DEF Settling
<1> QED
  BY <1>1, <1>3, <1>4, <1>5, <1>6, <1>9

\* A record of the tables is replaced by one of its category.
LEMMA Replaced ==
    ASSUME Tables, Governing, NEW r \in Record, NEW record \in Records, Governs(record),
           record.category = records[r].category,
           records' = [records EXCEPT ![r] = record]
    PROVE  /\ records' \in Seq(Records) /\ records'[r] = record
           /\ \A k \in Record : k # r => records'[k] = records[k]
           /\ Record' = Record /\ Facts' = Facts /\ Stages' = Stages /\ Governing'
<1>1. records' \in Seq(Records) /\ records'[r] = record /\ Record' = Record
      /\ \A k \in Record : k # r => records'[k] = records[k]
  BY DEF Tables, Record
<1>2. \A k \in Record : records'[k].category = records[k].category
  BY <1>1
<1>3. Facts' = Facts
  BY <1>1, <1>2 DEF Facts, Record
<1>4. {k \in Record' : records'[k].category = "decision"}
      = {k \in Record : records[k].category = "decision"}
  BY <1>1, <1>2
<1>5. Stages' = Stages
  BY <1>1, <1>3, <1>4 DEF Stages
<1>6. Governing'
  BY <1>1 DEF Governing
<1> QED
  BY <1>1, <1>3, <1>5, <1>6

\* A change that is none to the status of a truth settles and opens no dispute.
LEMMA AmendedKeeps ==
    ASSUME Tables, Governing, Settling, NEW r \in Record, NEW record \in Records,
           Governs(record), record.category = records[r].category,
           record.category = "truth" => record.status = records[r].status,
           records' = [records EXCEPT ![r] = record], conflicts' = conflicts
    PROVE  Tables' /\ Governing' /\ Settling' /\ Stages' = Stages
<1>1. /\ records' \in Seq(Records) /\ records'[r] = record
      /\ \A k \in Record : k # r => records'[k] = records[k]
      /\ Facts' = Facts /\ Stages' = Stages /\ Governing'
  BY Replaced
<1>2. Tables'
  BY <1>1 DEF Tables
<1>3. \A k \in Facts : k \in Record /\ records'[k].status = records[k].status
  BY <1>1 DEF Facts, Record
<1>4. \A k : Open(k)' = Open(k) /\ Crossed(k)' = Crossed(k)
             /\ Ended(k, "supersede_existing")' = Ended(k, "supersede_existing")
  BY DEF Open, Crossed, Ended
<1>5. Settling'
  BY <1>1, <1>3, <1>4 DEF Settling
<1> QED
  BY <1>1, <1>2, <1>5

\* A dispute is opened over a truth: the second at once crosses the first, and is of
\* none whose settlement is claimed.
LEMMA DisputedKeeps ==
    ASSUME Tables, Governing, Settling, NEW r \in Facts, NEW record \in Truths,
           record.status = "disputed",
           records' = [records EXCEPT ![r] = record], OpenConflict(r)
    PROVE  Tables' /\ Governing' /\ Settling' /\ Stages' = Stages
<1>1. r \in Record /\ record \in Records /\ record.category = records[r].category
      /\ Governs(record)
  BY DEF Facts, Record, Records, Truths, Governs, Binding
<1>2. /\ records' \in Seq(Records) /\ records'[r] = record
      /\ \A k \in Record : k # r => records'[k] = records[k]
      /\ Record' = Record /\ Facts' = Facts /\ Stages' = Stages /\ Governing'
  BY <1>1, Replaced
<1>3. records[r].status \in TruthStatus /\ r \in Nat
  <2>1. records[r] \in Records /\ records[r].category = "truth" /\ r \in Nat
    BY <1>1 DEF Tables, Facts, Record
  <2> QED
    BY <2>1 DEF Records, Truths, Decisions, Constraints
<1> DEFINE new == [on |-> r, before |-> records[r].status, outcome |-> "needs_review"]
           n == Len(conflicts) + 1
<1>4. new \in ConflictSet /\ new.on = r /\ new.before = records[r].status
      /\ new.outcome = "needs_review"
  BY <1>3 DEF ConflictSet
<1>5. conflicts' = Append(conflicts, new)
  BY DEF OpenConflict
<1> HIDE DEF new
<1>6. conflicts' \in Seq(ConflictSet) /\ conflicts'[n] = new
      /\ DOMAIN conflicts' = DOMAIN conflicts \cup {n}
      /\ \A i \in DOMAIN conflicts : i # n /\ conflicts'[i] = conflicts[i]
  BY <1>4, <1>5 DEF Tables
<1> HIDE DEF n
<1>7. Tables'
  BY <1>2, <1>4, <1>6 DEF Tables
<1>8. ASSUME NEW k \in Facts, ~Crossed(k)'
      PROVE  /\ records'[k].status = "disputed" <=> Open(k)' # {}
             /\ \A i, j \in Open(k)' : i = j
             /\ Ended(k, "supersede_existing")' # {} =>
                   /\ records'[k].status # "verified"
                   /\ \A i \in Open(k)' : conflicts'[i].before # "verified"
  <2>1. ~Crossed(k)
    BY <1>6, <1>8 DEF Crossed
  <2>2. Ended(k, "supersede_existing")' = Ended(k, "supersede_existing")
    BY <1>4, <1>6 DEF Ended
  <2>3. CASE k # r
    <3>1. Open(k)' = Open(k) /\ \A i \in Open(k) : conflicts'[i] = conflicts[i]
      BY <1>4, <1>6, <2>3 DEF Open
    <3>2. records'[k] = records[k]
      BY <1>2, <2>3 DEF Facts, Record
    <3> QED
      BY <2>1, <2>2, <3>1, <3>2 DEF Settling
  <2>4. CASE k = r
    <3>1. records[r].status # "disputed"
      BY <1>4, <1>6, <1>8, <2>4 DEF Crossed
    <3>2. Open(r) = {}
      BY <2>1, <2>4, <3>1 DEF Settling
    <3>3. Open(r)' = {n}
      BY <1>4, <1>6, <3>2 DEF Open
    <3>4. Ended(r, "supersede_existing") # {} => records[r].status # "verified"
      BY <2>1, <2>4 DEF Settling
    <3> QED
      BY <1>2, <1>4, <1>6, <2>2, <2>4, <3>3, <3>4
  <2> QED
    BY <2>3, <2>4
<1>9. Settling'
  BY <1>2, <1>8 DEF Settling
<1> QED
  BY <1>2, <1>7, <1>9

-----------------------------------------------------------------------------
(* The operations                                                            *)

\* A record by its category, and with another status, support or contradiction.
LEMMA RecordParts ==
    ASSUME NEW record \in Records
    PROVE  /\ record.category \in {"truth", "decision", "constraint"}
           /\ record.origin \in Origins /\ record.supports \subseteq Kinds
           /\ record.contradicts \subseteq Evidence
           /\ record.category = "truth" => record \in Truths
           /\ record.category = "decision" => record \in Decisions
           /\ record.category = "constraint" => record \in Constraints
BY DEF Records, Truths, Decisions, Constraints

LEMMA WithStatus ==
    ASSUME NEW record \in Records, NEW s,
           \/ record.category = "truth" /\ s \in TruthStatus
           \/ record.category = "decision" /\ s \in DecisionStatus
    PROVE  /\ [record EXCEPT !.status = s] \in Records
           /\ record.category = "truth" => [record EXCEPT !.status = s] \in Truths
           /\ [record EXCEPT !.status = s].category = record.category
           /\ [record EXCEPT !.status = s].status = s
           /\ [record EXCEPT !.status = s].origin = record.origin
           /\ [record EXCEPT !.status = s].supports = record.supports
BY DEF Records, Truths, Decisions, Constraints

LEMMA WithSupport ==
    ASSUME NEW record \in Records, NEW e \in Evidence
    PROVE  LET more == [record EXCEPT !.supports = @ \cup {e}] IN
           /\ more \in Records
           /\ more.category = record.category /\ more.status = record.status
           /\ more.origin = record.origin /\ more.supports = record.supports \cup {e}
<1>1. e \in Kinds
  BY MemoryAssumption DEF Kinds
<1>2. \A s \in SUBSET Kinds : s \cup {e} \in SUBSET Kinds
  BY <1>1
<1>3. \A s \in SUBSET Kinds : s \ {"migration"} # {} => (s \cup {e}) \ {"migration"} # {}
  OBVIOUS
<1> QED
  BY <1>2, <1>3 DEF Records, Truths, Decisions, Constraints

LEMMA WithContradiction ==
    ASSUME NEW record \in Records, NEW e \in Evidence
    PROVE  LET more == [record EXCEPT !.contradicts = @ \cup {e}] IN
           /\ more \in Records
           /\ record \in Truths => more \in Truths
           /\ more.category = record.category /\ more.status = record.status
           /\ more.origin = record.origin /\ more.supports = record.supports
<1>1. \A s \in SUBSET Evidence : s \cup {e} \in SUBSET Evidence
  OBVIOUS
<1> QED
  BY <1>1 DEF Records, Truths, Decisions, Constraints

\* The longer operation that stays where it was, or ends, or goes on to another stage.
LEMMA CallsKept ==
    ASSUME Calls, Stages \subseteq Stages',
           \/ call' = call
           \/ \E c \in Caller : \E stage \in Stages' : call' = [call EXCEPT ![c] = stage]
    PROVE  Calls'
BY DEF Calls

LEMMA IdleIsAStage ==
    Idle \in Stages /\ Idle \in Stages'
BY DEF Stages, Idle

\* Truth is disputed while it keeps the rest of its record.
LEMMA DisputeKeeps ==
    ASSUME Tables, Governing, Settling, NEW r \in Facts,
           OpenConflict(r), records' = Disputed(records, r)
    PROVE  Tables' /\ Governing' /\ Settling' /\ Stages' = Stages
<1> DEFINE record == [records[r] EXCEPT !.status = "disputed"]
<1>1. records[r] \in Records /\ records[r].category = "truth"
  BY DEF Tables, Facts
<1>2. record \in Truths /\ record.status = "disputed"
  BY <1>1, WithStatus DEF TruthStatus
<1>3. records' = [records EXCEPT ![r] = record]
  BY DEF Disputed
<1> HIDE DEF record
<1> QED
  BY <1>2, <1>3, DisputedKeeps

LEMMA RecordVerifiedFactKeeps ==
    ASSUME IInv, NEW c \in Caller, NEW supports \in SUBSET Evidence,
           NEW against \in SUBSET Record, RecordVerifiedFact(c, supports, against)
    PROVE  IInv'
<1> DEFINE record == RecordOf("truth", "project", "verified", supports, FALSE)
<1>1. supports \in SUBSET Kinds /\ supports \ {"migration"} # {}
  BY MemoryAssumption DEF RecordVerifiedFact, Kinds, RestsOnExternal, BelowTruth, UnverifiedKinds
<1>2. record \in Records /\ record.category = "truth" /\ record.status = "verified"
      /\ record.supports = supports
  BY <1>1 DEF RecordOf, Records, Truths, Origins, TruthStatus
<1>3. Governs(record) /\ Create(record) /\ conflicts' = conflicts
  BY <1>2 DEF RecordVerifiedFact, Governs
<1> HIDE DEF record
<1>4. Tables' /\ Governing' /\ Settling' /\ Record \subseteq Record' /\ Stages \subseteq Stages'
  BY <1>2, <1>3, CreatedKeeps DEF IInv
<1>5. [op |-> "oppose", left |-> against] \in Stages'
  BY <1>4 DEF Stages
<1>6. Calls'
  BY <1>4, <1>5, IdleIsAStage, CallsKept DEF IInv, RecordVerifiedFact
<1> QED
  BY <1>4, <1>6 DEF IInv

LEMMA OpposeKeeps ==
    ASSUME IInv, NEW c \in Caller, NEW r \in Record, Oppose(c, r)
    PROVE  IInv'
<1>1. CASE MayDispute(r)
  <2>1. r \in Facts
    BY <1>1 DEF MayDispute, Facts, Record
  <2>2. OpenConflict(r) /\ records' = Disputed(records, r)
    BY <1>1 DEF Oppose
  <2>3. Tables' /\ Governing' /\ Settling' /\ Stages' = Stages
    BY <2>1, <2>2, DisputeKeeps DEF IInv
  <2>4. call[c] \in Stages /\ call[c].op = "oppose"
    BY DEF Oppose, IInv, Calls
  <2>5. [call[c] EXCEPT !.left = @ \ {r}] \in Stages
    BY <2>4 DEF Stages, Idle
  <2>6. Past(call[c], r) \in Stages'
    BY <2>3, <2>5, IdleIsAStage DEF Past
  <2>7. call' = [call EXCEPT ![c] = Past(call[c], r)]
    BY <1>1 DEF Oppose
  <2>8. Calls'
    BY <2>3, <2>6, <2>7, CallsKept DEF IInv
  <2> QED
    BY <2>3, <2>8 DEF IInv
<1>2. CASE ~MayDispute(r)
  <2>1. UNCHANGED <<records, conflicts>> /\ call' = [call EXCEPT ![c] = Idle]
    BY <1>2 DEF Oppose
  <2>2. Tables' /\ Governing' /\ Settling' /\ Stages' = Stages
    BY <2>1 DEF IInv, Tables, Governing, Settling, Stages, Facts, Record, Crossed, Open, Ended
  <2>3. Calls'
    BY <2>1, <2>2, IdleIsAStage, CallsKept DEF IInv
  <2> QED
    BY <2>2, <2>3 DEF IInv
<1> QED
  BY <1>1, <1>2

LEMMA ProposeDecisionKeeps ==
    ASSUME IInv, NEW origin \in Origins, NEW status \in DecisionStatus,
           NEW supports \in SUBSET Evidence, ProposeDecision(origin, status, supports)
    PROVE  IInv'
<1> DEFINE record == RecordOf("decision", origin, status, supports, FALSE)
<1>1. supports \in SUBSET Kinds
  BY MemoryAssumption DEF Kinds
<1>2. record \in Records /\ record.category = "decision" /\ record.status = status
      /\ record.supports = supports /\ record.origin = origin
  BY <1>1 DEF RecordOf, Records, Decisions
<1>3. Governs(record) /\ Create(record) /\ conflicts' = conflicts /\ call' = call
  BY <1>2 DEF ProposeDecision, MayBeDecided, Governs, Binding, DecisionStatus
<1> HIDE DEF record
<1>4. Tables' /\ Governing' /\ Settling' /\ Stages \subseteq Stages'
  BY <1>2, <1>3, CreatedKeeps DEF IInv
<1> QED
  BY <1>3, <1>4, CallsKept DEF IInv

LEMMA AddConstraintKeeps ==
    ASSUME IInv, NEW origin \in Origins, NEW supports \in SUBSET Evidence,
           AddConstraint(origin, supports)
    PROVE  IInv'
<1> DEFINE record == RecordOf("constraint", origin, "active", supports, FALSE)
<1>1. supports \in SUBSET Kinds
  BY MemoryAssumption DEF Kinds
<1>2. record \in Records /\ record.category = "constraint" /\ record.status = "active"
      /\ record.supports = supports /\ record.origin = origin
  BY <1>1 DEF RecordOf, Records, Constraints
<1>3. Governs(record) /\ Create(record) /\ conflicts' = conflicts /\ call' = call
  BY <1>2 DEF AddConstraint, Governs
<1> HIDE DEF record
<1>4. Tables' /\ Governing' /\ Settling' /\ Stages \subseteq Stages'
  BY <1>2, <1>3, CreatedKeeps DEF IInv
<1> QED
  BY <1>3, <1>4, CallsKept DEF IInv

\* A record that is no truth, or keeps its status, is given another.
LEMMA StatusKeeps ==
    ASSUME IInv, NEW r \in Record, NEW s \in DecisionStatus,
           records[r].category = "decision", MayBind(r, s),
           records' = [records EXCEPT ![r].status = s], conflicts' = conflicts
    PROVE  Tables' /\ Governing' /\ Settling' /\ Stages' = Stages
<1> DEFINE record == [records[r] EXCEPT !.status = s]
<1>1. records[r] \in Records
  BY DEF IInv, Tables, Record
<1>2. record \in Records /\ record.category = records[r].category /\ record.status = s
      /\ record.origin = records[r].origin /\ record.supports = records[r].supports
  BY <1>1, WithStatus
<1>3. Governs(record)
  BY <1>2 DEF Governs, MayBind
<1>4. records' = [records EXCEPT ![r] = record] /\ record.category # "truth"
  BY <1>2
<1> HIDE DEF record
<1> QED
  BY <1>2, <1>3, <1>4, AmendedKeeps DEF IInv

LEMMA SetDecisionStatusKeeps ==
    ASSUME IInv, NEW r \in Record, NEW status \in DecisionStatus,
           SetDecisionStatus(r, status)
    PROVE  IInv'
<1>1. Tables' /\ Governing' /\ Settling' /\ Stages' = Stages
  BY StatusKeeps DEF SetDecisionStatus
<1> QED
  BY <1>1, CallsKept DEF IInv, SetDecisionStatus

LEMMA AttachSupportKeeps ==
    ASSUME IInv, NEW r \in Record, NEW e \in Evidence, AttachSupport(r, e)
    PROVE  IInv'
<1> DEFINE record == [records[r] EXCEPT !.supports = @ \cup {e}]
<1>1. records[r] \in Records
  BY DEF IInv, Tables, Record
<1>2. record \in Records /\ record.category = records[r].category
      /\ record.status = records[r].status /\ record.origin = records[r].origin
      /\ record.supports = records[r].supports \cup {e}
  BY <1>1, WithSupport
<1>3. records' = [records EXCEPT ![r] = record] /\ conflicts' = conflicts /\ call' = call
  BY DEF AttachSupport
<1> HIDE DEF record
<1>4. Governs(records[r])
  BY DEF IInv, Governing
<1>5. Governs(record)
  BY <1>2, <1>4 DEF Governs, AttachSupport, MaySupport, RestsOnExternal
<1>6. Tables' /\ Governing' /\ Settling' /\ Stages' = Stages
  BY <1>2, <1>3, <1>5, AmendedKeeps DEF IInv
<1> QED
  BY <1>3, <1>6, CallsKept DEF IInv

LEMMA AttachContradictionKeeps ==
    ASSUME IInv, NEW r \in Record, NEW e \in Evidence, AttachContradiction(r, e)
    PROVE  IInv'
<1> DEFINE linked == [records[r] EXCEPT !.contradicts = @ \cup {e}]
           disputed == [linked EXCEPT !.status = "disputed"]
<1>1. records[r] \in Records /\ Governs(records[r])
  BY DEF IInv, Tables, Record, Governing
<1>2. linked \in Records /\ (records[r] \in Truths => linked \in Truths)
      /\ linked.category = records[r].category /\ linked.status = records[r].status
      /\ linked.origin = records[r].origin /\ linked.supports = records[r].supports
  BY <1>1, WithContradiction
<1>3. Governs(linked)
  BY <1>1, <1>2 DEF Governs
<1>4. call' = call
  BY DEF AttachContradiction
<1>5. CASE MayDispute(r)
  <2>1. r \in Facts /\ linked \in Truths /\ linked.category = "truth"
    BY <1>1, <1>2, <1>5, RecordParts DEF MayDispute, Facts, Record
  <2>2. disputed \in Truths /\ disputed.status = "disputed"
    <3> HIDE DEF linked
    <3> QED
      BY <1>2, <2>1, WithStatus DEF TruthStatus
  <2>3. OpenConflict(r) /\ records' = [records EXCEPT ![r] = disputed]
    <3>1. OpenConflict(r) /\ records' = Disputed([records EXCEPT ![r] = linked], r)
      BY <1>5 DEF AttachContradiction
    <3>2. records \in Seq(Records) /\ r \in DOMAIN records
      BY DEF IInv, Tables, Record
    <3> HIDE DEF linked
    <3> QED
      BY <3>1, <3>2 DEF Disputed
  <2> HIDE DEF disputed, linked
  <2>4. Tables' /\ Governing' /\ Settling' /\ Stages' = Stages
    BY <2>1, <2>2, <2>3, DisputedKeeps DEF IInv
  <2> QED
    BY <1>4, <2>4, CallsKept DEF IInv
<1>6. CASE ~MayDispute(r)
  <2>1. records' = [records EXCEPT ![r] = linked] /\ conflicts' = conflicts
    BY <1>6 DEF AttachContradiction
  <2> HIDE DEF linked
  <2>2. Tables' /\ Governing' /\ Settling' /\ Stages' = Stages
    BY <1>2, <1>3, <2>1, AmendedKeeps DEF IInv
  <2> QED
    BY <1>4, <2>2, CallsKept DEF IInv
<1> QED
  BY <1>5, <1>6

LEMMA RaiseConflictKeeps ==
    ASSUME IInv, NEW r \in Record, RaiseConflict(r)
    PROVE  IInv'
<1>1. r \in Facts /\ OpenConflict(r) /\ records' = Disputed(records, r) /\ call' = call
  BY DEF RaiseConflict, MayDispute, Facts, Record
<1>2. Tables' /\ Governing' /\ Settling' /\ Stages' = Stages
  BY <1>1, DisputeKeeps DEF IInv
<1> QED
  BY <1>1, <1>2, CallsKept DEF IInv

\* The one dispute of a truth that is open is settled: the truth is retired, or stands
\* where it stood before, which was in force only if nobody had retired it.
LEMMA ResolveConflictKeeps ==
    ASSUME IInv, NEW i \in DOMAIN conflicts, NEW outcome \in Outcomes,
           NEW r \in Facts, r = conflicts[i].on, ResolveConflict(i, outcome)
    PROVE  IInv'
<1> DEFINE status == IF outcome = "supersede_existing" THEN "superseded" ELSE StatusBefore(i)
           record == [records[r] EXCEPT !.status = status]
           conflict == [conflicts[i] EXCEPT !.outcome = outcome]
<1>1. /\ conflicts[i].outcome = "needs_review" /\ MayBind(r, status)
      /\ records' = [records EXCEPT ![r] = record]
      /\ conflicts' = [conflicts EXCEPT ![i] = conflict]
      /\ call' = call
  BY DEF ResolveConflict
<1>2. r \in Facts /\ r \in Record /\ conflicts[i] \in ConflictSet
  BY DEF IInv, Tables, Facts, Record
<1>3. records[r] \in Records /\ records[r].category = "truth"
  BY <1>2 DEF IInv, Tables, Facts
<1>4. status \in TruthStatus
  BY <1>2 DEF ConflictSet, TruthStatus, StatusBefore
<1>5. /\ conflict \in ConflictSet /\ conflict.on = r
      /\ conflict.before = conflicts[i].before /\ conflict.outcome = outcome
  BY <1>2 DEF ConflictSet
<1>6. \/ status = "superseded"
      \/ outcome # "supersede_existing" /\ status = conflicts[i].before
  BY DEF StatusBefore
<1>7. outcome = "supersede_existing" => status = "superseded"
  OBVIOUS
<1> HIDE DEF status
<1>8. /\ record \in Records /\ record.category = records[r].category /\ record.status = status
      /\ record.origin = records[r].origin /\ record.supports = records[r].supports
  BY <1>3, <1>4, WithStatus
<1>9. Governs(record)
  BY <1>1, <1>8 DEF Governs, MayBind
<1> HIDE DEF record, conflict
<1>10. /\ records' \in Seq(Records) /\ records'[r] = record
       /\ \A k \in Record : k # r => records'[k] = records[k]
       /\ Facts' = Facts /\ Stages' = Stages /\ Governing'
  BY <1>1, <1>2, <1>8, <1>9, Replaced DEF IInv
<1>11. /\ conflicts' \in Seq(ConflictSet) /\ DOMAIN conflicts' = DOMAIN conflicts
       /\ conflicts'[i] = conflict
       /\ \A j \in DOMAIN conflicts : j # i => conflicts'[j] = conflicts[j]
  BY <1>1, <1>5 DEF IInv, Tables
<1>12. \A j \in DOMAIN conflicts : /\ conflicts'[j].on = conflicts[j].on
                                   /\ conflicts'[j].before = conflicts[j].before
  BY <1>5, <1>11
<1>13. Tables'
  BY <1>10, <1>11, <1>12 DEF IInv, Tables
<1>14. \A k : Crossed(k)' <=> Crossed(k)
  BY <1>11, <1>12 DEF Crossed
<1>15. ASSUME NEW k \in Facts, ~Crossed(k)'
       PROVE  /\ records'[k].status = "disputed" <=> Open(k)' # {}
              /\ \A a, b \in Open(k)' : a = b
              /\ Ended(k, "supersede_existing")' # {} =>
                    /\ records'[k].status # "verified"
                    /\ \A a \in Open(k)' : conflicts'[a].before # "verified"
  <2>1. ~Crossed(k)
    BY <1>14, <1>15
  <2>2. CASE k # r
    <3>1. Open(k)' = Open(k)
          /\ Ended(k, "supersede_existing")' = Ended(k, "supersede_existing")
      BY <1>11, <1>12, <2>2 DEF Open, Ended
    <3>2. \A a \in Open(k) : conflicts'[a].before = conflicts[a].before
      BY <1>12 DEF Open
    <3>3. records'[k] = records[k]
      BY <1>10, <2>2 DEF Facts, Record
    <3> QED
      BY <2>1, <3>1, <3>2, <3>3 DEF IInv, Settling
  <2>3. CASE k = r
    <3>1. i \in Open(r)
      BY <1>1 DEF Open
    <3>2. Open(r) = {i}
      BY <2>1, <2>3, <3>1 DEF IInv, Settling
    <3>3. Open(r)' = {}
      <4>1. \A a \in DOMAIN conflicts : a # i => a \notin Open(r)'
        BY <1>11, <3>2 DEF Open
      <4>2. i \notin Open(r)'
        BY <1>5, <1>11 DEF Open, Outcomes
      <4>3. Open(r)' \subseteq DOMAIN conflicts
        BY <1>11 DEF Open
      <4> QED
        BY <4>1, <4>2, <4>3
    <3>4. conflicts[i].before # "disputed"
      BY <2>1, <2>3 DEF Crossed
    <3>5. status # "disputed"
      BY <1>6, <3>4
    <3>6. Ended(r, "supersede_existing")' # {} => status # "verified"
      <4>1. CASE outcome = "supersede_existing"
        BY <1>7, <4>1
      <4>2. CASE outcome # "supersede_existing"
        <5>1. Ended(r, "supersede_existing")' = Ended(r, "supersede_existing")
          BY <1>1, <1>5, <1>11, <4>2 DEF Ended
        <5>2. Ended(r, "supersede_existing") # {} => conflicts[i].before # "verified"
          BY <2>1, <2>3, <3>1 DEF IInv, Settling
        <5> QED
          BY <1>6, <5>1, <5>2
      <4> QED
        BY <4>1, <4>2
    <3> QED
      BY <1>8, <1>10, <2>3, <3>3, <3>5, <3>6
  <2> QED
    BY <2>2, <2>3
<1>16. Settling'
  BY <1>10, <1>15 DEF Settling
<1>17. Calls'
  BY <1>1, <1>10, CallsKept DEF IInv
<1> QED
  BY <1>10, <1>13, <1>16, <1>17 DEF IInv

LEMMA BeginCorrectionKeeps ==
    ASSUME IInv, NEW c \in Caller, NEW related \in SUBSET Record, BeginCorrection(c, related)
    PROVE  IInv'
<1> DEFINE record == RecordOf("decision", "user", "accepted", {}, FALSE)
<1>1. record \in Records /\ record.category = "decision" /\ record.origin = "user"
  BY DEF RecordOf, Records, Decisions, Origins, DecisionStatus
<1>2. Governs(record) /\ Create(record) /\ conflicts' = conflicts
  BY <1>1 DEF BeginCorrection, Governs
<1> HIDE DEF record
<1>3. Tables' /\ Governing' /\ Settling' /\ Record \subseteq Record' /\ Stages \subseteq Stages'
  BY <1>1, <1>2, CreatedKeeps DEF IInv
<1>4. [op |-> "correct", left |-> related] \in Stages'
  BY <1>3 DEF Stages
<1>5. Calls'
  BY <1>3, <1>4, CallsKept DEF IInv, BeginCorrection
<1> QED
  BY <1>3, <1>5 DEF IInv

\* What leaves the tables alone leaves of the invariant all but the calls.
LEMMA TablesLeft ==
    ASSUME IInv, UNCHANGED <<records, conflicts>>
    PROVE  Tables' /\ Governing' /\ Settling' /\ Stages' = Stages
BY DEF IInv, Tables, Governing, Settling, Stages, Facts, Record, Crossed, Open, Ended

LEMMA LookKeeps ==
    ASSUME IInv, NEW c \in Caller, NEW r \in Record, Look(c, r)
    PROVE  IInv'
<1>1. Tables' /\ Governing' /\ Settling' /\ Stages' = Stages
  BY TablesLeft DEF Look
<1>2. call[c] \in Stages /\ call[c].op = "correct"
  BY DEF IInv, Calls, Look
<1>3. call[c] \in [op : {"oppose", "correct"}, left : SUBSET Record]
  BY <1>2 DEF Stages, Idle
<1>4. Past(call[c], r) \in Stages
  BY <1>3, IdleIsAStage DEF Past, Stages
<1>5. Treatment(r) = "retire" =>
          [op |-> "retire", on |-> r, left |-> call[c].left \ {r}] \in Stages
  BY <1>3 DEF Treatment, Stages
<1>6. Treatment(r) = "dispute" =>
          [op |-> "dispute", on |-> r, left |-> call[c].left \ {r}] \in Stages
  BY <1>3 DEF Treatment, Stages, Facts, Record
<1>7. Treatment(r) \in {"retire", "dispute", "leave"}
  BY DEF Treatment
<1> DEFINE stage == IF Treatment(r) # "leave"
                    THEN [op |-> Treatment(r), on |-> r, left |-> call[c].left \ {r}]
                    ELSE Past(call[c], r)
<1>8. stage \in Stages'
  BY <1>1, <1>4, <1>5, <1>6, <1>7
<1>9. call' = [call EXCEPT ![c] = stage]
  BY DEF Look
<1> HIDE DEF stage
<1>10. Calls'
  BY <1>1, <1>8, <1>9, CallsKept DEF IInv
<1> QED
  BY <1>1, <1>10 DEF IInv

LEMMA TreatedKeeps ==
    ASSUME Calls, Stages' = Stages, NEW c \in Caller, call[c].op \in {"retire", "dispute"},
           Treated(c)
    PROVE  Calls'
<1>1. call[c] \in Stages
  BY DEF Calls
<1>2. call[c].left \in SUBSET Record
  BY <1>1 DEF Stages, Idle
<1> DEFINE stage == IF call[c].left = {} THEN Idle
                    ELSE [op |-> "correct", left |-> call[c].left]
<1>3. stage \in Stages
  BY <1>2, IdleIsAStage DEF Stages
<1>4. call' = [call EXCEPT ![c] = stage]
  BY DEF Treated
<1> HIDE DEF stage
<1> QED
  BY <1>3, <1>4, CallsKept

LEMMA RetireDecisionKeeps ==
    ASSUME IInv, NEW c \in Caller, RetireDecision(c)
    PROVE  IInv'
<1>1. call[c] \in Stages /\ call[c].op = "retire"
  BY DEF IInv, Calls, RetireDecision
<1>2. call[c].on \in Record /\ records[call[c].on].category = "decision"
  BY <1>1 DEF Stages, Idle
<1>3. MayBind(call[c].on, "superseded") /\ "superseded" \in DecisionStatus
  BY DEF MayBind, Binding, DecisionStatus
<1>4. Tables' /\ Governing' /\ Settling' /\ Stages' = Stages
  BY <1>2, <1>3, StatusKeeps DEF RetireDecision
<1>5. Calls'
  BY <1>1, <1>4, TreatedKeeps DEF IInv, RetireDecision
<1> QED
  BY <1>4, <1>5 DEF IInv

LEMMA DisputeFactKeeps ==
    ASSUME IInv, NEW c \in Caller, DisputeFact(c)
    PROVE  IInv'
<1>1. call[c] \in Stages /\ call[c].op = "dispute"
  BY DEF IInv, Calls, DisputeFact
<1>2. call[c].on \in Facts
  BY <1>1 DEF Stages, Idle
<1>3. Tables' /\ Governing' /\ Settling' /\ Stages' = Stages
  BY <1>2, DisputeKeeps DEF IInv, DisputeFact
<1>4. Calls'
  BY <1>1, <1>3, TreatedKeeps DEF IInv, DisputeFact
<1> QED
  BY <1>3, <1>4 DEF IInv

LEMMA DieKeeps ==
    ASSUME IInv, NEW c \in Caller, Die(c)
    PROVE  IInv'
<1>1. Tables' /\ Governing' /\ Settling' /\ Stages' = Stages
  BY TablesLeft DEF Die
<1> QED
  BY <1>1, IdleIsAStage, CallsKept DEF IInv, Die

-----------------------------------------------------------------------------
(* The invariant, and what it says                                           *)

LEMMA InitIInv ==
    Init => IInv
<1> SUFFICES ASSUME Init PROVE IInv
  OBVIOUS
<1> DEFINE rubric == RecordOf("truth", "project", "verified", {"tool"}, TRUE)
<1>1. rubric \in Records /\ Governs(rubric) /\ rubric.status = "verified"
  <2>1. {"tool"} \in {s \in SUBSET Kinds : s \ {"migration"} # {}}
    BY DEF Kinds, DeterministicKinds
  <2>2. ~RestsOnExternal({"tool"})
    BY DEF RestsOnExternal, BelowTruth, UnverifiedKinds
  <2> QED
    BY <2>1, <2>2 DEF RecordOf, Records, Truths, Origins, TruthStatus, Governs
<1> HIDE DEF rubric
<1>2. records = <<>> \/ records = <<rubric>>
  BY DEF Init, rubric
<1>3. records \in Seq(Records) /\ \A r \in Record : records[r] = rubric
  <2>1. <<>> \in Seq(Records) /\ DOMAIN <<>> = {}
    OBVIOUS
  <2>2. <<rubric>> \in Seq(Records) /\ DOMAIN <<rubric>> = {1} /\ <<rubric>>[1] = rubric
    BY <1>1
  <2> QED
    BY <1>2, <2>1, <2>2 DEF Record
<1>4. conflicts = <<>> /\ conflicts \in Seq(ConflictSet) /\ DOMAIN conflicts = {}
  BY DEF Init
<1>5. Tables
  BY <1>3, <1>4 DEF Tables
<1>6. Calls
  BY IdleIsAStage DEF Init, Calls
<1>7. Governing
  BY <1>1, <1>3 DEF Governing
<1>8. \A r : Open(r) = {} /\ Ended(r, "supersede_existing") = {}
  BY <1>4 DEF Open, Ended
<1>9. \A r \in Facts : records[r].status = "verified"
  BY <1>1, <1>3 DEF Facts, Record
<1>10. Settling
  BY <1>8, <1>9 DEF Settling
<1> QED
  BY <1>5, <1>6, <1>7, <1>10 DEF IInv

LEMMA NextIInv ==
    IInv /\ [Next]_vars => IInv'
<1> SUFFICES ASSUME IInv, [Next]_vars PROVE IInv'
  OBVIOUS
<1>1. CASE RecordFact
  BY <1>1, RecordVerifiedFactKeeps, OpposeKeeps DEF RecordFact
<1>2. CASE Decide
  BY <1>2, ProposeDecisionKeeps, AddConstraintKeeps, SetDecisionStatusKeeps DEF Decide
<1>3. CASE Attach
  BY <1>3, AttachSupportKeeps, AttachContradictionKeeps DEF Attach
<1>4. CASE Resolve
  <2>1. \A i \in DOMAIN conflicts : conflicts[i].on \in Facts
    BY DEF IInv, Tables
  <2> QED
    BY <1>4, <2>1, RaiseConflictKeeps, ResolveConflictKeeps DEF Resolve
<1>5. CASE Correct
  BY <1>5, BeginCorrectionKeeps, LookKeeps, RetireDecisionKeeps, DisputeFactKeeps DEF Correct
<1>6. CASE \E c \in Caller : Die(c)
  BY <1>6, DieKeeps
<1>7. CASE UNCHANGED vars
  <2>1. Tables' /\ Governing' /\ Settling' /\ Stages' = Stages
    BY <1>7, TablesLeft DEF vars
  <2> QED
    BY <1>7, <2>1, CallsKept DEF IInv, vars
<1> QED
  BY <1>1, <1>2, <1>3, <1>4, <1>5, <1>6, <1>7 DEF Next

\* What nothing outside the project may decide: a record that governs the work rests on
\* no unverified text unless the user wrote it, whatever door it came by.
THEOREM ExternalNeverBindsAlways == Spec => []ExternalNeverBinds
<1>1. IInv => ExternalNeverBinds
  <2> SUFFICES ASSUME IInv PROVE ExternalNeverBinds
    OBVIOUS
  <2>1. \A r \in Record : records[r] \in Records
    BY DEF IInv, Tables, Record
  <2>2. \A i \in DOMAIN conflicts : conflicts[i].on \in Facts /\ conflicts[i].before \in TruthStatus
    <3>1. \A i \in DOMAIN conflicts : conflicts[i] \in ConflictSet /\ conflicts[i].on \in Facts
      BY DEF IInv, Tables
    <3> QED
      BY <3>1 DEF ConflictSet
  <2>3. TypeOK
    BY <2>1, <2>2 DEF TypeOK, Records, Truths, Decisions, Constraints
  <2> QED
    BY <2>3 DEF ExternalNeverBinds, IInv, Governing, Governs
<1> QED
  BY <1>1, InitIInv, NextIInv, PTL DEF Spec

\* A truth that never had two disputes at once is disputed exactly while one is open, and
\* is not in force again once a dispute retired it, whoever was half-way through what.
THEOREM DisputesSettleAlways == Spec => []DisputesSettle
<1>1. IInv => DisputesSettle
  BY DEF IInv, Settling, DisputesSettle
<1> QED
  BY <1>1, InitIInv, NextIInv, PTL DEF Spec
=============================================================================
