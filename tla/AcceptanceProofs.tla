-------------------------- MODULE AcceptanceProofs --------------------------
(***************************************************************************)
(* Proofs about Acceptance, for every set of tasks and of deliverers and   *)
(* for every bound.                                                        *)
(***************************************************************************)
EXTENDS Acceptance, FunctionTheorems, FiniteSetTheorems, TLAPS

-----------------------------------------------------------------------------
(* The types the proofs need                                                 *)

RubricRecords == [version : 1..MaxRecords, status : {"verified", "disputed", "superseded"}]

Replies == [verdict : {"PASS", "REVISE"}, attested : Nat]

Sessions == {NoSession}
            \cup [turn : Nat \ {0}, reply : SUBSET Replies, given : Nat]

Outcomes == [task : Task, turn : Nat \ {0}, verdict : {"PASS", "REVISE"}]

Refused == [at : {"refused"}, task : Task, turn : Nat \ {0}, counted : BOOLEAN]

Delivered == [at : {"recorded", "committed", "backed"}, task : Task, turn : Nat \ {0},
              verdict : {"PASS", "REVISE"}]

HistoryTypes == rubric \in Seq(RubricRecords)

RunTypes ==
    /\ task \in [Task -> {"IMPLEMENTED", "VERIFYING", "REVISION_REQUIRED", "RETRY_WAIT", "VERIFIED"}]
    /\ rejections \in [Task -> Nat]
    /\ turns \in [Task -> Nat]
    /\ session \in [Task -> Sessions]
    /\ ledger \subseteq Outcomes
    /\ deliver \in [Deliverer -> {Idle} \cup Refused \cup Delivered]

-----------------------------------------------------------------------------
(* The rubric's history                                                      *)

\* The first n numbers are n.
LEMMA UpTo ==
    ASSUME NEW n \in Nat
    PROVE  IsFiniteSet(1..n) /\ Cardinality(1..n) = n
<1>1. 1 \in Int /\ n \in Int
  OBVIOUS
<1>2. IsFiniteSet(1..n) /\ Cardinality(1..n) = IF 1 > n THEN 0 ELSE n - 1 + 1
  BY ONLY <1>1, FS_Interval
<1> QED
  BY <1>2

\* The verified records are no more than the records.
LEMMA VerifiedIsFinite ==
    ASSUME HistoryTypes
    PROVE  /\ Verified \subseteq 1..Len(rubric)
           /\ IsFiniteSet(Verified)
           /\ Cardinality(Verified) \in Nat
           /\ Cardinality(Verified) <= Len(rubric)
<1>1. Len(rubric) \in Nat /\ DOMAIN rubric = 1..Len(rubric)
  BY DEF HistoryTypes
<1>2. IsFiniteSet(1..Len(rubric)) /\ Cardinality(1..Len(rubric)) = Len(rubric)
  BY <1>1, UpTo
<1>3. Verified \in SUBSET (1..Len(rubric))
  BY <1>1 DEF Verified
<1>4. IsFiniteSet(Verified) /\ Cardinality(Verified) <= Len(rubric)
  BY <1>2, <1>3, FS_Subset
<1> QED
  BY <1>3, <1>4, FS_CardinalityType

\* Of a clean history the latest record is the n-th version of n.
LEMMA LatestOfClean ==
    ASSUME HistoryTypes, Clean, Verified # {}
    PROVE  Latest \in Verified /\ rubric[Latest].version = Cardinality(Verified)
<1> DEFINE n == Cardinality(Verified)
<1>1. n \in Nat /\ n # 0
  BY VerifiedIsFinite, FS_EmptySet
<1>2. n \in Versions /\ \A v \in Versions : v <= n
  BY <1>1 DEF Clean
<1>3. PICK i \in Verified : rubric[i].version = n
  BY <1>2 DEF Versions
<1>4. \A j \in Verified : rubric[j].version <= n
  BY <1>2 DEF Versions
<1>5. Latest \in Verified /\ \A j \in Verified : rubric[j].version <= rubric[Latest].version
  BY <1>3, <1>4 DEF Latest
<1>6. rubric[Latest].version \in Versions
  BY <1>5 DEF Versions
<1>7. rubric[Latest].version \in Nat
  BY <1>1, <1>6 DEF Clean
<1>8. rubric[Latest].version <= n /\ n <= rubric[Latest].version
  BY <1>3, <1>4, <1>5
<1>9. rubric[Latest].version = n
  <2> HIDE DEF n
  <2> QED
    BY <1>1, <1>7, <1>8
<1> QED
  BY <1>5, <1>9

\* n records that show n versions show each of them once: nothing of a clean history
\* is a stray.
LEMMA CleanHasNoStrays ==
    ASSUME HistoryTypes, Clean
    PROVE  Strays = {}
<1> DEFINE n == Cardinality(Verified)
           version == [i \in Verified |-> rubric[i].version]
<1>1. n \in Nat /\ IsFiniteSet(Verified) /\ Versions = 1..n
  BY VerifiedIsFinite DEF Clean
<1>2. Cardinality(1..n) = n
  BY <1>1, UpTo
<1>3. version \in Surjection(Verified, 1..n)
  <2>1. version \in [Verified -> 1..n]
    BY <1>1 DEF Versions
  <2>2. \A v \in 1..n : \E i \in Verified : version[i] = v
    BY <1>1 DEF Versions
  <2> HIDE DEF version
  <2> QED
    BY <2>1, <2>2, Fun_IsSurj
<1>4. version \in Injection(Verified, 1..n)
  BY <1>1, <1>2, <1>3, FS_SurjSameCardinalityImpliesInj
<1>5. \A i, j \in Verified : rubric[i].version = rubric[j].version => i = j
  BY <1>4 DEF Injection, IsInjective
<1>6. ASSUME NEW i \in Verified
      PROVE  FirstOf(rubric[i].version) = i /\ 1..rubric[i].version \subseteq Versions
  <2>1. i \in Nat
    BY VerifiedIsFinite
  <2>2. FirstOf(rubric[i].version) = i
    <3> DEFINE IsFirst(k) == /\ rubric[k].version = rubric[i].version
                             /\ \A j \in Verified : rubric[j].version = rubric[i].version => k <= j
    <3>1. IsFirst(i)
      BY <1>5, <2>1
    <3>2. \A k \in Verified : IsFirst(k) => k = i
      BY <1>5
    <3>3. FirstOf(rubric[i].version) = CHOOSE k \in Verified : IsFirst(k)
      BY DEF FirstOf
    <3> QED
      BY <3>1, <3>2, <3>3
  <2>3. rubric[i].version \in 1..n
    BY <1>1 DEF Versions
  <2> QED
    BY <1>1, <2>2, <2>3
<1> QED
  BY <1>6 DEF Strays

\* What one more record makes of a history.
LEMMA OneMoreRecord ==
    ASSUME HistoryTypes, NEW v \in 1..MaxRecords,
           rubric' = Append(rubric, RubricRecord(v))
    PROVE  /\ HistoryTypes'
           /\ Verified' = Verified \cup {Len(rubric) + 1}
           /\ Versions' = Versions \cup {v}
           /\ Cardinality(Verified') = Cardinality(Verified) + 1
           /\ \A i \in Verified : rubric'[i] = rubric[i]
<1>1. RubricRecord(v) \in RubricRecords /\ RubricRecord(v).status = "verified"
      /\ RubricRecord(v).version = v
  BY DEF RubricRecord, RubricRecords
<1>2. Len(rubric) \in Nat /\ DOMAIN rubric = 1..Len(rubric)
  BY DEF HistoryTypes
<1>3. /\ HistoryTypes'
      /\ DOMAIN rubric' = 1..(Len(rubric) + 1)
      /\ \A i \in 1..Len(rubric) : rubric'[i] = rubric[i]
      /\ rubric'[Len(rubric) + 1] = RubricRecord(v)
  BY <1>1, <1>2 DEF HistoryTypes
<1>4. Verified' = Verified \cup {Len(rubric) + 1}
  BY <1>1, <1>2, <1>3 DEF Verified
<1>5. \A i \in Verified : rubric'[i] = rubric[i]
  BY <1>2, <1>3 DEF Verified
<1>6. Versions' = Versions \cup {v}
  BY <1>1, <1>3, <1>4, <1>5 DEF Versions
<1>7. Len(rubric) + 1 \notin Verified
  BY <1>2 DEF Verified
<1>8. Cardinality(Verified') = Cardinality(Verified) + 1
  BY <1>4, <1>7, VerifiedIsFinite, FS_AddElement
<1> QED
  BY <1>3, <1>4, <1>5, <1>6, <1>8

\* The next version of a clean history leaves a clean history.
LEMMA NextVersionStaysClean ==
    ASSUME HistoryTypes, Clean, Cardinality(Verified) + 1 \in 1..MaxRecords,
           rubric' = Append(rubric, RubricRecord(Cardinality(Verified) + 1))
    PROVE  Clean'
<1>1. Cardinality(Verified) \in Nat
  BY VerifiedIsFinite
<1>2. /\ Versions' = Versions \cup {Cardinality(Verified) + 1}
      /\ Cardinality(Verified') = Cardinality(Verified) + 1
  BY OneMoreRecord
<1>3. Versions = 1..Cardinality(Verified)
  BY DEF Clean
<1>4. Versions' = 1..Cardinality(Verified')
  BY <1>1, <1>2, <1>3
<1> QED
  BY <1>4 DEF Clean

\* What a step may make of a history.
HistoryStep ==
    /\ HistoryTypes'
    /\ Clean => Clean'
    /\ \A i \in Verified \ Strays : rubric'[i] = rubric[i]

\* A step that leaves the rubric alone.
LEMMA SameHistory ==
    ASSUME HistoryTypes, UNCHANGED rubric
    PROVE  HistoryStep
<1>1. HistoryTypes' /\ Verified' = Verified
  BY DEF HistoryTypes, Verified
<1>2. Versions' = Versions
  BY <1>1 DEF Versions
<1> QED
  BY <1>1, <1>2 DEF HistoryStep, Clean

\* The first record of a scope that shows none (_insert_rubric).
LEMMA FirstVersionStep ==
    ASSUME HistoryTypes, Verified = {}, rubric' = Append(rubric, RubricRecord(1))
    PROVE  HistoryStep
<1>1. Cardinality(Verified) = 0
  BY FS_EmptySet
<1>2. 1 \in 1..MaxRecords
  BY AcceptanceAssumption
<1>3. HistoryTypes' /\ \A i \in Verified : rubric'[i] = rubric[i]
  BY <1>2, OneMoreRecord
<1>4. Clean => Clean'
  BY <1>1, <1>2, NextVersionStaysClean
<1> QED
  BY <1>3, <1>4 DEF HistoryStep

\* A proposal writes the version after the latest (store_department_rubric).
LEMMA ProposeStep ==
    ASSUME HistoryTypes, Propose
    PROVE  HistoryStep
<1> DEFINE n == Cardinality(Verified)
<1>1. Clean /\ Verified # {} /\ Len(rubric) < MaxRecords
  BY DEF Propose, Insert
<1>2. rubric' = Append(rubric, RubricRecord(n + 1))
  BY <1>1, LatestOfClean DEF Propose, Insert
<1>3. n \in Nat /\ n <= Len(rubric) /\ Len(rubric) \in Nat /\ MaxRecords \in Nat
  BY VerifiedIsFinite, AcceptanceAssumption DEF HistoryTypes
<1>4. n + 1 \in 1..MaxRecords
  <2> HIDE DEF n
  <2> QED
    BY <1>1, <1>3
<1>5. HistoryTypes' /\ \A i \in Verified : rubric'[i] = rubric[i]
  <2> HIDE DEF n
  <2> QED
    BY <1>2, <1>4, OneMoreRecord
<1>6. Clean'
  BY <1>1, <1>2, <1>4, NextVersionStaysClean
<1> QED
  BY <1>5, <1>6 DEF HistoryStep

\* Only a stray is retired, and a clean history has none.
LEMMA SupersedeStep ==
    ASSUME HistoryTypes, NEW i \in DOMAIN rubric, SupersedeStray(i)
    PROVE  HistoryStep
<1>1. i \in Strays /\ rubric' = [rubric EXCEPT ![i].status = "superseded"]
  BY DEF SupersedeStray
<1>2. ~Clean
  BY <1>1, CleanHasNoStrays
<1>3. rubric \in [1..Len(rubric) -> RubricRecords] /\ Len(rubric) \in Nat
      /\ DOMAIN rubric = 1..Len(rubric)
  BY DEF HistoryTypes
<1>4. [rubric[i] EXCEPT !.status = "superseded"] \in RubricRecords
  BY <1>3 DEF RubricRecords
<1>5. rubric' \in [1..Len(rubric) -> RubricRecords]
  BY <1>1, <1>3, <1>4
<1>6. HistoryTypes'
  BY <1>3, <1>5 DEF HistoryTypes
<1>7. \A j \in Verified \ Strays : rubric'[j] = rubric[j]
  BY <1>1, <1>3 DEF Verified
<1> QED
  BY <1>2, <1>6, <1>7 DEF HistoryStep

\* An admission writes version 1 where there is none (ensure_department_rubric).
LEMMA AdmitHistoryStep ==
    ASSUME HistoryTypes, NEW t \in Task, AdmitVerifier(t)
    PROVE  HistoryStep
<1>1. CASE Verified = {}
  BY <1>1, FirstVersionStep DEF AdmitVerifier, Ensured
<1>2. CASE Verified # {}
  BY <1>2, SameHistory DEF AdmitVerifier, Ensured
<1> QED
  BY <1>1, <1>2

\* The bootstrap writes version 1 unless somebody has (write_runtime_rubric).
LEMMA WriteFirstStep ==
    ASSUME HistoryTypes, WriteFirst
    PROVE  HistoryStep
<1>1. CASE Verified = {}
  BY <1>1, FirstVersionStep DEF WriteFirst, NoneWritten, Insert
<1>2. CASE Verified # {}
  BY <1>2, SameHistory DEF WriteFirst, NoneWritten
<1> QED
  BY <1>1, <1>2

\* Only these four write to the rubric.
LEMMA EveryHistoryStep ==
    ASSUME HistoryTypes, [Next]_vars
    PROVE  HistoryStep
<1>1. CASE UNCHANGED rubric
  BY <1>1, SameHistory
<1>2. CASE WriteFirst
  BY <1>2, WriteFirstStep
<1>3. CASE \E t \in Task : AdmitVerifier(t)
  BY <1>3, AdmitHistoryStep
<1>4. CASE Propose
  BY <1>4, ProposeStep
<1>5. CASE \E i \in DOMAIN rubric : SupersedeStray(i)
  BY <1>5, SupersedeStep
<1>6. ASSUME NEW t \in Task, StopForDepartment(t) \/ Answer(t) \/ Lose(t) \/ Revise(t) \/ Return(t)
      PROVE  UNCHANGED rubric
  BY <1>6 DEF StopForDepartment, Answer, Lose, Revise, Return, store
<1>7. ASSUME NEW d \in Deliverer, Completion(d)
      PROVE  UNCHANGED rubric
  BY <1>7 DEF Completion, End, Drop, Reject, SendBack, Commit, BackUp, Accept, Die, Weigh, store
<1>8. CASE Look
  BY <1>8, SameHistory DEF Look, store
<1>9. CASE UNCHANGED vars
  BY <1>9, SameHistory DEF vars
<1> QED
  BY <1>1, <1>2, <1>3, <1>4, <1>5, <1>6, <1>7, <1>8, <1>9 DEF Next, Lead

\* What build 0.14 could leave behind has the type.
LEMMA InitialHistory == Init => HistoryTypes
<1> SUFFICES ASSUME Init PROVE HistoryTypes
  OBVIOUS
<1>1. 1 \in 1..MaxRecords
  BY AcceptanceAssumption
<1>2. RubricRecord(1) \in RubricRecords
      /\ [RubricRecord(1) EXCEPT !.status = "disputed"] \in RubricRecords
  BY <1>1 DEF RubricRecord, RubricRecords
<1>3. ASSUME NEW S, NEW x \in S, NEW y \in S
      PROVE  <<>> \in Seq(S) /\ <<x>> \in Seq(S) /\ <<x, y>> \in Seq(S)
  OBVIOUS
<1> QED
  BY <1>2, <1>3, Zenon DEF Init, HistoryTypes

\* A history of exactly 1..n stays one, and no record that was the first of its version
\* ever leaves it (stored_rubric_versions, supersede_rubric_record).
THEOREM HistoryIsKept == Spec => HistoryStands
<1>1. Spec => []HistoryTypes
  <2>1. HistoryTypes /\ [Next]_vars => HistoryTypes'
    BY EveryHistoryStep DEF HistoryStep
  <2> QED
    BY InitialHistory, <2>1, PTL DEF Spec
<1>2. HistoryTypes /\ [Next]_vars
      => [/\ Clean => Clean'
          /\ \A i \in Verified \ Strays : rubric'[i] = rubric[i]]_vars
  BY EveryHistoryStep DEF HistoryStep
<1> QED
  BY <1>1, <1>2, PTL DEF Spec, HistoryStands

-----------------------------------------------------------------------------
(* The inductive invariant of the acceptance                                 *)

\* A task is VERIFYING while it has a session, which is that of its last turn and has
\* at most one reply.
SessionsAgree ==
    \A t \in Task :
        /\ task[t] = "VERIFYING" <=> session[t].turn # 0
        /\ session[t].turn \in {0, turns[t]}
        /\ session[t].turn # 0 =>
              \A one, other \in session[t].reply : one = other

\* What a deliverer holds is of a turn the task has had, and on record as far as it came.
DeliveriesAgree ==
    \A d \in Deliverer :
        /\ deliver[d] # Idle => deliver[d].turn <= turns[deliver[d].task]
        /\ deliver[d].at \in {"recorded", "committed", "backed"} =>
              [task |-> deliver[d].task, turn |-> deliver[d].turn,
               verdict |-> deliver[d].verdict] \in ledger
        /\ deliver[d].at \in {"committed", "backed"} =>
              deliver[d].verdict = "PASS" /\ StillPending(d)
        /\ deliver[d].at = "committed" => deliver[d].task \in completed
        /\ deliver[d].at = "backed" => deliver[d].task \in backup

\* The coordinator's lock: one completion at a time between its commit and its save.
OneCompletion ==
    \A d, e \in Deliverer :
        (deliver[d].at \in {"committed", "backed"} /\ deliver[e].at \in {"committed", "backed"})
            => d = e

\* A refusal that will count is of a reply that attests something else than was given,
\* for as long as the session it was read from is the pending one.
CountedFairly ==
    \A d \in Deliverer :
        (deliver[d].at = "refused" /\ StillPending(d)) =>
            /\ session[deliver[d].task].reply # {}
            /\ deliver[d].counted =>
                  \A reply \in session[deliver[d].task].reply :
                      reply.attested # session[deliver[d].task].given

VerifiedIsOnRecord ==
    \A t \in Task : task[t] = "VERIFIED" =>
        /\ t \in backup
        /\ \E outcome \in ledger :
              outcome.task = t /\ outcome.turn = turns[t] /\ outcome.verdict = "PASS"

Accepted ==
    /\ RunTypes
    /\ SessionsAgree
    /\ DeliveriesAgree
    /\ OneCompletion
    /\ CountedFairly
    /\ VerifiedIsOnRecord
    /\ backup \subseteq completed

\* What the place of a deliverer says of what it holds.
LEMMA DelivererTypes ==
    ASSUME RunTypes, NEW d \in Deliverer
    PROVE  /\ deliver[d] = Idle <=> deliver[d].at = "idle"
           /\ deliver[d].at = "refused" <=> deliver[d] \in Refused
           /\ deliver[d].at \in {"recorded", "committed", "backed"} <=> deliver[d] \in Delivered
           /\ deliver[d] # Idle =>
                 deliver[d].task \in Task /\ deliver[d].turn \in Nat /\ deliver[d].turn # 0
<1>1. deliver[d] \in {Idle} \cup Refused \cup Delivered
  BY DEF RunTypes
<1>2. Idle.at = "idle"
  BY DEF Idle
<1>3. \A r \in Refused : r.at = "refused" /\ r.task \in Task /\ r.turn \in Nat /\ r.turn # 0
  BY DEF Refused
<1>4. \A r \in Delivered : /\ r.at \in {"recorded", "committed", "backed"}
                           /\ r.task \in Task /\ r.turn \in Nat /\ r.turn # 0
  BY DEF Delivered
<1> QED
  BY <1>1, <1>2, <1>3, <1>4

\* A session that is pending is a record of its turn, its reply and what it was given.
LEMMA SessionTypes ==
    ASSUME RunTypes, NEW t \in Task
    PROVE  /\ session[t].turn \in Nat /\ turns[t] \in Nat
           /\ session[t].turn = 0 => session[t] = NoSession
           /\ session[t].turn # 0 =>
                 session[t] \in [turn : Nat \ {0}, reply : SUBSET Replies, given : Nat]
<1>1. session[t] \in Sessions
  BY DEF RunTypes
<1>2. NoSession.turn = 0
  BY DEF NoSession
<1> QED
  BY <1>1, <1>2 DEF Sessions, RunTypes

\* Steps that neither judge nor deliver.
LEMMA QuietStep ==
    ASSUME Accepted,
           UNCHANGED <<task, rejections, turns, session, ledger, completed, backup, deliver>>
    PROVE  Accepted'
BY DEF Accepted, RunTypes, SessionsAgree, DeliveriesAgree, OneCompletion, CountedFairly,
       StillPending, VerifiedIsOnRecord

\* A deliverer that stops, by dropping what it had or by dying.
LEMMA StopsDelivering ==
    ASSUME Accepted, NEW d \in Deliverer, deliver' = [deliver EXCEPT ![d] = Idle],
           UNCHANGED <<task, rejections, turns, session, ledger, completed, backup>>
    PROVE  Accepted'
<1>1. RunTypes'
  BY DEF Accepted, RunTypes
<1>2. deliver'[d] = Idle /\ Idle.at = "idle" /\ \A e \in Deliverer \ {d} : deliver'[e] = deliver[e]
  BY DEF Accepted, RunTypes, Idle
<1>3. SessionsAgree' /\ VerifiedIsOnRecord' /\ (backup \subseteq completed)'
  BY DEF Accepted, SessionsAgree, VerifiedIsOnRecord
<1>4. DeliveriesAgree'
  BY <1>2 DEF Accepted, DeliveriesAgree, StillPending
<1>5. OneCompletion'
  BY <1>2 DEF Accepted, OneCompletion
<1>6. CountedFairly'
  BY <1>2 DEF Accepted, CountedFairly, StillPending
<1> QED
  BY <1>1, <1>3, <1>4, <1>5, <1>6 DEF Accepted

\* A new verifier's turn is above all that was held of the task before.
LEMMA AdmitStep ==
    ASSUME Accepted, HistoryTypes, NEW t \in Task, AdmitVerifier(t)
    PROVE  Accepted'
<1> DEFINE given == IF Verified = {} THEN Len(rubric) + 1 ELSE Latest
           new == [turn |-> turns[t] + 1, reply |-> {}, given |-> given]
<1>1. given \in Nat
  BY LatestOfClean, VerifiedIsFinite DEF AdmitVerifier, HistoryTypes
<1>2. RunTypes /\ turns[t] \in Nat
  BY DEF Accepted, RunTypes
<1>3. new \in Sessions /\ new.turn = turns[t] + 1 /\ new.reply = {}
  <2> HIDE DEF given
  <2> QED
    BY <1>1, <1>2 DEF Sessions
<1>4. /\ task[t] = "IMPLEMENTED" /\ Free
      /\ task' = [task EXCEPT ![t] = "VERIFYING"]
      /\ turns' = [turns EXCEPT ![t] = @ + 1]
      /\ session' = [session EXCEPT ![t] = new]
      /\ UNCHANGED <<rejections, ledger, completed, backup, deliver>>
  BY DEF AdmitVerifier
<1> HIDE DEF new
<1>5. RunTypes'
  BY <1>2, <1>3, <1>4 DEF RunTypes
<1>6. SessionsAgree'
  BY <1>2, <1>3, <1>4 DEF Accepted, SessionsAgree, RunTypes
<1>7. \A d \in Deliverer : deliver[d].at \notin {"committed", "backed"}
  BY <1>4 DEF Free
<1>8. ASSUME NEW d \in Deliverer, deliver[d] # Idle
      PROVE  deliver[d].turn <= turns'[deliver[d].task]
  <2>1. deliver[d].task \in Task /\ deliver[d].turn \in Nat
    BY <1>2, <1>8, DelivererTypes
  <2>2. deliver[d].turn <= turns[deliver[d].task]
    BY <1>8 DEF Accepted, DeliveriesAgree
  <2> QED
    BY <1>2, <1>4, <2>1, <2>2 DEF RunTypes
<1>9. DeliveriesAgree'
  BY <1>4, <1>7, <1>8 DEF Accepted, DeliveriesAgree
<1>10. OneCompletion'
  BY <1>4, <1>7 DEF OneCompletion
<1>11. CountedFairly'
  <2> SUFFICES ASSUME NEW d \in Deliverer, deliver[d].at = "refused", StillPending(d)'
               PROVE  session'[deliver[d].task] = session[deliver[d].task]
    BY <1>4 DEF Accepted, CountedFairly, StillPending
  <2>1. deliver[d].task \in Task /\ deliver[d].turn \in Nat /\ deliver[d] # Idle
    BY <1>2, DelivererTypes
  <2>2. deliver[d].turn <= turns[deliver[d].task]
    BY <2>1 DEF Accepted, DeliveriesAgree
  <2>3. deliver[d].task # t
    BY <1>2, <1>3, <1>4, <2>1, <2>2 DEF StillPending, RunTypes
  <2> QED
    BY <1>4, <2>1, <2>3
<1>12. VerifiedIsOnRecord'
  BY <1>2, <1>4 DEF Accepted, VerifiedIsOnRecord, RunTypes
<1> QED
  BY <1>4, <1>5, <1>6, <1>9, <1>10, <1>11, <1>12 DEF Accepted

\* The one reply of a session comes before anything was read from it.
LEMMA AnswerStep ==
    ASSUME Accepted, HistoryTypes, NEW t \in Task, Answer(t)
    PROVE  Accepted'
<1>1. PICK verdict \in {"PASS", "REVISE"}, attested \in {0} \cup DOMAIN rubric :
          session' = [session EXCEPT ![t].reply = {[verdict |-> verdict, attested |-> attested]}]
  BY DEF Answer
<1>2. /\ RunTypes /\ session[t].turn # 0 /\ session[t].reply = {}
      /\ UNCHANGED <<task, rejections, turns, ledger, completed, backup, deliver>>
  BY DEF Accepted, Answer, store
<1> DEFINE reply == [verdict |-> verdict, attested |-> attested]
           new == [session[t] EXCEPT !.reply = {reply}]
<1>3. reply \in Replies
  BY DEF HistoryTypes, Replies
<1>4. session[t] \in [turn : Nat \ {0}, reply : SUBSET Replies, given : Nat]
  BY <1>2, SessionTypes
<1>5. new \in Sessions /\ new.turn = session[t].turn /\ new.reply = {reply}
  <2> HIDE DEF reply
  <2> QED
    BY <1>3, <1>4 DEF Sessions
<1>6. session' = [session EXCEPT ![t] = new]
  BY <1>1, <1>2
<1> HIDE DEF new
<1>7. RunTypes'
  BY <1>2, <1>5, <1>6 DEF RunTypes
<1>8. \A u \in Task : session'[u].turn = session[u].turn /\ (u # t => session'[u] = session[u])
  BY <1>2, <1>5, <1>6 DEF RunTypes
<1>9. session'[t].reply = {reply}
  BY <1>2, <1>5, <1>6 DEF RunTypes
<1>10. SessionsAgree'
  <2> SUFFICES ASSUME NEW u \in Task, session'[u].turn # 0
               PROVE  \A one, other \in session'[u].reply : one = other
    BY <1>2, <1>8 DEF Accepted, SessionsAgree
  <2> QED
    BY <1>8, <1>9 DEF Accepted, SessionsAgree
<1>11. \A d \in Deliverer : deliver[d] # Idle => (StillPending(d)' <=> StillPending(d))
  BY <1>2, <1>8, DelivererTypes DEF StillPending
<1>12. DeliveriesAgree'
  BY <1>2, <1>11, DelivererTypes DEF Accepted, DeliveriesAgree
<1>13. CountedFairly'
  <2> SUFFICES ASSUME NEW d \in Deliverer, deliver[d].at = "refused", StillPending(d)'
               PROVE  deliver[d].task \in Task \ {t} /\ StillPending(d)
    BY <1>2, <1>8 DEF Accepted, CountedFairly
  <2>1. StillPending(d) /\ deliver[d].task \in Task
    BY <1>2, <1>11, DelivererTypes
  <2>2. session[deliver[d].task].reply # {}
    BY <2>1 DEF Accepted, CountedFairly
  <2> QED
    BY <1>2, <2>1, <2>2
<1> QED
  BY <1>2, <1>7, <1>10, <1>12, <1>13 DEF Accepted, OneCompletion, VerifiedIsOnRecord

\* A session is retired and its task goes back, while nobody is completing another.
LEMMA RetireStep ==
    ASSUME Accepted, NEW t \in Task, session[t].turn # 0,
           NEW back \in {"IMPLEMENTED", "REVISION_REQUIRED", "RETRY_WAIT"},
           task' = [task EXCEPT ![t] = back],
           session' = [session EXCEPT ![t] = NoSession],
           rejections' \in [Task -> Nat],
           \/ UNCHANGED deliver
           \/ \E d \in Deliverer : deliver' = [deliver EXCEPT ![d] = Idle],
           Free, UNCHANGED <<turns, ledger, completed, backup>>
    PROVE  Accepted'
<1>1. RunTypes /\ NoSession.turn = 0 /\ NoSession \in Sessions
  BY DEF Accepted, NoSession, Sessions
<1>2. \A e \in Deliverer : deliver'[e] = deliver[e] \/ deliver'[e] = Idle
  BY <1>1 DEF RunTypes
<1>3. RunTypes'
  <2>1. deliver' \in [Deliverer -> {Idle} \cup Refused \cup Delivered]
    BY <1>1 DEF RunTypes
  <2> QED
    BY <1>1, <2>1 DEF RunTypes
<1>4. /\ session'[t].turn = 0 /\ task'[t] = back
      /\ \A u \in Task \ {t} : session'[u] = session[u] /\ task'[u] = task[u]
  BY <1>1 DEF RunTypes
<1>5. SessionsAgree'
  BY <1>4 DEF Accepted, SessionsAgree
<1>6. \A d \in Deliverer : deliver'[d].at \notin {"committed", "backed"}
  BY <1>2 DEF Free, Idle
<1>7. DeliveriesAgree' /\ OneCompletion'
  BY <1>2, <1>6 DEF Accepted, DeliveriesAgree, OneCompletion, Idle
<1>8. CountedFairly'
  <2> SUFFICES ASSUME NEW d \in Deliverer, deliver'[d].at = "refused", StillPending(d)'
               PROVE  /\ deliver'[d] = deliver[d]
                      /\ session'[deliver[d].task] = session[deliver[d].task]
    BY DEF Accepted, CountedFairly, StillPending
  <2>1. deliver'[d] = deliver[d]
    BY <1>2 DEF Idle
  <2>2. deliver[d].task \in Task /\ deliver[d].turn # 0
    BY <1>1, <2>1, DelivererTypes
  <2>3. deliver[d].task # t
    BY <1>4, <2>1, <2>2 DEF StillPending
  <2> QED
    BY <1>4, <2>1, <2>2, <2>3
<1>9. VerifiedIsOnRecord'
  BY <1>4 DEF Accepted, VerifiedIsOnRecord
<1> QED
  BY <1>3, <1>5, <1>7, <1>8, <1>9 DEF Accepted

\* A lost turn is retired while nobody is completing one.
LEMMA LoseStep ==
    ASSUME Accepted, NEW t \in Task, Lose(t)
    PROVE  Accepted'
<1>1. PICK back \in {"IMPLEMENTED", "RETRY_WAIT"} : Retire(t, back)
  BY DEF Lose
<1>2. /\ task' = [task EXCEPT ![t] = back] /\ session' = [session EXCEPT ![t] = NoSession]
      /\ session[t].turn # 0 /\ Free /\ rejections' \in [Task -> Nat]
      /\ UNCHANGED <<deliver, turns, ledger, completed, backup>>
  BY <1>1 DEF Lose, Retire, store, Accepted, RunTypes
<1> QED
  BY <1>2, RetireStep

\* A refusal retires the session it was read from.
LEMMA RejectStep ==
    ASSUME Accepted, NEW d \in Deliverer, Reject(d)
    PROVE  Accepted'
<1> DEFINE t == deliver[d].task
           count == rejections[t] + (IF deliver[d].counted THEN 1 ELSE 0)
<1>1. RunTypes /\ deliver[d].at = "refused" /\ StillPending(d)
  BY DEF Accepted, Reject
<1>2. deliver[d] \in Refused /\ t \in Task /\ session[t].turn # 0
  BY <1>1, DelivererTypes DEF StillPending, Idle
<1>3. rejections' \in [Task -> Nat]
  <2>1. count \in Nat
    BY <1>1, <1>2 DEF Refused, RunTypes
  <2>2. rejections' = [rejections EXCEPT ![t] = count]
    BY DEF Reject
  <2>3. rejections \in [Task -> Nat]
    BY <1>1 DEF RunTypes
  <2> HIDE DEF count, t
  <2> QED
    BY <2>1, <2>2, <2>3
<1>4. /\ task' = [task EXCEPT ![t] = "IMPLEMENTED"]
      /\ session' = [session EXCEPT ![t] = NoSession]
      /\ deliver' = [deliver EXCEPT ![d] = Idle]
      /\ Free /\ UNCHANGED <<turns, ledger, completed, backup>>
  BY DEF Reject, Retire, store
<1> HIDE DEF t
<1> QED
  BY <1>2, <1>3, <1>4, RetireStep

\* A REVISE retires the session it was read from.
LEMMA SendBackStep ==
    ASSUME Accepted, NEW d \in Deliverer, SendBack(d)
    PROVE  Accepted'
<1> DEFINE t == deliver[d].task
<1>1. RunTypes /\ deliver[d].at = "recorded" /\ StillPending(d)
  BY DEF Accepted, SendBack
<1>2. t \in Task /\ session[t].turn # 0
  BY <1>1, DelivererTypes DEF StillPending, Idle
<1>3. /\ task' = [task EXCEPT ![t] = "REVISION_REQUIRED"]
      /\ session' = [session EXCEPT ![t] = NoSession]
      /\ deliver' = [deliver EXCEPT ![d] = Idle]
      /\ rejections' \in [Task -> Nat]
      /\ Free /\ UNCHANGED <<turns, ledger, completed, backup>>
  BY <1>1 DEF SendBack, store, RunTypes
<1> HIDE DEF t
<1> QED
  BY <1>2, <1>3, RetireStep

\* A revision touches no session.
LEMMA ReviseStep ==
    ASSUME Accepted, NEW t \in Task, Revise(t)
    PROVE  Accepted'
<1>1. RunTypes' /\ (backup \subseteq completed)'
  BY DEF Revise, Accepted, RunTypes, store
<1>2. SessionsAgree'
  BY DEF Revise, Accepted, RunTypes, SessionsAgree
<1>3. DeliveriesAgree' /\ OneCompletion' /\ CountedFairly'
  BY DEF Revise, Accepted, DeliveriesAgree, OneCompletion, CountedFairly, StillPending, store
<1>4. VerifiedIsOnRecord'
  BY DEF Revise, Accepted, RunTypes, VerifiedIsOnRecord, store
<1> QED
  BY <1>1, <1>2, <1>3, <1>4 DEF Accepted

\* A verdict is recorded or refused: the deliverer holds what the pending session replied.
LEMMA WeighStep ==
    ASSUME Accepted, NEW d \in Deliverer, NEW t \in Task, Weigh(d, t)
    PROVE  Accepted'
<1>1. /\ RunTypes /\ deliver[d] = Idle /\ session[t].turn # 0
      /\ UNCHANGED <<task, held, rejections, turns, session, completed, backup>>
  BY DEF Accepted, Weigh, run
<1>2. PICK reply \in session[t].reply :
        IF reply.attested = Latest
        THEN /\ RecordVerificationResult(
                   [task |-> t, turn |-> session[t].turn, verdict |-> reply.verdict])
             /\ deliver' = [deliver EXCEPT ![d] =
                   [at |-> "recorded", task |-> t, turn |-> session[t].turn,
                    verdict |-> reply.verdict]]
        ELSE /\ deliver' = [deliver EXCEPT ![d] =
                   [at |-> "refused", task |-> t, turn |-> session[t].turn,
                    counted |-> Counted(t, reply)]]
             /\ UNCHANGED ledger
  BY DEF Weigh
<1>3. /\ session[t].turn \in Nat \ {0} /\ session[t].turn <= turns[t]
      /\ reply.verdict \in {"PASS", "REVISE"}
      /\ \A other \in session[t].reply : other = reply
  BY <1>1, <1>2, SessionTypes DEF Replies, Accepted, SessionsAgree
<1>4. SessionsAgree' /\ (backup \subseteq completed)'
  BY <1>1 DEF Accepted, SessionsAgree
<1>5. CASE reply.attested = Latest
  <2> DEFINE outcome == [task |-> t, turn |-> session[t].turn, verdict |-> reply.verdict]
             new == [at |-> "recorded", task |-> t, turn |-> session[t].turn,
                     verdict |-> reply.verdict]
  <2>1. ledger' = ledger \cup {outcome} /\ deliver' = [deliver EXCEPT ![d] = new]
    BY <1>2, <1>5 DEF RecordVerificationResult
  <2>2. outcome \in Outcomes /\ new \in Delivered
    BY <1>3 DEF Outcomes, Delivered
  <2>3. /\ new.at = "recorded" /\ new.task = t /\ new.turn = session[t].turn
        /\ [task |-> new.task, turn |-> new.turn, verdict |-> new.verdict] = outcome
    OBVIOUS
  <2> HIDE DEF outcome, new
  <2>4. RunTypes'
    BY <1>1, <2>1, <2>2 DEF RunTypes
  <2>5. deliver'[d] = new /\ \A e \in Deliverer \ {d} : deliver'[e] = deliver[e]
    BY <1>1, <2>1 DEF RunTypes
  <2>6. ASSUME NEW e \in Deliverer
        PROVE  /\ deliver'[e] # Idle => deliver'[e].turn <= turns'[deliver'[e].task]
               /\ deliver'[e].at \in {"recorded", "committed", "backed"} =>
                      [task |-> deliver'[e].task, turn |-> deliver'[e].turn,
                       verdict |-> deliver'[e].verdict] \in ledger'
               /\ deliver'[e].at \in {"committed", "backed"} =>
                      deliver'[e].verdict = "PASS" /\ StillPending(e)'
               /\ deliver'[e].at = "committed" => deliver'[e].task \in completed'
               /\ deliver'[e].at = "backed" => deliver'[e].task \in backup'
    <3>1. CASE e = d
      BY <1>1, <1>3, <2>1, <2>3, <2>5, <3>1
    <3>2. CASE e # d
      BY <1>1, <2>1, <2>5, <3>2 DEF Accepted, DeliveriesAgree, StillPending
    <3> QED
      BY <3>1, <3>2
  <2>7. DeliveriesAgree'
    BY <2>6 DEF DeliveriesAgree
  <2>8. OneCompletion'
    BY <2>3, <2>5 DEF Accepted, OneCompletion
  <2>9. CountedFairly'
    BY <1>1, <2>3, <2>5 DEF Accepted, CountedFairly, StillPending
  <2>10. VerifiedIsOnRecord'
    BY <1>1, <2>1 DEF Accepted, VerifiedIsOnRecord
  <2> QED
    BY <1>4, <2>4, <2>7, <2>8, <2>9, <2>10 DEF Accepted
<1>6. CASE reply.attested # Latest
  <2> DEFINE new == [at |-> "refused", task |-> t, turn |-> session[t].turn,
                     counted |-> Counted(t, reply)]
  <2>1. ledger' = ledger /\ deliver' = [deliver EXCEPT ![d] = new]
    BY <1>2, <1>6
  <2>2. /\ new.at = "refused" /\ new.task = t /\ new.turn = session[t].turn
        /\ new.counted = (reply.attested # session[t].given)
    BY DEF Counted
  <2>3. new \in Refused
    BY <1>3, <2>2 DEF Refused, Counted
  <2> HIDE DEF new
  <2>4. RunTypes'
    BY <1>1, <2>1, <2>3 DEF RunTypes
  <2>5. deliver'[d] = new /\ \A e \in Deliverer \ {d} : deliver'[e] = deliver[e]
    BY <1>1, <2>1 DEF RunTypes
  <2>6. DeliveriesAgree'
    BY <1>1, <1>3, <2>1, <2>2, <2>5 DEF Accepted, DeliveriesAgree, StillPending
  <2>7. OneCompletion'
    BY <2>2, <2>5 DEF Accepted, OneCompletion
  <2>8. CountedFairly'
    <3> SUFFICES ASSUME NEW e \in Deliverer, deliver'[e].at = "refused", StillPending(e)'
                 PROVE  /\ session'[deliver'[e].task].reply # {}
                        /\ deliver'[e].counted =>
                              \A other \in session'[deliver'[e].task].reply :
                                  other.attested # session'[deliver'[e].task].given
      BY DEF CountedFairly
    <3>1. CASE e = d
      BY <1>1, <1>2, <1>3, <2>2, <2>5, <3>1
    <3>2. CASE e # d
      BY <1>1, <2>5, <3>2 DEF Accepted, CountedFairly, StillPending
    <3> QED
      BY <3>1, <3>2
  <2>9. VerifiedIsOnRecord'
    BY <1>1, <2>1 DEF Accepted, VerifiedIsOnRecord
  <2> QED
    BY <1>4, <2>4, <2>6, <2>7, <2>8, <2>9 DEF Accepted
<1> QED
  BY <1>5, <1>6

\* A commit starts the only completion under way.
LEMMA CommitStep ==
    ASSUME Accepted, NEW d \in Deliverer, Commit(d)
    PROVE  Accepted'
<1> DEFINE new == [deliver[d] EXCEPT !.at = "committed"]
<1>1. /\ RunTypes /\ deliver[d].at = "recorded" /\ deliver[d].verdict = "PASS"
      /\ Free /\ StillPending(d)
      /\ completed' = completed \cup {deliver[d].task}
      /\ deliver' = [deliver EXCEPT ![d] = new]
      /\ UNCHANGED <<task, rejections, turns, session, ledger, backup>>
  BY DEF Accepted, Commit, run
<1>2. deliver[d] \in Delivered
  BY <1>1, DelivererTypes
<1>3. /\ new \in Delivered /\ new.at = "committed" /\ new.task = deliver[d].task
      /\ new.turn = deliver[d].turn /\ new.verdict = deliver[d].verdict
  BY <1>2 DEF Delivered
<1> HIDE DEF new
<1>4. RunTypes'
  BY <1>1, <1>3 DEF RunTypes
<1>5. deliver'[d] = new /\ \A e \in Deliverer \ {d} : deliver'[e] = deliver[e]
  BY <1>1 DEF RunTypes
<1>6. deliver[d] # Idle
  BY <1>1 DEF Idle
<1>7. DeliveriesAgree'
  BY <1>1, <1>3, <1>5, <1>6 DEF Accepted, DeliveriesAgree, StillPending
<1>8. OneCompletion'
  BY <1>1, <1>5 DEF OneCompletion, Free
<1>9. CountedFairly'
  BY <1>1, <1>3, <1>5 DEF Accepted, CountedFairly, StillPending
<1> QED
  BY <1>1, <1>4, <1>7, <1>8, <1>9 DEF Accepted, SessionsAgree, VerifiedIsOnRecord

\* The backup is of everything committed, of this completion and of those before it.
LEMMA BackUpStep ==
    ASSUME Accepted, NEW d \in Deliverer, BackUp(d)
    PROVE  Accepted'
<1> DEFINE new == [deliver[d] EXCEPT !.at = "backed"]
<1>1. /\ RunTypes /\ deliver[d].at = "committed"
      /\ backup' = completed
      /\ deliver' = [deliver EXCEPT ![d] = new]
      /\ UNCHANGED <<task, rejections, turns, session, ledger, completed>>
  BY DEF Accepted, BackUp, run
<1>2. deliver[d] \in Delivered
  BY <1>1, DelivererTypes
<1>3. /\ new \in Delivered /\ new.at = "backed" /\ new.task = deliver[d].task
      /\ new.turn = deliver[d].turn /\ new.verdict = deliver[d].verdict
  BY <1>2 DEF Delivered
<1> HIDE DEF new
<1>4. RunTypes'
  BY <1>1, <1>3 DEF RunTypes
<1>5. deliver'[d] = new /\ \A e \in Deliverer \ {d} : deliver'[e] = deliver[e]
  BY <1>1 DEF RunTypes
<1>6. deliver[d] # Idle /\ backup \subseteq backup'
  BY <1>1 DEF Idle, Accepted
<1>7. DeliveriesAgree'
  BY <1>1, <1>3, <1>5, <1>6 DEF Accepted, DeliveriesAgree, StillPending
<1>8. OneCompletion'
  BY <1>1, <1>3, <1>5 DEF Accepted, OneCompletion
<1>9. CountedFairly'
  BY <1>1, <1>3, <1>5 DEF Accepted, CountedFairly, StillPending
<1>10. VerifiedIsOnRecord'
  BY <1>1, <1>6 DEF Accepted, VerifiedIsOnRecord
<1> QED
  BY <1>1, <1>4, <1>7, <1>8, <1>9, <1>10 DEF Accepted, SessionsAgree

\* The session is pending, so it is that of the task's last turn; its PASS is in the
\* ledger, the task in the backup, and no other completion is under way.
LEMMA AcceptStep ==
    ASSUME Accepted, NEW d \in Deliverer, Accept(d)
    PROVE  Accepted'
<1> DEFINE t == deliver[d].task
<1>1. /\ RunTypes /\ deliver[d].at = "backed"
      /\ task' = [task EXCEPT ![t] = "VERIFIED"]
      /\ session' = [session EXCEPT ![t] = NoSession]
      /\ deliver' = [deliver EXCEPT ![d] = Idle]
      /\ UNCHANGED <<rejections, turns, ledger, completed, backup>>
  BY DEF Accepted, Accept, store
<1>2. t \in Task /\ deliver[d].turn # 0 /\ deliver[d].turn = session[t].turn
  BY <1>1, DelivererTypes DEF Accepted, DeliveriesAgree, StillPending, Idle
<1>3. deliver[d].turn = turns[t]
  BY <1>2 DEF Accepted, SessionsAgree
<1>4. t \in backup /\ \E outcome \in ledger :
          outcome.task = t /\ outcome.turn = turns[t] /\ outcome.verdict = "PASS"
  <2>1. t \in backup /\ deliver[d].verdict = "PASS"
        /\ [task |-> t, turn |-> deliver[d].turn, verdict |-> deliver[d].verdict] \in ledger
    BY <1>1 DEF Accepted, DeliveriesAgree
  <2> QED
    BY <1>3, <2>1
<1>5. NoSession.turn = 0 /\ NoSession \in Sessions /\ Idle.at = "idle"
  BY DEF NoSession, Sessions, Idle
<1> HIDE DEF t
<1>6. RunTypes'
  BY <1>1, <1>5 DEF RunTypes
<1>7. /\ session'[t].turn = 0 /\ task'[t] = "VERIFIED"
      /\ \A u \in Task \ {t} : session'[u] = session[u] /\ task'[u] = task[u]
  BY <1>1, <1>2, <1>5 DEF RunTypes
<1>8. deliver'[d] = Idle /\ \A e \in Deliverer \ {d} : deliver'[e] = deliver[e]
  BY <1>1 DEF RunTypes
<1>9. SessionsAgree'
  BY <1>1, <1>7 DEF Accepted, SessionsAgree
<1>10. \A e \in Deliverer : deliver'[e].at \notin {"committed", "backed"}
  BY <1>1, <1>5, <1>8 DEF Accepted, OneCompletion
<1>11. DeliveriesAgree' /\ OneCompletion'
  BY <1>1, <1>5, <1>8, <1>10 DEF Accepted, DeliveriesAgree, OneCompletion
<1>12. CountedFairly'
  <2> SUFFICES ASSUME NEW e \in Deliverer, deliver'[e].at = "refused", StillPending(e)'
               PROVE  /\ deliver'[e] = deliver[e]
                      /\ session'[deliver[e].task] = session[deliver[e].task]
    BY DEF Accepted, CountedFairly, StillPending
  <2>1. deliver'[e] = deliver[e]
    BY <1>5, <1>8
  <2>2. deliver[e].task \in Task /\ deliver[e].turn # 0
    BY <1>1, <1>5, <2>1, DelivererTypes
  <2>3. deliver[e].task # t
    BY <1>7, <2>1, <2>2 DEF StillPending
  <2> QED
    BY <1>7, <2>1, <2>2, <2>3
<1>13. VerifiedIsOnRecord'
  BY <1>1, <1>4, <1>7 DEF Accepted, VerifiedIsOnRecord
<1> QED
  BY <1>1, <1>6, <1>9, <1>11, <1>12, <1>13 DEF Accepted

\* Every step keeps the inductive invariant.
LEMMA AcceptedStep ==
    ASSUME Accepted, HistoryTypes, [Next]_vars
    PROVE  Accepted'
<1>1. ASSUME NEW t \in Task, Lead(t) \/ Revise(t) \/ Return(t)
      PROVE  Accepted'
  <2>1. CASE StopForDepartment(t) \/ Return(t)
    BY <2>1, QuietStep DEF StopForDepartment, Return, store
  <2> QED
    BY <1>1, <2>1, AdmitStep, AnswerStep, LoseStep, ReviseStep DEF Lead
<1>2. ASSUME NEW d \in Deliverer, Completion(d)
      PROVE  Accepted'
  <2>1. CASE Drop(d) \/ Die(d)
    BY <2>1, StopsDelivering DEF Drop, Die, run, store
  <2> QED
    BY <1>2, <2>1, RejectStep, SendBackStep, CommitStep, BackUpStep, AcceptStep, WeighStep
    DEF Completion, End
<1>3. CASE Look \/ WriteFirst \/ Propose \/ \E i \in DOMAIN rubric : SupersedeStray(i)
  BY <1>3, QuietStep DEF Look, WriteFirst, Propose, SupersedeStray, run, store
<1>4. CASE UNCHANGED vars
  BY <1>4, QuietStep DEF vars
<1> QED
  BY <1>1, <1>2, <1>3, <1>4 DEF Next

\* It holds initially.
LEMMA InitiallyAccepted == Init => Accepted
<1> SUFFICES ASSUME Init PROVE Accepted
  OBVIOUS
<1>1. NoSession \in Sessions /\ NoSession.turn = 0 /\ Idle.at = "idle"
  BY DEF NoSession, Sessions, Idle
<1>2. RunTypes
  BY <1>1 DEF Init, RunTypes
<1>3. SessionsAgree
  BY <1>1 DEF Init, SessionsAgree
<1>4. DeliveriesAgree /\ OneCompletion /\ CountedFairly
  BY <1>1 DEF Init, DeliveriesAgree, OneCompletion, CountedFairly
<1> QED
  BY <1>2, <1>3, <1>4 DEF Init, Accepted, VerifiedIsOnRecord

\* Accepted, with the type of the history, is an invariant.
LEMMA AlwaysAccepted == Spec => [](Accepted /\ HistoryTypes)
<1>1. Accepted /\ HistoryTypes /\ [Next]_vars => (Accepted /\ HistoryTypes)'
  BY AcceptedStep, EveryHistoryStep DEF HistoryStep
<1> QED
  BY InitialHistory, InitiallyAccepted, <1>1, PTL DEF Spec

-----------------------------------------------------------------------------
\* A VERIFIED task has the PASS of its last verifier in the ledger, and its milestone in
\* project memory and in its backup (mark_milestone_complete before VERIFIED), whoever
\* delivered the verdict, however often, and wherever a process died.
THEOREM AcceptanceOnRecord == Spec => []AcceptanceIsOnRecord
<1>1. Accepted /\ HistoryTypes => AcceptanceIsOnRecord
  <2> SUFFICES ASSUME Accepted, HistoryTypes PROVE AcceptanceIsOnRecord
    OBVIOUS
  <2>1. \A i \in DOMAIN rubric : rubric[i].version \in 1..MaxRecords
    <3>1. \A i \in DOMAIN rubric : rubric[i] \in RubricRecords
      BY DEF HistoryTypes
    <3>2. \A r \in RubricRecords : r.version \in 1..MaxRecords
      BY DEF RubricRecords
    <3> QED
      BY <3>1, <3>2
  <2>2. TypeOK
    BY <2>1 DEF Accepted, RunTypes, SessionsAgree, TypeOK
  <2> QED
    BY <2>2 DEF Accepted, VerifiedIsOnRecord, AcceptanceIsOnRecord
<1> QED
  BY AlwaysAccepted, <1>1, PTL

\* A refusal of a reply that attests the record its lead was given is never counted
\* against the task (attestation_refusal): only Reject counts, and what it counts was
\* read from the session that is still pending.
THEOREM RefusalsCountFairly == Spec => RefusalsAreFair
<1> DEFINE Fair == \A t \in Task : rejections'[t] > rejections[t] =>
                      \A reply \in session[t].reply : reply.attested # session[t].given
<1>1. ASSUME Accepted, NEW d \in Deliverer, Reject(d)
      PROVE  Fair
  <2> DEFINE u == deliver[d].task
             count == rejections[u] + (IF deliver[d].counted THEN 1 ELSE 0)
  <2>1. deliver[d].at = "refused" /\ StillPending(d) /\ RunTypes
        /\ rejections' = [rejections EXCEPT ![u] = count]
    BY <1>1 DEF Reject, Accepted
  <2>2. deliver[d].counted =>
           \A reply \in session[u].reply : reply.attested # session[u].given
    <3>1. CountedFairly
      BY <1>1 DEF Accepted
    <3> QED
      BY <2>1, <3>1, Zenon DEF CountedFairly
  <2>3. rejections \in [Task -> Nat] /\ u \in Task
    BY <2>1, DelivererTypes DEF RunTypes, Idle
  <2>4. ~deliver[d].counted => count = rejections[u]
    BY <2>3
  <2> HIDE DEF u, count
  <2> QED
    BY <2>1, <2>2, <2>3, <2>4
<1>2. ASSUME Accepted, [Next]_vars, ~\E d \in Deliverer : Reject(d)
      PROVE  UNCHANGED rejections
  <2>1. ASSUME NEW t \in Task, Lead(t) \/ Revise(t) \/ Return(t)
        PROVE  UNCHANGED rejections
    BY <2>1 DEF Lead, AdmitVerifier, StopForDepartment, Answer, Lose, Revise, Return
  <2>2. ASSUME NEW d \in Deliverer, Completion(d)
        PROVE  UNCHANGED rejections
    BY <1>2, <2>2 DEF Completion, End, Drop, SendBack, Commit, BackUp, Accept, Die, Weigh, run
  <2>3. CASE Look \/ WriteFirst \/ Propose \/ \E i \in DOMAIN rubric : SupersedeStray(i)
    BY <2>3 DEF Look, WriteFirst, Propose, SupersedeStray, run
  <2> QED
    BY <1>2, <2>1, <2>2, <2>3 DEF Next, vars
<1>3. ASSUME Accepted, [Next]_vars
      PROVE  Fair
  <2>1. \A n \in Nat : ~(n > n)
    OBVIOUS
  <2> QED
    BY <1>1, <1>2, <1>3, <2>1 DEF Accepted, RunTypes
<1>4. Accepted /\ [Next]_vars => [Fair]_vars
  BY <1>3
<1> QED
  BY AlwaysAccepted, <1>4, PTL DEF Spec, RefusalsAreFair
=============================================================================
