--------------------------- MODULE ReservationProofs ---------------------------
(***************************************************************************)
(* Proofs about what a reservation pass decides on: Capacity, for any plan *)
(* without a cycle, any claims that clash, any number of workers and slots *)
(* and whatever the account reports; Claims, for claims and files of any   *)
(* depth; Incidents, for any plan, any journal and any number of processes *)
(* that die.                                                               *)
(***************************************************************************)
EXTENDS Capacity, Claims, Incidents, FiniteSetTheorems, FunctionTheorems, SequenceTheorems,
        WellFoundedInduction, TLAPS

-----------------------------------------------------------------------------
(* Numbers                                                                   *)

\* A set of numbers has a least one.
LEMMA LeastNumber ==
    ASSUME NEW S \in SUBSET Nat, S # {}
    PROVE  \E m \in S : \A k \in S : m <= k
<1> DEFINE less == OpToRel(<, Nat)
<1>1. IsWellFoundedOn(less, Nat)
  BY NatLessThanWellFounded
<1>2. \A i, j \in Nat : i < j => <<i, j>> \in less
  BY DEF OpToRel
<1> HIDE DEF less
<1>3. PICK m \in S : \A k \in S : <<k, m>> \notin less
  BY <1>1, WFMin
<1>4. \A k \in S : m <= k
  <2>1. ASSUME NEW k \in S PROVE m \in Nat /\ k \in Nat /\ ~(k < m)
    BY <1>2, <1>3
  <2> QED
    BY <2>1
<1> QED
  BY <1>3, <1>4

Below(S, n) == {m \in S : m < n}

\* Of two members of a set the higher one has more of them below it.
LEMMA HigherHasMore ==
    ASSUME NEW S \in SUBSET Int, IsFiniteSet(S), NEW n \in S, NEW m \in S, n < m
    PROVE  /\ Cardinality(Below(S, n)) \in Nat /\ Cardinality(Below(S, m)) \in Nat
           /\ Cardinality(Below(S, n)) < Cardinality(Below(S, m))
<1> DEFINE low == Below(S, n) \cup {n}
<1>1. IsFiniteSet(Below(S, n)) /\ IsFiniteSet(Below(S, m)) /\ n \notin Below(S, n)
  <2>1. Below(S, n) \in SUBSET S /\ Below(S, m) \in SUBSET S /\ n \notin Below(S, n)
    BY DEF Below
  <2> QED
    BY <2>1, FS_Subset
<1>2. low \in SUBSET Below(S, m)
  <2> SUFFICES ASSUME NEW x \in low PROVE x \in S /\ x < m
    BY DEF Below
  <2>1. x \in S /\ (x < n \/ x = n)
    BY DEF Below
  <2>2. x \in Int /\ n \in Int /\ m \in Int
    BY <2>1
  <2> HIDE DEF low
  <2> QED
    BY <2>1, <2>2 DEF Below
<1>3. IsFiniteSet(low) /\ Cardinality(low) = Cardinality(Below(S, n)) + 1
  BY <1>1, FS_AddElement
<1>4. Cardinality(low) <= Cardinality(Below(S, m))
  BY <1>1, <1>2, FS_Subset
<1>5. Cardinality(Below(S, n)) \in Nat /\ Cardinality(Below(S, m)) \in Nat
  BY <1>1, FS_CardinalityType
<1> QED
  BY <1>3, <1>4, <1>5

\* A finite set of numbers has a member with any number below it that is less than its size.
LEMMA NthExists ==
    ASSUME NEW S \in SUBSET Int, IsFiniteSet(S), NEW k \in Nat, k < Cardinality(S)
    PROVE  Nth(S, k) \in S /\ Cardinality(Below(S, Nth(S, k))) = k
<1> DEFINE c == Cardinality(S)
           f == [n \in S |-> Cardinality(Below(S, n))]
           R == 0..(c - 1)
<1>1. c \in Nat /\ c > 0
  BY FS_CardinalityType
<1>2. \A n \in S : f[n] \in R
  <2> TAKE n \in S
  <2>1. Below(S, n) \in SUBSET (S \ {n})
    BY DEF Below
  <2>2. IsFiniteSet(S \ {n}) /\ Cardinality(S \ {n}) = c - 1
    BY FS_RemoveElement
  <2>3. Cardinality(Below(S, n)) <= c - 1 /\ Cardinality(Below(S, n)) \in Nat
    BY <2>1, <2>2, FS_Subset, FS_CardinalityType
  <2> QED
    BY <1>1, <2>3
<1>3. \A n, m \in S : f[n] = f[m] => n = m
  <2> SUFFICES ASSUME NEW n \in S, NEW m \in S, n < m PROVE f[n] # f[m]
    OBVIOUS
  <2> QED
    BY HigherHasMore
<1>4. IsFiniteSet(R) /\ Cardinality(R) = c
  <2>1. 0 \in Int /\ c - 1 \in Int /\ ~(0 > c - 1) /\ (c - 1) - 0 + 1 = c
    BY <1>1
  <2> HIDE DEF c
  <2> QED
    BY <2>1, FS_Interval
<1>5. f \in Injection(S, R)
  BY <1>2, <1>3 DEF Injection, IsInjective
<1>6. f \in Surjection(S, R)
  BY <1>4, <1>5, FS_Injection
<1>7. \E n \in S : f[n] = k
  <2>1. k \in R
    BY <1>1
  <2> QED
    BY <1>6, <2>1 DEF Surjection
<1>8. \E n \in S : Cardinality({m \in S : m < n}) = k
  BY <1>7 DEF Below
<1> QED
  BY <1>8 DEF Nth, Below

\* A finite set of numbers that is not empty has a highest one.
LEMMA MaxExists ==
    ASSUME NEW S \in SUBSET Int, IsFiniteSet(S), S # {}
    PROVE  Max(S) \in S
<1> DEFINE c == Cardinality(S)
           n == Nth(S, c - 1)
<1>1. c \in Nat /\ c # 0
  BY FS_CardinalityType, FS_EmptySet
<1>2. c - 1 \in Nat /\ c - 1 < c
  BY <1>1
<1>3. n \in S /\ Cardinality(Below(S, n)) = c - 1
  BY <1>2, NthExists
<1> HIDE DEF n
<1>4. Below(S, n) \in SUBSET (S \ {n}) /\ IsFiniteSet(S \ {n}) /\ Cardinality(S \ {n}) = c - 1
  BY <1>3, FS_RemoveElement DEF Below
<1>5. Below(S, n) = S \ {n}
  BY <1>3, <1>4, FS_Subset
<1>6. \A m \in S : n >= m
  BY <1>3, <1>5 DEF Below
<1> QED
  BY <1>3, <1>6 DEF Max

-----------------------------------------------------------------------------
(* The graph of the plan                                                     *)

\* The tasks of a plan are finitely many.
LEMMA FiniteTasks == IsFiniteSet(Tasks) /\ Len(Order) \in Nat
<1>1. Order \in Surjection(1..Len(Order), Tasks)
  <2>1. Order \in [1..Len(Order) -> Tasks] /\ DOMAIN Order = 1..Len(Order)
    BY CapacityAssumption
  <2>2. \A t \in Tasks : \E n \in DOMAIN Order : Order[n] = t
    BY DEF Tasks, ToSet
  <2> QED
    BY <2>1, <2>2 DEF Surjection
<1>2. Len(Order) \in Nat
  BY CapacityAssumption
<1>3. IsFiniteSet(1..Len(Order))
  BY <1>2, FS_Interval
<1> QED
  BY <1>1, <1>2, <1>3, FS_Surjection

\* What g computes of a task, given a value for each, looks at its dependents only.
FromDependents(g, V) ==
    /\ g \in [Tasks -> [[Tasks -> V] -> V]]
    /\ \A t \in Tasks : \A f1, f2 \in [Tasks -> V] :
           (\A u \in Dependents(t) : f1[u] = f2[u]) => g[t][f1] = g[t][f2]

Solved(g, V) == \E f \in [Tasks -> V] : \A t \in Tasks : f[t] = g[t][f]

\* What is computed of a task from its dependents has a value for every task of the plan.
LEMMA Recursion ==
    ASSUME NEW V, NEW v0 \in V, NEW g, FromDependents(g, V)
    PROVE  Solved(g, V)
<1> DEFINE Fits(S, f) == \A t \in S : Dependents(t) \subseteq S /\ f[t] = g[t][f]
           Left == {k \in Nat : \E S \in SUBSET Tasks : \E f \in [Tasks -> V] :
                                    Fits(S, f) /\ Cardinality(Tasks \ S) = k}
<1>1. \A S \in SUBSET Tasks : IsFiniteSet(Tasks \ S) /\ Cardinality(Tasks \ S) \in Nat
  <2> TAKE S \in SUBSET Tasks
  <2>1. IsFiniteSet(Tasks \ S)
    BY FiniteTasks, FS_Difference
  <2> QED
    BY <2>1, FS_CardinalityType
<1>2. Left # {}
  <2>1. [t \in Tasks |-> v0] \in [Tasks -> V] /\ Fits({}, [t \in Tasks |-> v0])
    OBVIOUS
  <2>2. Cardinality(Tasks \ {}) \in Left
    BY <1>1, <2>1
  <2> QED
    BY <2>2
<1>3. Left \in SUBSET Nat
  OBVIOUS
<1> HIDE DEF Left
<1>4. PICK k \in Left : \A j \in Left : k <= j
  BY <1>2, <1>3, LeastNumber
<1>5. PICK S \in SUBSET Tasks : \E f \in [Tasks -> V] :
          Fits(S, f) /\ Cardinality(Tasks \ S) = k
  BY <1>4 DEF Left
<1>6. PICK f \in [Tasks -> V] : Fits(S, f)
  BY <1>5
<1>7. Tasks \ S = {}
  <2> SUFFICES ASSUME Tasks \ S # {} PROVE FALSE
    OBVIOUS
  <2>1. PICK t \in Tasks \ S : Dependents(t) \cap (Tasks \ S) = {}
    BY CapacityAssumption
  <2>2. Dependents(t) \subseteq S
    BY <2>1 DEF Dependents
  <2> DEFINE f2 == [f EXCEPT ![t] = g[t][f]]
             S2 == S \cup {t}
  <2>3. f2 \in [Tasks -> V] /\ \A u \in S : f2[u] = f[u]
    BY <2>1 DEF FromDependents
  <2>4. S2 \in SUBSET Tasks
    BY <2>1
  <2>5. Fits(S2, f2)
    <3> SUFFICES ASSUME NEW u \in S2
                 PROVE  Dependents(u) \subseteq S2 /\ f2[u] = g[u][f2]
      OBVIOUS
    <3>1. Dependents(u) \subseteq S /\ f2[u] = g[u][f]
      BY <1>6, <2>1, <2>2
    <3>2. g[u][f] = g[u][f2]
      <4> HIDE DEF f2
      <4>1. \A w \in Dependents(u) : f[w] = f2[w]
        BY <2>3, <3>1
      <4> QED
        <5>1. u \in Tasks
          BY <2>4
        <5> HIDE DEF S2
        <5> QED
          BY <2>3, <4>1, <5>1 DEF FromDependents
    <3> QED
      BY <3>1, <3>2
  <2>6. Cardinality(Tasks \ S2) \in Left
    <3> HIDE DEF f2, S2, Fits
    <3> QED
      BY <1>1, <2>3, <2>4, <2>5 DEF Left
  <2>7. Cardinality(Tasks \ S2) = Cardinality(Tasks \ S) - 1
    <3> DEFINE rest == Tasks \ S
    <3>1. Tasks \ S2 = rest \ {t}
      OBVIOUS
    <3>2. IsFiniteSet(rest) /\ t \in rest
      BY <1>1, <2>1
    <3> HIDE DEF S2, rest
    <3>3. Cardinality(rest \ {t}) = Cardinality(rest) - 1
      BY <3>2, FS_RemoveElement
    <3> QED
      BY <3>1, <3>3 DEF rest
  <2> QED
    BY <1>1, <1>3, <1>4, <1>5, <2>6, <2>7
<1> QED
  BY <1>6, <1>7 DEF Solved

\* What holds of a task as soon as it holds of its dependents holds of every task.
LEMMA FromTheEnd ==
    ASSUME NEW V, NEW f,
           \A t \in Tasks : (\A u \in Dependents(t) : f[u] \in V) => f[t] \in V
    PROVE  \A t \in Tasks : f[t] \in V
<1> DEFINE Bad == {t \in Tasks : f[t] \notin V}
<1> SUFFICES ASSUME Bad # {} PROVE FALSE
  OBVIOUS
<1>1. Bad \in SUBSET Tasks
  OBVIOUS
<1> HIDE DEF Bad
<1>2. PICK t \in Bad : Dependents(t) \cap Bad = {}
  BY <1>1, CapacityAssumption
<1>3. \A u \in Dependents(t) : f[u] \in V
  BY <1>2 DEF Bad, Dependents
<1> QED
  BY <1>1, <1>2, <1>3 DEF Bad

\* Every task has a length of the longest chain of tasks that wait for it.
LEMMA CriticalPathType == CriticalPath \in [Tasks -> Nat]
<1> DEFINE long(f, t) == 1 + Max({0} \cup {f[u] : u \in Dependents(t)})
           g == [t \in Tasks |-> [f \in [Tasks -> Nat] |-> long(f, t)]]
<1>1. ASSUME NEW f, NEW t \in Tasks, \A u \in Dependents(t) : f[u] \in Nat
      PROVE  long(f, t) \in Nat
  <2> DEFINE S == {0} \cup {f[u] : u \in Dependents(t)}
             h == [u \in Dependents(t) |-> f[u]]
  <2>1. IsFiniteSet(Dependents(t))
    BY FiniteTasks, FS_Subset DEF Dependents
  <2>2. h \in Surjection(Dependents(t), {f[u] : u \in Dependents(t)})
    BY DEF Surjection
  <2>3. IsFiniteSet({f[u] : u \in Dependents(t)})
    BY <2>1, <2>2, FS_Surjection
  <2>4. IsFiniteSet(S)
    BY <2>3, FS_Singleton, FS_Union
  <2>5. S \in SUBSET Int /\ S \in SUBSET Nat /\ S # {}
    BY <1>1
  <2> HIDE DEF S
  <2>6. Max(S) \in Nat
    BY <2>4, <2>5, MaxExists
  <2> QED
    BY <2>6 DEF S
<1>2. \E f \in [Tasks -> Nat] : \A t \in Tasks : f[t] = g[t][f]
  <2>1. \A t \in Tasks : Dependents(t) \subseteq Tasks
    BY DEF Dependents
  <2>2. \A f \in [Tasks -> Nat], t \in Tasks : long(f, t) \in Nat
    <3> HIDE DEF long
    <3> QED
      BY <1>1, <2>1
  <2>3. g \in [Tasks -> [[Tasks -> Nat] -> Nat]]
    <3> HIDE DEF long
    <3> QED
      BY <2>2
  <2>4. FromDependents(g, Nat)
    <3> SUFFICES \A t \in Tasks : \A f1, f2 \in [Tasks -> Nat] :
                     (\A u \in Dependents(t) : f1[u] = f2[u]) => g[t][f1] = g[t][f2]
      BY <2>3 DEF FromDependents
    <3> TAKE t \in Tasks
    <3> TAKE f1, f2 \in [Tasks -> Nat]
    <3> HAVE \A u \in Dependents(t) : f1[u] = f2[u]
    <3>1. {f1[u] : u \in Dependents(t)} = {f2[u] : u \in Dependents(t)}
      OBVIOUS
    <3>2. long(f1, t) = long(f2, t)
      BY <3>1
    <3> HIDE DEF long
    <3> QED
      BY <3>2
  <2>5. 0 \in Nat
    OBVIOUS
  <2> HIDE DEF g
  <2> QED
    BY <2>4, <2>5, Recursion DEF Solved
<1>3. \E f : f = [t \in Tasks |-> long(f, t)]
  <2>1. PICK f \in [Tasks -> Nat] : \A t \in Tasks : f[t] = long(f, t)
    <3> HIDE DEF long
    <3> QED
      BY <1>2
  <2>2. f = [t \in Tasks |-> long(f, t)]
    <3> HIDE DEF long
    <3> QED
      BY <2>1
  <2> QED
    BY <2>2
<1>4. CriticalPath = [t \in Tasks |-> long(CriticalPath, t)]
  BY <1>3 DEF CriticalPath
<1>5. \A t \in Tasks : (\A u \in Dependents(t) : CriticalPath[u] \in Nat)
                         => CriticalPath[t] \in Nat
  <2> HIDE DEF long
  <2> QED
    BY <1>1, <1>4
<1>6. \A t \in Tasks : CriticalPath[t] \in Nat
  BY <1>5, FromTheEnd
<1> HIDE DEF long
<1> QED
  BY <1>4, <1>6

\* The descendants of a task are tasks, and so their number is one.
LEMMA FanOutType == FanOut \in [Tasks -> Nat]
<1> DEFINE all(f, t) == Dependents(t) \cup UNION {f[u] : u \in Dependents(t)}
           V == SUBSET Tasks
           g == [t \in Tasks |-> [f \in [Tasks -> V] |-> all(f, t)]]
<1>1. ASSUME NEW f, NEW t \in Tasks, \A u \in Dependents(t) : f[u] \in V
      PROVE  all(f, t) \in V
  BY <1>1 DEF Dependents
<1>2. \A t \in Tasks : Dependents(t) \subseteq Tasks
  BY DEF Dependents
<1>3. {} \in V
  OBVIOUS
<1> HIDE DEF V
<1>4. \A f \in [Tasks -> V], t \in Tasks : all(f, t) \in V
  <2> HIDE DEF all
  <2> QED
    BY <1>1, <1>2
<1>5. FromDependents(g, V)
  <2>1. g \in [Tasks -> [[Tasks -> V] -> V]]
    <3> HIDE DEF all
    <3> QED
      BY <1>4
  <2>2. ASSUME NEW t \in Tasks, NEW f1 \in [Tasks -> V], NEW f2 \in [Tasks -> V],
               \A u \in Dependents(t) : f1[u] = f2[u]
        PROVE  g[t][f1] = g[t][f2]
    <3>1. {f1[u] : u \in Dependents(t)} = {f2[u] : u \in Dependents(t)}
      BY <2>2
    <3>2. all(f1, t) = all(f2, t)
      BY <3>1
    <3> HIDE DEF all
    <3> QED
      BY <3>2
  <2> HIDE DEF g
  <2> QED
    BY <2>1, <2>2 DEF FromDependents
<1>6. Solved(g, V)
  <2> HIDE DEF g
  <2> QED
    BY <1>3, <1>5, Recursion
<1>7. \E f : f = [t \in Tasks |-> all(f, t)]
  <2>1. PICK f \in [Tasks -> V] : \A t \in Tasks : f[t] = all(f, t)
    <3> HIDE DEF all
    <3> QED
      BY <1>6 DEF Solved
  <2>2. f = [t \in Tasks |-> all(f, t)]
    <3> HIDE DEF all
    <3> QED
      BY <2>1
  <2> QED
    BY <2>2
<1>8. Descendants = [t \in Tasks |-> all(Descendants, t)]
  BY <1>7 DEF Descendants
<1>9. \A t \in Tasks : (\A u \in Dependents(t) : Descendants[u] \in V) => Descendants[t] \in V
  <2> HIDE DEF all
  <2> QED
    BY <1>1, <1>8
<1>10. \A t \in Tasks : Descendants[t] \in V
  BY <1>9, FromTheEnd
<1>11. \A t \in Tasks : Cardinality(Descendants[t]) \in Nat
  BY <1>10, FiniteTasks, FS_Subset, FS_CardinalityType DEF V
<1> QED
  BY <1>11 DEF FanOut

-----------------------------------------------------------------------------
(* Queues                                                                    *)

\* Of a sequence of tasks the members of S stay, each once when each was there once.
LEMMA OnlyKeeps ==
    ASSUME NEW seq \in Seq(Tasks), NEW S
    PROVE  /\ Only(seq, S) \in Seq(Tasks)
           /\ ToSet(Only(seq, S)) = ToSet(seq) \cap S
           /\ IsInjective(seq) => IsInjective(Only(seq, S))
<1> DEFINE places == {n \in DOMAIN seq : seq[n] \in S}
           c == Cardinality(places)
           o == Only(seq, S)
<1>1. places \in SUBSET Int /\ IsFiniteSet(places) /\ c \in Nat /\ DOMAIN seq = 1..Len(seq)
  <2>1. Len(seq) \in Nat /\ DOMAIN seq = 1..Len(seq)
    OBVIOUS
  <2>2. places \in SUBSET (1..Len(seq)) /\ places \in SUBSET Int
    BY <2>1
  <2>3. IsFiniteSet(1..Len(seq))
    BY <2>1, FS_Interval
  <2> HIDE DEF places
  <2>4. IsFiniteSet(places)
    BY <2>2, <2>3, FS_Subset
  <2> QED
    BY <2>1, <2>2, <2>4, FS_CardinalityType
<1>2. o = [k \in 1..c |-> seq[Nth(places, k - 1)]]
  BY DEF Only
<1>3. \A k \in 1..c : Nth(places, k - 1) \in places
                      /\ Cardinality(Below(places, Nth(places, k - 1))) = k - 1
  <2> HIDE DEF places
  <2> TAKE k \in 1..c
  <2>1. k - 1 \in Nat /\ k - 1 < c
    BY <1>1
  <2> QED
    BY <1>1, <2>1, NthExists
<1>4. \A n \in places : \E k \in 1..c : Nth(places, k - 1) = n
  <2> HIDE DEF places
  <2> TAKE n \in places
  <2> DEFINE k == Cardinality(Below(places, n)) + 1
  <2>1. Below(places, n) \in SUBSET (places \ {n})
    BY <1>1 DEF Below
  <2>2. Cardinality(Below(places, n)) \in Nat /\ Cardinality(Below(places, n)) <= c - 1
    BY <1>1, <2>1, FS_RemoveElement, FS_Subset, FS_CardinalityType
  <2>3. k \in 1..c /\ k - 1 = Cardinality(Below(places, n))
    BY <1>1, <2>2
  <2> HIDE DEF k
  <2>4. Nth(places, k - 1) \in places
        /\ Cardinality(Below(places, Nth(places, k - 1))) = Cardinality(Below(places, n))
    BY <1>3, <2>3
  <2>5. Nth(places, k - 1) = n
    <3> DEFINE m == Nth(places, k - 1)
    <3>1. m \in Int /\ n \in Int /\ m \in places
      BY <1>1, <2>4
    <3>2. ~(m < n) /\ ~(n < m)
      <4> HIDE DEF m
      <4> QED
        BY <1>1, <2>4, <3>1, HigherHasMore DEF m
    <3> QED
      BY <3>1, <3>2
  <2> QED
    BY <2>3, <2>5
<1> HIDE DEF c, o
<1>5. o \in Seq(Tasks) /\ DOMAIN o = 1..c
  <2>1. \A k \in 1..c : seq[Nth(places, k - 1)] \in Tasks
    BY <1>1, <1>3
  <2>2. o \in [1..c -> Tasks]
    BY <1>2, <2>1
  <2> QED
    BY <1>1, <2>2
<1>6. ToSet(o) = ToSet(seq) \cap S
  <2>1. ToSet(o) = {seq[Nth(places, k - 1)] : k \in 1..c}
    BY <1>2, <1>5 DEF ToSet
  <2>2. \A k \in 1..c : seq[Nth(places, k - 1)] \in ToSet(seq) \cap S
    BY <1>3 DEF ToSet
  <2>3. ASSUME NEW x \in ToSet(seq) \cap S PROVE \E k \in 1..c : x = seq[Nth(places, k - 1)]
    <3>1. PICK n \in DOMAIN seq : seq[n] = x
      BY DEF ToSet
    <3>2. n \in places
      BY <3>1
    <3> QED
      BY <1>4, <3>1, <3>2
  <2> HIDE DEF places
  <2> QED
    BY <2>1, <2>2, <2>3
<1>7. ASSUME IsInjective(seq) PROVE IsInjective(o)
  <2> SUFFICES ASSUME NEW j \in 1..c, NEW k \in 1..c, o[j] = o[k] PROVE j = k
    BY <1>5 DEF IsInjective
  <2>1. Nth(places, j - 1) = Nth(places, k - 1)
    <3>1. Nth(places, j - 1) \in DOMAIN seq /\ Nth(places, k - 1) \in DOMAIN seq
      BY <1>3
    <3>2. seq[Nth(places, j - 1)] = seq[Nth(places, k - 1)]
      BY <1>2
    <3> QED
      BY <1>7, <3>1, <3>2 DEF IsInjective
  <2>2. j - 1 = k - 1
    <3> HIDE DEF places
    <3> QED
      BY <1>3, <2>1
  <2> QED
    BY <1>1, <2>2
<1> QED
  BY <1>5, <1>6, <1>7 DEF o

\* Two queues without a common task make one.
LEMMA JoinKeeps ==
    ASSUME NEW p \in Seq(Tasks), NEW q \in Seq(Tasks), IsInjective(p), IsInjective(q),
           ToSet(p) \cap ToSet(q) = {}
    PROVE  /\ p \o q \in Seq(Tasks) /\ IsInjective(p \o q)
           /\ ToSet(p \o q) = ToSet(p) \cup ToSet(q)
<1> DEFINE m == Len(p)
           n == Len(q)
           s == p \o q
<1>1. /\ m \in Nat /\ n \in Nat /\ s \in Seq(Tasks) /\ DOMAIN s = 1..(m + n)
      /\ DOMAIN p = 1..m /\ DOMAIN q = 1..n
      /\ \A i \in 1..(m + n) : s[i] = IF i <= m THEN p[i] ELSE q[i - m]
  OBVIOUS
<1>2. \A i \in 1..(m + n) : i \in 1..m \/ (i - m \in 1..n /\ ~(i <= m))
  BY <1>1
<1> HIDE DEF m, n, s
<1>3. /\ \A i \in 1..m : p[i] \in ToSet(p)
      /\ \A i \in 1..n : q[i] \in ToSet(q)
      /\ \A i \in 1..(m + n) : s[i] \in ToSet(s)
      /\ \A x \in ToSet(p) : \E i \in 1..m : x = p[i]
      /\ \A x \in ToSet(q) : \E i \in 1..n : x = q[i]
      /\ \A x \in ToSet(s) : \E i \in 1..(m + n) : x = s[i]
  BY <1>1 DEF ToSet
<1>4. ASSUME NEW k \in 1..(m + n)
      PROVE  \/ k \in 1..m /\ s[k] = p[k]
             \/ k - m \in 1..n /\ s[k] = q[k - m]
  BY <1>1, <1>2
<1>5. ASSUME NEW i \in 1..m PROVE i \in 1..(m + n) /\ s[i] = p[i]
  BY <1>1
<1>6. ASSUME NEW i \in 1..n PROVE i + m \in 1..(m + n) /\ s[i + m] = q[i]
  <2>1. i + m \in 1..(m + n) /\ ~(i + m <= m) /\ (i + m) - m = i
    BY <1>1
  <2> QED
    BY <1>1, <2>1
<1>7. IsInjective(s)
  <2> SUFFICES ASSUME NEW i \in 1..(m + n), NEW j \in 1..(m + n), s[i] = s[j] PROVE i = j
    BY <1>1 DEF IsInjective
  <2>1. CASE i \in 1..m /\ j \in 1..m /\ s[i] = p[i] /\ s[j] = p[j]
    BY <1>1, <2>1 DEF IsInjective
  <2>2. CASE i - m \in 1..n /\ j - m \in 1..n /\ s[i] = q[i - m] /\ s[j] = q[j - m]
    <3>1. i - m = j - m
      BY <1>1, <2>2 DEF IsInjective
    <3> QED
      BY <1>1, <3>1
  <2>3. CASE i \in 1..m /\ s[i] = p[i] /\ j - m \in 1..n /\ s[j] = q[j - m]
    BY <1>3, <2>3
  <2>4. CASE j \in 1..m /\ s[j] = p[j] /\ i - m \in 1..n /\ s[i] = q[i - m]
    BY <1>3, <2>4
  <2> QED
    BY <1>4, <2>1, <2>2, <2>3, <2>4
<1>8. ToSet(s) = ToSet(p) \cup ToSet(q)
  <2>1. ASSUME NEW x \in ToSet(s) PROVE x \in ToSet(p) \cup ToSet(q)
    <3>1. PICK k \in 1..(m + n) : x = s[k]
      BY <1>3
    <3> QED
      BY <1>3, <1>4, <3>1
  <2>2. ASSUME NEW x \in ToSet(p) PROVE x \in ToSet(s)
    BY <1>3, <1>5
  <2>3. ASSUME NEW x \in ToSet(q) PROVE x \in ToSet(s)
    BY <1>3, <1>6
  <2> QED
    BY <2>1, <2>2, <2>3
<1> QED
  BY <1>1, <1>7, <1>8 DEF s

-----------------------------------------------------------------------------
(* The order of the scheduler                                                *)

Keys == [1..6 -> Int]

\* Keys are compared at the first place where they differ.
LEMMA Lexicographic ==
    ASSUME NEW i \in Keys, NEW j \in Keys, NEW k \in Keys
    PROVE  /\ ~Precedes(i, i)
           /\ Precedes(i, j) /\ Precedes(j, k) => Precedes(i, k)
           /\ i # j => Precedes(i, j) \/ Precedes(j, i)
<1>1. /\ DOMAIN i = 1..6 /\ DOMAIN j = 1..6 /\ DOMAIN k = 1..6
      /\ \A n \in 1..6 : i[n] \in Int /\ j[n] \in Int /\ k[n] \in Int
  BY DEF Keys
<1>2. ~Precedes(i, i)
  BY <1>1 DEF Precedes
<1>3. ASSUME Precedes(i, j), Precedes(j, k) PROVE Precedes(i, k)
  <2>1. PICK n \in 1..6 : i[n] < j[n] /\ \A m \in 1..(n - 1) : i[m] = j[m]
    BY <1>1, <1>3 DEF Precedes
  <2>2. PICK l \in 1..6 : j[l] < k[l] /\ \A m \in 1..(l - 1) : j[m] = k[m]
    BY <1>1, <1>3 DEF Precedes
  <2>3. ASSUME NEW a \in 1..6, a <= n, a <= l, i[a] < k[a] PROVE Precedes(i, k)
    <3>1. \A m \in 1..(a - 1) : m \in 1..(n - 1) /\ m \in 1..(l - 1)
      BY <2>3
    <3>2. \A m \in 1..(a - 1) : i[m] = k[m]
      BY <2>1, <2>2, <3>1
    <3> QED
      BY <1>1, <2>3, <3>2 DEF Precedes
  <2>4. CASE n < l
    <3>1. n \in 1..(l - 1)
      BY <2>4
    <3>2. i[n] < k[n]
      BY <1>1, <2>1, <2>2, <3>1
    <3> QED
      BY <2>3, <2>4, <3>2
  <2>5. CASE l < n
    <3>1. l \in 1..(n - 1)
      BY <2>5
    <3>2. i[l] < k[l]
      BY <1>1, <2>1, <2>2, <3>1
    <3> QED
      BY <2>3, <2>5, <3>2
  <2>6. CASE l = n
    <3>1. i[n] < k[n]
      BY <1>1, <2>1, <2>2, <2>6
    <3> QED
      BY <2>3, <2>6, <3>1
  <2> QED
    BY <2>4, <2>5, <2>6
<1>4. ASSUME i # j PROVE Precedes(i, j) \/ Precedes(j, i)
  <2> DEFINE D == {n \in 1..6 : i[n] # j[n]}
  <2>1. D # {}
    BY <1>4 DEF Keys
  <2>2. D \in SUBSET Nat
    OBVIOUS
  <2> HIDE DEF D
  <2>3. PICK n \in D : \A m \in D : n <= m
    BY <2>1, <2>2, LeastNumber
  <2>4. n \in 1..6 /\ i[n] # j[n]
    BY <2>3 DEF D
  <2>5. \A m \in 1..(n - 1) : i[m] = j[m]
    <3> TAKE m \in 1..(n - 1)
    <3>1. m \in 1..6 /\ ~(n <= m)
      BY <2>4
    <3>2. m \notin D
      BY <2>3, <3>1
    <3> QED
      BY <3>1, <3>2 DEF D
  <2>6. i[n] < j[n] \/ j[n] < i[n]
    BY <1>1, <2>4
  <2> QED
    BY <1>1, <2>4, <2>5, <2>6 DEF Precedes
<1> QED
  BY <1>2, <1>3, <1>4

\* Each of T has those of T before it that come before it in one line.
Lined(T, before) ==
    /\ before \in [T -> SUBSET T]
    /\ \A t \in T : t \notin before[t]
    /\ \A t, u \in T : /\ t \in before[u] => before[t] \subseteq before[u]
                       /\ t # u => t \in before[u] \/ u \in before[t]

LEMMA PlaceType ==
    ASSUME NEW seq \in Seq(Tasks)
    PROVE  /\ Place(seq) \in [ToSet(seq) -> 1..Len(seq)]
           /\ \A t \in ToSet(seq) : seq[Place(seq)[t]] = t
<1>1. \A t \in ToSet(seq) : \E n \in DOMAIN seq : seq[n] = t
  BY DEF ToSet
<1>2. DOMAIN seq = 1..Len(seq)
  OBVIOUS
<1> QED
  BY <1>1, <1>2 DEF Place

LEMMA EarlierLines ==
    ASSUME NEW F \in SUBSET Tasks
    PROVE  Lined(F, [t \in F |-> Earlier(F, t)])
<1>1. \A t \in Tasks : Declared[t] \in Int /\ Order[Declared[t]] = t
  <2>1. Declared \in [Tasks -> 1..Len(Order)] /\ \A t \in Tasks : Order[Declared[t]] = t
    BY CapacityAssumption, PlaceType DEF Declared, Tasks
  <2> QED
    BY <2>1
<1>2. \A t, u \in F : t \in Earlier(F, u) <=> Declared[t] < Declared[u]
  BY DEF Earlier
<1>3. \A t \in F : Earlier(F, t) \in SUBSET F
  BY DEF Earlier
<1>4. ASSUME NEW t \in F, NEW u \in F, t # u
      PROVE  t \in Earlier(F, u) \/ u \in Earlier(F, t)
  BY <1>1, <1>2, <1>4
<1>5. ASSUME NEW t \in F, NEW u \in F, t \in Earlier(F, u)
      PROVE  Earlier(F, t) \subseteq Earlier(F, u)
  BY <1>1, <1>2, <1>3, <1>5
<1>6. \A t \in F : t \notin Earlier(F, t)
  BY <1>1, <1>2
<1> QED
  BY <1>3, <1>4, <1>5, <1>6 DEF Lined

LEMMA AheadLines ==
    ASSUME NEW D, NEW key \in [D -> Keys], IsInjective(key), NEW T \in SUBSET D
    PROVE  Lined(T, [t \in T |-> Ahead(key, T, t)])
<1>1. \A t, u \in T : t \in Ahead(key, T, u) <=> Precedes(key[t], key[u])
  BY DEF Ahead
<1>2. \A t \in T : Ahead(key, T, t) \in SUBSET T /\ key[t] \in Keys
  BY DEF Ahead
<1>3. ASSUME NEW t \in T, NEW u \in T, t # u
      PROVE  t \in Ahead(key, T, u) \/ u \in Ahead(key, T, t)
  <2>1. key[t] # key[u]
    BY <1>3 DEF IsInjective
  <2> QED
    BY <1>1, <1>2, <2>1, Lexicographic
<1>4. ASSUME NEW t \in T, NEW u \in T, t \in Ahead(key, T, u)
      PROVE  Ahead(key, T, t) \subseteq Ahead(key, T, u)
  BY <1>1, <1>2, <1>4, Lexicographic
<1>5. \A t \in T : t \notin Ahead(key, T, t)
  BY <1>1, <1>2, Lexicographic
<1> QED
  BY <1>2, <1>3, <1>4, <1>5 DEF Lined

\* The keys of the tasks in a queue are numbers, and no two have the same.
LEMMA KeysAreKeys ==
    ASSUME NEW r, r.queue \in Seq(Tasks)
    PROVE  KeysOf(r) \in [ToSet(r.queue) -> Keys] /\ IsInjective(KeysOf(r))
<1>1. ToSet(r.queue) \subseteq Tasks /\ \A t \in ToSet(r.queue) : Place(r.queue)[t] \in Int
  <2>1. ToSet(r.queue) \subseteq Tasks
    BY DEF ToSet
  <2>2. Place(r.queue) \in [ToSet(r.queue) -> 1..Len(r.queue)]
    BY PlaceType
  <2> QED
    BY <2>1, <2>2
<1>2. \A t \in Tasks : Declared[t] \in Int /\ Order[Declared[t]] = t
  <2>1. Declared \in [Tasks -> 1..Len(Order)] /\ \A t \in Tasks : Order[Declared[t]] = t
    BY CapacityAssumption, PlaceType DEF Declared, Tasks
  <2> QED
    BY <2>1
<1>3. \A t \in ToSet(r.queue) : Key(r, t) \in Keys /\ Key(r, t)[6] = Declared[t]
  <2> TAKE t \in ToSet(r.queue)
  <2> DEFINE free == IF Available(r.lock, t) THEN 0 ELSE 1
  <2>1. free \in Int
    OBVIOUS
  <2> HIDE DEF free
  <2>2. 9 - Weight[t] \in Int
    BY <1>1, CapacityAssumption
  <2>3. 9 - CriticalPath[t] \in Int /\ 9 - FanOut[t] \in Int
    <3>1. CriticalPath[t] \in Nat /\ FanOut[t] \in Nat
      BY <1>1, CriticalPathType, FanOutType
    <3> QED
      BY <3>1
  <2>4. Place(r.queue)[t] \in Int /\ Declared[t] \in Int
    BY <1>1, <1>2
  <2>5. Key(r, t) = <<free, 9 - Weight[t], 9 - CriticalPath[t], 9 - FanOut[t],
                      Place(r.queue)[t], Declared[t]>>
    BY DEF Key, free
  <2> QED
    BY <2>1, <2>2, <2>3, <2>4, <2>5 DEF Keys
<1>4. KeysOf(r) = [t \in ToSet(r.queue) |-> Key(r, t)]
  BY DEF KeysOf
<1>5. IsInjective(KeysOf(r))
  BY <1>1, <1>2, <1>3, <1>4 DEF IsInjective
<1> QED
  BY <1>3, <1>4, <1>5

-----------------------------------------------------------------------------
(* Bundles                                                                   *)

\* The bundles held do not conflict and share no slot.
Apart(l) ==
    /\ l \in [Tasks -> Lock]
    /\ \A t \in Holding(l) : l[t].gui => l[t].slot \in 1..GuiSlots
    /\ \A t, u \in Holding(l) : t # u =>
           /\ {t, u} \notin Clash
           /\ l[t].gui /\ l[u].gui => l[t].slot # l[u].slot

LEMMA FreeType ==
    ASSUME NEW l
    PROVE  FreeSlots(l) \in SUBSET Int /\ IsFiniteSet(FreeSlots(l))
<1>1. FreeSlots(l) \in SUBSET (1..GuiSlots) /\ FreeSlots(l) \in SUBSET Int
  BY CapacityAssumption DEF FreeSlots
<1>2. IsFiniteSet(1..GuiSlots)
  BY CapacityAssumption, FS_Interval
<1> QED
  BY <1>1, <1>2, FS_Subset

LEMMA BundleType ==
    ASSUME NEW g \in BOOLEAN, NEW s \in 0..GuiSlots
    PROVE  /\ [held |-> TRUE, gui |-> g, slot |-> s] \in Lock
           /\ [held |-> TRUE, gui |-> g, slot |-> s].held = TRUE
           /\ [held |-> TRUE, gui |-> g, slot |-> s].gui = g
           /\ [held |-> TRUE, gui |-> g, slot |-> s].slot = s
BY DEF Lock

\* Tasks that stand in line and may each have a bundle after those before it all get one.
LEMMA AcquiredApart ==
    ASSUME NEW l, Apart(l), NEW T \in SUBSET Tasks, NEW gui \in SUBSET Tasks,
           NEW before, Lined(T, before), \A t \in T : CanAcquire(l, before[t], gui, t)
    PROVE  /\ Apart(Acquired(l, T, gui, before))
           /\ Holding(Acquired(l, T, gui, before)) = Holding(l) \cup T
           /\ \A t \in Tasks \ T : Acquired(l, T, gui, before)[t] = l[t]
           /\ \A t \in T : Acquired(l, T, gui, before)[t].gui <=> t \in gui
<1> DEFINE a == Acquired(l, T, gui, before)
           rank(t) == Cardinality(before[t] \cap gui)
           slot(t) == IF t \in gui THEN Nth(FreeSlots(l), rank(t)) ELSE 0
<1>1. a = [t \in Tasks |-> IF t \in T THEN [held |-> TRUE, gui |-> t \in gui, slot |-> slot(t)]
                                    ELSE l[t]]
  BY DEF Acquired
<1>2. ASSUME NEW t \in T
      PROVE  /\ IsFiniteSet(before[t] \cap gui) /\ rank(t) \in Nat
             /\ before[t] \subseteq T
  <2>1. before[t] \in SUBSET T /\ before[t] \cap gui \in SUBSET Tasks
    BY DEF Lined
  <2>2. IsFiniteSet(before[t] \cap gui)
    BY <2>1, FiniteTasks, FS_Subset
  <2> QED
    BY <2>1, <2>2, FS_CardinalityType
<1>3. ASSUME NEW t \in T \cap gui
      PROVE  /\ slot(t) \in FreeSlots(l)
             /\ Cardinality(Below(FreeSlots(l), slot(t))) = rank(t)
  <2>1. rank(t) < Cardinality(FreeSlots(l))
    BY DEF CanAcquire
  <2> QED
    BY <1>2, <2>1, FreeType, NthExists
<1>4. ASSUME NEW t \in T PROVE slot(t) \in 0..GuiSlots
  <2>1. CASE t \in gui
    <3>1. slot(t) \in FreeSlots(l)
      BY <1>3, <2>1
    <3> HIDE DEF slot
    <3>2. slot(t) \in 1..GuiSlots
      BY <3>1 DEF FreeSlots
    <3> QED
      BY <3>2, CapacityAssumption
  <2>2. CASE t \notin gui
    BY <2>2, CapacityAssumption
  <2> QED
    BY <2>1, <2>2
<1>5. ASSUME NEW t \in T \cap gui, NEW u \in T \cap gui, t \in before[u]
      PROVE  slot(t) # slot(u)
  <2> DEFINE low == (before[t] \cap gui) \cup {t}
  <2>1. t \notin before[t] /\ before[t] \subseteq before[u]
    BY <1>5 DEF Lined
  <2>2. low \in SUBSET (before[u] \cap gui)
    BY <1>5, <2>1
  <2>3. Cardinality(low) = rank(t) + 1
    BY <1>2, <2>1, FS_AddElement
  <2>4. Cardinality(low) <= rank(u)
    BY <1>2, <2>2, FS_Subset
  <2>5. rank(t) # rank(u)
    <3>1. rank(t) \in Nat /\ rank(u) \in Nat
      BY <1>2
    <3> HIDE DEF rank
    <3> QED
      BY <2>3, <2>4, <3>1
  <2> HIDE DEF slot, rank
  <2> QED
    BY <1>3, <2>5
<1> HIDE DEF slot, a
<1>6. ASSUME NEW t \in T
      PROVE  a[t] \in Lock /\ a[t].held /\ (a[t].gui <=> t \in gui) /\ a[t].slot = slot(t)
  <2> DEFINE g == t \in gui
  <2>1. g \in BOOLEAN
    OBVIOUS
  <2>2. a[t] = [held |-> TRUE, gui |-> g, slot |-> slot(t)]
    BY <1>1
  <2>3. a[t].gui <=> g
    <3> HIDE DEF g
    <3>1. a[t].gui = g
      BY <1>4, <2>1, <2>2, BundleType
    <3> QED
      BY <2>1, <3>1
  <2>4. a[t] \in Lock /\ a[t].held = TRUE /\ a[t].slot = slot(t)
    <3> HIDE DEF g
    <3> QED
      BY <1>4, <2>1, <2>2, BundleType
  <2> QED
    BY <2>3, <2>4
<1>7. \A t \in Tasks \ T : a[t] = l[t]
  BY <1>1
<1>8. a \in [Tasks -> Lock]
  <2>1. \A t \in Tasks : a[t] \in Lock
    BY <1>6, <1>7 DEF Apart
  <2>2. DOMAIN a = Tasks /\ a = [t \in Tasks |-> a[t]]
    BY <1>1
  <2> QED
    BY <2>1, <2>2
<1>9. Holding(a) = Holding(l) \cup T
  <2>1. \A t \in T : t \notin Holding(l)
    BY DEF CanAcquire, Holding
  <2> QED
    BY <1>6, <1>7 DEF Holding
<1>10. ASSUME NEW t \in Holding(a), a[t].gui PROVE a[t].slot \in 1..GuiSlots
  <2>1. CASE t \in T
    <3>1. slot(t) \in FreeSlots(l)
      BY <1>3, <1>6, <1>10, <2>1
    <3> QED
      BY <1>6, <2>1, <3>1 DEF FreeSlots
  <2>2. CASE t \notin T
    BY <1>7, <1>9, <1>10, <2>2 DEF Apart, Holding
  <2> QED
    BY <2>1, <2>2
<1>11. ASSUME NEW t \in Holding(a), NEW u \in T, t \notin T \/ t \in before[u]
       PROVE  /\ {t, u} \notin Clash
              /\ a[t].gui /\ a[u].gui => a[t].slot # a[u].slot
  <2>1. ~InConflict(Holding(l) \cup before[u], u)
    BY DEF CanAcquire
  <2>2. t \in Holding(l) \cup before[u]
    BY <1>9, <1>11
  <2>3. {t, u} \notin Clash
    BY <2>1, <2>2 DEF InConflict
  <2>4. ASSUME a[t].gui, a[u].gui PROVE a[t].slot # a[u].slot
    <3>1. u \in T \cap gui /\ a[u].slot = slot(u)
      BY <1>6, <2>4
    <3>2. CASE t \notin T
      <4>1. t \in Holding(l) /\ a[t] = l[t]
        BY <1>7, <1>9, <3>2 DEF Holding
      <4>2. a[t].slot \in UsedSlots(l)
        BY <2>4, <4>1 DEF UsedSlots
      <4>3. a[u].slot \in FreeSlots(l)
        BY <1>3, <3>1
      <4> QED
        BY <4>2, <4>3 DEF FreeSlots
    <3>3. CASE t \in T
      <4>1. t \in T \cap gui /\ a[t].slot = slot(t) /\ t \in before[u]
        BY <1>6, <1>11, <2>4, <3>3
      <4> QED
        BY <1>5, <3>1, <4>1
    <3> QED
      BY <3>2, <3>3
  <2> QED
    BY <2>3, <2>4
<1>12. ASSUME NEW t \in Holding(a), NEW u \in Holding(a), t # u
       PROVE  /\ {t, u} \notin Clash
              /\ a[t].gui /\ a[u].gui => a[t].slot # a[u].slot
  <2>1. {t, u} = {u, t}
    OBVIOUS
  <2>2. CASE t \notin T /\ u \notin T
    BY <1>7, <1>9, <1>12, <2>2 DEF Apart, Holding
  <2>3. CASE u \in T /\ (t \notin T \/ t \in before[u])
    BY <1>11, <2>3
  <2>4. CASE t \in T /\ (u \notin T \/ u \in before[t])
    BY <1>11, <2>1, <2>4
  <2>5. t \in T /\ u \in T => t \in before[u] \/ u \in before[t]
    BY <1>12 DEF Lined
  <2> QED
    BY <2>2, <2>3, <2>4, <2>5
<1>13. Apart(a)
  BY <1>8, <1>10, <1>12 DEF Apart
<1> QED
  BY <1>6, <1>7, <1>9, <1>13 DEF a

\* A bundle that may be had after some tasks may be had after fewer of them.
LEMMA AfterFewer ==
    ASSUME NEW l, NEW B, IsFiniteSet(B), NEW C \in SUBSET B, NEW gui, NEW t,
           CanAcquire(l, B, gui, t)
    PROVE  CanAcquire(l, C, gui, t)
<1>1. ~l[t].held /\ ~InConflict(Holding(l) \cup C, t)
  BY DEF CanAcquire, InConflict
<1>2. t \in gui => Cardinality(C \cap gui) < Cardinality(FreeSlots(l))
  <2>1. IsFiniteSet(B \cap gui) /\ C \cap gui \in SUBSET (B \cap gui)
    BY FS_Intersection
  <2>2. Cardinality(C \cap gui) <= Cardinality(B \cap gui) /\ IsFiniteSet(C \cap gui)
    BY <2>1, FS_Subset
  <2>3. /\ Cardinality(C \cap gui) \in Nat /\ Cardinality(B \cap gui) \in Nat
        /\ Cardinality(FreeSlots(l)) \in Nat
    BY <2>1, <2>2, FreeType, FS_CardinalityType
  <2> QED
    BY <2>2, <2>3 DEF CanAcquire
<1> QED
  BY <1>1, <1>2 DEF CanAcquire

-----------------------------------------------------------------------------
(* The invariant                                                             *)

States ==
    ActiveStates \cup {"WAITING", "READY", "IMPLEMENTED", "REVISION_REQUIRED", "VERIFIED"}

\* Whoever works has a bundle, the bundles are apart, the ready tasks that wait are in the
\* queue once each; and where no verifier is alone on the screen, only a task that is driven
\* through it holds a slot.
Steady(s, q, l) ==
    /\ s \in [Tasks -> States]
    /\ q \in Seq(Tasks) /\ ToSet(q) \subseteq {t \in Tasks : s[t] = "READY"} /\ IsInjective(q)
    /\ Apart(l)
    /\ \A t \in Tasks : l[t].held <=> t \in Active(s)
    /\ GuiChecked \subseteq Gui => \A t \in Holding(l) : l[t].gui => t \in Gui

Settings ==
    /\ cap \in 1..(Workers + Len(Order)) /\ reading \in AllReadings
    /\ later \subseteq Tasks /\ rounds \in [Tasks -> 0..MaxRounds]

CapacityInv == Steady(state, queue, lock) /\ Settings

\* A run begins with no bundle held.
LEMMA CapacityInvInit == CapacityInit => CapacityInv
<1> SUFFICES ASSUME CapacityInit PROVE CapacityInv
  OBVIOUS
<1> USE DEF CapacityInit
<1>1. state \in [Tasks -> States] /\ Active(state) = {}
  BY DEF States, Active, ActiveStates
<1>2. NoLock \in Lock /\ ~NoLock.held
  BY CapacityAssumption DEF NoLock, Lock
<1>3. lock \in [Tasks -> Lock] /\ Holding(lock) = {} /\ \A t \in Tasks : ~lock[t].held
  BY <1>2 DEF Holding
<1>4. queue \in Seq(Tasks) /\ ToSet(queue) = {} /\ IsInjective(queue)
  BY DEF ToSet, IsInjective
<1>5. Steady(state, queue, lock)
  BY <1>1, <1>3, <1>4 DEF Steady, Apart
<1>6. Settings
  <2>1. Workers \in 1..(Workers + Len(Order))
    BY FiniteTasks, CapacityAssumption
  <2>2. [t \in Tasks |-> 0] \in [Tasks -> 0..MaxRounds]
    BY CapacityAssumption
  <2> QED
    BY <2>1, <2>2 DEF Settings, AllReadings
<1> QED
  BY <1>5, <1>6 DEF CapacityInv

\* The ceiling follows the budget no further than to all the tasks at once.
LEMMA FollowedType ==
    ASSUME NEW c \in 1..(Workers + Len(Order))
    PROVE  Followed(c) \in 1..(Workers + Len(Order))
<1>1. Len(Order) \in Nat /\ Workers \in Nat /\ Workers > 0
  BY FiniteTasks, CapacityAssumption
<1>2. ASSUME Budget(c) = Unlimited
      PROVE  EffectiveLimit(c) \in Nat /\ EffectiveLimit(c) <= Workers + Len(Order)
  BY <1>1, <1>2 DEF EffectiveLimit
<1>3. CASE Budget(c) = Unlimited
  BY <1>1, <1>2, <1>3 DEF Followed, Higher
<1>4. CASE Budget(c) # Unlimited
  BY <1>4 DEF Followed
<1> QED
  BY <1>3, <1>4

\* After the follow-ups and the reconciliation of the ready tasks all is steady.
LEMMA ReconciledSteady ==
    ASSUME CapacityInv, NEW F \in SUBSET Tasks, IsFollowupSet(F)
    PROVE  LET r == Reconciled(F) IN
             Steady(r.state, r.queue, r.lock) /\ r.cap \in 1..(Workers + Len(Order))
<1> DEFINE now == [t \in Tasks |->
                      IF t \in F THEN Followup[state[t]]
                      ELSE IF state[t] = "WAITING" /\ \A d \in Needs[t] : state[d] = "VERIFIED"
                      THEN "READY" ELSE state[t]]
           ready == {t \in Tasks : now[t] = "READY" /\ t \notin later}
           before == [t \in F |-> Earlier(F, t)]
           l == Acquired(lock, F, FollowupGui, before)
           kept == Only(queue, ready)
           added == Only(Order, ready \ ToSet(queue))
           r == Reconciled(F)
<1>1. r.state = now /\ r.queue = kept \o added /\ r.lock = l /\ r.cap = Followed(cap)
  BY DEF Reconciled
<1>2. Steady(state, queue, lock) /\ Settings
  BY DEF CapacityInv
<1>3. \A t \in F : state[t] \in {"IMPLEMENTED", "REVISION_REQUIRED"}
                   /\ CanAcquire(lock, Earlier(F, t), FollowupGui, t)
  BY DEF IsFollowupSet, Followup
<1>4. \A t \in F : now[t] \in {"VERIFYING", "REVISING"}
  BY <1>3 DEF Followup
<1>5. now \in [Tasks -> States]
  <2>1. \A t \in Tasks : now[t] \in States
    <3> TAKE t \in Tasks
    <3>1. CASE t \in F
      BY <1>4, <3>1 DEF States, ActiveStates
    <3>2. CASE t \notin F
      BY <1>2, <3>2 DEF Steady, States
    <3> QED
      BY <3>1, <3>2
  <2> QED
    BY <2>1
<1>6. Active(now) = Active(state) \cup F
  <2>1. \A t \in F : t \in Active(now)
    BY <1>4 DEF Active, ActiveStates
  <2>2. \A t \in Tasks \ F : t \in Active(now) <=> t \in Active(state)
    BY DEF Active, ActiveStates
  <2> QED
    BY <2>1, <2>2 DEF Active
<1> HIDE DEF now
<1>7. kept \in Seq(Tasks) /\ ToSet(kept) = ToSet(queue) \cap ready /\ IsInjective(kept)
  BY <1>2, OnlyKeeps DEF Steady
<1>8. added \in Seq(Tasks) /\ ToSet(added) \subseteq ready \ ToSet(queue) /\ IsInjective(added)
  BY CapacityAssumption, OnlyKeeps
<1>9. /\ kept \o added \in Seq(Tasks) /\ IsInjective(kept \o added)
      /\ ToSet(kept \o added) \subseteq {t \in Tasks : now[t] = "READY"}
  <2> DEFINE rest == ready
  <2>1. rest \subseteq {t \in Tasks : now[t] = "READY"}
    OBVIOUS
  <2> HIDE DEF kept, added, rest
  <2>2. ToSet(kept) \cap ToSet(added) = {} /\ ToSet(kept) \cup ToSet(added) \subseteq rest
    BY <1>7, <1>8 DEF rest
  <2> QED
    BY <1>7, <1>8, <2>1, <2>2, JoinKeeps
<1>10. FollowupGui \in SUBSET Tasks
  BY DEF FollowupGui
<1>11. Lined(F, before) /\ \A t \in F : CanAcquire(lock, before[t], FollowupGui, t)
  BY <1>3, EarlierLines
<1>12. Apart(lock)
  BY <1>2 DEF Steady
<1> HIDE DEF before
<1>13. /\ Apart(l) /\ Holding(l) = Holding(lock) \cup F
       /\ \A t \in Tasks \ F : l[t] = lock[t]
       /\ \A t \in F : l[t].gui <=> t \in FollowupGui
  <2> DEFINE gui == FollowupGui
  <2>1. gui \in SUBSET Tasks
    BY <1>10
  <2>2. Lined(F, before) /\ \A t \in F : CanAcquire(lock, before[t], gui, t)
    BY <1>11
  <2> HIDE DEF gui, ready, now
  <2>3. /\ Apart(Acquired(lock, F, gui, before))
        /\ Holding(Acquired(lock, F, gui, before)) = Holding(lock) \cup F
        /\ \A t \in Tasks \ F : Acquired(lock, F, gui, before)[t] = lock[t]
        /\ \A t \in F : Acquired(lock, F, gui, before)[t].gui <=> t \in gui
    BY <1>12, <2>1, <2>2, AcquiredApart
  <2> QED
    BY <2>3 DEF gui
<1> HIDE DEF l
<1>14. \A t \in Tasks : l[t].held <=> t \in Active(now)
  <2>1. \A t \in Tasks : t \in Holding(l) <=> l[t].held
    BY DEF Holding
  <2>2. \A t \in Tasks : t \in Holding(lock) <=> t \in Active(state)
    BY <1>2 DEF Holding, Steady
  <2> QED
    BY <1>6, <1>13, <2>1, <2>2
<1>15. GuiChecked \subseteq Gui => \A t \in Holding(l) : l[t].gui => t \in Gui
  <2> SUFFICES ASSUME GuiChecked \subseteq Gui, NEW t \in Holding(l), l[t].gui PROVE t \in Gui
    OBVIOUS
  <2>1. CASE t \in F
    <3>1. t \in FollowupGui
      BY <1>13, <2>1
    <3> QED
      BY <3>1 DEF FollowupGui
  <2>2. CASE t \notin F
    <3>1. t \in Tasks /\ t \in Holding(lock)
      BY <1>13, <2>2 DEF Holding
    <3>2. l[t] = lock[t]
      BY <1>13, <2>2, <3>1
    <3> QED
      BY <1>2, <3>1, <3>2 DEF Steady
  <2> QED
    BY <2>1, <2>2
<1>16. Followed(cap) \in 1..(Workers + Len(Order))
  BY <1>2, FollowedType DEF Settings
<1>17. Steady(now, kept \o added, l)
  BY <1>5, <1>9, <1>13, <1>14, <1>15 DEF Steady
<1> QED
  BY <1>1, <1>16, <1>17

\* What a decision is made of.
LEMMA DecisionType ==
    ASSUME CapacityInv, NEW d \in Decisions
    PROVE  /\ Steady(d.run.state, d.run.queue, d.run.lock)
           /\ d.run.cap \in 1..(Workers + Len(Order))
           /\ d.key = KeysOf(d.run) /\ d.key \in [ToSet(d.run.queue) -> Keys]
           /\ IsInjective(d.key)
           /\ d.chosen \subseteq ToSet(d.run.queue)
           /\ IsSelection(d.run, d.key, d.chosen)
<1>1. PICK F \in SUBSET Tasks : IsFollowupSet(F) /\
          \E S \in SUBSET DOMAIN KeysOf(Reconciled(F)) :
              /\ IsSelection(Reconciled(F), KeysOf(Reconciled(F)), S)
              /\ d = [run |-> Reconciled(F), key |-> KeysOf(Reconciled(F)), chosen |-> S]
  BY DEF Decisions
<1> DEFINE r == Reconciled(F)
<1>2. Steady(r.state, r.queue, r.lock) /\ r.cap \in 1..(Workers + Len(Order))
  BY <1>1, ReconciledSteady
<1> HIDE DEF r
<1>3. PICK S \in SUBSET DOMAIN KeysOf(r) :
          IsSelection(r, KeysOf(r), S) /\ d = [run |-> r, key |-> KeysOf(r), chosen |-> S]
  BY <1>1 DEF r
<1>4. KeysOf(r) \in [ToSet(r.queue) -> Keys] /\ IsInjective(KeysOf(r))
  BY <1>2, KeysAreKeys DEF Steady
<1> QED
  BY <1>2, <1>3, <1>4

-----------------------------------------------------------------------------
(* The pass and the sessions                                                 *)

\* Of a decision, the tasks in time for their bundles get them one after the other.
LEMMA InTimeTogether ==
    ASSUME CapacityInv, NEW d \in Decisions
    PROVE  /\ InTime(d) \in SUBSET Tasks
           /\ Lined(InTime(d), [t \in InTime(d) |-> Ahead(d.key, InTime(d), t)])
           /\ \A t \in InTime(d) : CanAcquire(d.run.lock, Ahead(d.key, InTime(d), t), Gui, t)
<1> DEFINE T == InTime(d)
           D == ToSet(d.run.queue)
<1>1. /\ d.run.queue \in Seq(Tasks) /\ d.key \in [D -> Keys] /\ IsInjective(d.key)
      /\ d.chosen \subseteq D
  BY DecisionType DEF Steady
<1>2. D \in SUBSET Tasks
  BY <1>1 DEF ToSet
<1>3. T \in SUBSET D /\ T \subseteq d.chosen
  BY <1>1 DEF InTime
<1>4. \A t \in T : CanAcquire(d.run.lock, Ahead(d.key, d.chosen, t), Gui, t)
  BY DEF InTime
<1> HIDE DEF T, D
<1>5. Lined(T, [t \in T |-> Ahead(d.key, T, t)])
  BY <1>1, <1>3, AheadLines
<1>6. ASSUME NEW t \in T PROVE CanAcquire(d.run.lock, Ahead(d.key, T, t), Gui, t)
  <2>1. Ahead(d.key, d.chosen, t) \in SUBSET Tasks
    BY <1>1, <1>2 DEF Ahead
  <2>2. IsFiniteSet(Ahead(d.key, d.chosen, t))
    BY <2>1, FiniteTasks, FS_Subset
  <2>3. Ahead(d.key, T, t) \in SUBSET Ahead(d.key, d.chosen, t)
    BY <1>3 DEF Ahead
  <2> QED
    BY <1>4, <2>2, <2>3, AfterFewer
<1> QED
  BY <1>2, <1>3, <1>5, <1>6 DEF T

LEMMA ReserveKeeps ==
    ASSUME CapacityInv, Reserve
    PROVE  CapacityInv'
<1>1. PICK d \in Decisions :
         LET T == InTime(d)
             before == [t \in T |-> Ahead(d.key, T, t)]
         IN  /\ state' = [t \in Tasks |-> IF t \in T THEN "RUNNING" ELSE d.run.state[t]]
             /\ queue' = Only(d.run.queue, ToSet(d.run.queue) \ T)
             /\ lock' = Acquired(d.run.lock, T, Gui, before)
             /\ cap' = d.run.cap
             /\ UNCHANGED <<reading, later, rounds>>
  BY DEF Reserve
<1> DEFINE T == InTime(d)
           before == [t \in T |-> Ahead(d.key, T, t)]
           s == d.run.state
           q == d.run.queue
           l == d.run.lock
<1>2. Steady(s, q, l) /\ d.run.cap \in 1..(Workers + Len(Order))
  BY DecisionType
<1>3. T \in SUBSET Tasks /\ Lined(T, before) /\ \A t \in T : CanAcquire(l, before[t], Gui, t)
  BY InTimeTogether
<1>4. T \subseteq ToSet(q)
  BY DecisionType DEF InTime
<1>5. /\ state' = [t \in Tasks |-> IF t \in T THEN "RUNNING" ELSE s[t]]
      /\ queue' = Only(q, ToSet(q) \ T)
      /\ lock' = Acquired(l, T, Gui, before)
  BY <1>1
<1> HIDE DEF T, before, s, q, l
<1>6. state' \in [Tasks -> States]
  BY <1>2, <1>5 DEF Steady, States, ActiveStates
<1>7. /\ queue' \in Seq(Tasks) /\ IsInjective(queue')
      /\ ToSet(queue') = ToSet(q) \cap (ToSet(q) \ T)
  BY <1>2, <1>5, OnlyKeeps DEF Steady
<1>8. ToSet(queue') \subseteq {t \in Tasks : state'[t] = "READY"}
  BY <1>2, <1>5, <1>7 DEF Steady
<1>9. /\ Apart(lock') /\ Holding(lock') = Holding(l) \cup T
      /\ \A t \in Tasks \ T : lock'[t] = l[t]
      /\ \A t \in T : lock'[t].gui <=> t \in Gui
  <2>1. Gui \in SUBSET Tasks /\ Apart(l)
    BY <1>2, CapacityAssumption DEF Steady
  <2> QED
    <3>1. /\ Apart(Acquired(l, T, Gui, before))
          /\ Holding(Acquired(l, T, Gui, before)) = Holding(l) \cup T
          /\ \A t \in Tasks \ T : Acquired(l, T, Gui, before)[t] = l[t]
          /\ \A t \in T : Acquired(l, T, Gui, before)[t].gui <=> t \in Gui
      BY <1>3, <2>1, AcquiredApart
    <3> QED
      BY <1>5, <3>1
<1>10. Active(state') = Active(s) \cup T
  BY <1>3, <1>5 DEF Active, ActiveStates
<1>11. \A t \in Tasks : lock'[t].held <=> t \in Active(state')
  <2>1. \A t \in Tasks : t \in Holding(lock') <=> lock'[t].held
    BY DEF Holding
  <2>2. \A t \in Tasks : t \in Holding(l) <=> t \in Active(s)
    BY <1>2 DEF Holding, Steady
  <2> QED
    BY <1>9, <1>10, <2>1, <2>2
<1>12. GuiChecked \subseteq Gui => \A t \in Holding(lock') : lock'[t].gui => t \in Gui
  BY <1>2, <1>9 DEF Steady, Holding
<1>13. Settings'
  BY <1>1, <1>2 DEF CapacityInv, Settings
<1>14. Steady(state, queue, lock)'
  BY <1>6, <1>7, <1>8, <1>9, <1>11, <1>12 DEF Steady
<1> QED
  BY <1>13, <1>14 DEF CapacityInv

\* When a session ends its task goes to a state without a bundle and its bundle back.
LEMMA EndKeeps ==
    ASSUME CapacityInv, NEW t \in Tasks, state[t] \in ActiveStates, NEW x \in States \ ActiveStates,
           state' = [state EXCEPT ![t] = x], Released(t), queue' = queue
    PROVE  Steady(state, queue, lock)'
<1>1. Steady(state, queue, lock)
  BY DEF CapacityInv
<1>2. /\ state' \in [Tasks -> States] /\ state'[t] = x
      /\ \A u \in Tasks \ {t} : state'[u] = state[u]
  BY <1>1 DEF Steady
<1>3. NoLock \in Lock /\ NoLock.held = FALSE
  BY CapacityAssumption DEF NoLock, Lock
<1>4. /\ lock' \in [Tasks -> Lock] /\ lock'[t].held = FALSE
      /\ \A u \in Tasks \ {t} : lock'[u] = lock[u]
  BY <1>1, <1>3 DEF Steady, Apart, Released
<1>5. Holding(lock') = Holding(lock) \ {t}
  BY <1>4 DEF Holding
<1>6. \A u \in Holding(lock') : u \in Holding(lock) /\ u \in Tasks /\ lock'[u] = lock[u]
  BY <1>4, <1>5 DEF Holding
<1>7. Apart(lock')
  BY <1>1, <1>4, <1>6 DEF Steady, Apart
<1>8. Active(state') = Active(state) \ {t}
  BY <1>2 DEF Active
<1>9. \A u \in Tasks : lock'[u].held <=> u \in Active(state')
  BY <1>1, <1>4, <1>8 DEF Steady
<1>10. state[t] # "READY"
  BY DEF ActiveStates
<1>11. ToSet(queue') \subseteq {u \in Tasks : state'[u] = "READY"}
  BY <1>1, <1>2, <1>10 DEF Steady
<1>12. GuiChecked \subseteq Gui => \A u \in Holding(lock') : lock'[u].gui => u \in Gui
  BY <1>1, <1>6 DEF Steady
<1> QED
  BY <1>1, <1>2, <1>7, <1>9, <1>11, <1>12 DEF Steady

\* Every step of the pass and of the sessions.
LEMMA CapacityInvNext == CapacityInv /\ [CapacityNext]_capacityVars => CapacityInv'
<1> SUFFICES ASSUME CapacityInv, [CapacityNext]_capacityVars PROVE CapacityInv'
  OBVIOUS
<1>1. Steady(state, queue, lock) /\ Settings
  BY DEF CapacityInv
<1>2. state \in [Tasks -> States] /\ MaxRounds \in Nat
  BY <1>1, CapacityAssumption DEF Steady
<1>3. CASE Reserve
  BY <1>3, ReserveKeeps
<1>4. ASSUME NEW t \in Tasks, Complete(t) PROVE CapacityInv'
  <2> DEFINE x == IF state[t] = "VERIFYING" THEN "VERIFIED" ELSE "IMPLEMENTED"
  <2>1. x \in States \ ActiveStates
    BY DEF States, ActiveStates
  <2>2. /\ state[t] \in ActiveStates /\ state' = [state EXCEPT ![t] = x]
        /\ Released(t) /\ queue' = queue
    BY <1>4 DEF Complete
  <2> HIDE DEF x
  <2>3. Steady(state, queue, lock)'
    BY <2>1, <2>2, EndKeeps
  <2>4. Settings'
    BY <1>1, <1>4 DEF Complete, Settings
  <2> QED
    BY <2>3, <2>4 DEF CapacityInv
<1>5. ASSUME NEW t \in Tasks, SendBack(t) PROVE CapacityInv'
  <2>1. "REVISION_REQUIRED" \in States \ ActiveStates
    BY DEF States, ActiveStates
  <2>2. /\ state[t] \in ActiveStates /\ state' = [state EXCEPT ![t] = "REVISION_REQUIRED"]
        /\ Released(t) /\ queue' = queue
    BY <1>5 DEF SendBack, ActiveStates
  <2>3. Steady(state, queue, lock)'
    BY <2>1, <2>2, EndKeeps
  <2>4. Settings'
    BY <1>1, <1>2, <1>5 DEF SendBack, Settings
  <2> QED
    BY <2>3, <2>4 DEF CapacityInv
<1>6. ASSUME NEW t \in Tasks, Fail(t) PROVE CapacityInv'
  <2> DEFINE x == Back[state[t]]
  <2>1. state[t] \in ActiveStates /\ x \in States \ ActiveStates
    BY <1>6 DEF Fail, Back, States, ActiveStates
  <2>2. state' = [state EXCEPT ![t] = x] /\ Released(t) /\ queue' = queue
    BY <1>6 DEF Fail
  <2> HIDE DEF x
  <2>3. Steady(state, queue, lock)'
    BY <2>1, <2>2, EndKeeps
  <2>4. Settings'
    BY <1>1, <1>2, <1>6 DEF Fail, Settings
  <2> QED
    BY <2>3, <2>4 DEF CapacityInv
<1>7. ASSUME NEW t \in Tasks, RetryDue(t) PROVE CapacityInv'
  BY <1>1, <1>7 DEF RetryDue, CapacityInv, Settings
<1>8. ASSUME NEW r \in Readings, Report(r) PROVE CapacityInv'
  BY <1>1, <1>8, CapacityAssumption DEF Report, CapacityInv, Settings
<1>9. CASE UNCHANGED capacityVars
  BY <1>1, <1>9 DEF capacityVars, CapacityInv, Settings
<1> QED
  BY <1>3, <1>4, <1>5, <1>6, <1>7, <1>8, <1>9 DEF CapacityNext

LEMMA CapacityInvAlways == CapacitySpec => []CapacityInv
BY CapacityInvInit, CapacityInvNext, PTL DEF CapacitySpec

\* Bundles that are apart exclude each other.
LEMMA InvExcludes == CapacityInv => BundlesExclude
<1> SUFFICES ASSUME CapacityInv PROVE BundlesExclude
  OBVIOUS
<1>1. CapacityTypeOK
  BY DEF CapacityInv, Steady, Apart, Settings, CapacityTypeOK, States
<1>2. \A t \in Active(state) : t \in Holding(lock)
  BY DEF CapacityInv, Steady, Active, Holding
<1> QED
  BY <1>1, <1>2 DEF CapacityInv, Steady, Apart, BundlesExclude

\* Two tasks with conflicting claims never work at the same time, and no slot is held twice,
\* whatever passes, failures and follow-ups come in between.
THEOREM BundlesExcludeAlways == CapacitySpec => []BundlesExclude
BY CapacityInvAlways, InvExcludes, PTL

-----------------------------------------------------------------------------
(* The scheduler and the locks                                               *)

\* The bundles leave at least the slots that they do not hold.
LEMMA SlotsLeft ==
    ASSUME NEW l, Apart(l), NEW H, H = {t \in Holding(l) : l[t].gui}
    PROVE  /\ IsFiniteSet(H) /\ Cardinality(H) \in Nat
           /\ Cardinality(UsedSlots(l)) \in Nat /\ Cardinality(FreeSlots(l)) \in Nat
           /\ Cardinality(UsedSlots(l)) <= Cardinality(H)
           /\ Cardinality(FreeSlots(l)) = GuiSlots - Cardinality(UsedSlots(l))
<1>1. IsFiniteSet(H)
  <2>1. H \in SUBSET Tasks
    BY DEF Holding
  <2> QED
    BY <2>1, FiniteTasks, FS_Subset
<1>2. UsedSlots(l) \in SUBSET (1..GuiSlots)
  BY DEF UsedSlots, Apart
<1>3. [t \in H |-> l[t].slot] \in Surjection(H, UsedSlots(l))
  BY DEF UsedSlots, Surjection
<1>4. IsFiniteSet(UsedSlots(l)) /\ Cardinality(UsedSlots(l)) <= Cardinality(H)
  BY <1>1, <1>3, FS_Surjection
<1>5. IsFiniteSet(1..GuiSlots) /\ Cardinality(1..GuiSlots) = GuiSlots
  <2>1. 1 \in Int /\ GuiSlots \in Int /\ ~(1 > GuiSlots) /\ GuiSlots - 1 + 1 = GuiSlots
    BY CapacityAssumption
  <2> QED
    BY <2>1, FS_Interval
<1>6. Cardinality(FreeSlots(l)) = GuiSlots - Cardinality(UsedSlots(l))
  <2>1. (1..GuiSlots) \cap UsedSlots(l) = UsedSlots(l)
    BY <1>2
  <2> QED
    BY <1>5, <2>1, FS_Difference DEF FreeSlots
<1> QED
  BY <1>1, <1>4, <1>6, FreeType, FS_CardinalityType

\* The scheduler counts the slots that are held.
LEMMA InvAgrees ==
    ASSUME GuiSlots = 1 \/ GuiChecked \subseteq Gui, CapacityInv
    PROVE  SelectedAcquire
<1> SUFFICES ASSUME NEW d \in Decisions, NEW t \in d.chosen PROVE t \in InTime(d)
  BY DEF SelectedAcquire, InTime
<1> DEFINE s == d.run.state
           l == d.run.lock
           B == Ahead(d.key, d.chosen, t)
           G == B \cap Gui
           H == {u \in Holding(l) : l[u].gui}
           W == Active(s) \cup B
<1>1. /\ Steady(s, d.run.queue, l) /\ d.chosen \subseteq ToSet(d.run.queue)
      /\ DOMAIN d.key = ToSet(d.run.queue) /\ IsSelection(d.run, d.key, d.chosen)
  BY DecisionType
<1>2. \A u \in d.chosen : u \in Tasks /\ u \notin Active(s) /\ ~l[u].held /\ u \notin Holding(l)
  BY <1>1 DEF Steady, Active, ActiveStates, Holding
<1>3. Admitted(d.run, B, t)
  BY <1>1 DEF IsSelection
<1>4. ~l[t].held /\ ~InConflict(Holding(l) \cup B, t)
  BY <1>2, <1>3 DEF Admitted, Available, InConflict
<1>5. ASSUME t \in Gui PROVE Cardinality(G) < Cardinality(FreeSlots(l))
  <2>1. Cardinality(Surface(W)) < GuiSlots
    BY <1>2, <1>3, <1>5 DEF Admitted, Surface
  <2>2. B \in SUBSET d.chosen /\ B \in SUBSET Tasks /\ Active(s) \in SUBSET Tasks
    BY <1>2 DEF Ahead, Active
  <2>3. IsFiniteSet(Surface(W)) /\ Cardinality(Surface(W)) \in Nat
    <3>1. Surface(W) \in SUBSET Tasks
      BY <2>2 DEF Surface
    <3> QED
      BY <3>1, FiniteTasks, FS_Subset, FS_CardinalityType
  <2>4. IsFiniteSet(G) /\ Cardinality(G) \in Nat
    BY <2>2, FiniteTasks, FS_Subset, FS_CardinalityType
  <2>5. /\ IsFiniteSet(H) /\ Cardinality(H) \in Nat
        /\ Cardinality(UsedSlots(l)) \in Nat /\ Cardinality(FreeSlots(l)) \in Nat
        /\ Cardinality(UsedSlots(l)) <= Cardinality(H)
        /\ Cardinality(FreeSlots(l)) = GuiSlots - Cardinality(UsedSlots(l))
    BY <1>1, SlotsLeft DEF Steady
  <2>6. CASE GuiChecked \subseteq Gui
    <3>1. H \cup G \in SUBSET Surface(W)
      <4>1. \A u \in H : u \in Gui /\ u \in Active(s)
        BY <1>1, <2>6 DEF Steady, Holding
      <4> QED
        BY <4>1 DEF Surface
    <3>2. H \cap G = {}
      BY <1>2, <2>2
    <3>3. IsFiniteSet(H \cup G) /\ Cardinality(H \cup G) = Cardinality(H) + Cardinality(G)
      <4>1. Cardinality(H \cap G) = 0
        BY <3>2, FS_EmptySet
      <4> HIDE DEF H, G
      <4>2. Cardinality(H \cup G) = Cardinality(H) + Cardinality(G) - Cardinality(H \cap G)
            /\ IsFiniteSet(H \cup G)
        BY <2>4, <2>5, FS_Union
      <4> QED
        BY <2>4, <2>5, <4>1, <4>2
    <3>4. Cardinality(H \cup G) <= Cardinality(Surface(W))
      BY <2>3, <3>1, FS_Subset
    <3> HIDE DEF H, G, W
    <3> QED
      BY <2>1, <2>3, <2>4, <2>5, <3>3, <3>4, CapacityAssumption
  <2>7. CASE GuiSlots = 1
    <3>1. Surface(W) = {}
      BY <2>1, <2>3, <2>7, FS_EmptySet
    <3>2. G = {}
      BY <3>1 DEF Surface
    <3>3. Cardinality(G) = 0
      BY <3>2, FS_EmptySet
    <3>4. Cardinality(UsedSlots(l)) < 1
      BY <1>3, <1>5, <2>7 DEF Admitted, Available
    <3> HIDE DEF G, l
    <3> QED
      BY <2>5, <2>7, <3>3, <3>4
  <2> QED
    BY <2>6, <2>7
<1>6. CanAcquire(l, B, Gui, t)
  BY <1>4, <1>5 DEF CanAcquire
<1> QED
  BY <1>6 DEF InTime

\* With one slot, or when only tasks that are driven through the screen are verified on it,
\* no task that the scheduler selects is refused its bundle: the race that stops the run as
\* inconsistent cannot happen.
THEOREM SelectedAcquireAlways ==
    ASSUME GuiSlots = 1 \/ GuiChecked \subseteq Gui
    PROVE  CapacitySpec => []SelectedAcquire
<1>1. CapacityInv => SelectedAcquire
  BY InvAgrees
<1> QED
  BY <1>1, CapacityInvAlways, PTL

-----------------------------------------------------------------------------
(* Claims                                                                    *)

\* What GlobMatches writes of a pattern s and a file f: m says which ends of the two fit.
Step(s, f, m, i, j) ==
    IF i > Len(s) THEN j > Len(f)
    ELSE IF s[i] = "**" THEN m[<<i + 1, j>>] \/ (j <= Len(f) /\ m[<<i, j + 1>>])
    ELSE j <= Len(f) /\ s[i] \in {"*", f[j]} /\ m[<<i + 1, j + 1>>]

\* The table of the ends that fit can be filled in, the shortest ends first.
LEMMA TableExists ==
    ASSUME NEW s, NEW f, Len(s) \in Nat, Len(f) \in Nat
    PROVE  \E m : m = [key \in (1..(Len(s) + 1)) \X (1..(Len(f) + 1)) |->
                      Step(s, f, m, key[1], key[2])]
<1> DEFINE S == Len(s)
           F == Len(f)
           A == 1..(S + 1)
           B == 1..(F + 1)
           far(i, j) == (S + 1 - i) + (F + 1 - j)
           Table(m) == m = [key \in A \X B |-> m[key]]
           Upto(m, k) == \A i \in A, j \in B : far(i, j) < k => m[<<i, j>>] = Step(s, f, m, i, j)
           Short == {k \in Nat : ~\E m : Table(m) /\ Upto(m, k)}
<1>1. S \in Nat /\ F \in Nat
  OBVIOUS
<1>2. \A i \in A, j \in B : far(i, j) \in 0..(S + F)
  BY <1>1
<1>3. Short = {}
  <2> SUFFICES ASSUME Short # {} PROVE FALSE
    OBVIOUS
  <2>1. Short \in SUBSET Nat
    OBVIOUS
  <2> HIDE DEF Short
  <2>2. PICK k \in Short : \A j \in Short : k <= j
    BY <2>1, LeastNumber
  <2>3. k \in Nat /\ ~\E m : Table(m) /\ Upto(m, k)
    BY <2>2 DEF Short
  <2>4. k # 0
    <3> SUFFICES ASSUME k = 0 PROVE FALSE
      OBVIOUS
    <3> DEFINE m == [p \in A \X B |-> TRUE]
    <3>1. Table(m)
      OBVIOUS
    <3>2. \A i \in A, j \in B : ~(far(i, j) < k)
      BY <1>2
    <3> HIDE DEF m, far, Table
    <3> QED
      BY <2>3, <3>1, <3>2
  <2>5. k - 1 \in Nat /\ k - 1 \notin Short
    BY <2>1, <2>2, <2>3, <2>4
  <2>6. PICK m : Table(m) /\ Upto(m, k - 1)
    BY <2>5 DEF Short
  <2> DEFINE n == [key \in A \X B |-> IF far(key[1], key[2]) = k - 1
                                        THEN Step(s, f, m, key[1], key[2]) ELSE m[key]]
  <2>7. Table(n)
    OBVIOUS
  <2>8. ASSUME NEW i \in A, NEW j \in B, far(i, j) < k PROVE n[<<i, j>>] = Step(s, f, n, i, j)
    <3>1. \A a \in A, b \in B :
             n[<<a, b>>] = IF far(a, b) = k - 1 THEN Step(s, f, m, a, b) ELSE m[<<a, b>>]
      <4> HIDE DEF far, A, B
      <4> QED
        OBVIOUS
    <3> HIDE DEF n
    <3>2. n[<<i, j>>] = IF far(i, j) = k - 1 THEN Step(s, f, m, i, j) ELSE m[<<i, j>>]
      BY <3>1
    <3>3. \A a \in A, b \in B : far(a, b) < k - 1 => n[<<a, b>>] = m[<<a, b>>]
      <4>1. \A a \in A, b \in B : far(a, b) \in Int
        BY <1>2
      <4> HIDE DEF far
      <4> QED
        BY <2>3, <3>1, <4>1
    <3>4. i <= S => i + 1 \in A /\ far(i + 1, j) < k - 1
      BY <1>1, <2>3, <2>8
    <3>5. j <= F => j + 1 \in B /\ far(i, j + 1) < k - 1
      BY <1>1, <2>3, <2>8
    <3>6. i <= S /\ j <= F => far(i + 1, j + 1) < k - 1
      BY <1>1, <2>3, <2>8
    <3> HIDE DEF far
    <3>7. Step(s, f, n, i, j) = Step(s, f, m, i, j)
      <4>1. i <= S => n[<<i + 1, j>>] = m[<<i + 1, j>>]
        BY <3>3, <3>4
      <4>2. j <= F => n[<<i, j + 1>>] = m[<<i, j + 1>>]
        BY <3>3, <3>5
      <4>3. i <= S /\ j <= F => n[<<i + 1, j + 1>>] = m[<<i + 1, j + 1>>]
        BY <3>3, <3>4, <3>5, <3>6
      <4> QED
        BY <1>1, <4>1, <4>2, <4>3 DEF Step
    <3>8. far(i, j) # k - 1 => far(i, j) < k - 1
      <4>1. far(i, j) \in Int
        BY <1>2
      <4> QED
        BY <2>3, <2>8, <4>1
    <3> QED
      BY <2>6, <3>2, <3>7, <3>8
  <2> HIDE DEF n, Table
  <2>9. Upto(n, k)
    BY <2>8
  <2> QED
    BY <2>3, <2>7, <2>9
<1>4. S + F + 1 \in Nat /\ S + F + 1 \notin Short
  <2> HIDE DEF Short
  <2> QED
    BY <1>1, <1>3
<1>5. PICK m : Table(m) /\ Upto(m, S + F + 1)
  BY <1>4
<1>6. \A i \in A, j \in B : m[<<i, j>>] = Step(s, f, m, i, j)
  <2>1. \A i \in A, j \in B : far(i, j) < S + F + 1
    BY <1>1, <1>2
  <2> HIDE DEF far
  <2> QED
    BY <1>5, <2>1
<1>7. m = [key \in A \X B |-> Step(s, f, m, key[1], key[2])]
  <2> HIDE DEF A, B
  <2>1. \A key \in A \X B : m[key] = Step(s, f, m, key[1], key[2])
    BY <1>6
  <2> QED
    BY <1>5, <2>1
<1> QED
  BY <1>7

\* The segments of s laid over those of f: cut[i] segments of f are used up by the first i.
Laid(s, f, cut) ==
    /\ cut \in [0..Len(s) -> 0..Len(f)]
    /\ cut[0] = 0 /\ cut[Len(s)] = Len(f)
    /\ \A i \in 1..Len(s) :
          IF s[i] = "**" THEN cut[i - 1] <= cut[i]
          ELSE cut[i] = cut[i - 1] + 1 /\ s[i] \in {"*", f[cut[i]]}

\* A pattern that can be laid over a file matches it.
LEMMA LaidMatches ==
    ASSUME NEW s, NEW f, Len(s) \in Nat, Len(f) \in Nat, NEW cut, Laid(s, f, cut)
    PROVE  GlobMatches(s, f)
<1> DEFINE S == Len(s)
           F == Len(f)
           A == 1..(S + 1)
           B == 1..(F + 1)
           m == CHOOSE m : m = [key \in A \X B |-> Step(s, f, m, key[1], key[2])]
<1>1. m = [key \in A \X B |-> Step(s, f, m, key[1], key[2])]
  BY TableExists
<1>2. GlobMatches(s, f) = m[<<1, 1>>]
  BY DEF GlobMatches, Step
<1> HIDE DEF m
<1>3. \A i \in A, j \in B : m[<<i, j>>] = Step(s, f, m, i, j)
  BY <1>1
<1>4. /\ S \in Nat /\ F \in Nat /\ \A i \in 0..S : cut[i] \in 0..F
      /\ cut[0] = 0 /\ cut[S] = F
      /\ \A i \in 1..S :
            IF s[i] = "**" THEN cut[i - 1] <= cut[i]
            ELSE cut[i] = cut[i - 1] + 1 /\ s[i] \in {"*", f[cut[i]]}
  BY DEF Laid
<1> DEFINE Unfit == {k \in 0..S : ~m[<<S + 1 - k, cut[S - k] + 1>>]}
<1>5. Unfit = {}
  <2> SUFFICES ASSUME Unfit # {} PROVE FALSE
    OBVIOUS
  <2>1. Unfit \in SUBSET Nat
    BY <1>4
  <2> HIDE DEF Unfit
  <2>2. PICK k \in Unfit : \A j \in Unfit : k <= j
    BY <2>1, LeastNumber
  <2>3. k \in 0..S /\ ~m[<<S + 1 - k, cut[S - k] + 1>>]
    BY <2>2 DEF Unfit
  <2>4. k # 0
    <3> SUFFICES ASSUME k = 0 PROVE FALSE
      OBVIOUS
    <3>1. ~m[<<S + 1, F + 1>>] /\ S + 1 \in A /\ F + 1 \in B
      BY <1>4, <2>3
    <3>2. Step(s, f, m, S + 1, F + 1)
      BY <1>4 DEF Step
    <3> QED
      BY <1>3, <3>1, <3>2
  <2> DEFINE i == S + 1 - k
  <2>5. i \in 1..S /\ i - 1 = S - k /\ k - 1 \in 0..S /\ S + 1 - (k - 1) = i + 1
        /\ S - (k - 1) = i
    BY <1>4, <2>3, <2>4
  <2>6. k - 1 \notin Unfit
    BY <2>1, <2>2, <2>3, <2>4
  <2>7. m[<<i + 1, cut[i] + 1>>] /\ ~m[<<i, cut[i - 1] + 1>>]
    BY <2>3, <2>5, <2>6 DEF Unfit
  <2> HIDE DEF i
  <2>8. /\ cut[i] \in 0..F /\ cut[i - 1] \in 0..F /\ i \in A
        /\ cut[i] + 1 \in B /\ cut[i - 1] + 1 \in B
    <3>1. i \in 0..S /\ i - 1 \in 0..S /\ i \in A
      BY <1>4, <2>5
    <3>2. cut[i] \in 0..F /\ cut[i - 1] \in 0..F
      BY <1>4, <3>1
    <3>3. \A x \in 0..F : x + 1 \in B
      BY <1>4
    <3> QED
      BY <3>1, <3>2, <3>3
  <2>9. CASE s[i] # "**"
    <3>1. cut[i] = cut[i - 1] + 1 /\ s[i] \in {"*", f[cut[i]]}
      BY <1>4, <2>5, <2>9
    <3>2. Step(s, f, m, i, cut[i])
      BY <2>5, <2>7, <2>8, <2>9, <3>1 DEF Step
    <3> QED
      BY <1>3, <2>7, <2>8, <3>1, <3>2
  <2>10. CASE s[i] = "**"
    <3> DEFINE a == cut[i - 1]
               b == cut[i]
               Left == {d \in Nat : d <= b - a /\ ~m[<<i, b + 1 - d>>]}
    <3>1. a <= b /\ a \in 0..F /\ b \in 0..F
      BY <1>4, <2>5, <2>8, <2>10
    <3> HIDE DEF a, b
    <3>2. b - a \in Left /\ Left \in SUBSET Nat
      <4>1. b - a \in Nat /\ b + 1 - (b - a) = a + 1
        BY <3>1
      <4> QED
        BY <2>7, <4>1 DEF a
    <3> HIDE DEF Left
    <3>3. PICK d \in Left : \A e \in Left : d <= e
      BY <3>2, LeastNumber
    <3>4. d \in Nat /\ d <= b - a /\ ~m[<<i, b + 1 - d>>]
      BY <3>3 DEF Left
    <3> DEFINE j == b + 1 - d
    <3>5. j \in B /\ j \in Int
      BY <3>1, <3>4
    <3>6. CASE d = 0
      <4>1. j = b + 1
        BY <3>1, <3>6
      <4>2. m[<<i + 1, j>>]
        BY <2>7, <4>1 DEF b
      <4> HIDE DEF j
      <4>3. Step(s, f, m, i, j)
        BY <2>5, <2>10, <4>2 DEF Step
      <4> QED
        BY <1>3, <2>8, <3>4, <3>5, <4>3 DEF j
    <3>7. CASE d # 0
      <4>1. d - 1 \in Nat /\ d - 1 <= b - a /\ d - 1 \notin Left /\ b + 1 - (d - 1) = j + 1
            /\ j <= F
        <5>1. a \in Int /\ b \in Int /\ F \in Int /\ b <= F /\ d \in Nat /\ d <= b - a
          BY <3>1, <3>4
        <5>2. d - 1 \in Nat /\ d - 1 < d /\ d - 1 <= b - a
          BY <5>1, <3>7
        <5>3. b + 1 - (d - 1) = j + 1 /\ j <= F
          BY <5>1, <5>2
        <5>4. d - 1 \notin Left
          BY <5>2, <3>3, <3>4
        <5> QED
          BY <5>2, <5>3, <5>4
      <4>2. m[<<i, j + 1>>]
        BY <4>1 DEF Left
      <4>3. ~m[<<i, j>>]
        BY <3>4
      <4> HIDE DEF j
      <4>4. Step(s, f, m, i, j)
        BY <2>5, <2>10, <4>1, <4>2 DEF Step
      <4> QED
        BY <1>3, <2>8, <3>5, <4>3, <4>4
    <3> QED
      BY <3>6, <3>7
  <2> QED
    BY <2>9, <2>10
<1>6. S \in 0..S /\ S \notin Unfit
  <2> HIDE DEF Unfit
  <2> QED
    BY <1>4, <1>5
<1>7. S + 1 - S = 1 /\ S - S = 0 /\ cut[0] + 1 = 1
  BY <1>4
<1>8. m[<<S + 1 - S, cut[S - S] + 1>>]
  BY <1>6
<1> QED
  BY <1>2, <1>7, <1>8

\* The segments that claims and files are made of.
Letters == Spelled \cup {"*", "**"}

\* The segments of a are the first ones of f.
Starts(a, f) == Len(a) <= Len(f) /\ \A i \in 1..Len(a) : a[i] = f[i]

\* A target lies within a directory that is a beginning of it.
LEMMA WithinStarts ==
    ASSUME NEW a \in Seq(Letters), NEW f \in Seq(Letters)
    PROVE  IsWithin(f, a) <=> Starts(a, f)
<1>1. Len(a) \in Nat /\ Len(f) \in Nat
  OBVIOUS
<1> SUFFICES ASSUME Len(a) <= Len(f)
             PROVE  SubSeq(f, 1, Len(a)) = a <=> \A i \in 1..Len(a) : a[i] = f[i]
  BY DEF IsWithin, Starts
<1> DEFINE b == SubSeq(f, 1, Len(a))
<1>2. b \in Seq(Letters) /\ Len(b) = Len(a) /\ \A i \in 1..Len(a) : b[i] = f[i]
  BY <1>1
<1> HIDE DEF b
<1>3. (\A i \in 1..Len(a) : a[i] = b[i]) => a = b
  BY <1>2
<1> QED
  BY <1>2, <1>3 DEF b

\* Of two beginnings of one file one is a beginning of the other.
LEMMA BeginningsNest ==
    ASSUME NEW a \in Seq(Letters), NEW b \in Seq(Letters), NEW f, Starts(a, f), Starts(b, f)
    PROVE  Nested(a, b)
<1>1. Len(a) \in Nat /\ Len(b) \in Nat
  OBVIOUS
<1>2. Starts(a, b) \/ Starts(b, a)
  BY <1>1 DEF Starts
<1> QED
  BY <1>2, WithinStarts DEF Nested

LEMMA SeqsAreSeqs ==
    ASSUME NEW S, NEW n \in Nat, NEW x \in SeqsUpTo(S, n)
    PROVE  x \in Seq(S)
<1>1. PICK k \in 0..n : x \in [1..k -> S]
  BY DEF SeqsUpTo
<1> QED
  BY <1>1

\* A claim's target is spelled by the letters there are, and folding keeps its length.
LEMMA FoldedTarget ==
    ASSUME NEW c \in Claim
    PROVE  /\ c.kind \in {"path", "directory", "glob"} /\ c.access \in Access
           /\ c.target \in Seq(Letters)
           /\ c.kind # "glob" => c.target \in Seq(Spelled)
           /\ Folded(c.target) \in Seq(Letters) /\ Len(Folded(c.target)) = Len(c.target)
           /\ \A i \in 1..Len(c.target) : Folded(c.target)[i] = Fold1(c.target[i])
<1>1. /\ c.kind \in {"path", "directory", "glob"} /\ c.access \in Access
      /\ \/ c.target \in SeqsUpTo(Spelled, MaxParts)
         \/ c.kind = "glob" /\ c.target \in SeqsUpTo(Spelled \cup {"*", "**"}, MaxParts)
  BY DEF Claim
<1>2. c.target \in Seq(Spelled) \/ (c.kind = "glob" /\ c.target \in Seq(Letters))
  BY <1>1, SeqsAreSeqs, ClaimsAssumption DEF Letters
<1>3. c.target \in Seq(Letters)
  BY <1>2 DEF Letters
<1> DEFINE t == c.target
           s == Folded(t)
<1>4. /\ t \in Seq(Letters) /\ DOMAIN t = 1..Len(t) /\ Len(t) \in Nat
      /\ \A i \in 1..Len(t) : t[i] \in Letters
  BY <1>3
<1>5. \A x \in Letters : Fold1(x) \in Letters
  BY ClaimsAssumption DEF Fold1, Letters, Spelled
<1> HIDE DEF t
<1>6. s = [i \in 1..Len(t) |-> Fold1(t[i])]
  BY <1>4 DEF Folded, Fold1
<1>7. s \in [1..Len(t) -> Letters]
  BY <1>4, <1>5, <1>6
<1> HIDE DEF s
<1>8. s \in Seq(Letters) /\ Len(s) = Len(t)
  BY <1>4, <1>7
<1>9. \A i \in 1..Len(t) : s[i] = Fold1(t[i])
  BY <1>6
<1> QED
  BY <1>1, <1>2, <1>3, <1>8, <1>9 DEF s, t

\* A file that a pattern can be laid over begins with the literal segments of the pattern.
LEMMA LaidStarts ==
    ASSUME NEW s \in Seq(Letters), NEW f \in Seq(Letters), NEW cut, Laid(s, f, cut)
    PROVE  StaticRoot(s) \in Seq(Letters) /\ Starts(StaticRoot(s), f)
<1> DEFINE magic == {i \in DOMAIN s : HasMagic(s[i])}
           n == IF magic = {} THEN Len(s) ELSE (CHOOSE i \in magic : \A j \in magic : i <= j) - 1
           S == Len(s)
           F == Len(f)
<1>1. StaticRoot(s) = SubSeq(s, 1, n)
  BY DEF StaticRoot
<1>2. S \in Nat /\ F \in Nat /\ DOMAIN s = 1..S
  OBVIOUS
<1>3. n \in 0..S /\ \A i \in 1..n : ~HasMagic(s[i])
  <2>1. CASE magic = {}
    BY <1>2, <2>1
  <2>2. CASE magic # {}
    <3> DEFINE i == CHOOSE i \in magic : \A j \in magic : i <= j
    <3>1. magic \in SUBSET Nat
      BY <1>2
    <3> HIDE DEF magic
    <3>2. \E a \in magic : \A j \in magic : a <= j
      BY <2>2, <3>1, LeastNumber
    <3>3. i \in magic /\ \A j \in magic : i <= j
      BY <3>2
    <3> HIDE DEF i
    <3>4. n = i - 1
      BY <2>2 DEF i
    <3>5. i \in 1..S
      BY <1>2, <3>3 DEF magic
    <3>6. \A j \in 1..(i - 1) : j \notin magic /\ j \in 1..S
      BY <3>3, <3>5
    <3> HIDE DEF n
    <3> QED
      BY <1>2, <3>4, <3>5, <3>6 DEF magic
  <2> QED
    BY <2>1, <2>2
<1> HIDE DEF n, magic
<1>4. /\ \A i \in 0..S : cut[i] \in 0..F
      /\ cut[0] = 0
      /\ \A i \in 1..S : s[i] # "**" => cut[i] = cut[i - 1] + 1 /\ s[i] \in {"*", f[cut[i]]}
  BY DEF Laid
<1>5. \A i \in 1..n : i \in 1..S /\ cut[i] = cut[i - 1] + 1 /\ s[i] = f[cut[i]]
  BY <1>2, <1>3, <1>4 DEF HasMagic
<1> DEFINE Off == {i \in 0..n : cut[i] # i}
<1>6. Off = {}
  <2> SUFFICES ASSUME Off # {} PROVE FALSE
    OBVIOUS
  <2>1. Off \in SUBSET Nat
    BY <1>3
  <2> HIDE DEF Off
  <2>2. PICK i \in Off : \A j \in Off : i <= j
    BY <2>1, LeastNumber
  <2>3. i \in 0..n /\ cut[i] # i
    BY <2>2 DEF Off
  <2>4. i # 0
    BY <1>4, <2>3
  <2>5. i - 1 \in 0..n /\ i - 1 \notin Off /\ i \in 1..n
    BY <1>3, <2>1, <2>2, <2>3, <2>4
  <2>6. cut[i - 1] = i - 1
    BY <2>5 DEF Off
  <2> QED
    BY <1>5, <2>3, <2>5, <2>6
<1>7. \A i \in 1..n : cut[i] = i /\ s[i] = f[i]
  <2> TAKE i \in 1..n
  <2>1. i \in 0..n /\ i \notin Off
    BY <1>3, <1>6
  <2>2. cut[i] = i
    BY <2>1
  <2> QED
    BY <1>5, <2>2
<1>8. n <= F
  <2>1. n \in 0..n /\ n \notin Off
    BY <1>3, <1>6
  <2>2. cut[n] = n
    BY <2>1
  <2> QED
    BY <1>2, <1>3, <1>4, <2>2
<1> DEFINE root == SubSeq(s, 1, n)
<1>9. root \in Seq(Letters) /\ Len(root) = n /\ \A i \in 1..n : root[i] = s[i]
  BY <1>2, <1>3
<1> HIDE DEF root
<1>10. Starts(root, f)
  BY <1>7, <1>8, <1>9 DEF Starts
<1> QED
  BY <1>1, <1>9, <1>10 DEF root

\* What it says of a file that a claim touches it.
LEMMA TouchedMeans ==
    ASSUME NEW c \in Claim, NEW f \in Touched(c)
    PROVE  /\ f \in Seq(Letters)
           /\ c.kind = "path" => f = Folded(c.target)
           /\ c.kind = "directory" => Starts(Folded(c.target), f)
           /\ c.kind = "glob" => /\ GlobMatches(Folded(c.target), f)
                                 /\ StaticRoot(Folded(c.target)) \in Seq(Letters)
                                 /\ Starts(StaticRoot(Folded(c.target)), f)
<1> DEFINE t == c.target
           s == Folded(t)
<1>1. f \in Files
      /\ CASE c.kind = "glob"      -> Named(t, f)
           [] c.kind = "path"      -> f = [i \in DOMAIN t |-> Fold1(t[i])]
           [] c.kind = "directory" -> Len(t) <= Len(f) /\ \A i \in DOMAIN t : Fold1(t[i]) = f[i]
  BY DEF Touched, FilesOf
<1>2. f \in Seq(Letters) /\ f \in Seq(Segment)
  <2>1. f \in Seq(Segment)
    BY <1>1, SeqsAreSeqs, ClaimsAssumption DEF Files
  <2> QED
    BY <2>1 DEF Letters, Spelled
<1>3. /\ c.kind \in {"path", "directory", "glob"} /\ t \in Seq(Letters)
      /\ s \in Seq(Letters) /\ Len(s) = Len(t)
      /\ \A i \in 1..Len(t) : s[i] = Fold1(t[i])
  BY FoldedTarget
<1>4. DOMAIN t = 1..Len(t) /\ Len(t) \in Nat /\ Len(f) \in Nat
  BY <1>2, <1>3
<1> HIDE DEF t, s
<1>5. ASSUME c.kind = "path" PROVE f = s
  <2>1. f = [i \in 1..Len(t) |-> Fold1(t[i])]
    BY <1>1, <1>4, <1>5
  <2>2. Len(f) = Len(s) /\ \A i \in 1..Len(s) : f[i] = s[i]
    BY <1>2, <1>3, <1>4, <2>1
  <2> QED
    BY <1>2, <1>3, <2>2
<1>6. ASSUME c.kind = "directory" PROVE Starts(s, f)
  BY <1>1, <1>3, <1>4, <1>6 DEF Starts
<1>7. ASSUME c.kind = "glob"
      PROVE  GlobMatches(s, f) /\ StaticRoot(s) \in Seq(Letters) /\ Starts(StaticRoot(s), f)
  <2>1. Named(t, f)
    BY <1>1, <1>7
  <2>2. PICK cut \in [0..Len(t) -> 0..Len(f)] :
            /\ cut[0] = 0 /\ cut[Len(t)] = Len(f)
            /\ \A i \in 1..Len(t) :
                  IF t[i] = "**" THEN cut[i - 1] <= cut[i]
                  ELSE /\ cut[i] = cut[i - 1] + 1
                       /\ t[i] = "*" \/ Fold1(t[i]) = f[cut[i]]
    BY <2>1 DEF Named
  <2>3. \A x \in Letters : /\ Fold1(x) = "**" <=> x = "**"
                           /\ x = "*" => Fold1(x) = "*"
    BY ClaimsAssumption DEF Fold1, Letters, Spelled
  <2>4. \A i \in 1..Len(t) : t[i] \in Letters
    BY <1>3
  <2>5. \A i \in 1..Len(s) :
            IF s[i] = "**" THEN cut[i - 1] <= cut[i]
            ELSE cut[i] = cut[i - 1] + 1 /\ s[i] \in {"*", f[cut[i]]}
    <3> TAKE i \in 1..Len(s)
    <3>1. i \in 1..Len(t) /\ s[i] = Fold1(t[i]) /\ t[i] \in Letters
      BY <1>3, <2>4
    <3> QED
      BY <2>2, <2>3, <3>1
  <2>6. Laid(s, f, cut)
    BY <1>3, <2>2, <2>5 DEF Laid
  <2>7. GlobMatches(s, f)
    BY <1>3, <1>4, <2>6, LaidMatches
  <2> QED
    BY <1>2, <1>3, <2>6, <2>7, LaidStarts
<1> QED
  BY <1>2, <1>5, <1>6, <1>7 DEF s, t

\* Whatever two claims are, however deep and however spelled: they conflict when they name
\* one file, unless both only read it.
THEOREM FailClosedAlways == ClaimsInit => FailClosed
<1> SUFFICES ASSUME ClaimsInit, Touched(left) \cap Touched(right) # {},
                    ~(left.access = "read" /\ right.access = "read")
             PROVE  ClaimsConflict(left, right)
  BY DEF FailClosed
<1>1. PICK f : f \in Touched(left) /\ f \in Touched(right)
  OBVIOUS
<1>2. left \in Claim /\ right \in Claim
  BY DEF ClaimsInit
<1> DEFINE s == Folded(left.target)
           t == Folded(right.target)
<1>3. /\ f \in Seq(Letters) /\ s \in Seq(Letters)
      /\ left.kind \in {"path", "directory", "glob"}
      /\ left.kind = "path" => f = s
      /\ left.kind = "directory" => Starts(s, f)
      /\ left.kind = "glob" => GlobMatches(s, f) /\ StaticRoot(s) \in Seq(Letters)
                               /\ Starts(StaticRoot(s), f)
  BY <1>1, <1>2, TouchedMeans, FoldedTarget
<1>4. /\ t \in Seq(Letters)
      /\ right.kind \in {"path", "directory", "glob"}
      /\ right.kind = "path" => f = t
      /\ right.kind = "directory" => Starts(t, f)
      /\ right.kind = "glob" => GlobMatches(t, f) /\ StaticRoot(t) \in Seq(Letters)
                                /\ Starts(StaticRoot(t), f)
  BY <1>1, <1>2, TouchedMeans, FoldedTarget
<1> HIDE DEF s, t
<1>5. TargetsOverlap(left.kind, s, right.kind, t)
  <2>1. CASE left.kind = "path"
    BY <1>3, <1>4, <2>1, WithinStarts DEF TargetsOverlap
  <2>2. CASE left.kind = "directory"
    <3>1. CASE right.kind = "path"
      BY <1>3, <1>4, <2>2, <3>1, WithinStarts DEF TargetsOverlap
    <3>2. CASE right.kind = "directory"
      BY <1>3, <1>4, <2>2, <3>2, BeginningsNest DEF TargetsOverlap
    <3>3. CASE right.kind = "glob"
      BY <1>3, <1>4, <2>2, <3>3, BeginningsNest DEF TargetsOverlap
    <3> QED
      BY <1>4, <3>1, <3>2, <3>3
  <2>3. CASE left.kind = "glob"
    <3>1. CASE right.kind = "path"
      BY <1>3, <1>4, <2>3, <3>1 DEF TargetsOverlap
    <3>2. CASE right.kind = "directory"
      BY <1>3, <1>4, <2>3, <3>2, BeginningsNest DEF TargetsOverlap
    <3>3. CASE right.kind = "glob"
      BY <1>3, <1>4, <2>3, <3>3, BeginningsNest DEF TargetsOverlap
    <3> QED
      BY <1>4, <3>1, <3>2, <3>3
  <2> QED
    BY <1>3, <2>1, <2>2, <2>3
<1>6. ClaimsMatch(left, right)
  BY <1>5 DEF ClaimsMatch, s, t
<1> QED
  BY <1>6 DEF ClaimsConflict
-----------------------------------------------------------------------------
(* Incidents: numbers and counting                                           *)

\* Of numbers up to b there is a last one.
LEMMA LastOne ==
    ASSUME NEW b \in Nat, NEW S \in SUBSET (1..b), S # {}
    PROVE  \E m \in S : \A k \in S : k <= m
<1>1. \A k \in S : k \in Nat /\ k <= b
  OBVIOUS
<1> DEFINE Up == {k \in Nat : k <= b /\ b - k \in S}
<1>2. Up # {}
  <2>1. PICK k \in S : TRUE
    OBVIOUS
  <2>2. b - k \in Up
    BY <1>1, <2>1
  <2> QED
    BY <2>2
<1>3. PICK u \in Up : \A k \in Up : u <= k
  <2>1. Up \in SUBSET Nat
    OBVIOUS
  <2> HIDE DEF Up
  <2> QED
    BY <1>2, <2>1, LeastNumber
<1>4. b - u \in S
  BY <1>3
<1>5. ASSUME NEW k \in S PROVE k <= b - u
  <2>1. b - k \in Up /\ k \in Nat
    BY <1>1, <1>5
  <2>2. u \in Nat /\ u <= b - k
    BY <1>3, <2>1
  <2> QED
    BY <2>1, <2>2
<1> QED
  BY <1>4, <1>5

\* A climb that keeps its footing at every step gets to the top.
LEMMA Climb ==
    ASSUME NEW n \in Nat, NEW P, NEW f, f[0] \in P,
           \A k \in 1..n : f[k - 1] \in P => f[k] \in P
    PROVE  \A k \in 0..n : f[k] \in P
<1> DEFINE Bad == {k \in 0..n : f[k] \notin P}
<1> SUFFICES ASSUME Bad # {} PROVE FALSE
  OBVIOUS
<1>0. Bad \in SUBSET Nat
  OBVIOUS
<1>1. PICK m \in Bad : \A k \in Bad : m <= k
  <2> HIDE DEF Bad
  <2> QED
    BY <1>0, LeastNumber
<1>2. m \in 1..n
  BY <1>1
<1>3. m - 1 \in 0..n /\ m - 1 \notin Bad
  BY <1>1, <1>2
<1>4. f[m - 1] \in P
  BY <1>3
<1> QED
  BY <1>1, <1>2, <1>4

\* What is computed step by step has a value at every step.
Stepwise(f, s, n, g) == f = [k \in 0..n |-> IF k = 0 THEN s ELSE g[<<k, f[k - 1]>>]]

\* A handler that goes over numbered things has its steps: the function of the fold exists.
LEMMA StepsExist ==
    ASSUME NEW n \in Nat, NEW P, NEW s \in P, NEW g \in [(1..n) \X P -> P]
    PROVE  \E f \in [0..n -> P] : Stepwise(f, s, n, g)
<1> DEFINE Upto(f, m) == \A k \in 0..m : f[k] = IF k = 0 THEN s ELSE g[<<k, f[k - 1]>>]
           Short == {m \in 0..n : ~\E f \in [0..n -> P] : Upto(f, m)}
<1>1. Short = {}
  <2> SUFFICES ASSUME Short # {} PROVE FALSE
    OBVIOUS
  <2>0. Short \in SUBSET Nat
    OBVIOUS
  <2> HIDE DEF Short
  <2>1. PICK m \in Short : \A k \in Short : m <= k
    BY <2>0, LeastNumber
  <2>2. m \in 0..n /\ ~\E f \in [0..n -> P] : Upto(f, m)
    BY <2>1 DEF Short
  <2>3. m # 0
    <3> SUFFICES ASSUME m = 0 PROVE FALSE
      OBVIOUS
    <3>1. [k \in 0..n |-> s] \in [0..n -> P] /\ Upto([k \in 0..n |-> s], 0)
      OBVIOUS
    <3> QED
      BY <2>2, <3>1
  <2>4. m - 1 \in 0..n /\ m - 1 \notin Short /\ m \in 1..n
    BY <2>0, <2>1, <2>2, <2>3
  <2>5. PICK f \in [0..n -> P] : Upto(f, m - 1)
    BY <2>4 DEF Short
  <2> DEFINE h == [f EXCEPT ![m] = g[<<m, f[m - 1]>>]]
  <2>6. h \in [0..n -> P]
    <3>1. g[<<m, f[m - 1]>>] \in P
      BY <2>4
    <3> QED
      BY <3>1
  <2>7. \A k \in 0..n : k # m => h[k] = f[k]
    OBVIOUS
  <2>8. h[m] = g[<<m, h[m - 1]>>]
    BY <2>4, <2>7
  <2> HIDE DEF h
  <2>9. Upto(h, m)
    <3> SUFFICES ASSUME NEW k \in 0..m PROVE h[k] = IF k = 0 THEN s ELSE g[<<k, h[k - 1]>>]
      OBVIOUS
    <3>1. CASE k = m
      BY <2>4, <2>8, <3>1
    <3>2. CASE k # m
      <4>1. k \in 0..(m - 1) /\ k \in 0..n /\ (k # 0 => k - 1 \in 0..n /\ k - 1 # m)
        BY <2>4, <3>2
      <4>2. f[k] = IF k = 0 THEN s ELSE g[<<k, f[k - 1]>>]
        BY <2>5, <4>1
      <4> QED
        BY <2>7, <3>2, <4>1, <4>2
    <3> QED
      BY <3>1, <3>2
  <2> QED
    BY <2>2, <2>6, <2>9
<1>2. n \in 0..n /\ n \notin Short
  <2> HIDE DEF Short
  <2> QED
    BY <1>1
<1>3. PICK f \in [0..n -> P] : Upto(f, n)
  BY <1>2
<1>4. f = [k \in 0..n |-> IF k = 0 THEN s ELSE g[<<k, f[k - 1]>>]]
  BY <1>3
<1> QED
  BY <1>4 DEF Stepwise

-----------------------------------------------------------------------------
(* The folds of the handlers                                                 *)

\* What each step of a fold keeps the fold keeps; for each of the loops that handlers run.
LEMMA RouteFold ==
    ASSUME NEW n \in Nat, NEW P, NEW s \in P,
           \A k \in 1..n : \A x \in P : RouteTicket(k, x) \in P
    PROVE  FoldUp(RouteTicket, s, n) \in P
<1> DEFINE g == [p \in (1..n) \X P |-> RouteTicket(p[1], p[2])]
           Is(f) == f = [k \in 0..n |-> IF k = 0 THEN s
                                     ELSE Then(LAMBDA x : RouteTicket(k, x), f[k - 1])]
           it == CHOOSE f : Is(f)
<1>1. PICK f \in [0..n -> P] : Stepwise(f, s, n, g)
  <2>1. g \in [(1..n) \X P -> P]
    OBVIOUS
  <2> HIDE DEF g
  <2> QED
    BY <2>1, StepsExist
<1>2. \A k, y : Then(LAMBDA x : RouteTicket(k, x), y) = RouteTicket(k, y)
  BY DEF Then
<1>3. Is(f)
  <2>1. \A k \in 1..n : f[k - 1] \in P /\ g[<<k, f[k - 1]>>] = RouteTicket(k, f[k - 1])
    OBVIOUS
  <2> HIDE DEF g
  <2>2. \A k \in 0..n : (IF k = 0 THEN s ELSE g[<<k, f[k - 1]>>]) =
            IF k = 0 THEN s ELSE Then(LAMBDA x : RouteTicket(k, x), f[k - 1])
    BY <1>2, <2>1 DEF Then
  <2> QED
    BY <1>1, <2>2 DEF Stepwise
<1>4. Is(it)
  BY <1>3
<1>5. it[n] \in P
  <2>1. it[0] = s /\ \A k \in 1..n : it[k] = RouteTicket(k, it[k - 1])
    <3> HIDE DEF it
    <3> QED
      BY <1>2, <1>4 DEF Then
  <2> HIDE DEF it
  <2>2. \A k \in 0..n : it[k] \in P
    BY <2>1, Climb
  <2> QED
    BY <2>2
<1> QED
  BY <1>5 DEF FoldUp

LEMMA OrphanFold ==
    ASSUME NEW n \in Nat, NEW P, NEW s \in P,
           \A k \in 1..n : \A x \in P : FileOrphanBlock(k, x) \in P
    PROVE  FoldUp(FileOrphanBlock, s, n) \in P
<1> DEFINE g == [p \in (1..n) \X P |-> FileOrphanBlock(p[1], p[2])]
           Is(f) == f = [k \in 0..n |-> IF k = 0 THEN s
                                     ELSE Then(LAMBDA x : FileOrphanBlock(k, x), f[k - 1])]
           it == CHOOSE f : Is(f)
<1>1. PICK f \in [0..n -> P] : Stepwise(f, s, n, g)
  <2>1. g \in [(1..n) \X P -> P]
    OBVIOUS
  <2> HIDE DEF g
  <2> QED
    BY <2>1, StepsExist
<1>2. \A k, y : Then(LAMBDA x : FileOrphanBlock(k, x), y) = FileOrphanBlock(k, y)
  BY DEF Then
<1>3. Is(f)
  <2>1. \A k \in 1..n : f[k - 1] \in P /\ g[<<k, f[k - 1]>>] = FileOrphanBlock(k, f[k - 1])
    OBVIOUS
  <2> HIDE DEF g
  <2>2. \A k \in 0..n : (IF k = 0 THEN s ELSE g[<<k, f[k - 1]>>]) =
            IF k = 0 THEN s ELSE Then(LAMBDA x : FileOrphanBlock(k, x), f[k - 1])
    BY <1>2, <2>1 DEF Then
  <2> QED
    BY <1>1, <2>2 DEF Stepwise
<1>4. Is(it)
  BY <1>3
<1>5. it[n] \in P
  <2>1. it[0] = s /\ \A k \in 1..n : it[k] = FileOrphanBlock(k, it[k - 1])
    <3> HIDE DEF it
    <3> QED
      BY <1>2, <1>4 DEF Then
  <2> HIDE DEF it
  <2>2. \A k \in 0..n : it[k] \in P
    BY <2>1, Climb
  <2> QED
    BY <2>2
<1> QED
  BY <1>5 DEF FoldUp

LEMMA HandFold ==
    ASSUME NEW n \in Nat, NEW P, NEW s \in P,
           \A k \in 1..n : \A x \in P : HandToOwner(k, x) \in P
    PROVE  FoldUp(HandToOwner, s, n) \in P
<1> DEFINE g == [p \in (1..n) \X P |-> HandToOwner(p[1], p[2])]
           Is(f) == f = [k \in 0..n |-> IF k = 0 THEN s
                                     ELSE Then(LAMBDA x : HandToOwner(k, x), f[k - 1])]
           it == CHOOSE f : Is(f)
<1>1. PICK f \in [0..n -> P] : Stepwise(f, s, n, g)
  <2>1. g \in [(1..n) \X P -> P]
    OBVIOUS
  <2> HIDE DEF g
  <2> QED
    BY <2>1, StepsExist
<1>2. \A k, y : Then(LAMBDA x : HandToOwner(k, x), y) = HandToOwner(k, y)
  BY DEF Then
<1>3. Is(f)
  <2>1. \A k \in 1..n : f[k - 1] \in P /\ g[<<k, f[k - 1]>>] = HandToOwner(k, f[k - 1])
    OBVIOUS
  <2> HIDE DEF g
  <2>2. \A k \in 0..n : (IF k = 0 THEN s ELSE g[<<k, f[k - 1]>>]) =
            IF k = 0 THEN s ELSE Then(LAMBDA x : HandToOwner(k, x), f[k - 1])
    BY <1>2, <2>1 DEF Then
  <2> QED
    BY <1>1, <2>2 DEF Stepwise
<1>4. Is(it)
  BY <1>3
<1>5. it[n] \in P
  <2>1. it[0] = s /\ \A k \in 1..n : it[k] = HandToOwner(k, it[k - 1])
    <3> HIDE DEF it
    <3> QED
      BY <1>2, <1>4 DEF Then
  <2> HIDE DEF it
  <2>2. \A k \in 0..n : it[k] \in P
    BY <2>1, Climb
  <2> QED
    BY <2>2
<1> QED
  BY <1>5 DEF FoldUp

LEMMA AnswerFold ==
    ASSUME NEW n \in Nat, NEW P, NEW s \in P,
           \A k \in 1..n : \A x \in P : AnswerEscalation(k, x) \in P
    PROVE  FoldUp(AnswerEscalation, s, n) \in P
<1> DEFINE g == [p \in (1..n) \X P |-> AnswerEscalation(p[1], p[2])]
           Is(f) == f = [k \in 0..n |-> IF k = 0 THEN s
                                     ELSE Then(LAMBDA x : AnswerEscalation(k, x), f[k - 1])]
           it == CHOOSE f : Is(f)
<1>1. PICK f \in [0..n -> P] : Stepwise(f, s, n, g)
  <2>1. g \in [(1..n) \X P -> P]
    OBVIOUS
  <2> HIDE DEF g
  <2> QED
    BY <2>1, StepsExist
<1>2. \A k, y : Then(LAMBDA x : AnswerEscalation(k, x), y) = AnswerEscalation(k, y)
  BY DEF Then
<1>3. Is(f)
  <2>1. \A k \in 1..n : f[k - 1] \in P /\ g[<<k, f[k - 1]>>] = AnswerEscalation(k, f[k - 1])
    OBVIOUS
  <2> HIDE DEF g
  <2>2. \A k \in 0..n : (IF k = 0 THEN s ELSE g[<<k, f[k - 1]>>]) =
            IF k = 0 THEN s ELSE Then(LAMBDA x : AnswerEscalation(k, x), f[k - 1])
    BY <1>2, <2>1 DEF Then
  <2> QED
    BY <1>1, <2>2 DEF Stepwise
<1>4. Is(it)
  BY <1>3
<1>5. it[n] \in P
  <2>1. it[0] = s /\ \A k \in 1..n : it[k] = AnswerEscalation(k, it[k - 1])
    <3> HIDE DEF it
    <3> QED
      BY <1>2, <1>4 DEF Then
  <2> HIDE DEF it
  <2>2. \A k \in 0..n : it[k] \in P
    BY <2>1, Climb
  <2> QED
    BY <2>2
<1> QED
  BY <1>5 DEF FoldUp

LEMMA CloseFold ==
    ASSUME NEW P, NEW s \in P, NEW S, NEW n \in Nat, n = Len(Tickets(s)),
           \A k \in 1..n : \A x \in P : CloseOne(k, x, S) \in P
    PROVE  Closed(s, S) \in P
<1> DEFINE g == [p \in (1..n) \X P |-> CloseOne(p[1], p[2], S)]
           Is(f) == f = [k \in 0..n |-> IF k = 0 THEN s
                                     ELSE Then(LAMBDA x : CloseOne(k, x, S), f[k - 1])]
           it == CHOOSE f : Is(f)
<1>1. PICK f \in [0..n -> P] : Stepwise(f, s, n, g)
  <2>1. g \in [(1..n) \X P -> P]
    OBVIOUS
  <2> HIDE DEF g
  <2> QED
    BY <2>1, StepsExist
<1>2. \A k, y : Then(LAMBDA x : CloseOne(k, x, S), y) = CloseOne(k, y, S)
  BY DEF Then
<1>3. Is(f)
  <2>1. \A k \in 1..n : f[k - 1] \in P /\ g[<<k, f[k - 1]>>] = CloseOne(k, f[k - 1], S)
    OBVIOUS
  <2> HIDE DEF g
  <2>2. \A k \in 0..n : (IF k = 0 THEN s ELSE g[<<k, f[k - 1]>>]) =
            IF k = 0 THEN s ELSE Then(LAMBDA x : CloseOne(k, x, S), f[k - 1])
    BY <1>2, <2>1 DEF Then
  <2> QED
    BY <1>1, <2>2 DEF Stepwise
<1>4. Is(it)
  BY <1>3
<1>5. it[n] \in P
  <2>1. it[0] = s /\ \A k \in 1..n : it[k] = CloseOne(k, it[k - 1], S)
    <3> HIDE DEF it
    <3> QED
      BY <1>2, <1>4 DEF Then
  <2> HIDE DEF it
  <2>2. \A k \in 0..n : it[k] \in P
    BY <2>1, Climb
  <2> QED
    BY <2>2
<1> QED
  BY <1>5 DEF FoldUp, Closed

-----------------------------------------------------------------------------
(* Journals and run states                                                   *)

\* The journals and run states of the model, and of a ticket what its phase says of it.
Journals == [tickets : Seq(Ticket), slot : Nat, learned : 0..PromotionThreshold]

RunStates == [task : [Task -> TaskState], oncall : [ticket : 0..MaxTickets, alive : BOOLEAN],
              lost : [1..MaxTickets -> 0..MaxLostEngineers], granted : SUBSET Task]

Ok(ticket) ==
    /\ ticket.answered => ticket.closed /\ ticket.phase = "RESOLVED"
    /\ ticket.closed => ticket.phase \in {"RESOLVED", "RECOVERED", "ESCALATE_TO_USER"}
    /\ ticket.asked => ticket.phase \in {"RESOLVED", "ESCALATE_TO_USER"}

Alike(j, i, k) == j.tickets[k].kind = j.tickets[i].kind /\ j.tickets[k].task = j.tickets[i].task

\* The tickets of the i-th's stop before it, since she last decided on one of them.
Since(j, i) ==
    {k \in 1..(i - 1) :
        /\ Alike(j, i, k) /\ ~AnsweredByHer(j.tickets[k])
        /\ \A m \in (k + 1)..(i - 1) : Alike(j, i, m) => ~AnsweredByHer(j.tickets[m])}

Count(j, i) == Cardinality(Since(j, i))

\* A ticket of a stop is filed when those before it are closed.
Counted(j, n, i) ==
    /\ \A k \in 1..(i - 1) : Alike(j, i, k) => j.tickets[k].closed
    /\ Count(j, i) <= MaxRepeatedStops + n

\* One that the engineer may close, or has closed, is not the third.
Tight(j, n, i) ==
    /\ ~j.tickets[i].asked => Count(j, i) <= MaxRepeatedStops - 1 + n
    /\ j.tickets[i].closed /\ ~j.tickets[i].answered => Count(j, i) <= MaxRepeatedStops - 1 + n

Proper(j) ==
    /\ j \in Journals /\ Len(j.tickets) <= MaxTickets /\ j.slot \in 0..Len(j.tickets)
    /\ \A i \in DOMAIN j.tickets : Ok(j.tickets[i])

\* n processes have died; f is the ticket that is being filed.
BoundedBesides(j, n, f) ==
    /\ Proper(j)
    /\ \A i \in DOMAIN j.tickets : IsStop(j.tickets[i].kind) =>
           Counted(j, n, i) /\ (i # f => Tight(j, n, i))

Bounded(j, n) == BoundedBesides(j, n, 0)

\* What she answered in j0 stands in j.
Stands(j0, j) ==
    /\ Len(j0.tickets) <= Len(j.tickets)
    /\ \A i \in DOMAIN j0.tickets : j0.tickets[i].answered => j.tickets[i] = j0.tickets[i]

\* The engineer of the run is on a ticket of the journal that has not lost two.
Fits(j, r) ==
    /\ r \in RunStates /\ r.oncall.ticket <= Len(j.tickets)
    /\ r.oncall.alive => r.oncall.ticket # None
    /\ r.oncall.ticket # None => r.lost[r.oncall.ticket] < MaxLostEngineers

\* The states of a handler that began with the journal j0.
SoundBesides(j0, n, f) ==
    {s \in [j : Journals, cuts : SUBSET Journals, r : RunStates] :
        /\ BoundedBesides(s.j, n, f) /\ Stands(j0, s.j) /\ Fits(s.j, s.r)
        /\ \A c \in s.cuts : Bounded(c, n + 1) /\ Stands(j0, c)}

Sound(j0, n) == SoundBesides(j0, n, 0)

-----------------------------------------------------------------------------
(* What may become of a ticket                                               *)

\* A ticket keeps its stop; what she answered, and that it was put to her, stays; an engineer
\* closes none that is hers.
Moves(old, new) ==
    /\ new \in Ticket /\ Ok(new)
    /\ new.kind = old.kind /\ new.task = old.task
    /\ old.closed => new.closed /\ new.answered = old.answered
    /\ old.answered => new = old
    /\ old.asked => new.asked
    /\ new.closed /\ ~new.answered => old.closed \/ ~old.asked

\* The tickets counted are some of those before.
LEMMA CountType ==
    ASSUME NEW j, NEW i \in Nat
    PROVE  Since(j, i) \in SUBSET (1..(i - 1)) /\ IsFiniteSet(Since(j, i)) /\ Count(j, i) \in Nat
<1>1. Since(j, i) \in SUBSET (1..(i - 1))
  BY DEF Since
<1>2. IsFiniteSet(1..(i - 1))
  BY FS_Interval
<1>3. IsFiniteSet(Since(j, i))
  BY <1>1, <1>2, FS_Subset
<1> QED
  BY <1>1, <1>3, FS_CardinalityType DEF Count

\* Whatever becomes of the tickets, as much is counted.
LEMMA MovesCount ==
    ASSUME NEW j \in Journals, NEW j2 \in Journals, Len(j2.tickets) = Len(j.tickets),
           \A k \in DOMAIN j.tickets : Moves(j.tickets[k], j2.tickets[k]),
           NEW i \in DOMAIN j.tickets,
           \A k \in 1..(i - 1) : Alike(j, i, k) => j.tickets[k].closed
    PROVE  /\ Since(j2, i) = Since(j, i)
           /\ \A k \in 1..(i - 1) : Alike(j2, i, k) => j2.tickets[k].closed
<1>1. DOMAIN j.tickets = 1..Len(j.tickets) /\ Len(j.tickets) \in Nat
  BY DEF Journals
<1>2. \A k \in 1..(i - 1) : k \in DOMAIN j.tickets
  BY <1>1
<1>3. \A k \in 1..(i - 1) : Alike(j2, i, k) <=> Alike(j, i, k)
  BY <1>2 DEF Alike, Moves
<1>4. \A k \in 1..(i - 1) : Alike(j, i, k) =>
          (AnsweredByHer(j2.tickets[k]) <=> AnsweredByHer(j.tickets[k]))
  BY <1>2 DEF AnsweredByHer, Moves
<1>5. \A k \in 1..(i - 1) : \A m \in (k + 1)..(i - 1) : m \in 1..(i - 1)
  BY <1>1
<1> QED
  BY <1>2, <1>3, <1>4, <1>5 DEF Since, Moves

\* A journal whose tickets moved is bounded as before, and what she answered stands.
LEMMA MovesKeep ==
    ASSUME NEW n \in Nat, NEW f, NEW j, BoundedBesides(j, n, f),
           NEW j2 \in Journals, Len(j2.tickets) = Len(j.tickets), j2.slot \in 0..Len(j.tickets),
           \A k \in DOMAIN j.tickets : Moves(j.tickets[k], j2.tickets[k])
    PROVE  BoundedBesides(j2, n, f) /\ Stands(j, j2)
<1>1. /\ j \in Journals /\ DOMAIN j.tickets = 1..Len(j.tickets) /\ Len(j.tickets) \in Nat
      /\ DOMAIN j2.tickets = DOMAIN j.tickets /\ Len(j.tickets) <= MaxTickets
      /\ \A k \in DOMAIN j.tickets : j.tickets[k] \in Ticket
  BY DEF BoundedBesides, Proper, Journals
<1>2. Proper(j2)
  BY <1>1 DEF Proper, Moves
<1>3. Stands(j, j2)
  BY <1>1 DEF Stands, Moves
<1>4. ASSUME NEW i \in DOMAIN j.tickets, IsStop(j2.tickets[i].kind)
      PROVE  Counted(j2, n, i) /\ (i # f => Tight(j2, n, i))
  <2>1. IsStop(j.tickets[i].kind)
    BY <1>4 DEF Moves, IsStop
  <2>2. Counted(j, n, i) /\ (i # f => Tight(j, n, i))
    BY <2>1 DEF BoundedBesides
  <2>3. Since(j2, i) = Since(j, i) /\ \A k \in 1..(i - 1) : Alike(j2, i, k) => j2.tickets[k].closed
    BY <1>1, <2>2, MovesCount DEF Counted
  <2>4. Counted(j2, n, i)
    BY <2>2, <2>3 DEF Counted, Count
  <2>5. Tight(j, n, i) => Tight(j2, n, i)
    <3>1. Moves(j.tickets[i], j2.tickets[i]) /\ Count(j2, i) = Count(j, i)
      BY <2>3 DEF Count
    <3>2. j.tickets[i] \in Ticket /\ j2.tickets[i] \in Ticket
      BY <1>1, <3>1 DEF Moves
    <3> QED
      BY <3>1, <3>2 DEF Tight, Moves, Ticket
  <2> QED
    BY <2>2, <2>4, <2>5
<1> QED
  BY <1>1, <1>2, <1>3, <1>4 DEF BoundedBesides

\* A ticket is filed: those before it are counted, at most two more than processes died.
LEMMA FreshKeeps ==
    ASSUME NEW n \in Nat, NEW j, Bounded(j, n), Len(j.tickets) < MaxTickets,
           NEW ticket \in Ticket, Ok(ticket),
           IsStop(ticket.kind) =>
               \A k \in DOMAIN j.tickets :
                   j.tickets[k].kind = ticket.kind /\ j.tickets[k].task = ticket.task
                       => j.tickets[k].closed,
           NEW j2, j2 = [j EXCEPT !.tickets = Append(@, ticket)]
    PROVE  /\ BoundedBesides(j2, n, Len(j.tickets) + 1) /\ Stands(j, j2)
           /\ Len(j2.tickets) = Len(j.tickets) + 1 /\ j2.tickets[Len(j.tickets) + 1] = ticket
<1> DEFINE len == Len(j.tickets)
           f == len + 1
<1>1. /\ j \in Journals /\ DOMAIN j.tickets = 1..len /\ len \in Nat /\ j.slot \in 0..len
      /\ j.tickets \in Seq(Ticket) /\ \A k \in 1..len : j.tickets[k] \in Ticket
  BY DEF Bounded, BoundedBesides, Proper, Journals
<1>2. /\ j2 \in Journals /\ j2.tickets = Append(j.tickets, ticket) /\ j2.slot = j.slot
      /\ Len(j2.tickets) = f /\ DOMAIN j2.tickets = 1..f
  <2>1. j2.tickets = Append(j.tickets, ticket) /\ j2.slot = j.slot
    BY <1>1 DEF Journals
  <2>2. Append(j.tickets, ticket) \in Seq(Ticket) /\ Len(Append(j.tickets, ticket)) = f
    BY <1>1
  <2>3. DOMAIN Append(j.tickets, ticket) = 1..f
    BY <2>2
  <2>4. j2 \in Journals
    BY <1>1, <2>2 DEF Journals
  <2> QED
    BY <2>1, <2>2, <2>3, <2>4
<1>3. j2.tickets[f] = ticket /\ \A k \in 1..len : j2.tickets[k] = j.tickets[k]
  BY <1>1, <1>2
<1>4. \A i \in 1..len : i # f /\ 1..(i - 1) \subseteq 1..len
  BY <1>1
<1>5. \A i \in 1..f : i = f \/ i \in 1..len
  BY <1>1
<1>6. 1..(f - 1) = 1..len /\ f \in 1..f /\ f \in Nat
  BY <1>1
<1>7. f <= MaxTickets
  BY <1>1, IncidentsAssumption
<1> HIDE DEF f
<1>8. Proper(j2)
  <2>1. \A i \in 1..len : Ok(j.tickets[i])
    BY <1>1 DEF Bounded, BoundedBesides, Proper
  <2>2. j2.slot \in 0..f
    BY <1>1, <1>2 DEF f
  <2> QED
    BY <1>2, <1>3, <1>5, <1>7, <2>1, <2>2 DEF Proper
<1>9. Stands(j, j2)
  BY <1>1, <1>2, <1>3 DEF Stands, f
<1>10. \A i \in 1..len : Since(j2, i) = Since(j, i)
  <2> TAKE i \in 1..len
  <2>1. \A k \in 1..(i - 1) : j2.tickets[k] = j.tickets[k] /\ (Alike(j2, i, k) <=> Alike(j, i, k))
    BY <1>3, <1>4 DEF Alike
  <2>2. \A k \in 1..(i - 1) : \A m \in (k + 1)..(i - 1) : m \in 1..(i - 1)
    BY <1>1
  <2> QED
    BY <2>1, <2>2 DEF Since
<1>11. ASSUME NEW i \in 1..len, IsStop(j2.tickets[i].kind)
       PROVE  Counted(j2, n, i) /\ Tight(j2, n, i)
  <2>1. IsStop(j.tickets[i].kind)
    BY <1>3, <1>11
  <2>2. Counted(j, n, i) /\ Tight(j, n, i)
    BY <1>1, <2>1 DEF Bounded, BoundedBesides
  <2>3. Count(j2, i) = Count(j, i)
    BY <1>10 DEF Count
  <2>4. \A k \in 1..(i - 1) : Alike(j2, i, k) => Alike(j, i, k) /\ j2.tickets[k] = j.tickets[k]
    BY <1>3, <1>4 DEF Alike
  <2> QED
    BY <1>3, <2>2, <2>3, <2>4 DEF Counted, Tight
<1>12. ASSUME IsStop(ticket.kind) PROVE Counted(j2, n, f)
  <2>1. ASSUME NEW k \in 1..(f - 1), Alike(j2, f, k) PROVE j2.tickets[k].closed
    BY <1>1, <1>3, <1>6, <1>12, <2>1 DEF Alike
  <2>2. Count(j2, f) <= MaxRepeatedStops + n
    <3>1. /\ Since(j2, f) \in SUBSET (1..len) /\ IsFiniteSet(Since(j2, f))
          /\ Count(j2, f) = Cardinality(Since(j2, f))
      BY <1>6, CountType DEF Count
    <3>2. CASE Since(j2, f) = {}
      BY <3>1, <3>2, FS_EmptySet DEF MaxRepeatedStops
    <3>3. CASE Since(j2, f) # {}
      <4>1. PICK p \in Since(j2, f) : \A k \in Since(j2, f) : k <= p
        BY <1>1, <3>1, <3>3, LastOne
      <4>2. p \in 1..len /\ Alike(j2, f, p) /\ ~AnsweredByHer(j2.tickets[p])
        BY <3>1 DEF Since
      <4>3. j.tickets[p].kind = ticket.kind /\ j.tickets[p].task = ticket.task /\ j.tickets[p].closed
        BY <1>1, <1>3, <1>12, <4>2 DEF Alike
      <4>4. Count(j, p) <= MaxRepeatedStops - 1 + n
        <5>1. Tight(j, n, p)
          BY <1>1, <1>4, <1>12, <4>2, <4>3 DEF Bounded, BoundedBesides
        <5>2. ~j.tickets[p].answered \/ ~j.tickets[p].asked
          BY <1>3, <4>2, <4>3 DEF AnsweredByHer
        <5> QED
          BY <4>3, <5>1, <5>2 DEF Tight
      <4>5. Since(j2, f) \ {p} \in SUBSET Since(j, p)
        <5> SUFFICES ASSUME NEW k \in Since(j2, f), k # p PROVE k \in Since(j, p)
          OBVIOUS
        <5>0. k # p
          OBVIOUS
        <5>1. k \in 1..len /\ k \in 1..(p - 1)
          <6>1. k \in 1..len /\ k <= p /\ p \in 1..len
            BY <3>1, <4>1, <4>2
          <6> QED
            BY <1>1, <5>0, <6>1
        <5>2. Alike(j, p, k) /\ ~AnsweredByHer(j.tickets[k])
          BY <1>3, <4>2, <5>1 DEF Since, Alike
        <5>3. ASSUME NEW m \in (k + 1)..(p - 1), Alike(j, p, m)
              PROVE  ~AnsweredByHer(j.tickets[m])
          <6>1. m \in 1..len /\ m \in (k + 1)..(f - 1)
            BY <1>1, <1>6, <4>2, <5>1 DEF f
          <6>2. Alike(j2, f, m)
            BY <1>3, <4>2, <5>3, <6>1 DEF Alike
          <6> QED
            BY <1>3, <6>1, <6>2 DEF Since
        <5> QED
          BY <5>1, <5>2, <5>3 DEF Since
      <4>6. IsFiniteSet(Since(j, p)) /\ Cardinality(Since(j, p)) = Count(j, p) /\ Count(j, p) \in Nat
        BY <4>2, CountType DEF Count
      <4>7. Cardinality(Since(j2, f) \ {p}) <= Count(j, p)
        BY <4>5, <4>6, FS_Subset
      <4>8. /\ Cardinality(Since(j2, f) \ {p}) = Cardinality(Since(j2, f)) - 1
            /\ Cardinality(Since(j2, f)) \in Nat
        BY <3>1, FS_RemoveElement, FS_CardinalityType
      <4> QED
        BY <3>1, <4>4, <4>6, <4>7, <4>8 DEF MaxRepeatedStops
    <3> QED
      BY <3>2, <3>3
  <2> QED
    BY <2>1, <2>2 DEF Counted
<1>13. BoundedBesides(j2, n, f)
  BY <1>2, <1>3, <1>5, <1>8, <1>11, <1>12 DEF BoundedBesides
<1> QED
  BY <1>2, <1>3, <1>9, <1>13 DEF f

-----------------------------------------------------------------------------
(* The steps of a handler                                                    *)

\* One more death leaves room for one more ticket.
LEMMA Looser ==
    ASSUME NEW n \in Nat, NEW f \in Nat, NEW j, BoundedBesides(j, n, f)
    PROVE  Bounded(j, n + 1)
<1>1. DOMAIN j.tickets = 1..Len(j.tickets) /\ Len(j.tickets) \in Nat
  BY DEF BoundedBesides, Proper, Journals
<1>2. ASSUME NEW i \in DOMAIN j.tickets, IsStop(j.tickets[i].kind)
      PROVE  Counted(j, n + 1, i) /\ Tight(j, n + 1, i)
  <2>1. Counted(j, n, i)
    BY <1>2 DEF BoundedBesides
  <2>2. Count(j, i) \in Nat
    BY <1>1, CountType
  <2> QED
    BY <2>1, <2>2 DEF Counted, Tight, MaxRepeatedStops
<1> QED
  BY <1>2 DEF Bounded, BoundedBesides

\* The filing is over: the ticket is not the third, or it is hers.
LEMMA Filed ==
    ASSUME NEW n \in Nat, NEW f \in Nat, NEW j, BoundedBesides(j, n, f),
           \/ f \notin DOMAIN j.tickets
           \/ ~IsStop(j.tickets[f].kind)
           \/ Count(j, f) < MaxRepeatedStops
           \/ j.tickets[f].asked /\ ~j.tickets[f].closed
    PROVE  Bounded(j, n)
<1>1. ASSUME f \in DOMAIN j.tickets, IsStop(j.tickets[f].kind) PROVE Tight(j, n, f)
  <2>1. CASE Count(j, f) < MaxRepeatedStops
    <3>1. Count(j, f) \in Nat
      BY CountType
    <3> QED
      BY <2>1, <3>1 DEF Tight, MaxRepeatedStops
  <2>2. CASE j.tickets[f].asked /\ ~j.tickets[f].closed
    BY <2>2 DEF Tight
  <2> QED
    BY <1>1, <2>1, <2>2
<1> QED
  BY <1>1 DEF Bounded, BoundedBesides

\* What the states of a handler are made of.
LEMMA SoundType ==
    ASSUME NEW n, NEW f, NEW j0, NEW s \in SoundBesides(j0, n, f)
    PROVE  /\ s.j \in Journals /\ s.cuts \in SUBSET Journals /\ s.r \in RunStates
           /\ s \in [j : Journals, cuts : SUBSET Journals, r : RunStates]
           /\ Len(s.j.tickets) \in Nat /\ DOMAIN s.j.tickets = 1..Len(s.j.tickets)
           /\ Len(s.j.tickets) <= MaxTickets /\ s.j.slot \in 0..Len(s.j.tickets)
           /\ \A i \in DOMAIN s.j.tickets : s.j.tickets[i] \in Ticket /\ Ok(s.j.tickets[i])
           /\ s.j = [tickets |-> s.j.tickets, slot |-> s.j.slot, learned |-> s.j.learned]
           /\ BoundedBesides(s.j, n, f) /\ Stands(j0, s.j) /\ Fits(s.j, s.r)
           /\ \A c \in s.cuts : Bounded(c, n + 1) /\ Stands(j0, c)
<1>1. s \in [j : Journals, cuts : SUBSET Journals, r : RunStates] /\ BoundedBesides(s.j, n, f)
  BY DEF SoundBesides
<1>2. Proper(s.j)
  BY <1>1 DEF BoundedBesides
<1>3. s.j \in Journals /\ s.j.tickets \in Seq(Ticket)
  BY <1>1 DEF Journals
<1>4. /\ Len(s.j.tickets) \in Nat /\ DOMAIN s.j.tickets = 1..Len(s.j.tickets)
      /\ \A i \in DOMAIN s.j.tickets : s.j.tickets[i] \in Ticket
  BY <1>3
<1>5. s.j = [tickets |-> s.j.tickets, slot |-> s.j.slot, learned |-> s.j.learned]
  BY <1>3 DEF Journals
<1>6. Stands(j0, s.j) /\ Fits(s.j, s.r) /\ \A c \in s.cuts : Bounded(c, n + 1) /\ Stands(j0, c)
  BY DEF SoundBesides
<1> QED
  BY <1>1, <1>2, <1>3, <1>4, <1>5, <1>6 DEF Proper

\* What she answered stands through several writes.
LEMMA StandsOn ==
    ASSUME NEW j0, NEW j1, NEW j2, Stands(j0, j1), Stands(j1, j2),
           Len(j0.tickets) \in Nat, Len(j1.tickets) \in Nat, Len(j2.tickets) \in Nat,
           DOMAIN j0.tickets = 1..Len(j0.tickets), DOMAIN j1.tickets = 1..Len(j1.tickets)
    PROVE  Stands(j0, j2)
<1>1. \A i \in DOMAIN j0.tickets : i \in DOMAIN j1.tickets
  BY DEF Stands
<1> QED
  BY <1>1 DEF Stands

\* The journal is written, and what is answered stands in what is written.
LEMMA WroteKeeps ==
    ASSUME NEW n \in Nat, NEW f, NEW j0 \in Journals, NEW s \in SoundBesides(j0, n, f),
           NEW g \in Nat, NEW j2 \in Journals, BoundedBesides(j2, n, g), Stands(s.j, j2)
    PROVE  /\ Wrote(s, j2) \in SoundBesides(j0, n, g)
           /\ Wrote(s, j2).j = j2 /\ Wrote(s, j2).r = s.r
<1> DEFINE w == Wrote(s, j2)
<1>1. /\ w \in [j : Journals, cuts : SUBSET Journals, r : RunStates]
      /\ w.j = j2 /\ w.cuts = s.cuts \cup {j2} /\ w.r = s.r
  <2>1. s \in [j : Journals, cuts : SUBSET Journals, r : RunStates]
    BY SoundType
  <2> QED
    BY <2>1 DEF Wrote
<1> HIDE DEF w
<1>2. /\ Len(j0.tickets) \in Nat /\ DOMAIN j0.tickets = 1..Len(j0.tickets)
      /\ Len(j2.tickets) \in Nat
  BY DEF Journals
<1>3. Stands(j0, j2)
  <2>1. /\ Stands(j0, s.j) /\ Len(s.j.tickets) \in Nat
        /\ DOMAIN s.j.tickets = 1..Len(s.j.tickets)
    BY SoundType
  <2> QED
    BY <1>2, <2>1, StandsOn
<1>4. Fits(j2, s.r)
  <2>1. Len(s.j.tickets) <= Len(j2.tickets) /\ Fits(s.j, s.r) /\ Len(s.j.tickets) \in Nat
    BY SoundType DEF Stands
  <2>2. s.r.oncall.ticket \in Nat
    BY <2>1, IncidentsAssumption DEF Fits, RunStates
  <2> QED
    BY <1>2, <2>1, <2>2 DEF Fits
<1>5. Bounded(j2, n + 1)
  BY Looser
<1>6. \A c \in s.cuts \cup {j2} : Bounded(c, n + 1) /\ Stands(j0, c)
  BY <1>3, <1>5, SoundType
<1>7. w \in SoundBesides(j0, n, g)
  BY <1>1, <1>3, <1>4, <1>6 DEF SoundBesides
<1> QED
  BY <1>1, <1>7 DEF w

\* A transaction that moves tickets is as good as the journal it is written over.
LEMMA WroteMoves ==
    ASSUME NEW n \in Nat, NEW f \in Nat, NEW j0 \in Journals, NEW s \in SoundBesides(j0, n, f),
           NEW j2 \in Journals, Len(j2.tickets) = Len(s.j.tickets),
           j2.slot \in 0..Len(s.j.tickets),
           \A k \in DOMAIN s.j.tickets : Moves(s.j.tickets[k], j2.tickets[k])
    PROVE  /\ Wrote(s, j2) \in SoundBesides(j0, n, f)
           /\ Wrote(s, j2).j = j2 /\ Wrote(s, j2).r = s.r
<1>1. BoundedBesides(j2, n, f) /\ Stands(s.j, j2)
  BY SoundType, MovesKeep
<1> QED
  BY <1>1, WroteKeeps

\* A ticket that nobody touches moves nowhere.
LEMMA StaysPut == ASSUME NEW ticket \in Ticket, Ok(ticket) PROVE Moves(ticket, ticket)
BY DEF Moves

\* Replacing an element of a sequence by another of the same set.
LEMMA SetKeepsType ==
    ASSUME NEW T, NEW t \in Seq(T), NEW i \in DOMAIN t, NEW v \in T
    PROVE  [t EXCEPT ![i] = v] \in Seq(T)
OBVIOUS

\* One ticket moves.
LEMMA SetTicketKeeps ==
    ASSUME NEW n \in Nat, NEW f \in Nat, NEW j0 \in Journals, NEW s \in SoundBesides(j0, n, f),
           NEW i \in DOMAIN s.j.tickets, NEW new, Moves(s.j.tickets[i], new)
    PROVE  /\ SetTicket(s, i, new) \in SoundBesides(j0, n, f)
           /\ SetTicket(s, i, new).r = s.r
           /\ SetTicket(s, i, new).j.tickets = [s.j.tickets EXCEPT ![i] = new]
           /\ Len(SetTicket(s, i, new).j.tickets) = Len(s.j.tickets)
<1> DEFINE j2 == [s.j EXCEPT !.tickets[i] = new]
<1>1. new \in Ticket
  BY DEF Moves
<1>2. j2 \in Journals /\ j2.tickets = [s.j.tickets EXCEPT ![i] = new] /\ j2.slot = s.j.slot
  <2>1. s.j \in Journals
    BY SoundType
  <2>2. [s.j.tickets EXCEPT ![i] = new] \in Seq(Ticket)
    BY <1>1, <2>1 DEF Journals
  <2> QED
    BY <2>1, <2>2 DEF Journals
<1>3. Len(j2.tickets) = Len(s.j.tickets)
  BY <1>1, <1>2, SoundType DEF Journals
<1>4. \A k \in DOMAIN s.j.tickets : Moves(s.j.tickets[k], j2.tickets[k])
  <2> TAKE k \in DOMAIN s.j.tickets
  <2>1. j2.tickets[k] = IF k = i THEN new ELSE s.j.tickets[k]
    BY <1>2
  <2> QED
    BY <2>1, SoundType, StaysPut
<1> HIDE DEF j2
<1>5. /\ Wrote(s, j2) \in SoundBesides(j0, n, f)
      /\ Wrote(s, j2).j = j2 /\ Wrote(s, j2).r = s.r
  <2>1. j2.slot \in 0..Len(s.j.tickets)
    BY <1>2, SoundType
  <2> QED
    BY <1>2, <1>3, <1>4, <2>1, WroteMoves
<1>6. SetTicket(s, i, new) = Wrote(s, j2)
  BY DEF SetTicket, j2
<1> QED
  BY <1>2, <1>3, <1>5, <1>6

\* What a handler will save changes, the journal does not.
LEMMA RunKeeps ==
    ASSUME NEW n, NEW f, NEW j0, NEW s \in SoundBesides(j0, n, f), NEW r, Fits(s.j, r)
    PROVE  /\ [s EXCEPT !.r = r] \in SoundBesides(j0, n, f)
           /\ [s EXCEPT !.r = r].j = s.j /\ [s EXCEPT !.r = r].r = r
<1>1. [s EXCEPT !.r = r] = [j |-> s.j, cuts |-> s.cuts, r |-> r]
  <2>1. s \in [j : Journals, cuts : SUBSET Journals, r : RunStates]
    BY SoundType
  <2> QED
    BY <2>1
<1>2. [j |-> s.j, cuts |-> s.cuts, r |-> r] \in [j : Journals, cuts : SUBSET Journals, r : RunStates]
  BY SoundType DEF Fits
<1> QED
  BY <1>1, <1>2, SoundType DEF SoundBesides

\* One task changes its state, the journal does not.
LEMMA SetTaskKeeps ==
    ASSUME NEW n, NEW f, NEW j0, NEW s \in SoundBesides(j0, n, f),
           NEW t \in Task, NEW after \in TaskState
    PROVE  /\ SetTask(s, t, after) \in SoundBesides(j0, n, f)
           /\ SetTask(s, t, after).j = s.j
           /\ SetTask(s, t, after).r.oncall = s.r.oncall /\ SetTask(s, t, after).r.lost = s.r.lost
<1> DEFINE r == [s.r EXCEPT !.task[t] = after]
<1>1. s.r \in RunStates /\ Fits(s.j, s.r)
  BY SoundType
<1>2. r \in RunStates /\ r.oncall = s.r.oncall /\ r.lost = s.r.lost
  BY <1>1 DEF RunStates
<1>3. Fits(s.j, r)
  BY <1>1, <1>2 DEF Fits
<1>4. SetTask(s, t, after) = [s EXCEPT !.r = r]
  BY SoundType DEF SetTask
<1> HIDE DEF r
<1>5. /\ [s EXCEPT !.r = r] \in SoundBesides(j0, n, f)
      /\ [s EXCEPT !.r = r].j = s.j /\ [s EXCEPT !.r = r].r = r
  BY <1>3, RunKeeps
<1> QED
  BY <1>2, <1>4, <1>5 DEF r

-----------------------------------------------------------------------------
(* The journal's transactions                                                *)

\* ensure_pipeline_engineer.
LEMMA EnsureKeeps ==
    ASSUME NEW n \in Nat, NEW f \in Nat, NEW j0 \in Journals, NEW s \in SoundBesides(j0, n, f),
           NEW i \in DOMAIN s.j.tickets
    PROVE  /\ EnsureEngineer(s, i) \in SoundBesides(j0, n, f)
           /\ EnsureEngineer(s, i).r = s.r
           /\ Len(EnsureEngineer(s, i).j.tickets) = Len(s.j.tickets)
           /\ EnsureEngineer(s, i).j.tickets[i] =
                  IF NeedsLane(s.j.tickets[i])
                  THEN [s.j.tickets[i] EXCEPT !.phase = "PIPELINE_ENGINEER"] ELSE s.j.tickets[i]
<1> DEFINE old == s.j.tickets[i]
           new == [old EXCEPT !.phase = "PIPELINE_ENGINEER"]
<1>1. old \in Ticket /\ Ok(old)
  BY SoundType
<1>2. NeedsLane(old) => Moves(old, new)
  <2>1. NeedsLane(old) => old.phase \in {"AUTO_RECOVERY_FAILED", "DEGRADED"}
    BY DEF NeedsLane
  <2> HIDE DEF old
  <2> QED
    BY <1>1, <2>1 DEF Moves, Ok, Ticket, Phase
<1> HIDE DEF old, new
<1>3. CASE NeedsLane(old)
  <2>1. EnsureEngineer(s, i) = SetTicket(s, i, new)
    BY <1>3 DEF EnsureEngineer, old, new, Tickets
  <2>2. /\ SetTicket(s, i, new) \in SoundBesides(j0, n, f)
        /\ SetTicket(s, i, new).r = s.r
        /\ SetTicket(s, i, new).j.tickets = [s.j.tickets EXCEPT ![i] = new]
        /\ Len(SetTicket(s, i, new).j.tickets) = Len(s.j.tickets)
    <3>1. Moves(s.j.tickets[i], new)
      BY <1>2, <1>3 DEF old
    <3> QED
      BY <3>1, SetTicketKeeps
  <2>3. SetTicket(s, i, new).j.tickets[i] = new
    BY <2>2
  <2> QED
    BY <1>3, <2>1, <2>2, <2>3 DEF old, new
<1>4. CASE ~NeedsLane(old)
  BY <1>4 DEF EnsureEngineer, old, Tickets
<1> QED
  BY <1>3, <1>4

\* escalate_incident_to_user: a ticket she has answered is left alone.
LEMMA EscalatedKeeps ==
    ASSUME NEW n \in Nat, NEW f \in Nat, NEW j0 \in Journals, NEW s \in SoundBesides(j0, n, f),
           NEW i \in DOMAIN s.j.tickets
    PROVE  /\ Escalated(s, i) \in SoundBesides(j0, n, f)
           /\ Escalated(s, i).r = s.r
           /\ Len(Escalated(s, i).j.tickets) = Len(s.j.tickets)
           /\ \/ Escalated(s, i).j.tickets[i] = EscalateToUser(s.j.tickets[i])
              \/ s.j.tickets[i].phase # "PIPELINE_ENGINEER"
<1> DEFINE old == s.j.tickets[i]
           new == EscalateToUser(old)
           may == ~old.answered /\ old.phase \in {"PIPELINE_ENGINEER", "RESOLVED", "RECOVERED"}
<1>1. old \in Ticket /\ Ok(old)
  BY SoundType
<1>2. may => Moves(old, new)
  <2> HIDE DEF old
  <2> QED
    BY <1>1 DEF Moves, Ok, Ticket, Phase, EscalateToUser
<1> HIDE DEF old, new
<1>3. CASE may
  <2>1. Escalated(s, i) = SetTicket(s, i, new)
    BY <1>3 DEF Escalated, old, new, Tickets
  <2>2. /\ SetTicket(s, i, new) \in SoundBesides(j0, n, f)
        /\ SetTicket(s, i, new).r = s.r
        /\ SetTicket(s, i, new).j.tickets = [s.j.tickets EXCEPT ![i] = new]
        /\ Len(SetTicket(s, i, new).j.tickets) = Len(s.j.tickets)
    <3>1. Moves(s.j.tickets[i], new)
      BY <1>2, <1>3 DEF old
    <3> QED
      BY <3>1, SetTicketKeeps
  <2>3. SetTicket(s, i, new).j.tickets[i] = new
    BY <2>2
  <2> QED
    BY <2>1, <2>2, <2>3 DEF old, new
<1>4. CASE ~may
  <2>1. old.phase # "PIPELINE_ENGINEER"
    BY <1>1, <1>4 DEF Ok
  <2> QED
    BY <1>4, <2>1 DEF Escalated, old, Tickets
<1> QED
  BY <1>3, <1>4

\* block_escalated_tasks.
LEMMA BlockKeeps ==
    ASSUME NEW n, NEW f, NEW j0, NEW s \in SoundBesides(j0, n, f), NEW i \in DOMAIN s.j.tickets
    PROVE  /\ BlockEscalatedTasks(s, i) \in SoundBesides(j0, n, f)
           /\ BlockEscalatedTasks(s, i).j = s.j
           /\ BlockEscalatedTasks(s, i).r.oncall = s.r.oncall
           /\ BlockEscalatedTasks(s, i).r.lost = s.r.lost
<1> DEFINE t == s.j.tickets[i].task
<1>1. t \in Task
  <2>1. s.j.tickets[i] \in Ticket
    BY SoundType
  <2> QED
    BY <2>1 DEF Ticket
<1>2. "BLOCKED" \in TaskState
  BY DEF TaskState
<1> HIDE DEF t
<1>3. /\ SetTask(s, t, "BLOCKED") \in SoundBesides(j0, n, f)
      /\ SetTask(s, t, "BLOCKED").j = s.j
      /\ SetTask(s, t, "BLOCKED").r.oncall = s.r.oncall /\ SetTask(s, t, "BLOCKED").r.lost = s.r.lost
  <2>1. ASSUME NEW after \in TaskState
        PROVE  /\ SetTask(s, t, after) \in SoundBesides(j0, n, f)
               /\ SetTask(s, t, after).j = s.j
               /\ SetTask(s, t, after).r.oncall = s.r.oncall /\ SetTask(s, t, after).r.lost = s.r.lost
    BY <1>1, SetTaskKeeps
  <2> QED
    BY <1>2, <2>1
<1> QED
  BY <1>3 DEF BlockEscalatedTasks, Tickets, t

\* Level 1 tries what is known: two transactions, the ticket is closed by neither of hers.
LEMMA AttemptKeeps ==
    ASSUME NEW n \in Nat, NEW j0 \in Journals, NEW s \in Sound(j0, n),
           NEW i \in DOMAIN s.j.tickets, s.j.tickets[i].phase = "DEGRADED"
    PROVE  /\ AttemptKnownRecovery(s, i) \in Sound(j0, n)
           /\ AttemptKnownRecovery(s, i).r = s.r
           /\ Len(AttemptKnownRecovery(s, i).j.tickets) = Len(s.j.tickets)
<1> DEFINE b == BeginAutoRecovery(s, i)
           c == CompleteAutoRecovery(b, i)
           jb == [s.j EXCEPT !.slot = i, !.tickets[i].phase = "AUTO_RECOVERY"]
           old == s.j.tickets[i]
           tried == [old EXCEPT !.phase = "AUTO_RECOVERY"]
<1>1. s \in SoundBesides(j0, n, 0)
  BY DEF Sound
<1>2. /\ old \in Ticket /\ Ok(old) /\ s.j \in Journals /\ s.j.tickets \in Seq(Ticket)
      /\ DOMAIN s.j.tickets = 1..Len(s.j.tickets) /\ Len(s.j.tickets) \in Nat
  BY <1>1, SoundType DEF Journals
<1>3. Moves(old, tried) /\ tried \in Ticket /\ tried.phase = "AUTO_RECOVERY"
  <2>1. old.phase = "DEGRADED"
    OBVIOUS
  <2> HIDE DEF old
  <2> QED
    BY <1>2, <2>1 DEF Moves, Ok, Ticket, Phase
<1>4. /\ jb \in Journals /\ jb.slot = i /\ Len(jb.tickets) = Len(s.j.tickets)
      /\ jb.tickets = [s.j.tickets EXCEPT ![i] = tried]
  <2>1. [s.j.tickets EXCEPT ![i] = tried] \in Seq(Ticket)
    BY <1>2, <1>3
  <2>2. jb.tickets = [s.j.tickets EXCEPT ![i] = tried] /\ jb.slot = i
    BY <1>2 DEF Journals
  <2>3. jb \in Journals
    <3>1. i \in Nat
      BY <1>2
    <3> QED
      BY <1>2, <2>1, <3>1 DEF Journals
  <2> HIDE DEF jb, tried
  <2> QED
    BY <1>2, <1>3, <2>2, <2>3
<1> HIDE DEF jb, tried
<1>5. \A k \in DOMAIN s.j.tickets : Moves(s.j.tickets[k], jb.tickets[k])
  <2> TAKE k \in DOMAIN s.j.tickets
  <2>1. jb.tickets[k] = IF k = i THEN tried ELSE s.j.tickets[k]
    BY <1>4
  <2>2. s.j.tickets[k] \in Ticket /\ Ok(s.j.tickets[k])
    BY <1>1, SoundType
  <2> QED
    BY <1>3, <2>1, <2>2, StaysPut
<1>6. b \in SoundBesides(j0, n, 0) /\ b.j = jb /\ b.r = s.r
  <2>1. b = Wrote(s, jb)
    BY DEF BeginAutoRecovery, jb
  <2>2. jb.slot \in 0..Len(s.j.tickets)
    BY <1>2, <1>4
  <2> QED
    BY <1>1, <1>4, <1>5, <2>1, <2>2, WroteMoves
<1> HIDE DEF b
<1> DEFINE jc == [b.j EXCEPT !.slot = None, !.tickets[i].phase = "RECOVERED",
                             !.tickets[i].closed = TRUE]
           over == [tried EXCEPT !.phase = "RECOVERED", !.closed = TRUE]
<1>7. Moves(tried, over) /\ over \in Ticket
  <2>1. Ok(tried)
    BY <1>3 DEF Moves
  <2> QED
    BY <1>3, <2>1 DEF Moves, Ok, Ticket, Phase
<1>8. /\ jc \in Journals /\ jc.slot = 0 /\ Len(jc.tickets) = Len(jb.tickets)
      /\ jc.tickets = [jb.tickets EXCEPT ![i] = over]
  <2>0. jb.tickets \in Seq(Ticket) /\ i \in DOMAIN jb.tickets /\ jb.tickets[i] = tried
    BY <1>2, <1>4 DEF Journals
  <2>1. [jb.tickets EXCEPT ![i] = over] \in Seq(Ticket)
    BY <1>7, <2>0
  <2> DEFINE q == [[jb.tickets EXCEPT ![i].phase = "RECOVERED"] EXCEPT ![i].closed = TRUE]
  <2>2. q = [jb.tickets EXCEPT ![i] = over]
    BY <2>0
  <2>3. jc.tickets = q /\ jc.slot = 0
    BY <1>4, <1>6 DEF Journals, None
  <2>4. jc \in Journals
    <3>1. q \in Seq(Ticket)
      BY <2>1, <2>2
    <3> QED
      BY <1>4, <1>6, <3>1 DEF Journals, None
  <2> HIDE DEF jc, q, over
  <2> QED
    BY <1>7, <2>0, <2>2, <2>3, <2>4
<1> HIDE DEF jc, over
<1>9. \A k \in DOMAIN b.j.tickets : Moves(b.j.tickets[k], jc.tickets[k])
  <2> TAKE k \in DOMAIN b.j.tickets
  <2>1. jc.tickets[k] = IF k = i THEN over ELSE b.j.tickets[k]
    BY <1>6, <1>8
  <2>2. b.j.tickets[k] \in Ticket /\ Ok(b.j.tickets[k])
    BY <1>6, SoundType
  <2>3. b.j.tickets[i] = tried
    BY <1>4, <1>6
  <2> QED
    BY <1>7, <2>1, <2>2, <2>3, StaysPut
<1>10. c \in SoundBesides(j0, n, 0) /\ c.j = jc /\ c.r = s.r
  <2>1. c = Wrote(b, jc)
    BY DEF CompleteAutoRecovery, jc
  <2>2. jc.slot \in 0..Len(b.j.tickets)
    BY <1>2, <1>4, <1>6, <1>8
  <2> QED
    BY <1>6, <1>8, <1>9, <2>1, <2>2, WroteMoves
<1> QED
  BY <1>1, <1>4, <1>6, <1>8, <1>10 DEF AttemptKnownRecovery, Sound, b

\* open_incident: the ticket that is being filed may be one too many, no other is.
LEMMA OpenKeeps ==
    ASSUME NEW n \in Nat, NEW j0 \in Journals, NEW s \in Sound(j0, n), ~Full(s),
           NEW kind \in Kind, NEW t \in Task, IsStop(kind) => StillOpen(s, kind, t) = {},
           NEW f, f = Len(s.j.tickets) + 1, NEW x, x = OpenIncident(s, kind, t)
    PROVE  /\ x \in SoundBesides(j0, n, f) /\ x.r = s.r
           /\ Len(x.j.tickets) = f /\ f \in DOMAIN x.j.tickets
           /\ x.j.tickets[f].kind = kind /\ x.j.tickets[f].phase = "DEGRADED"
           /\ ~x.j.tickets[f].closed /\ ~x.j.tickets[f].answered
<1> DEFINE ticket == [kind |-> kind, task |-> t, phase |-> "DEGRADED", closed |-> FALSE,
                      runbook |-> kind = "transport" /\ s.j.learned = PromotionThreshold,
                      asked |-> FALSE, answered |-> FALSE, returned |-> FALSE]
           j2 == [s.j EXCEPT !.tickets = Append(@, ticket)]
<1>1. s \in SoundBesides(j0, n, 0)
  BY DEF Sound
<1>2. ticket \in Ticket /\ Ok(ticket)
  <2>1. (kind = "transport" /\ s.j.learned = PromotionThreshold) \in BOOLEAN
    OBVIOUS
  <2> QED
    BY <2>1 DEF Ticket, Ok, Phase
<1>3. /\ s.j \in Journals /\ Bounded(s.j, n) /\ DOMAIN s.j.tickets = 1..Len(s.j.tickets)
      /\ Len(s.j.tickets) \in Nat /\ Len(s.j.tickets) <= MaxTickets
  BY <1>1, SoundType DEF Bounded
<1>4. Len(s.j.tickets) < MaxTickets
  BY <1>3, IncidentsAssumption DEF Full, Tickets
<1>5. ticket.kind = kind /\ ticket.task = t
  OBVIOUS
<1>6. x = Wrote(s, j2)
  BY DEF OpenIncident
<1>6a. /\ ticket.phase = "DEGRADED" /\ ~ticket.closed /\ ~ticket.answered
  OBVIOUS
<1> HIDE DEF ticket
<1>7. IsStop(kind) => \A k \in DOMAIN s.j.tickets :
          s.j.tickets[k].kind = kind /\ s.j.tickets[k].task = t => s.j.tickets[k].closed
  BY DEF StillOpen, OpenTickets, Tickets
<1>8. j2 \in Journals
  <2>1. Append(s.j.tickets, ticket) \in Seq(Ticket)
    BY <1>2, <1>3 DEF Journals
  <2> QED
    BY <1>3, <2>1 DEF Journals
<1> HIDE DEF j2
<1>9. /\ BoundedBesides(j2, n, f) /\ Stands(s.j, j2)
      /\ Len(j2.tickets) = f /\ j2.tickets[f] = ticket
  <2>1. IsStop(ticket.kind) => \A k \in DOMAIN s.j.tickets :
            s.j.tickets[k].kind = ticket.kind /\ s.j.tickets[k].task = ticket.task
                => s.j.tickets[k].closed
    BY <1>5, <1>7
  <2>2. j2 = [s.j EXCEPT !.tickets = Append(@, ticket)]
    BY DEF j2
  <2> QED
    BY <1>2, <1>3, <1>4, <2>1, <2>2, FreshKeeps
<1>10. f \in Nat /\ f \in 1..f
  BY <1>3
<1>11. DOMAIN j2.tickets = 1..f
  BY <1>8, <1>9 DEF Journals
<1>12. x \in SoundBesides(j0, n, f) /\ x.j = j2 /\ x.r = s.r
  BY <1>1, <1>6, <1>8, <1>9, <1>10, WroteKeeps
<1> QED
  BY <1>5, <1>6a, <1>9, <1>10, <1>11, <1>12

\* Once its repeats are counted the ticket is filed.
LEMMA FiledSound ==
    ASSUME NEW n, NEW f, NEW j0, NEW s \in SoundBesides(j0, n, f), Bounded(s.j, n)
    PROVE  s \in Sound(j0, n)
BY DEF Sound, SoundBesides, Bounded

\* The one door of a stop: what comes through it the third time is hers.
LEMMA StopRunKeeps ==
    ASSUME NEW n \in Nat, NEW j0 \in Journals, NEW s \in Sound(j0, n),
           NEW kind \in Kind, IsStop(kind), NEW t \in Task
    PROVE  StopRun(s, kind, t) \in Sound(j0, n)
<1>1. s \in SoundBesides(j0, n, 0) /\ Len(s.j.tickets) \in Nat
  BY SoundType DEF Sound
<1>2. CASE StillOpen(s, kind, t) # {}
  <2> DEFINE i == CHOOSE i \in StillOpen(s, kind, t) : TRUE
  <2>1. i \in DOMAIN s.j.tickets
    <3>1. i \in StillOpen(s, kind, t)
      BY <1>2
    <3> HIDE DEF i
    <3> QED
      BY <3>1 DEF StillOpen, OpenTickets, Tickets
  <2>2. StopRun(s, kind, t) = EnsureEngineer(s, i)
    BY <1>2 DEF StopRun
  <2> HIDE DEF i
  <2>3. EnsureEngineer(s, i) \in SoundBesides(j0, n, 0)
    BY <1>1, <2>1, EnsureKeeps
  <2> QED
    BY <2>2, <2>3 DEF Sound
<1>3. CASE StillOpen(s, kind, t) = {} /\ Full(s)
  BY <1>3 DEF StopRun
<1>4. CASE StillOpen(s, kind, t) = {} /\ ~Full(s)
  <2> DEFINE f == Len(s.j.tickets) + 1
             x == OpenIncident(s, kind, t)
             y == EnsureEngineer(x, f)
             z == BoundRepeatedStop(y, f)
             up == Escalated(y, f)
             old == y.j.tickets[f]
  <2>1. StopRun(s, kind, t) = z
    <3>1. Then(LAMBDA v : EnsureEngineer(v, f), x) = y
      <4> HIDE DEF x
      <4> QED
        BY DEF Then
    <3>2. Then(LAMBDA v : BoundRepeatedStop(v, f), y) = z
      <4> HIDE DEF y
      <4> QED
        BY DEF Then
    <3> QED
      BY <1>4, <3>1, <3>2 DEF StopRun, Tickets
  <2>2. /\ x \in SoundBesides(j0, n, f) /\ f \in DOMAIN x.j.tickets /\ f \in Nat
        /\ x.j.tickets[f].kind = kind /\ x.j.tickets[f].phase = "DEGRADED"
        /\ ~x.j.tickets[f].closed /\ ~x.j.tickets[f].answered
    BY <1>1, <1>4, OpenKeeps
  <2> HIDE DEF f, x
  <2>3. NeedsLane(x.j.tickets[f])
    BY <2>2 DEF NeedsLane
  <2>4. x.j.tickets[f] \in Ticket
    BY <2>2, SoundType
  <2>5. /\ y \in SoundBesides(j0, n, f) /\ Len(y.j.tickets) = Len(x.j.tickets)
        /\ y.j.tickets[f] = [x.j.tickets[f] EXCEPT !.phase = "PIPELINE_ENGINEER"]
    BY <2>2, <2>3, EnsureKeeps
  <2> HIDE DEF y
  <2>6. /\ old.kind = kind /\ old.phase = "PIPELINE_ENGINEER" /\ ~old.closed /\ ~old.answered
        /\ old \in Ticket
    BY <2>2, <2>4, <2>5 DEF Ticket, Phase
  <2>7. f \in DOMAIN y.j.tickets /\ DOMAIN y.j.tickets = 1..Len(y.j.tickets) /\ Len(y.j.tickets) \in Nat
    BY <2>2, <2>5, SoundType
  <2>8. BoundedBesides(y.j, n, f)
    BY <2>5, SoundType
  <2>9. ClosuresSinceHerAnswer(y, f) = Since(y.j, f)
    <3>1. \A k \in 1..(f - 1) : Alike(y.j, f, k) => y.j.tickets[k].closed
      BY <2>6, <2>7, <2>8 DEF BoundedBesides, Counted
    <3>2. \A k : SameStop(y, f, k) <=> Alike(y.j, f, k)
      BY DEF SameStop, Alike, Tickets
    <3> QED
      BY <3>1, <3>2 DEF ClosuresSinceHerAnswer, Since, Tickets
  <2>10. CASE Cardinality(ClosuresSinceHerAnswer(y, f)) < MaxRepeatedStops
    <3>1. z = y
      BY <2>10 DEF BoundRepeatedStop
    <3>2. Bounded(y.j, n)
      BY <2>2, <2>8, <2>9, <2>10, Filed DEF Count
    <3> QED
      BY <2>1, <2>5, <3>1, <3>2, FiledSound
  <2>11. CASE ~(Cardinality(ClosuresSinceHerAnswer(y, f)) < MaxRepeatedStops)
    <3>1. /\ up \in SoundBesides(j0, n, f) /\ Len(up.j.tickets) = Len(y.j.tickets)
          /\ up.j.tickets[f] = EscalateToUser(old)
      <4>1. /\ up \in SoundBesides(j0, n, f) /\ Len(up.j.tickets) = Len(y.j.tickets)
            /\ \/ up.j.tickets[f] = EscalateToUser(y.j.tickets[f])
               \/ y.j.tickets[f].phase # "PIPELINE_ENGINEER"
        <5>1. y \in SoundBesides(j0, n, f) /\ f \in DOMAIN y.j.tickets /\ f \in Nat
          BY <2>2, <2>5, <2>7
        <5> HIDE DEF old, z
        <5> QED
          BY <5>1, EscalatedKeeps
      <4> HIDE DEF up
      <4> QED
        BY <2>6, <4>1
    <3> HIDE DEF up, old
    <3>2. up.j.tickets[f].asked /\ ~up.j.tickets[f].closed
      BY <2>6, <3>1 DEF EscalateToUser, Ticket
    <3>3. BoundedBesides(up.j, n, f)
      BY <3>1, SoundType
    <3>4. Bounded(up.j, n)
      BY <2>2, <3>2, <3>3, Filed
    <3>5. up \in Sound(j0, n)
      BY <3>1, <3>4, FiledSound
    <3>6. f \in DOMAIN up.j.tickets
      BY <2>7, <3>1, SoundType
    <3>7. BlockEscalatedTasks(up, f) \in Sound(j0, n)
      BY <3>5, <3>6, BlockKeeps DEF Sound
    <3>8. z = up \/ z = BlockEscalatedTasks(up, f)
      BY <2>11 DEF BoundRepeatedStop, up
    <3> QED
      BY <2>1, <3>5, <3>7, <3>8
  <2> QED
    BY <2>10, <2>11
<1> QED
  BY <1>2, <1>3, <1>4

-----------------------------------------------------------------------------
(* The pass                                                                  *)

\* The stages of the pass: waiting tickets, orphans, tasks that start.
LEMMA RouteTicketKeeps ==
    ASSUME NEW n \in Nat, NEW j0 \in Journals, NEW s \in Sound(j0, n), NEW i
    PROVE  RouteTicket(i, s) \in Sound(j0, n)
<1>1. s \in SoundBesides(j0, n, 0)
  BY DEF Sound
<1>2. CASE i \notin OpenTickets(s)
  BY <1>2 DEF RouteTicket
<1>3. CASE i \in OpenTickets(s)
  <2>1. i \in DOMAIN s.j.tickets
    BY <1>3 DEF OpenTickets, Tickets
  <2>2. EnsureEngineer(s, i) \in Sound(j0, n)
    BY <1>1, <2>1, EnsureKeeps DEF Sound
  <2>3. CASE s.j.tickets[i].phase = "DEGRADED" /\ ~NeedsLane(s.j.tickets[i])
    <3>1. AttemptKnownRecovery(s, i) \in Sound(j0, n)
      BY <2>1, <2>3, AttemptKeeps
    <3> QED
      BY <1>3, <2>3, <3>1 DEF RouteTicket, Tickets
  <2>4. CASE ~(s.j.tickets[i].phase = "DEGRADED" /\ ~NeedsLane(s.j.tickets[i]))
    <3>1. RouteTicket(i, s) = EnsureEngineer(s, i)
      BY <1>3, <2>4 DEF RouteTicket, Tickets
    <3> QED
      BY <2>2, <3>1
  <2> QED
    BY <2>3, <2>4
<1> QED
  BY <1>2, <1>3

LEMMA FileOrphanKeeps ==
    ASSUME NEW n \in Nat, NEW j0 \in Journals, NEW s \in Sound(j0, n), NEW k
    PROVE  FileOrphanBlock(k, s) \in Sound(j0, n)
<1>1. ASSUME NEW t \in Task PROVE StopRun(s, "orphan", t) \in Sound(j0, n)
  <2>1. "orphan" \in Kind /\ IsStop("orphan")
    BY DEF Kind, IsStop
  <2>2. ASSUME NEW kind \in Kind, IsStop(kind) PROVE StopRun(s, kind, t) \in Sound(j0, n)
    BY <2>2, StopRunKeeps
  <2> QED
    BY <2>1, <2>2
<1>2. Plan[k] \in OrphanBlockedTasks(s) => Plan[k] \in Task
  BY DEF OrphanBlockedTasks
<1> QED
  BY <1>1, <1>2 DEF FileOrphanBlock

LEMMA RouteKeeps ==
    ASSUME NEW n \in Nat, NEW j0 \in Journals, NEW s \in Sound(j0, n)
    PROVE  RouteWaitingTickets(s) \in Sound(j0, n)
<1> DEFINE x == FoldUp(RouteTicket, s, Len(Tickets(s)))
           y == FoldUp(FileOrphanBlock, x, Len(Plan))
<1>1. Len(Tickets(s)) \in Nat /\ Len(Plan) \in Nat
  BY SoundType, IncidentsAssumption DEF Tickets, Sound
<1>2. x \in Sound(j0, n)
  <2>1. \A k \in 1..Len(Tickets(s)) : \A v \in Sound(j0, n) : RouteTicket(k, v) \in Sound(j0, n)
    BY RouteTicketKeeps
  <2> QED
    BY <1>1, <2>1, RouteFold
<1> HIDE DEF x
<1>3. y \in Sound(j0, n)
  <2>1. \A k \in 1..Len(Plan) : \A v \in Sound(j0, n) : FileOrphanBlock(k, v) \in Sound(j0, n)
    BY FileOrphanKeeps
  <2> QED
    BY <1>1, <1>2, <2>1, OrphanFold
<1>4. RouteWaitingTickets(s) = y
  <2>1. Then(LAMBDA v : FoldUp(RouteTicket, v, Len(Tickets(v))), s) = x
    BY DEF Then, x
  <2> QED
    BY <2>1 DEF RouteWaitingTickets
<1> QED
  BY <1>3, <1>4

LEMMA StartKeeps ==
    ASSUME NEW n \in Nat, NEW j0 \in Journals, NEW s \in Sound(j0, n)
    PROVE  Start(s) \in Sound(j0, n)
<1> DEFINE task == [t \in Task |-> IF s.r.task[t] = "READY" /\ t \notin HeldTasks(s)
                                   THEN "RUNNING" ELSE s.r.task[t]]
           r == [s.r EXCEPT !.task = task]
<1>1. s \in SoundBesides(j0, n, 0)
  BY DEF Sound
<1>2. s.r \in RunStates /\ Fits(s.j, s.r)
  BY <1>1, SoundType
<1>3. task \in [Task -> TaskState]
  BY <1>2 DEF RunStates, TaskState
<1> HIDE DEF task
<1>4. r \in RunStates /\ r.oncall = s.r.oncall /\ r.lost = s.r.lost
  BY <1>2, <1>3 DEF RunStates
<1>5. Fits(s.j, r)
  BY <1>2, <1>4 DEF Fits
<1>6. Start(s) = [s EXCEPT !.r = r]
  <2>1. s \in [j : Journals, cuts : SUBSET Journals, r : RunStates]
    BY <1>1, SoundType
  <2> QED
    BY <2>1 DEF Start, task
<1> HIDE DEF r
<1> QED
  BY <1>1, <1>5, <1>6, RunKeeps DEF Sound

\* Engineers lost on a ticket that left the lane are forgotten.
LEMMA UncountedKeeps ==
    ASSUME NEW n \in Nat, NEW j0 \in Journals, NEW s \in Sound(j0, n)
    PROVE  Uncounted(s) \in Sound(j0, n)
<1> DEFINE lost == [i \in 1..MaxTickets |-> IF i \in InLane(s) THEN s.r.lost[i] ELSE 0]
           r == [s.r EXCEPT !.lost = lost]
<1>1. s \in SoundBesides(j0, n, 0)
  BY DEF Sound
<1>2. s.r \in RunStates /\ Fits(s.j, s.r)
  BY <1>1, SoundType
<1>3. /\ lost \in [1..MaxTickets -> 0..MaxLostEngineers]
      /\ \A i \in 1..MaxTickets : s.r.lost[i] < MaxLostEngineers => lost[i] < MaxLostEngineers
  <2>1. \A i \in 1..MaxTickets : s.r.lost[i] \in 0..2
    BY <1>2 DEF RunStates, MaxLostEngineers
  <2>2. \A i \in 1..MaxTickets : lost[i] = IF i \in InLane(s) THEN s.r.lost[i] ELSE 0
    OBVIOUS
  <2>3. \A i \in 1..MaxTickets : lost[i] \in 0..2 /\ (s.r.lost[i] < 2 => lost[i] < 2)
    BY <2>1, <2>2
  <2>4. lost = [i \in 1..MaxTickets |-> lost[i]]
    OBVIOUS
  <2> HIDE DEF lost, r
  <2>5. lost \in [1..MaxTickets -> 0..2]
    BY <2>3, <2>4
  <2> QED
    BY <2>3, <2>5 DEF MaxLostEngineers
<1>4. s.r.oncall.ticket \in 0..MaxTickets
  BY <1>2 DEF RunStates
<1> HIDE DEF lost
<1>5. r \in RunStates /\ r.oncall = s.r.oncall /\ r.lost = lost
  BY <1>2, <1>3 DEF RunStates
<1>6. Fits(s.j, r)
  BY <1>2, <1>3, <1>4, <1>5, IncidentsAssumption DEF Fits, None
<1>7. Uncounted(s) = [s EXCEPT !.r = r]
  <2>1. s \in [j : Journals, cuts : SUBSET Journals, r : RunStates]
    BY <1>1, SoundType
  <2>2. DOMAIN s.r.lost = 1..MaxTickets
    BY <1>2 DEF RunStates
  <2> QED
    BY <2>1, <2>2 DEF Uncounted, lost
<1> HIDE DEF r
<1> QED
  BY <1>1, <1>6, <1>7, RunKeeps DEF Sound

Handed(j0, n, lost, len) == {s \in Sound(j0, n) : s.r.lost = lost /\ Len(s.j.tickets) = len}

\* A ticket that lost two engineers, or that no prompt holds, goes to her.
LEMMA HandToOwnerKeeps ==
    ASSUME NEW n \in Nat, NEW j0 \in Journals, NEW lost, NEW len, NEW i,
           NEW s \in Handed(j0, n, lost, len)
    PROVE  HandToOwner(i, s) \in Handed(j0, n, lost, len)
<1>1. /\ s \in SoundBesides(j0, n, 0) /\ s \in Sound(j0, n)
      /\ s.r.lost = lost /\ Len(s.j.tickets) = len
  BY DEF Sound, Handed
<1>2. CASE i \notin InLane(s)
  BY <1>2 DEF HandToOwner
<1>3. CASE i \in InLane(s)
  <2> DEFINE up == Escalated(s, i)
  <2>1. i \in DOMAIN s.j.tickets
    BY <1>3 DEF InLane, OpenTickets, Tickets
  <2>2. up \in SoundBesides(j0, n, 0) /\ up.r = s.r /\ Len(up.j.tickets) = Len(s.j.tickets)
    BY <1>1, <2>1, EscalatedKeeps
  <2> HIDE DEF up
  <2>3. i \in DOMAIN up.j.tickets
    <3>1. DOMAIN up.j.tickets = 1..Len(up.j.tickets) /\ DOMAIN s.j.tickets = 1..Len(s.j.tickets)
      BY <1>1, <2>2, SoundType
    <3> QED
      BY <2>1, <2>2, <3>1
  <2>4. /\ BlockEscalatedTasks(up, i) \in SoundBesides(j0, n, 0)
        /\ BlockEscalatedTasks(up, i).r.lost = up.r.lost /\ BlockEscalatedTasks(up, i).j = up.j
    BY <2>2, <2>3, BlockKeeps
  <2>5. HandToOwner(i, s) = up \/ HandToOwner(i, s) = BlockEscalatedTasks(up, i)
    BY <1>3 DEF HandToOwner, HandLostEngineersToOwner, HandUnpromptableTicketToOwner, up
  <2> QED
    BY <1>1, <2>2, <2>4, <2>5 DEF Sound, Handed
<1> QED
  BY <1>2, <1>3

LEMMA HandedUpKeeps ==
    ASSUME NEW n \in Nat, NEW j0 \in Journals, NEW s \in Sound(j0, n), NEW first \in Nat \ {0}
    PROVE  /\ HandedUp(s, first) \in Sound(j0, n) /\ HandedUp(s, first).r.lost = s.r.lost
           /\ Len(HandedUp(s, first).j.tickets) = Len(s.j.tickets)
<1> DEFINE P == Handed(j0, n, s.r.lost, Len(s.j.tickets))
<1>1. \A k \in 1..(first - 1) : \A x \in P : HandToOwner(k, x) \in P
  BY HandToOwnerKeeps
<1>2. s \in P /\ first - 1 \in Nat
  BY DEF Handed
<1> HIDE DEF P
<1>3. HandedUp(s, first) \in P
  BY <1>1, <1>2, HandFold DEF HandedUp
<1> QED
  BY <1>3 DEF P, Handed

\* _reserve_pipeline_engineer_in_state: whoever is sent has not lost two.
LEMMA ReserveFrontierKeeps ==
    ASSUME NEW n \in Nat, NEW j0 \in Journals, NEW s \in Sound(j0, n)
    PROVE  ReserveEngineer(s) \in Sound(j0, n)
<1> DEFINE able == {i \in InLane(s) : ~LostTwice(s, i) /\ Tickets(s)[i].kind \notin Unpromptable}
           sent(i) == [HandedUp(s, i) EXCEPT !.r.oncall = [ticket |-> i, alive |-> TRUE]]
           firsts == {k \in able : \A m \in able : k <= m}
           out == {sent(i) : i \in firsts}
<1>1. s \in SoundBesides(j0, n, 0) /\ Len(s.j.tickets) \in Nat /\ DOMAIN s.j.tickets = 1..Len(s.j.tickets)
  BY SoundType DEF Sound
<1>2. CASE s.r.oncall # NoSession
  BY <1>2 DEF ReserveEngineer
<1>3. CASE s.r.oncall = NoSession /\ able = {}
  <2>1. Len(Tickets(s)) + 1 \in Nat \ {0}
    BY <1>1 DEF Tickets
  <2>2. HandedUp(s, Len(Tickets(s)) + 1) \in Sound(j0, n)
    BY <2>1, HandedUpKeeps
  <2> QED
    BY <1>3, <2>2 DEF ReserveEngineer
<1>4. CASE s.r.oncall = NoSession /\ able # {}
  <2>1. able \in SUBSET (1..Len(s.j.tickets))
    BY <1>1 DEF InLane, OpenTickets, Tickets
  <2>2. firsts # {}
    <3>1. able \in SUBSET Nat
      BY <2>1
    <3> HIDE DEF able
    <3> QED
      BY <1>4, <3>1, LeastNumber
  <2>3. ASSUME NEW i \in able PROVE sent(i) \in Sound(j0, n)
    <3> DEFINE x == HandedUp(s, i)
               r == [x.r EXCEPT !.oncall = [ticket |-> i, alive |-> TRUE]]
    <3>1. i \in 1..Len(s.j.tickets) /\ s.r.lost[i] # MaxLostEngineers
      BY <2>1, <2>3 DEF LostTwice
    <3>2. i \in Nat \ {0}
      BY <1>1, <3>1
    <3>3. x \in Sound(j0, n) /\ x.r.lost = s.r.lost /\ Len(x.j.tickets) = Len(s.j.tickets)
      BY <3>2, HandedUpKeeps
    <3> HIDE DEF x
    <3>4. x \in SoundBesides(j0, n, 0)
      BY <3>3 DEF Sound
    <3>5. /\ x \in [j : Journals, cuts : SUBSET Journals, r : RunStates]
          /\ Fits(x.j, x.r) /\ x.r \in RunStates
      BY <3>4, SoundType
    <3>6. i <= Len(x.j.tickets) /\ i \in 1..MaxTickets
      <4>1. Len(s.j.tickets) <= MaxTickets
        BY <1>1, SoundType
      <4> QED
        BY <1>1, <3>1, <3>3, <4>1, IncidentsAssumption
    <3>7. /\ r \in RunStates /\ r.oncall.ticket = i /\ r.oncall.alive = TRUE /\ r.lost = x.r.lost
      <4> DEFINE c == [ticket |-> i, alive |-> TRUE]
      <4>1. c \in [ticket : 0..MaxTickets, alive : BOOLEAN] /\ c.ticket = i /\ c.alive = TRUE
        BY <3>6
      <4> HIDE DEF c
      <4>2. /\ [x.r EXCEPT !.oncall = c] \in RunStates /\ [x.r EXCEPT !.oncall = c].oncall = c
            /\ [x.r EXCEPT !.oncall = c].lost = x.r.lost
        BY <3>5, <4>1 DEF RunStates
      <4>3. r = [x.r EXCEPT !.oncall = c]
        BY DEF c
      <4> HIDE DEF r
      <4> QED
        BY <4>1, <4>2, <4>3
    <3>8. r.lost[i] < MaxLostEngineers
      <4>1. s.r.lost[i] \in 0..2
        BY <3>3, <3>5, <3>6 DEF RunStates, MaxLostEngineers
      <4> QED
        BY <3>1, <3>3, <3>7, <4>1 DEF MaxLostEngineers
    <3>9. Fits(x.j, r)
      BY <3>2, <3>6, <3>7, <3>8 DEF Fits, None
    <3>10. sent(i) = [x EXCEPT !.r = r]
      BY <3>5 DEF x
    <3> HIDE DEF r
    <3>11. [x EXCEPT !.r = r] \in Sound(j0, n)
      BY <3>4, <3>9, RunKeeps DEF Sound
    <3> QED
      BY <3>10, <3>11
  <2>4. ReserveEngineer(s) \in out
    <3>1. out # {}
      BY <2>2
    <3>2. ReserveEngineer(s) = CHOOSE r \in out : TRUE
      BY <1>4 DEF ReserveEngineer
    <3> HIDE DEF out
    <3> QED
      BY <3>1, <3>2
  <2> HIDE DEF able, sent
  <2> QED
    BY <2>3, <2>4
<1> QED
  BY <1>2, <1>3, <1>4

\* A pass leaves what she answered and files no stop for the third time.
LEMMA PassKeeps ==
    ASSUME NEW n \in Nat, NEW j0 \in Journals, NEW s \in Sound(j0, n)
    PROVE  Pass(s) \in Sound(j0, n)
<1> DEFINE w == RouteWaitingTickets(s)
           x == Start(w)
           y == ReserveEngineer(x)
           z == Uncounted(y)
<1>1. w \in Sound(j0, n)
  BY RouteKeeps
<1>2. x \in Sound(j0, n)
  BY <1>1, StartKeeps
<1>3. y \in Sound(j0, n)
  BY <1>2, ReserveFrontierKeeps
<1>4. z \in Sound(j0, n)
  BY <1>3, UncountedKeeps
<1>5. Then(RouteWaitingTickets, s) = w
  BY DEF Then
<1>6. Then(Start, w) = x
  <2> HIDE DEF w
  <2> QED
    BY DEF Then
<1>7. Then(ReserveEngineer, x) = y
  <2> HIDE DEF x
  <2> QED
    BY DEF Then
<1>8. Then(Uncounted, y) = z
  <2> HIDE DEF y
  <2> QED
    BY DEF Then
<1>9. Pass(s) = z
  BY <1>5, <1>6, <1>7, <1>8 DEF Pass
<1> QED
  BY <1>4, <1>9

-----------------------------------------------------------------------------
(* The owner's answers                                                       *)

\* Her answer moves the task and remembers the permission she granted.
LEMMA UnblockedKeeps ==
    ASSUME NEW n, NEW j0, NEW s \in Sound(j0, n), NEW t \in Task
    PROVE  Unblocked(s, t) \in Sound(j0, n) /\ Unblocked(s, t).j = s.j
<1>1. SetTask(s, t, "READY") \in Sound(j0, n) /\ SetTask(s, t, "READY").j = s.j
  <2>1. ASSUME NEW after \in TaskState
        PROVE  SetTask(s, t, after) \in Sound(j0, n) /\ SetTask(s, t, after).j = s.j
    BY SetTaskKeeps DEF Sound
  <2>2. "READY" \in TaskState
    BY DEF TaskState
  <2> QED
    BY <2>1, <2>2
<1> QED
  BY <1>1 DEF Unblocked

LEMMA GrantedKeeps ==
    ASSUME NEW n, NEW j0, NEW s \in Sound(j0, n), NEW t \in Task
    PROVE  Granted(s, t) \in Sound(j0, n)
<1> DEFINE r == [s.r EXCEPT !.granted = s.r.granted \cup {t}]
<1>1. s \in SoundBesides(j0, n, 0)
  BY DEF Sound
<1>2. s.r \in RunStates /\ Fits(s.j, s.r)
  BY <1>1, SoundType
<1>3. r \in RunStates /\ r.oncall = s.r.oncall /\ r.lost = s.r.lost
  BY <1>2 DEF RunStates
<1>4. Fits(s.j, r)
  BY <1>2, <1>3 DEF Fits
<1>5. Granted(s, t) = [s EXCEPT !.r = r]
  <2>1. s \in [j : Journals, cuts : SUBSET Journals, r : RunStates]
    BY <1>1, SoundType
  <2> QED
    BY <2>1 DEF Granted
<1> HIDE DEF r
<1> QED
  BY <1>1, <1>4, <1>5, RunKeeps DEF Sound

\* She answers a ticket that is open, or one that she has answered.
LEMMA AnsweredKeeps ==
    ASSUME NEW n \in Nat, NEW j0 \in Journals, NEW s \in Sound(j0, n),
           NEW i \in DOMAIN s.j.tickets,
           s.j.tickets[i].closed => s.j.tickets[i].answered
    PROVE  /\ SetTicket(s, i, Answered(s.j.tickets[i])) \in Sound(j0, n)
           /\ SetTicket(s, i, Answered(s.j.tickets[i])).j.tickets =
                  [s.j.tickets EXCEPT ![i] = Answered(s.j.tickets[i])]
           /\ Answered(s.j.tickets[i]).closed /\ Answered(s.j.tickets[i]).answered
           /\ Answered(s.j.tickets[i]).task = s.j.tickets[i].task
<1> DEFINE old == s.j.tickets[i]
           new == Answered(old)
<1>1. s \in SoundBesides(j0, n, 0)
  BY DEF Sound
<1>2. old \in Ticket /\ Ok(old) /\ (old.closed => old.answered)
  BY <1>1, SoundType
<1>3. Moves(old, new) /\ new.closed /\ new.answered /\ new.task = old.task
  <2> HIDE DEF old
  <2>1. new.closed /\ new.answered /\ new.task = old.task /\ new.kind = old.kind /\ new \in Ticket /\ Ok(new)
    BY <1>2 DEF Ok, Ticket, Phase, Answered
  <2>2. old.answered => new = old
    <3> SUFFICES ASSUME old.answered PROVE new = old
      OBVIOUS
    <3>1. old.closed = TRUE /\ old.answered = TRUE /\ old.phase = "RESOLVED"
      BY <1>2 DEF Ok, Ticket
    <3> QED
      BY <1>2, <3>1 DEF Answered, Ticket
  <2>3. old.asked => new.asked
    BY <1>2 DEF Answered, Ticket
  <2> QED
    BY <1>2, <2>1, <2>2, <2>3 DEF Moves, Ticket
<1> HIDE DEF new
<1>4. Moves(s.j.tickets[i], new)
  BY <1>3
<1>5. /\ SetTicket(s, i, new) \in SoundBesides(j0, n, 0)
      /\ SetTicket(s, i, new).j.tickets = [s.j.tickets EXCEPT ![i] = new]
  BY <1>1, <1>4, SetTicketKeeps
<1> QED
  BY <1>3, <1>5 DEF Sound, new

\* What is open among the tickets of her answer is not closed but by it.
Answering(j0, n, len, S) ==
    {s \in Sound(j0, n) :
        /\ Len(s.j.tickets) = len
        /\ \A i \in S : s.j.tickets[i].closed => s.j.tickets[i].answered}

\* It closes tickets one by one, and those that are left are still open.
LEMMA CloseOneKeeps ==
    ASSUME NEW n \in Nat, NEW j0 \in Journals, NEW len \in Nat, NEW S \in SUBSET (1..len),
           NEW i, NEW s \in Answering(j0, n, len, S)
    PROVE  CloseOne(i, s, S) \in Answering(j0, n, len, S)
<1>1. s \in Sound(j0, n) /\ s \in SoundBesides(j0, n, 0) /\ Len(s.j.tickets) = len
  BY DEF Answering, Sound
<1>2. DOMAIN s.j.tickets = 1..len /\ s.j.tickets \in Seq(Ticket)
  BY <1>1, SoundType DEF Journals
<1>3. CASE i \notin S
  BY <1>3 DEF CloseOne
<1>4. CASE i \in S
  <2> DEFINE new == Answered(s.j.tickets[i])
             x == SetTicket(s, i, new)
  <2>1. i \in DOMAIN s.j.tickets /\ (s.j.tickets[i].closed => s.j.tickets[i].answered)
    BY <1>2, <1>4 DEF Answering
  <2>2. /\ x \in Sound(j0, n) /\ x.j.tickets = [s.j.tickets EXCEPT ![i] = new]
        /\ new.closed /\ new.answered
    BY <1>1, <2>1, AnsweredKeeps
  <2>3. CloseOne(i, s, S) = x
    BY <1>4 DEF CloseOne, Tickets
  <2> HIDE DEF x, new
  <2>4. DOMAIN x.j.tickets = 1..Len(x.j.tickets) /\ Len(x.j.tickets) \in Nat
    BY <2>2, SoundType DEF Sound
  <2>5. Len(x.j.tickets) = len
    <3>1. DOMAIN x.j.tickets = 1..len
      BY <1>2, <2>2
    <3> QED
      BY <2>4, <3>1
  <2>6. \A k \in S : x.j.tickets[k] = IF k = i THEN new ELSE s.j.tickets[k]
    BY <1>2, <2>2
  <2> QED
    BY <2>2, <2>3, <2>5, <2>6 DEF Answering
<1> QED
  BY <1>3, <1>4

LEMMA ClosedKeeps ==
    ASSUME NEW n \in Nat, NEW j0 \in Journals, NEW s \in Sound(j0, n), NEW S,
           S \subseteq OpenTickets(s)
    PROVE  Closed(s, S) \in Sound(j0, n)
<1> DEFINE len == Len(s.j.tickets)
<1>1. len \in Nat /\ DOMAIN s.j.tickets = 1..len
  BY SoundType DEF Sound
<1>2. S \in SUBSET (1..len) /\ s \in Answering(j0, n, len, S)
  BY <1>1 DEF OpenTickets, Tickets, Answering
<1> HIDE DEF len
<1>3. \A k \in 1..len : \A x \in Answering(j0, n, len, S) :
          CloseOne(k, x, S) \in Answering(j0, n, len, S)
  BY <1>1, <1>2, CloseOneKeeps
<1>4. len = Len(Tickets(s))
  BY DEF len, Tickets
<1>5. Closed(s, S) \in Answering(j0, n, len, S)
  BY <1>1, <1>2, <1>3, <1>4, CloseFold
<1> QED
  BY <1>5 DEF Answering

\* Resume, ticket by ticket.
LEMMA AnswerEscalationKeeps ==
    ASSUME NEW n \in Nat, NEW j0 \in Journals, NEW s \in Sound(j0, n), NEW i
    PROVE  AnswerEscalation(i, s) \in Sound(j0, n)
<1>1. s \in SoundBesides(j0, n, 0)
  BY DEF Sound
<1>2. CASE i \notin OpenTickets(s)
  BY <1>2 DEF AnswerEscalation
<1>3. CASE i \in OpenTickets(s)
  <2> DEFINE old == s.j.tickets[i]
             x == SetTicket(s, i, Answered(old))
  <2>1. i \in DOMAIN s.j.tickets /\ ~old.closed
    BY <1>3 DEF OpenTickets, Tickets
  <2>2. EnsureEngineer(s, i) \in Sound(j0, n)
    BY <1>1, <2>1, EnsureKeeps DEF Sound
  <2>3. x \in Sound(j0, n)
    BY <2>1, AnsweredKeeps
  <2>4. old.task \in Task
    <3>1. old \in Ticket
      BY <1>1, <2>1, SoundType
    <3> QED
      BY <3>1 DEF Ticket
  <2> HIDE DEF x
  <2>5. RetryOnce(x, old) \in Sound(j0, n)
    <3>1. Unblocked(x, old.task) \in Sound(j0, n)
      BY <2>3, <2>4, UnblockedKeeps
    <3>2. Granted(Unblocked(x, old.task), old.task) \in Sound(j0, n)
      BY <2>4, <3>1, GrantedKeeps
    <3> QED
      BY <2>3, <3>1, <3>2 DEF RetryOnce
  <2>6. \/ AnswerEscalation(i, s) = EnsureEngineer(s, i)
        \/ AnswerEscalation(i, s) = RetryOnce(x, old)
        \/ AnswerEscalation(i, s) = s
    BY <1>3 DEF AnswerEscalation, Tickets, x
  <2> QED
    BY <2>2, <2>5, <2>6
<1> QED
  BY <1>2, <1>3

-----------------------------------------------------------------------------
(* The invariant and the steps                                               *)

IncidentsInv ==
    /\ crashes \in 0..MaxCrashes /\ filing \subseteq Task \X {"transport", "permission"}
    /\ Bounded(journal, crashes) /\ Fits(journal, run)

\* A run begins without tickets.
LEMMA IncidentsInvInit == Init => IncidentsInv
<1> SUFFICES ASSUME Init PROVE IncidentsInv
  OBVIOUS
<1>1. journal \in Journals /\ journal.tickets = <<>> /\ journal.slot = 0
  BY DEF Init, Journals, None, PromotionThreshold
<1>2. Bounded(journal, 0)
  BY <1>1, IncidentsAssumption DEF Bounded, BoundedBesides, Proper
<1>3. run \in RunStates
  <2>1. [t \in Task |-> "READY"] \in [Task -> TaskState]
    BY DEF TaskState
  <2>2. [k \in 1..MaxTickets |-> 0] \in [1..MaxTickets -> 0..MaxLostEngineers]
    BY DEF MaxLostEngineers
  <2>3. NoSession \in [ticket : 0..MaxTickets, alive : BOOLEAN]
    BY IncidentsAssumption DEF NoSession, None
  <2> QED
    BY <2>1, <2>2, <2>3 DEF Init, RunStates
<1>4. run.oncall.ticket = 0 /\ run.oncall.alive = FALSE
  BY DEF Init, NoSession, None
<1>5. Fits(journal, run)
  BY <1>1, <1>3, <1>4 DEF Fits, None
<1> QED
  BY <1>2, <1>5, IncidentsAssumption DEF Init, IncidentsInv

\* Every handler begins with what is saved.
LEMMA NowSound ==
    ASSUME IncidentsInv
    PROVE  /\ Now \in Sound(journal, crashes) /\ crashes \in Nat /\ journal \in Journals
           /\ Now.j = journal /\ Now.r = run /\ run \in RunStates
           /\ DOMAIN journal.tickets = 1..Len(journal.tickets) /\ Len(journal.tickets) \in Nat
<1>1. crashes \in Nat /\ Bounded(journal, crashes) /\ Fits(journal, run)
  BY IncidentsAssumption DEF IncidentsInv
<1>2. journal \in Journals /\ run \in RunStates
  BY <1>1 DEF Bounded, BoundedBesides, Proper, Fits
<1>3. DOMAIN journal.tickets = 1..Len(journal.tickets) /\ Len(journal.tickets) \in Nat
  BY <1>2 DEF Journals
<1>4. Stands(journal, journal)
  BY <1>3 DEF Stands
<1>5. Bounded(journal, crashes + 1)
  BY <1>1, Looser DEF Bounded
<1>6. Now.j = journal /\ Now.cuts = {journal} /\ Now.r = run
  BY DEF Now
<1>7. Now \in [j : Journals, cuts : SUBSET Journals, r : RunStates]
  BY <1>2 DEF Now
<1>8. Now \in Sound(journal, crashes)
  BY <1>1, <1>4, <1>5, <1>6, <1>7 DEF Sound, SoundBesides, Bounded
<1> QED
  BY <1>1, <1>2, <1>3, <1>6, <1>8

\* A step keeps the invariant, and what she answered stands.
Kept == IncidentsInv' /\ Stands(journal, journal')

FilesRight == filing' \subseteq Task \X {"transport", "permission"}

\* What a handler saves, or leaves behind when its process dies, is bounded.
LEMMA SavedKeeps ==
    ASSUME IncidentsInv, NEW s \in Sound(journal, crashes), Saved(s), FilesRight
    PROVE  Kept
<1>1. /\ BoundedBesides(s.j, crashes, 0) /\ Stands(journal, s.j) /\ Fits(s.j, s.r)
  BY SoundType DEF Sound
<1>2. journal' = s.j /\ run' = s.r /\ crashes' = crashes
  BY DEF Saved
<1>3. crashes \in 0..MaxCrashes
  BY DEF IncidentsInv
<1> QED
  BY <1>1, <1>2, <1>3 DEF Kept, IncidentsInv, Bounded, FilesRight

\* An engineer stays on a ticket of the journal when tickets are added.
LEMMA FitsOn ==
    ASSUME NEW j, NEW j2, NEW r, Fits(j, r), Stands(j, j2),
           Len(j.tickets) \in Nat, Len(j2.tickets) \in Nat
    PROVE  Fits(j2, r)
<1>1. r.oncall.ticket \in Nat
  BY IncidentsAssumption DEF Fits, RunStates
<1> QED
  BY <1>1 DEF Fits, Stands

LEMMA CrashedKeeps ==
    ASSUME IncidentsInv, NEW s \in Sound(journal, crashes), NEW dead, Fits(journal, dead),
           Crashed(s, dead), FilesRight
    PROVE  Kept
<1>1. PICK c \in s.cuts : journal' = c
  BY DEF Crashed
<1>2. Bounded(c, crashes + 1) /\ Stands(journal, c) /\ c \in Journals
  <2>1. s \in SoundBesides(journal, crashes, 0)
    BY DEF Sound
  <2> QED
    BY <2>1, SoundType
<1>3. crashes' = crashes + 1 /\ crashes' \in 0..MaxCrashes /\ run' = dead
  BY IncidentsAssumption DEF Crashed, IncidentsInv
<1>4. Fits(c, dead)
  <2>1. Len(c.tickets) \in Nat
    BY <1>2 DEF Journals
  <2> QED
    BY <1>2, <2>1, NowSound, FitsOn
<1> QED
  BY <1>1, <1>2, <1>3, <1>4 DEF Kept, IncidentsInv, FilesRight

LEMMA DoKeeps ==
    ASSUME IncidentsInv, NEW s \in Sound(journal, crashes), NEW dead, Fits(journal, dead),
           Do(s, dead), FilesRight
    PROVE  Kept
BY SavedKeeps, CrashedKeeps DEF Do

\* So does one whose process died.
LEMMA DeadFits ==
    ASSUME IncidentsInv
    PROVE  /\ Fits(journal, run) /\ Fits(journal, DeadEngineer)
           /\ \A t \in Task : Fits(journal, DeadTask(t))
<1>1. Fits(journal, run) /\ run \in RunStates
  BY DEF IncidentsInv, Fits
<1>2. Fits(journal, DeadEngineer)
  <2>1. /\ DeadEngineer \in RunStates /\ DeadEngineer.oncall.ticket = run.oncall.ticket
        /\ DeadEngineer.lost = run.lost /\ DeadEngineer.oncall.alive = FALSE
    BY <1>1 DEF DeadEngineer, RunStates
  <2> QED
    BY <1>1, <2>1 DEF Fits
<1>3. ASSUME NEW t \in Task PROVE Fits(journal, DeadTask(t))
  <2>1. DeadTask(t) \in RunStates /\ DeadTask(t).oncall = run.oncall /\ DeadTask(t).lost = run.lost
    BY <1>1 DEF DeadTask, RunStates, TaskState
  <2> QED
    BY <1>1, <2>1 DEF Fits
<1> QED
  BY <1>1, <1>2, <1>3

\* What a step sets a task to, alone or with a pass.
LEMMA TaskSet ==
    ASSUME NEW n \in Nat, NEW j0 \in Journals, NEW s \in Sound(j0, n),
           NEW t \in Task, NEW after \in TaskState
    PROVE  /\ SetTask(s, t, after) \in Sound(j0, n) /\ Pass(SetTask(s, t, after)) \in Sound(j0, n)
           /\ SetTask(s, t, after).j = s.j
<1>1. SetTask(s, t, after) \in Sound(j0, n) /\ SetTask(s, t, after).j = s.j
  BY SetTaskKeeps DEF Sound
<1> QED
  BY <1>1, PassKeeps

-----------------------------------------------------------------------------
(* Workers                                                                   *)

\* One lemma per handler: it is made of steps that keep Sound.
LEMMA AcceptKeeps == ASSUME IncidentsInv, NEW t \in Task, Accept(t) PROVE Kept
<1>1. \A after \in TaskState : Pass(SetTask(Now, t, after)) \in Sound(journal, crashes)
  BY NowSound, TaskSet
<1>2. Pass(SetTask(Now, t, "VERIFIED")) \in Sound(journal, crashes)
  BY <1>1 DEF TaskState
<1>3. Do(Pass(SetTask(Now, t, "VERIFIED")), DeadTask(t)) /\ filing' = filing
  BY DEF Accept
<1> QED
  BY <1>2, <1>3, DeadFits, DoKeeps DEF FilesRight, IncidentsInv

LEMMA StopKeeps ==
    ASSUME IncidentsInv, NEW t \in Task, NEW kind \in StopKinds, Stop(t, kind)
    PROVE  Kept
<1> DEFINE x == StopWorkerTask(Now, kind, t)
<1>1. kind \in Kind /\ IsStop(kind)
  BY IncidentsAssumption DEF Kind, IsStop
<1>2. \A after \in TaskState : SetTask(Now, t, after) \in Sound(journal, crashes)
  BY NowSound, TaskSet
<1>3. x \in Sound(journal, crashes)
  BY <1>2 DEF StopWorkerTask, TaskState
<1> HIDE DEF x
<1>4. Pass(StopRun(x, kind, t)) \in Sound(journal, crashes)
  BY <1>1, <1>3, NowSound, StopRunKeeps, PassKeeps
<1>5. Do(Pass(StopRun(x, kind, t)), DeadTask(t)) /\ filing' = filing
  BY DEF Stop, x
<1> QED
  BY <1>4, <1>5, DeadFits, DoKeeps DEF FilesRight, IncidentsInv

LEMMA ExhaustKeeps == ASSUME IncidentsInv, NEW t \in Task, ExhaustRetries(t) PROVE Kept
<1> DEFINE s == Pass(SetTask(Now, t, "RETRY_WAIT"))
<1>1. \A after \in TaskState : Pass(SetTask(Now, t, after)) \in Sound(journal, crashes)
  BY NowSound, TaskSet
<1>2. s \in Sound(journal, crashes)
  BY <1>1 DEF TaskState
<1>3. FilesRight
  BY DEF ExhaustRetries, FilesRight, IncidentsInv
<1>4. Saved(s) \/ Crashed(s, DeadTask(t))
  BY DEF ExhaustRetries
<1> HIDE DEF s
<1>5. Do(s, DeadTask(t))
  BY <1>4 DEF Do
<1> QED
  BY <1>2, <1>3, <1>5, DeadFits, DoKeeps

LEMMA FileExhaustedKeeps == ASSUME IncidentsInv, NEW t \in Task, FileExhausted(t) PROVE Kept
<1> DEFINE f == Len(journal.tickets) + 1
           x == OpenIncident(Now, "transport", t)
           y == EnsureEngineer(x, f)
           s == IF Full(Now) THEN Now ELSE y
<1>1. /\ Now \in Sound(journal, crashes) /\ crashes \in Nat /\ journal \in Journals
      /\ Now.j = journal /\ Len(journal.tickets) \in Nat
  BY NowSound
<1>2. ASSUME ~Full(Now) PROVE y \in Sound(journal, crashes)
  <2>1. "transport" \in Kind /\ ~IsStop("transport")
    BY DEF Kind, IsStop
  <2>2. /\ x \in SoundBesides(journal, crashes, f) /\ f \in DOMAIN x.j.tickets
        /\ x.j.tickets[f].kind = "transport"
    BY <1>1, <1>2, <2>1, OpenKeeps
  <2>3. x.j.tickets[f] \in Ticket
    BY <2>2, SoundType
  <2> HIDE DEF x
  <2>4. f \in Nat
    BY <1>1
  <2> HIDE DEF f
  <2>5. /\ y \in SoundBesides(journal, crashes, f)
        /\ y.j.tickets[f] = IF NeedsLane(x.j.tickets[f])
                            THEN [x.j.tickets[f] EXCEPT !.phase = "PIPELINE_ENGINEER"]
                            ELSE x.j.tickets[f]
    BY <1>1, <2>2, <2>4, EnsureKeeps
  <2>6. y.j.tickets[f].kind = "transport"
    BY <2>2, <2>3, <2>5 DEF Ticket
  <2> HIDE DEF y
  <2>7. BoundedBesides(y.j, crashes, f)
    BY <2>5, SoundType
  <2>8. Bounded(y.j, crashes)
    BY <1>1, <2>1, <2>4, <2>6, <2>7, Filed
  <2> QED
    BY <2>5, <2>8, FiledSound
<1>3. s \in Sound(journal, crashes)
  BY <1>1, <1>2
<1>4. Do(s, run) /\ FilesRight
  BY DEF FileExhausted, FilesRight, IncidentsInv
<1> HIDE DEF s
<1> QED
  BY <1>3, <1>4, DeadFits, DoKeeps

LEMMA AskKeeps == ASSUME IncidentsInv, NEW t \in Task, AskPermission(t) PROVE Kept
<1>1. \A after \in TaskState : SetTask(Now, t, after) \in Sound(journal, crashes)
  BY NowSound, TaskSet
<1>2. SetTask(Now, t, "RETRY_WAIT") \in Sound(journal, crashes)
  BY <1>1 DEF TaskState
<1>3. Saved(SetTask(Now, t, "RETRY_WAIT")) /\ FilesRight
  BY DEF AskPermission, FilesRight, IncidentsInv
<1> QED
  BY <1>2, <1>3, SavedKeeps

LEMMA FilePermissionKeeps == ASSUME IncidentsInv, NEW t \in Task, FilePermission(t) PROVE Kept
<1>1. ASSUME NEW kind \in Kind, IsStop(kind)
      PROVE  StopRun(Now, kind, t) \in Sound(journal, crashes)
  BY <1>1, NowSound, StopRunKeeps
<1>2. "permission" \in Kind /\ IsStop("permission")
  BY DEF Kind, IsStop
<1>3. StopRun(Now, "permission", t) \in Sound(journal, crashes)
  BY <1>1, <1>2
<1>4. Do(StopRun(Now, "permission", t), run) /\ FilesRight
  BY DEF FilePermission, FilesRight, IncidentsInv
<1> QED
  BY <1>3, <1>4, DeadFits, DoKeeps

LEMMA RetryKeeps == ASSUME IncidentsInv, NEW t \in Task, RetryAgain(t) PROVE Kept
<1>1. \A after \in TaskState : Pass(SetTask(Now, t, after)) \in Sound(journal, crashes)
  BY NowSound, TaskSet
<1>2. Pass(SetTask(Now, t, "READY")) \in Sound(journal, crashes)
  BY <1>1 DEF TaskState
<1>3. Do(Pass(SetTask(Now, t, "READY")), run) /\ FilesRight
  BY DEF RetryAgain, FilesRight, IncidentsInv
<1> QED
  BY <1>2, <1>3, DeadFits, DoKeeps

LEMMA DieKeeps ==
    ASSUME IncidentsInv, NEW r, Fits(journal, r), crashes < MaxCrashes, crashes' = crashes + 1,
           run' = r, UNCHANGED <<journal, filing>>
    PROVE  Kept
<1>1. crashes' \in 0..MaxCrashes
  BY IncidentsAssumption DEF IncidentsInv
<1>2. Bounded(journal, crashes + 1)
  BY NowSound, Looser DEF IncidentsInv, Bounded
<1>3. Stands(journal, journal)
  BY NowSound DEF Stands
<1> QED
  BY <1>1, <1>2, <1>3 DEF Kept, IncidentsInv

-----------------------------------------------------------------------------
(* The wake-up and the engineer                                              *)

\* The end of an engineer, lost or not.
LEMMA CompleteFits ==
    ASSUME NEW n, NEW j0, NEW s \in Sound(j0, n),
           NEW i \in 1..MaxTickets, NEW c \in 0..MaxLostEngineers
    PROVE  /\ CompletePipelineEngineer(s) \in Sound(j0, n) /\ CompletePipelineEngineer(s).j = s.j
           /\ [CompletePipelineEngineer(s) EXCEPT !.r.lost[i] = c] \in Sound(j0, n)
<1> DEFINE r == [s.r EXCEPT !.oncall = NoSession]
           q == [r EXCEPT !.lost[i] = c]
<1>1. s \in SoundBesides(j0, n, 0)
  BY DEF Sound
<1>2. /\ s.r \in RunStates /\ Fits(s.j, s.r) /\ s.j.tickets \in Seq(Ticket)
      /\ s \in [j : Journals, cuts : SUBSET Journals, r : RunStates]
  BY <1>1, SoundType DEF Journals
<1>3. NoSession \in [ticket : 0..MaxTickets, alive : BOOLEAN] /\ NoSession.ticket = 0 /\ NoSession.alive = FALSE
  BY IncidentsAssumption DEF NoSession, None
<1>4. r \in RunStates /\ r.oncall = NoSession
  BY <1>2, <1>3 DEF RunStates
<1>5. q \in RunStates /\ q.oncall = r.oncall
  BY <1>4 DEF RunStates
<1>6. Fits(s.j, r) /\ Fits(s.j, q)
  BY <1>2, <1>3, <1>4, <1>5 DEF Fits, None
<1> HIDE DEF r
<1>7. CompletePipelineEngineer(s) = [s EXCEPT !.r = r]
  BY <1>2 DEF CompletePipelineEngineer, r
<1>8. [s EXCEPT !.r = r] \in Sound(j0, n) /\ [s EXCEPT !.r = r].j = s.j /\ [s EXCEPT !.r = r].r = r
  BY <1>1, <1>6, RunKeeps DEF Sound
<1> DEFINE x == [s EXCEPT !.r = r]
<1>9. x \in [j : Journals, cuts : SUBSET Journals, r : RunStates] /\ x \in SoundBesides(j0, n, 0)
  BY <1>8, SoundType DEF Sound
<1>10. [x EXCEPT !.r.lost[i] = c] = [x EXCEPT !.r = q]
  BY <1>8, <1>9
<1>11. x.j = s.j
  BY <1>8
<1> HIDE DEF x, q
<1>12. [x EXCEPT !.r = q] \in Sound(j0, n)
  BY <1>6, <1>9, <1>11, RunKeeps DEF Sound
<1> QED
  BY <1>7, <1>8, <1>10, <1>12 DEF x

\* An engineer is only sent to a ticket that has not lost two.
LEMMA LostOnce ==
    ASSUME IncidentsInv, run.oncall.ticket \in 1..MaxTickets
    PROVE  run.lost[run.oncall.ticket] \in 0..1
<1> DEFINE i == run.oncall.ticket
<1>1. Fits(journal, run) /\ run \in RunStates
  BY DEF IncidentsInv, Fits
<1>2. i \in 1..MaxTickets /\ i # 0
  OBVIOUS
<1>3. run.lost[i] < 2
  BY <1>1, <1>2 DEF Fits, None, MaxLostEngineers
<1>4. run.lost \in [1..MaxTickets -> 0..2]
  BY <1>1 DEF RunStates, MaxLostEngineers
<1> HIDE DEF i
<1>5. run.lost[i] \in 0..2
  BY <1>2, <1>4
<1>6. run.lost[i] \in 0..1
  BY <1>3, <1>5
<1> QED
  BY <1>6 DEF i

\* The wake-up.
LEMMA SettleKeeps == ASSUME IncidentsInv, SettleDeadSessions PROVE Kept
<1> DEFINE task == [t \in Task |-> IF run.task[t] = "ADRIFT" THEN "READY" ELSE run.task[t]]
           r == [run EXCEPT !.task = task]
           back == [Now EXCEPT !.r.task = [t \in Task |-> IF @[t] = "ADRIFT" THEN "READY" ELSE @[t]]]
           free == IF run.oncall # NoSession /\ ~run.oncall.alive
                   THEN [back EXCEPT !.r.oncall = NoSession, !.r.lost[run.oncall.ticket] = @ + 1]
                   ELSE back
<1>1. /\ Now \in Sound(journal, crashes) /\ Now \in SoundBesides(journal, crashes, 0)
      /\ Now.j = journal /\ Now.r = run /\ run \in RunStates /\ Fits(journal, run)
      /\ crashes \in Nat /\ journal \in Journals
  BY NowSound DEF Sound, IncidentsInv
<1>2. Now \in [j : Journals, cuts : SUBSET Journals, r : RunStates]
  BY <1>1, SoundType
<1>3. task \in [Task -> TaskState]
  BY <1>1 DEF RunStates, TaskState
<1>4. back = [Now EXCEPT !.r = r]
  BY <1>1, <1>2
<1> HIDE DEF task, back
<1>5. r \in RunStates /\ r.oncall = run.oncall /\ r.lost = run.lost
  BY <1>1, <1>3 DEF RunStates
<1>6. Fits(journal, r)
  BY <1>1, <1>5 DEF Fits
<1> HIDE DEF r
<1>7. back \in Sound(journal, crashes) /\ back.j = journal /\ back.r = r
  BY <1>1, <1>4, <1>6, RunKeeps DEF Sound
<1>8. free \in Sound(journal, crashes)
  <2>1. CASE run.oncall # NoSession /\ ~run.oncall.alive
    <3> DEFINE i == run.oncall.ticket
               c == run.lost[i] + 1
    <3>1. run.oncall \in [ticket : 0..MaxTickets, alive : BOOLEAN]
      BY <1>1 DEF RunStates
    <3>2. i \in 1..MaxTickets
      <4>1. i = 0 => run.oncall = NoSession
        BY <2>1, <3>1 DEF NoSession, None
      <4> QED
        BY <2>1, <3>1, <4>1, IncidentsAssumption
    <3>3. run.lost[i] \in 0..1
      BY <3>2, LostOnce
    <3>4. c \in 0..MaxLostEngineers
      <4> HIDE DEF i
      <4> QED
        BY <3>3 DEF MaxLostEngineers
    <3>5. [CompletePipelineEngineer(back) EXCEPT !.r.lost[i] = c] \in Sound(journal, crashes)
      BY <1>7, <3>2, <3>4, CompleteFits
    <3>6. [back EXCEPT !.r.oncall = NoSession, !.r.lost[i] = @ + 1] = [CompletePipelineEngineer(back) EXCEPT !.r.lost[i] = c]
      <4>1. back \in [j : Journals, cuts : SUBSET Journals, r : RunStates]
        BY <1>7, SoundType DEF Sound
      <4>2. back.r.lost[i] = run.lost[i]
        BY <1>5, <1>7
      <4> HIDE DEF i
      <4> QED
        BY <4>1, <4>2 DEF CompletePipelineEngineer, RunStates
    <3> QED
      BY <2>1, <3>5, <3>6
  <2>2. CASE ~(run.oncall # NoSession /\ ~run.oncall.alive)
    BY <1>7, <2>2
  <2> QED
    BY <2>1, <2>2
<1>9. Do(Pass(free), run) /\ FilesRight
  BY DEF SettleDeadSessions, FilesRight, IncidentsInv, back
<1> HIDE DEF free
<1>10. Pass(free) \in Sound(journal, crashes)
  BY <1>1, <1>8, PassKeeps
<1> QED
  BY <1>9, <1>10, DeadFits, DoKeeps

LEMMA PassStepKeeps == ASSUME IncidentsInv, ReserveFrontier PROVE Kept
<1>1. Pass(Now) \in Sound(journal, crashes)
  BY NowSound, PassKeeps
<1>2. Do(Pass(Now), run) /\ FilesRight
  BY DEF ReserveFrontier, FilesRight, IncidentsInv
<1> QED
  BY <1>1, <1>2, DeadFits, DoKeeps

\* Whoever is on call has a ticket of the journal, and has not been lost on it twice.
LEMMA OnCallHas ==
    ASSUME IncidentsInv, AtWork
    PROVE  /\ OnCall \in DOMAIN journal.tickets /\ OnCall \in 1..MaxTickets
           /\ Held \in Ticket /\ Ok(Held) /\ run.lost[OnCall] \in 0..1
           /\ Held.task \in Task
<1>1. /\ Fits(journal, run) /\ run \in RunStates /\ Bounded(journal, crashes)
      /\ DOMAIN journal.tickets = 1..Len(journal.tickets) /\ Len(journal.tickets) \in Nat
      /\ journal \in Journals
  BY NowSound DEF IncidentsInv
<1>2. run.oncall \in [ticket : 0..MaxTickets, alive : BOOLEAN] /\ run.oncall.alive
  BY <1>1 DEF RunStates, AtWork
<1>3. OnCall \in 1..MaxTickets /\ OnCall \in DOMAIN journal.tickets
  BY <1>1, <1>2, IncidentsAssumption DEF Fits, OnCall, None
<1>4. Held \in Ticket /\ Ok(Held)
  BY <1>1, <1>3 DEF Held, Journals, Bounded, BoundedBesides, Proper
<1>5. run.lost[OnCall] \in 0..1
  BY <1>3, LostOnce DEF OnCall
<1> QED
  BY <1>3, <1>4, <1>5 DEF Ticket

\* devops-return-task and devops-resolve-incident.
LEMMA ReturnKeeps == ASSUME IncidentsInv, ReturnStoppedTask PROVE Kept
<1> DEFINE new == [Held EXCEPT !.returned = Held.kind = "ladder"]
           x == SetTicket(Now, OnCall, new)
           s == SetTask(x, Held.task, "READY")
<1>1. AtWork /\ Held.phase = "PIPELINE_ENGINEER"
  BY DEF ReturnStoppedTask, EngineerHolds
<1>2. Held \in Ticket /\ Ok(Held) /\ OnCall \in DOMAIN journal.tickets /\ Held.task \in Task
  BY <1>1, OnCallHas
<1>3. Moves(Held, new)
  <2>1. (Held.kind = "ladder") \in BOOLEAN
    OBVIOUS
  <2> DEFINE b == Held.kind = "ladder"
  <2> HIDE DEF b
  <2>2. ASSUME b \in BOOLEAN PROVE Moves(Held, [Held EXCEPT !.returned = b])
    BY <1>1, <1>2, <2>2 DEF Moves, Ok, Ticket
  <2> QED
    BY <2>1, <2>2 DEF b
<1> HIDE DEF new
<1>4. x \in Sound(journal, crashes)
  <2>1. Now \in SoundBesides(journal, crashes, 0) /\ OnCall \in DOMAIN Now.j.tickets
    BY <1>2, NowSound DEF Sound
  <2>2. Now.j.tickets[OnCall] = Held
    BY NowSound DEF Held
  <2>3. Moves(Now.j.tickets[OnCall], new)
    BY <1>3, <2>2
  <2> QED
    BY <2>1, <2>3, NowSound, SetTicketKeeps DEF Sound
<1> HIDE DEF x
<1>5. \A after \in TaskState : SetTask(x, Held.task, after) \in Sound(journal, crashes)
  BY <1>2, <1>4, NowSound, TaskSet
<1>6. s \in Sound(journal, crashes)
  BY <1>5 DEF TaskState
<1>7. Do(s, DeadEngineer) /\ FilesRight
  BY DEF ReturnStoppedTask, FilesRight, IncidentsInv, x, new
<1> HIDE DEF s
<1> QED
  BY <1>6, <1>7, DeadFits, DoKeeps

LEMMA ResolveKeeps == ASSUME IncidentsInv, ResolveIncident PROVE Kept
<1> DEFINE new == [Held EXCEPT !.phase = "RESOLVED", !.closed = TRUE]
           l == Learned(journal, Held)
           j2 == [journal EXCEPT !.tickets[OnCall] = [@ EXCEPT !.phase = "RESOLVED", !.closed = TRUE],
                                 !.learned = l]
<1>1. AtWork /\ Held.phase = "PIPELINE_ENGINEER"
  BY DEF ResolveIncident, EngineerHolds
<1>2. /\ Held \in Ticket /\ Ok(Held) /\ OnCall \in DOMAIN journal.tickets
      /\ journal.tickets[OnCall] = Held
  BY <1>1, OnCallHas DEF Held
<1>3. Moves(Held, new) /\ new \in Ticket
  BY <1>1, <1>2 DEF Moves, Ok, Ticket, Phase
<1>4. /\ journal \in Journals /\ journal.tickets \in Seq(Ticket) /\ crashes \in Nat
      /\ DOMAIN journal.tickets = 1..Len(journal.tickets) /\ Len(journal.tickets) \in Nat
      /\ Bounded(journal, crashes)
  BY NowSound DEF Journals, IncidentsInv
<1>5. l \in 0..PromotionThreshold
  BY <1>4 DEF Learned, Journals, PromotionThreshold
<1>6. journal' = j2 /\ UNCHANGED <<run, filing, crashes>>
  BY DEF ResolveIncident
<1> HIDE DEF l
<1>7. /\ j2 \in Journals /\ j2.tickets = [journal.tickets EXCEPT ![OnCall] = new]
      /\ j2.slot = journal.slot /\ Len(j2.tickets) = Len(journal.tickets)
  <2>1. [journal.tickets EXCEPT ![OnCall] = new] \in Seq(Ticket)
    <3>1. new \in Ticket /\ journal.tickets \in Seq(Ticket)
      BY <1>3, <1>4
    <3> HIDE DEF new
    <3> QED
      BY <1>2, <3>1, SetKeepsType
  <2> DEFINE t2 == [journal.tickets EXCEPT ![OnCall] = [@ EXCEPT !.phase = "RESOLVED", !.closed = TRUE]]
  <2>2. t2 = [journal.tickets EXCEPT ![OnCall] = new]
    BY <1>2
  <2>3. j2.tickets = t2 /\ j2.slot = journal.slot
    BY <1>4 DEF Journals
  <2>4. j2 \in Journals
    <3>1. t2 \in Seq(Ticket)
      BY <2>1, <2>2
    <3> QED
      BY <1>4, <1>5, <3>1 DEF Journals
  <2> HIDE DEF j2, t2, new
  <2> QED
    BY <1>3, <1>4, <2>2, <2>3, <2>4
<1> HIDE DEF j2, new
<1>8. \A k \in DOMAIN journal.tickets : Moves(journal.tickets[k], j2.tickets[k])
  <2> TAKE k \in DOMAIN journal.tickets
  <2>1. j2.tickets[k] = IF k = OnCall THEN new ELSE journal.tickets[k]
    BY <1>7
  <2>2. journal.tickets[k] \in Ticket /\ Ok(journal.tickets[k])
    BY <1>4 DEF Bounded, BoundedBesides, Proper
  <2> QED
    BY <1>2, <1>3, <2>1, <2>2, StaysPut
<1>9. j2.slot \in 0..Len(journal.tickets)
  BY <1>4, <1>7 DEF Bounded, BoundedBesides, Proper
<1>10. BoundedBesides(j2, crashes, 0) /\ Stands(journal, j2)
  BY <1>4, <1>7, <1>8, <1>9, MovesKeep DEF Bounded
<1>11. Fits(j2, run)
  BY <1>4, <1>7, <1>10, DeadFits, FitsOn
<1> QED
  BY <1>6, <1>10, <1>11 DEF Kept, IncidentsInv, Bounded

\* The three ends of a turn.
LEMMA EndResolvedKeeps == ASSUME IncidentsInv, EndResolved PROVE Kept
<1> DEFINE x == CompletePipelineEngineer(Now)
<1>1. AtWork /\ Do(Pass(x), DeadEngineer) /\ FilesRight
  BY DEF EndResolved, FilesRight, IncidentsInv
<1>2. x \in Sound(journal, crashes)
  <2>1. 1 \in 1..MaxTickets /\ 0 \in 0..MaxLostEngineers
    BY IncidentsAssumption DEF MaxLostEngineers
  <2> QED
    BY <2>1, NowSound, CompleteFits
<1> HIDE DEF x
<1>3. Pass(x) \in Sound(journal, crashes)
  BY <1>2, NowSound, PassKeeps
<1> QED
  BY <1>1, <1>3, DeadFits, DoKeeps

LEMMA EndEscalatedKeeps == ASSUME IncidentsInv, EndEscalated PROVE Kept
<1> DEFINE up == Escalated(Now, OnCall)
           x == IF Held.answered THEN up ELSE BlockEscalatedTasks(up, OnCall)
           y == CompletePipelineEngineer(x)
<1>1. AtWork /\ Do(Pass(y), DeadEngineer) /\ FilesRight
  BY DEF EndEscalated, FilesRight, IncidentsInv
<1>2. Now \in SoundBesides(journal, crashes, 0) /\ OnCall \in DOMAIN Now.j.tickets
  BY <1>1, NowSound, OnCallHas DEF Sound
<1>3. /\ up \in SoundBesides(journal, crashes, 0) /\ up \in Sound(journal, crashes)
      /\ Len(up.j.tickets) = Len(Now.j.tickets)
  BY <1>2, NowSound, EscalatedKeeps DEF Sound
<1> HIDE DEF up
<1>4. OnCall \in DOMAIN up.j.tickets
  BY <1>2, <1>3, SoundType
<1>5. BlockEscalatedTasks(up, OnCall) \in Sound(journal, crashes)
  BY <1>3, <1>4, BlockKeeps DEF Sound
<1>6. x \in Sound(journal, crashes)
  BY <1>3, <1>5
<1> HIDE DEF x
<1>7. y \in Sound(journal, crashes)
  <2>1. 1 \in 1..MaxTickets /\ 0 \in 0..MaxLostEngineers
    BY IncidentsAssumption DEF MaxLostEngineers
  <2> QED
    BY <1>6, <2>1, CompleteFits
<1> HIDE DEF y
<1>8. Pass(y) \in Sound(journal, crashes)
  BY <1>7, NowSound, PassKeeps
<1> QED
  BY <1>1, <1>8, DeadFits, DoKeeps

LEMMA EndRefusedKeeps == ASSUME IncidentsInv, EndRefused PROVE Kept
<1> DEFINE c == run.lost[OnCall] + 1
           x == [CompletePipelineEngineer(Now) EXCEPT !.r.lost[OnCall] = @ + 1]
           y == [CompletePipelineEngineer(Now) EXCEPT !.r.lost[OnCall] = c]
<1>1. AtWork /\ Do(Pass(x), DeadEngineer) /\ FilesRight
  BY DEF EndRefused, FilesRight, IncidentsInv
<1>2. c \in 0..MaxLostEngineers /\ OnCall \in 1..MaxTickets
  <2>1. run.lost[OnCall] \in 0..1 /\ OnCall \in 1..MaxTickets
    BY <1>1, OnCallHas
  <2> QED
    BY <2>1 DEF MaxLostEngineers
<1>3. y \in Sound(journal, crashes)
  BY <1>2, NowSound, CompleteFits
<1>4. x = y
  <2>1. Now \in [j : Journals, cuts : SUBSET Journals, r : RunStates] /\ Now.r = run
    BY NowSound, SoundType DEF Sound
  <2>2. CompletePipelineEngineer(Now).r.lost[OnCall] = run.lost[OnCall]
    BY <2>1 DEF CompletePipelineEngineer, RunStates
  <2> QED
    BY <2>2
<1> HIDE DEF x, y
<1>5. Pass(x) \in Sound(journal, crashes)
  BY <1>3, <1>4, NowSound, PassKeeps
<1> QED
  BY <1>1, <1>5, DeadFits, DoKeeps

-----------------------------------------------------------------------------
(* The owner                                                                 *)

\* unblock, with and without the option to replan, and Resume.
LEMMA AnswerTaskKeeps == ASSUME IncidentsInv, NEW t \in Task, AnswerTask(t) PROVE Kept
<1> DEFINE c == Closed(Now, Mine(t))
           u == Unblocked(c, t)
           s == IF AsksPermission(t) THEN Granted(u, t) ELSE u
<1>1. Do(s, run) /\ FilesRight
  BY DEF AnswerTask, FilesRight, IncidentsInv
<1>2. Mine(t) \subseteq OpenTickets(Now)
  BY DEF Mine, Waiting
<1>3. c \in Sound(journal, crashes)
  BY <1>2, NowSound, ClosedKeeps
<1> HIDE DEF c
<1>4. u \in Sound(journal, crashes)
  BY <1>3, UnblockedKeeps
<1> HIDE DEF u
<1>5. s \in Sound(journal, crashes)
  BY <1>4, GrantedKeeps
<1> HIDE DEF s
<1> QED
  BY <1>1, <1>5, DeadFits, DoKeeps

LEMMA AnswerReplanKeeps == ASSUME IncidentsInv, NEW t \in Task, AnswerReplan(t) PROVE Kept
<1> DEFINE c == Closed(Now, Mine(t))
           s == IF run.task[t] \in {"RUNNING", "ADRIFT", "VERIFIED"} THEN c ELSE SetTask(c, t, "REPLANNED")
<1>1. Do(s, run) /\ FilesRight
  BY DEF AnswerReplan, FilesRight, IncidentsInv
<1>2. Mine(t) \subseteq OpenTickets(Now)
  BY DEF Mine, Waiting
<1>3. c \in Sound(journal, crashes)
  BY <1>2, NowSound, ClosedKeeps
<1> HIDE DEF c
<1>4. \A after \in TaskState : SetTask(c, t, after) \in Sound(journal, crashes)
  BY <1>3, NowSound, TaskSet
<1>5. s \in Sound(journal, crashes)
  BY <1>3, <1>4 DEF TaskState
<1> HIDE DEF s
<1> QED
  BY <1>1, <1>5, DeadFits, DoKeeps

LEMMA AnswerAllKeeps == ASSUME IncidentsInv, AnswerEscalations PROVE Kept
<1> DEFINE s == FoldUp(AnswerEscalation, Now, Len(journal.tickets))
<1>1. Do(s, run) /\ FilesRight
  BY DEF AnswerEscalations, FilesRight, IncidentsInv
<1>2. /\ Now \in Sound(journal, crashes) /\ crashes \in Nat /\ journal \in Journals
      /\ Len(journal.tickets) \in Nat
  BY NowSound
<1>3. \A k \in 1..Len(journal.tickets) : \A x \in Sound(journal, crashes) :
          AnswerEscalation(k, x) \in Sound(journal, crashes)
  BY <1>2, AnswerEscalationKeeps
<1>4. s \in Sound(journal, crashes)
  BY <1>2, <1>3, AnswerFold
<1> HIDE DEF s
<1> QED
  BY <1>1, <1>4, DeadFits, DoKeeps

-----------------------------------------------------------------------------
(* The theorems                                                              *)

\* Every step.
LEMMA IncidentsInvNext == IncidentsInv /\ [Next]_vars => IncidentsInv' /\ (UNCHANGED vars \/ Stands(journal, journal'))
<1> SUFFICES ASSUME IncidentsInv, [Next]_vars
             PROVE  IncidentsInv' /\ (UNCHANGED vars \/ Stands(journal, journal'))
  OBVIOUS
<1>1. CASE UNCHANGED vars
  BY <1>1 DEF vars, IncidentsInv
<1>2. CASE WorkerNext
  <2>1. PICK t \in Task :
           \/ Accept(t) \/ ExhaustRetries(t) \/ FileExhausted(t) \/ RetryAgain(t) \/ Die(t)
           \/ AskPermission(t) \/ FilePermission(t)
           \/ \E kind \in StopKinds : Stop(t, kind)
    BY <1>2 DEF WorkerNext
  <2>2. Die(t) => Kept
    BY DeadFits, DieKeeps DEF Die
  <2> QED
    BY <2>1, <2>2, AcceptKeeps, ExhaustKeeps, FileExhaustedKeeps, RetryKeeps, AskKeeps,
       FilePermissionKeeps, StopKeeps DEF Kept
<1>3. CASE EngineerNext
  <2>1. EngineerDies => Kept
    BY DeadFits, DieKeeps DEF EngineerDies
  <2> QED
    BY <1>3, <2>1, ReturnKeeps, ResolveKeeps, EndResolvedKeeps, EndEscalatedKeeps,
       EndRefusedKeeps DEF EngineerNext, Kept
<1>4. CASE OwnerNext
  BY <1>4, AnswerAllKeeps, AnswerTaskKeeps, AnswerReplanKeeps DEF OwnerNext, Kept
<1>5. CASE ReserveFrontier
  BY <1>5, PassStepKeeps DEF Kept
<1>6. CASE SettleDeadSessions
  BY <1>6, SettleKeeps DEF Kept
<1> QED
  BY <1>1, <1>2, <1>3, <1>4, <1>5, <1>6 DEF Next

LEMMA IncidentsInvAlways == Spec => []IncidentsInv
BY IncidentsInvInit, IncidentsInvNext, PTL DEF Spec

\* The invariant gives the type of the state.
LEMMA InvTypes == IncidentsInv => TypeOK
<1> SUFFICES ASSUME IncidentsInv PROVE TypeOK
  OBVIOUS
<1>1. Bounded(journal, crashes) /\ Fits(journal, run) /\ journal \in Journals /\ run \in RunStates
  BY NowSound DEF IncidentsInv
<1>2. /\ journal.tickets \in Seq(Ticket) /\ Len(journal.tickets) <= MaxTickets
      /\ journal.slot \in 0..Len(journal.tickets) /\ journal.learned \in 0..PromotionThreshold
  BY <1>1 DEF Bounded, BoundedBesides, Proper, Journals
<1>3. run.oncall.ticket \in 0..Len(journal.tickets) /\ run.oncall.alive \in BOOLEAN
  <2>1. run.oncall.ticket \in 0..MaxTickets /\ run.oncall.ticket <= Len(journal.tickets)
    BY <1>1 DEF Fits, RunStates
  <2>2. Len(journal.tickets) \in Nat
    BY <1>2
  <2> QED
    BY <1>1, <2>1, <2>2, IncidentsAssumption DEF RunStates
<1>4. /\ run.task \in [Task -> TaskState] /\ run.granted \subseteq Task
      /\ run.lost \in [1..MaxTickets -> 0..MaxLostEngineers]
  BY <1>1 DEF RunStates
<1> QED
  BY <1>2, <1>3, <1>4 DEF TypeOK, IncidentsInv

\* The repairs of a stop are among the tickets that were counted when it was filed, and itself.
LEMMA InvBounds == IncidentsInv => RepairsAreBounded
<1> SUFFICES ASSUME IncidentsInv PROVE RepairsAreBounded
  OBVIOUS
<1>1. /\ Bounded(journal, crashes) /\ journal \in Journals /\ crashes \in Nat
      /\ DOMAIN journal.tickets = 1..Len(journal.tickets) /\ Len(journal.tickets) \in Nat
  BY NowSound DEF IncidentsInv
<1>2. ASSUME NEW i \in StopTickets PROVE Cardinality(Repairs(i)) <= MaxRepeatedStops + crashes
  <2>1. i \in DOMAIN journal.tickets /\ IsStop(journal.tickets[i].kind) /\ i \in Nat
    BY <1>1 DEF StopTickets
  <2>2. Counted(journal, crashes, i) /\ Tight(journal, crashes, i)
    BY <1>1, <2>1 DEF Bounded, BoundedBesides
  <2>3. /\ IsFiniteSet(Since(journal, i)) /\ Count(journal, i) \in Nat
        /\ Cardinality(Since(journal, i)) = Count(journal, i)
        /\ Since(journal, i) \in SUBSET (1..(i - 1))
    BY <2>1, CountType DEF Count
  <2>4. \A k : SameStop(Now, i, k) <=> Alike(journal, i, k)
    BY NowSound DEF SameStop, Alike, Tickets
  <2>5. Repairs(i) \ {i} \in SUBSET Since(journal, i)
    <3> SUFFICES ASSUME NEW k \in Repairs(i), k # i PROVE k \in Since(journal, i)
      OBVIOUS
    <3>1. k \in 1..i /\ Alike(journal, i, k) /\ ~journal.tickets[k].answered
      BY <2>4 DEF Repairs
    <3>2. k \in 1..(i - 1)
      BY <2>1, <3>1
    <3>3. \A m \in (k + 1)..(i - 1) : Alike(journal, i, m) => ~AnsweredByHer(journal.tickets[m])
      <4> TAKE m \in (k + 1)..(i - 1)
      <4>1. m \in k..i
        BY <2>1, <3>1
      <4> QED
        BY <2>4, <4>1 DEF Repairs
    <3> QED
      BY <3>1, <3>2, <3>3 DEF Since, AnsweredByHer
  <2>6. IsFiniteSet(Repairs(i) \ {i}) /\ Cardinality(Repairs(i) \ {i}) <= Count(journal, i)
    BY <2>3, <2>5, FS_Subset
  <2>7. CASE i \in Repairs(i)
    <3>1. journal.tickets[i].closed /\ ~journal.tickets[i].answered
      BY <2>7 DEF Repairs
    <3>2. Count(journal, i) <= MaxRepeatedStops - 1 + crashes
      BY <2>2, <3>1 DEF Tight
    <3>3. Repairs(i) = (Repairs(i) \ {i}) \cup {i}
      BY <2>7
    <3>4. Cardinality(Repairs(i)) = Cardinality(Repairs(i) \ {i}) + 1
      BY <2>6, <3>3, FS_AddElement
    <3>5. Cardinality(Repairs(i) \ {i}) \in Nat
      BY <2>6, FS_CardinalityType
    <3> QED
      BY <1>1, <2>3, <2>6, <3>2, <3>4, <3>5 DEF MaxRepeatedStops
  <2>8. CASE i \notin Repairs(i)
    <3>1. Repairs(i) \ {i} = Repairs(i)
      BY <2>8
    <3>2. Cardinality(Repairs(i)) \in Nat
      BY <2>6, <3>1, FS_CardinalityType
    <3>3. Count(journal, i) <= 2 + crashes /\ Cardinality(Repairs(i)) <= Count(journal, i)
      BY <2>2, <2>6, <3>1 DEF Counted, MaxRepeatedStops
    <3> QED
      BY <1>1, <2>3, <3>2, <3>3 DEF MaxRepeatedStops
  <2> QED
    BY <2>7, <2>8
<1> QED
  BY <1>2, InvTypes DEF RepairsAreBounded

\* An engineer repairs the same stop twice; the third time it is the owner's, unless a
\* process died between filing the ticket and counting (stop_repeats.py).
THEOREM RepairsAreBoundedAlways == Spec => []RepairsAreBounded
BY IncidentsInvAlways, InvBounds, PTL

\* No handler, and no process that dies in one, touches a ticket that the owner has answered.
THEOREM AnswersStandAlways == Spec => AnswersStand
<1>1. IncidentsInv /\ [Next]_vars =>
        [\A i \in DOMAIN journal.tickets :
            journal.tickets[i].answered => journal'.tickets[i] = journal.tickets[i]]_vars
  BY IncidentsInvNext DEF Stands
<1> QED
  BY <1>1, IncidentsInvAlways, PTL DEF Spec, AnswersStand
=============================================================================
