---------------------------- MODULE RepairProofs ----------------------------
(***************************************************************************)
(* Proofs about Repair, for any number of projects on the installation,    *)
(* any patches and any sets of modules they change.                        *)
(***************************************************************************)
EXTENDS Repair, SequenceTheorems, WellFoundedInduction, TLAPS

-----------------------------------------------------------------------------
(* The invariant                                                             *)

Has(t, m, p) == \E i \in DOMAIN t[m] : t[m][i] = p

\* No write that failed touched a module of the patch.
Clear(p, lost) == Touches[p] \cap lost = {}

\* A tree that holds each patch whole or not at all but for the modules `lost`, in no text
\* twice, and none that was not proven before.
Whole(t, known, lost) ==
    /\ t \in Text
    /\ \A p \in Patch : Clear(p, lost) => \/ \A m \in Touches[p] : Has(t, m, p)
                                          \/ \A m \in Touches[p] : ~Has(t, m, p)
    /\ \A m \in Module : \A i, j \in DOMAIN t[m] : t[m][i] = t[m][j] => i = j
    /\ \A m \in Module, p \in Patch : Has(t, m, p) => p \in known

Known == {p \in Patch : place[p] # "absent"}

Trees ==
    /\ Whole(current, Known, cut)
    /\ \A r \in Run : wake[r].at = "copied" => Whole(wake[r].tree, Known, cut \cup wake[r].cut)
    /\ before \in [Patch -> Text]
    /\ \A p \in Patch : \A m \in Touches[p] : ~Has(before[p], m, p)

Wake == [at : {"idle", "copied", "filing"}, tree : Text \cup {<<>>}, left : SUBSET Entry,
         done : SUBSET Entry, bad : SUBSET Entry, gone : SUBSET Patch, cut : SUBSET Module]

\* What a wake-up has in hand is staged for its project, each entry with one fate.
Hands(r, w) ==
    /\ w.at = "idle" => w = Idle
    /\ w.at = "copied" => w.gone = {}
    /\ w.left \cup w.done \cup w.bad \subseteq PendingEntries(r)
    /\ w.left \cap w.done = {} /\ w.left \cap w.bad = {} /\ w.done \cap w.bad = {}

Wakes == wake \in [Run -> Wake] /\ \A r \in Run : Hands(r, wake[r])

Places ==
    /\ place \in [Patch -> Where] /\ revert \in [Patch -> Where] /\ by \in [Patch -> Run]
    /\ recorded \in [Patch -> Nat] /\ aged \subseteq Entry
    /\ crashes \in 0..MaxCrashes /\ faults \in 0..MaxFaults /\ cut \subseteq Module

Kinds == {"ladder_exhausted", "runtime_patch_taken_back", "runtime_patch_refused"}
Ticket == [no : Nat, kind : Kinds, open : BOOLEAN]
Grant == [grounds : SUBSET Patch, was : Nat, now : Nat, revoked : BOOLEAN]

Ladder ==
    /\ ticket \in [Run -> Ticket] /\ returns \in [Run -> Seq(Grant)]
    /\ task \in [Run -> {"BLOCKED", "READY", "RUNNING", "VERIFIED"}]
    /\ \A r \in Run : task[r] = "BLOCKED" => ticket[r].open
    /\ rehires \in [Run -> Nat] /\ used \in [Run -> Nat]

\* The revisions of a task have outgrown what h fresh hires allow.
Outgrown(r, h) == used[r] >= Budget * (h + 1)

\* A grant that still gives its task what it has, to one that had nothing left.
Carries(r, g) == ~g.revoked /\ g.now = rehires[r] /\ Outgrown(r, g.was)

Earned(r) ==
    /\ \A i \in DOMAIN returns[r] :
          /\ Outgrown(r, returns[r][i].was) \/ returns[r][i].was = returns[r][i].now
          /\ \A p \in returns[r][i].grounds : by[p] = r
    /\ Outgrown(r, rehires[r]) \/ \E i \in DOMAIN returns[r] : Carries(r, returns[r][i])

Grants == \A r \in Run : Earned(r)

\* No wake-up was killed: a grant that was not revoked has a patch that stands, or one
\* that was just refused.
Grounded ==
    crashes = 0 =>
        \A r \in Run : \A i \in DOMAIN returns[r] :
            ~returns[r][i].revoked =>
                \E p \in returns[r][i].grounds : Live(p) \/ p \in wake[r].gone

IInv == Places /\ Wakes /\ Trees /\ Ladder /\ Grants /\ Grounded

\* Of the wake-ups on the installation at most one has a copy of the tree open.  The lock
\* install_pending holds is the one of its project: several projects can violate this, one
\* cannot.
OneCopy == \A r, q \in Run : wake[r].at = "copied" /\ wake[q].at = "copied" => r = q

Within(t, p) == \E m \in Touches[p] : Has(t, m, p)

\* The symlink was switched and the directory is still to be moved.
Filing(kind, p) == wake[by[p]].at = "filing" /\ <<kind, p>> \in wake[by[p]].done

\* What the ledgers and the wake-ups together say is behind the symlink.
Standing(p) ==
    /\ place[p] = "installed" \/ Filing("patch", p)
    /\ revert[p] # "installed" /\ ~Filing("revert", p)

\* Only what was installed is taken back.
Taken == \A p \in Patch : revert[p] # "absent" => place[p] = "installed"

Behind == \A p \in Patch : Clear(p, cut) => (Within(current, p) <=> Standing(p))

\* An open copy is what stands with what the wake-up has put in and taken out.
CopyStands(r) ==
    wake[r].at = "copied" =>
        \A p \in Patch : Clear(p, cut \cup wake[r].cut) =>
            (Within(wake[r].tree, p) <=> /\ Standing(p) \/ <<"patch", p>> \in wake[r].done
                                         /\ <<"revert", p>> \notin wake[r].done)

Stands == Taken /\ (crashes = 0 => Behind /\ \A r \in Run : CopyStands(r))

-----------------------------------------------------------------------------
(* The ladder                                                                *)

\* A set of numbers has a least one.
LEMMA LeastNumber ==
    ASSUME NEW S \in SUBSET Nat, S # {}
    PROVE  \E m \in S : \A k \in S : m <= k
<1> DEFINE less == OpToRel(<, Nat)
<1>1. IsWellFoundedOn(less, Nat)
  BY NatLessThanWellFounded
<1>2. \A i, j \in Nat : i < j => <<i, j>> \in less
  BY DEF OpToRel
<1> HIDE DEF less
<1>3. PICK m \in S : \A k \in S : <<k, m>> \notin less
  BY <1>1, WFMin
<1>4. \A k \in S : m <= k
  <2>1. ASSUME NEW k \in S PROVE m \in Nat /\ k \in Nat /\ ~(k < m)
    BY <1>2, <1>3
  <2> QED
    BY <2>1
<1> QED
  BY <1>3, <1>4

\* What a fresh hire leaves of the ladder when the returns `hit` are taken back in turn:
\* the recursion that HiresLeft writes down has a value.
LEMMA HiresAreLeft ==
    ASSUME NEW g \in Seq(Grant), NEW h0 \in Nat, NEW hit \in SUBSET Nat
    PROVE  \E h \in [0..Len(g) -> Nat] :
              /\ h[0] = h0
              /\ \A i \in 1..Len(g) :
                    h[i] = IF i \in hit /\ h[i - 1] = g[i].now THEN g[i].was ELSE h[i - 1]
<1> DEFINE next(i, x) == IF i \in hit /\ x = g[i].now THEN g[i].was ELSE x
           Upto(h, k) == h[0] = h0 /\ \A i \in 1..k : h[i] = next(i, h[i - 1])
           n == Len(g)
           Short == {k \in 0..n : ~\E h \in [0..k -> Nat] : Upto(h, k)}
<1>1. n \in Nat /\ \A i \in 1..n, x \in Nat : next(i, x) \in Nat
  <2>1. n \in Nat /\ \A i \in 1..n : g[i] \in Grant
    OBVIOUS
  <2>2. \A i \in 1..n : g[i].was \in Nat
    BY <2>1 DEF Grant
  <2> QED
    BY <2>1, <2>2
<1>2. Short = {}
  <2> SUFFICES ASSUME Short # {} PROVE FALSE
    OBVIOUS
  <2>1. Short \in SUBSET Nat
    BY <1>1
  <2> HIDE DEF Short
  <2>2. PICK k \in Short : \A j \in Short : k <= j
    BY <2>1, LeastNumber
  <2>3. k \in 0..n /\ ~\E h \in [0..k -> Nat] : Upto(h, k)
    BY <2>2 DEF Short
  <2>4. CASE k = 0
    <3>1. [i \in 0..0 |-> h0] \in [0..k -> Nat] /\ Upto([i \in 0..0 |-> h0], k)
      BY <2>4
    <3> QED
      BY <2>3, <3>1
  <2>5. CASE k # 0
    <3>1. k - 1 \in 0..n /\ k - 1 < k /\ k \in 1..n
      BY <1>1, <2>3, <2>5
    <3>2. k - 1 \notin Short
      BY <2>1, <2>2, <3>1
    <3>3. PICK h \in [0..(k - 1) -> Nat] : Upto(h, k - 1)
      BY <3>1, <3>2 DEF Short
    <3> DEFINE f == [i \in 0..k |-> IF i = k THEN next(k, h[k - 1]) ELSE h[i]]
    <3>4. next(k, h[k - 1]) \in Nat
      <4>1. h[k - 1] \in Nat
        BY <3>1, <3>3
      <4> QED
        BY <1>1, <3>1, <4>1
    <3> HIDE DEF next
    <3>5. f \in [0..k -> Nat]
      BY <3>1, <3>3, <3>4
    <3>6. Upto(f, k)
      <4>1. f[0] = h0
        BY <3>1, <3>3
      <4>2. ASSUME NEW i \in 1..k PROVE f[i] = next(i, f[i - 1])
        <5>1. f[i - 1] = h[i - 1]
          BY <3>1
        <5>2. CASE i = k
          BY <5>1, <5>2
        <5>3. CASE i # k
          <6>1. i \in 1..(k - 1) /\ f[i] = h[i]
            BY <3>1, <5>3
          <6> QED
            BY <3>3, <5>1, <6>1
        <5> QED
          BY <5>2, <5>3
      <4> QED
        BY <4>1, <4>2
    <3> QED
      BY <2>3, <3>5, <3>6
  <2> QED
    BY <2>4, <2>5
<1>3. PICK h \in [0..n -> Nat] : Upto(h, n)
  BY <1>1, <1>2
<1> QED
  BY <1>3

LEMMA HiresLeftValue ==
    ASSUME Ladder, NEW r \in Run, NEW hit \in SUBSET Nat
    PROVE  LET n == Len(returns[r])
           IN  \E h \in [0..n -> Nat] :
                  /\ HiresLeft(r, hit) = h[n] /\ h[0] = rehires[r]
                  /\ \A i \in 1..n :
                        h[i] = IF i \in hit /\ h[i - 1] = returns[r][i].now THEN returns[r][i].was
                                                                           ELSE h[i - 1]
<1> DEFINE n == Len(returns[r])
           Is(h) == h = [i \in 0..n |->
                            IF i = 0 THEN rehires[r]
                            ELSE IF i \in hit /\ h[i - 1] = returns[r][i].now
                                 THEN returns[r][i].was ELSE h[i - 1]]
           chosen == CHOOSE h : Is(h)
<1>1. returns[r] \in Seq(Grant) /\ rehires[r] \in Nat
  BY DEF Ladder
<1>2. \E h : Is(h)
  <2> HIDE DEF chosen
  <2> DEFINE next(i, x) == IF i \in hit /\ x = returns[r][i].now THEN returns[r][i].was ELSE x
  <2>1. PICK h \in [0..n -> Nat] :
           h[0] = rehires[r] /\ \A i \in 1..n : h[i] = next(i, h[i - 1])
    BY <1>1, HiresAreLeft
  <2>2. n \in Nat
    BY <1>1
  <2> HIDE DEF n
  <2>3. h = [i \in 0..n |-> IF i = 0 THEN rehires[r] ELSE next(i, h[i - 1])]
    <3> HIDE DEF next
    <3>1. ASSUME NEW i \in 0..n PROVE h[i] = IF i = 0 THEN rehires[r] ELSE next(i, h[i - 1])
      BY <2>1, <2>2
    <3> QED
      BY <2>1, <3>1
  <2> QED
    BY <2>3
<1>3. Is(chosen)
  BY <1>2
<1>4. HiresLeft(r, hit) = chosen[n]
  BY DEF HiresLeft
<1> HIDE DEF chosen
<1>5. n \in Nat
  BY <1>1
<1>6. /\ chosen[0] = rehires[r]
      /\ \A i \in 1..n :
            chosen[i] = IF i \in hit /\ chosen[i - 1] = returns[r][i].now THEN returns[r][i].was
                                                                         ELSE chosen[i - 1]
  <2> HIDE DEF n
  <2>1. 0 \in 0..n /\ \A i \in 1..n : i \in 0..n /\ i # 0
    BY <1>5
  <2>2. \A i \in 0..n : chosen[i] = IF i = 0 THEN rehires[r]
                                    ELSE IF i \in hit /\ chosen[i - 1] = returns[r][i].now
                                         THEN returns[r][i].was ELSE chosen[i - 1]
    BY <1>3
  <2> QED
    BY <2>1, <2>2
<1>7. chosen \in [0..n -> Nat]
  <2> SUFFICES ASSUME NEW i \in 0..n PROVE chosen[i] \in Nat
    BY <1>3
  <2> DEFINE Bad == {k \in 0..n : chosen[k] \notin Nat}
  <2>1. CASE Bad # {}
    <3>1. PICK k \in Bad : \A j \in Bad : k <= j
      <4>1. Bad \in SUBSET Nat
        BY <1>5
      <4> HIDE DEF Bad
      <4> QED
        BY <2>1, <4>1, LeastNumber
    <3>2. k \in 1..n
      <4>1. k \in 0..n /\ chosen[k] \notin Nat
        BY <3>1
      <4> QED
        BY <1>1, <1>5, <1>6, <4>1
    <3>3. k - 1 \notin Bad
      BY <1>5, <3>1, <3>2
    <3>4. chosen[k - 1] \in Nat /\ returns[r][k].was \in Nat
      <4>1. k - 1 \in 0..n
        BY <1>5, <3>2
      <4>2. returns[r][k] \in Grant
        BY <1>1, <3>2
      <4> QED
        BY <3>3, <4>1, <4>2 DEF Grant
    <3> QED
      BY <1>6, <3>1, <3>2, <3>4
  <2> QED
    BY <2>1
<1> QED
  BY <1>4, <1>6, <1>7

\* The revisions either outgrew w fresh hires or they do not reach the next one.
LEMMA Rung ==
    ASSUME NEW u \in Nat, NEW w \in Nat
    PROVE  /\ u \div Budget \in Nat
           /\ u >= Budget * (w + 1) \/ u \div Budget <= w
<1>1. Budget \in Nat /\ Budget > 0
  BY RepairAssumption
<1>2. /\ u \div Budget \in Int /\ u % Budget \in 0..(Budget - 1)
      /\ u = (Budget * (u \div Budget)) + (u % Budget)
  BY <1>1
<1> DEFINE q == u \div Budget
<1>3. q >= 0
  <2> SUFFICES ASSUME q < 0 PROVE FALSE
    BY <1>2
  <2>1. Budget * q <= Budget * (-1)
    BY <1>1, <1>2
  <2> QED
    BY <1>1, <1>2, <2>1
<1>4. ASSUME q > w PROVE u >= Budget * (w + 1)
  <2>1. Budget * q >= Budget * (w + 1)
    BY <1>1, <1>2, <1>4
  <2>2. Budget * (w + 1) \in Int /\ Budget * q \in Int
    BY <1>1, <1>2
  <2> QED
    BY <1>1, <1>2, <2>1, <2>2
<1> QED
  BY <1>2, <1>3, <1>4

LEMMA GrantFields ==
    ASSUME NEW g \in Grant, NEW b \in BOOLEAN
    PROVE  LET new == [g EXCEPT !.revoked = b]
           IN  /\ new \in Grant /\ new.grounds = g.grounds /\ new.was = g.was /\ new.now = g.now
               /\ new.revoked = b
BY DEF Grant

\* Taking grants back leaves the others as they were.
LEMMA RevokedGrants ==
    ASSUME Ladder, NEW r \in Run, NEW hit \in SUBSET DOMAIN returns[r]
    PROVE  LET now == Revoked(r, hit).returns
           IN  /\ now \in Seq(Grant) /\ DOMAIN now = DOMAIN returns[r]
               /\ \A i \in DOMAIN returns[r] :
                     /\ now[i].grounds = returns[r][i].grounds
                     /\ now[i].was = returns[r][i].was /\ now[i].now = returns[r][i].now
                     /\ now[i].revoked = (returns[r][i].revoked \/ i \in hit)
<1> DEFINE now == [i \in DOMAIN returns[r] |-> [returns[r][i] EXCEPT !.revoked = @ \/ i \in hit]]
<1>1. Revoked(r, hit).returns = now
  BY DEF Revoked
<1>2. returns[r] \in Seq(Grant)
  BY DEF Ladder
<1>3. ASSUME NEW i \in DOMAIN returns[r]
      PROVE  /\ now[i] \in Grant
             /\ now[i].grounds = returns[r][i].grounds
             /\ now[i].was = returns[r][i].was /\ now[i].now = returns[r][i].now
             /\ now[i].revoked = (returns[r][i].revoked \/ i \in hit)
  <2>1. returns[r][i] \in Grant
    BY <1>2
  <2> DEFINE g == returns[r][i]
             b == g.revoked \/ i \in hit
             new == [g EXCEPT !.revoked = b]
  <2>2. now[i] = new
    OBVIOUS
  <2>3. b \in BOOLEAN
    OBVIOUS
  <2> HIDE DEF g, b
  <2>4. /\ new \in Grant /\ new.grounds = g.grounds /\ new.was = g.was /\ new.now = g.now
        /\ new.revoked = b
    BY <2>1, <2>3, GrantFields DEF g
  <2> HIDE DEF new, now
  <2> QED
    BY <2>2, <2>4 DEF g, b
<1>4. now \in Seq(Grant) /\ DOMAIN now = DOMAIN returns[r]
  <2>1. Len(returns[r]) \in Nat /\ DOMAIN returns[r] = 1..Len(returns[r])
    BY <1>2
  <2>2. DOMAIN now = 1..Len(returns[r])
    BY <2>1
  <2>3. \A i \in 1..Len(returns[r]) : now[i] \in Grant
    BY <1>3, <2>1
  <2>4. now = [i \in 1..Len(returns[r]) |-> now[i]]
    BY <2>2
  <2> HIDE DEF now
  <2> QED
    BY <2>1, <2>2, <2>3, <2>4
<1> HIDE DEF now
<1> QED
  BY <1>1, <1>3, <1>4

\* What is left after grants are taken back was outgrown, or a grant that stays carries it.
LEMMA LeftOrCarried ==
    ASSUME Ladder, Grants, NEW r \in Run, NEW hit \in SUBSET DOMAIN returns[r]
    PROVE  LET left == Revoked(r, hit).rehires
           IN  /\ left \in Nat
               /\ \/ Outgrown(r, left)
                  \/ \E i \in DOMAIN returns[r] \ hit :
                        /\ ~returns[r][i].revoked /\ returns[r][i].now = left
                        /\ Outgrown(r, returns[r][i].was)
<1> DEFINE n == Len(returns[r])
           g == returns[r]
<1>1. g \in Seq(Grant) /\ n \in Nat /\ DOMAIN g = 1..n
  BY DEF Ladder
<1>2. hit \in SUBSET Nat
  BY <1>1
<1>3. PICK h \in [0..n -> Nat] :
         /\ HiresLeft(r, hit) = h[n] /\ h[0] = rehires[r]
         /\ \A i \in 1..n :
               h[i] = IF i \in hit /\ h[i - 1] = g[i].now THEN g[i].was ELSE h[i - 1]
  BY <1>2, HiresLeftValue
<1> DEFINE Stays(i, k) == /\ ~g[i].revoked /\ g[i].now = h[k] /\ Outgrown(r, g[i].was)
                          /\ i > k \/ i \notin hit
           Fine(k) == Outgrown(r, h[k]) \/ \E i \in 1..n : Stays(i, k)
           Bad == {k \in 0..n : ~Fine(k)}
<1>4. Fine(0)
  BY <1>1, <1>3 DEF Grants, Earned, Carries
<1>5. ASSUME NEW k \in 1..n, Fine(k - 1) PROVE Fine(k)
  <2>1. h[k] = IF k \in hit /\ h[k - 1] = g[k].now THEN g[k].was ELSE h[k - 1]
    BY <1>3
  <2>2. Outgrown(r, g[k].was) \/ g[k].was = g[k].now
    BY <1>1 DEF Grants, Earned
  <2>3. CASE k \in hit /\ h[k - 1] = g[k].now
    <3>1. h[k] = g[k].was
      BY <2>1, <2>3
    <3>2. CASE Outgrown(r, g[k].was)
      BY <3>1, <3>2
    <3>3. CASE ~Outgrown(r, g[k].was)
      <4>1. h[k] = h[k - 1] /\ ~Outgrown(r, h[k - 1])
        BY <2>2, <2>3, <3>1, <3>3
      <4>2. PICK i \in 1..n : Stays(i, k - 1)
        BY <1>5, <4>1
      <4>3. i # k
        BY <3>3, <4>2
      <4>4. Stays(i, k)
        BY <1>1, <4>1, <4>2, <4>3
      <4> QED
        BY <4>4
    <3> QED
      BY <3>2, <3>3
  <2>4. CASE ~(k \in hit /\ h[k - 1] = g[k].now)
    <3>1. h[k] = h[k - 1]
      BY <2>1, <2>4
    <3>2. ASSUME NEW i \in 1..n, Stays(i, k - 1) PROVE Stays(i, k)
      <4>1. CASE i = k
        BY <2>4, <3>1, <3>2, <4>1
      <4>2. CASE i # k
        BY <1>1, <3>1, <3>2, <4>2
      <4> QED
        BY <4>1, <4>2
    <3> QED
      BY <1>5, <3>1, <3>2
  <2> QED
    BY <2>3, <2>4
<1>6. Fine(n)
  <2> SUFFICES ASSUME ~Fine(n) PROVE FALSE
    OBVIOUS
  <2>1. Bad \in SUBSET Nat /\ Bad # {}
    BY <1>1
  <2> HIDE DEF Bad
  <2>2. PICK k \in Bad : \A j \in Bad : k <= j
    BY <2>1, LeastNumber
  <2>3. k \in 0..n /\ ~Fine(k)
    BY <2>2 DEF Bad
  <2> HIDE DEF Fine, n
  <2>4. k \in 1..n /\ k - 1 \in 0..n /\ ~(k <= k - 1)
    BY <1>1, <1>4, <2>3
  <2>5. Fine(k - 1)
    BY <2>2, <2>4 DEF Bad
  <2> QED
    BY <1>5, <2>3, <2>4, <2>5
<1>7. Revoked(r, hit).rehires = h[n] /\ h[n] \in Nat
  BY <1>1, <1>3 DEF Revoked
<1>8. ~(\E i \in 1..n : i > n)
  BY <1>1
<1> QED
  BY <1>1, <1>6, <1>7, <1>8

\* Revoking keeps the ladder in order, in every project.
LEMMA RevokeKeeps ==
    ASSUME Ladder, Grants, NEW r \in Run, NEW hit \in SUBSET DOMAIN returns[r],
           NEW held \in Ticket, Revoked(r, hit).blocked => held.open,
           rehires' = [rehires EXCEPT ![r] = Revoked(r, hit).rehires],
           returns' = [returns EXCEPT ![r] = Revoked(r, hit).returns],
           task' = IF Revoked(r, hit).blocked THEN [task EXCEPT ![r] = "BLOCKED"] ELSE task,
           ticket' = IF Revoked(r, hit).blocked THEN [ticket EXCEPT ![r] = held] ELSE ticket,
           UNCHANGED <<used, by>>
    PROVE  /\ Ladder' /\ Grants'
           /\ \A q \in Run : \A i \in DOMAIN returns'[q] :
                 /\ i \in DOMAIN returns[q]
                 /\ returns'[q][i].grounds = returns[q][i].grounds
                 /\ ~returns'[q][i].revoked => ~returns[q][i].revoked /\ (q = r => i \notin hit)
<1> DEFINE now == Revoked(r, hit).returns
           left == Revoked(r, hit).rehires
           stop == Revoked(r, hit).blocked
<1>1. /\ now \in Seq(Grant) /\ DOMAIN now = DOMAIN returns[r]
      /\ \A i \in DOMAIN returns[r] :
            /\ now[i].grounds = returns[r][i].grounds
            /\ now[i].was = returns[r][i].was /\ now[i].now = returns[r][i].now
            /\ now[i].revoked = (returns[r][i].revoked \/ i \in hit)
  BY RevokedGrants
<1>2. /\ left \in Nat
      /\ \/ Outgrown(r, left)
         \/ \E i \in DOMAIN returns[r] \ hit :
               ~returns[r][i].revoked /\ returns[r][i].now = left /\ Outgrown(r, returns[r][i].was)
  BY LeftOrCarried
<1>3. /\ returns \in [Run -> Seq(Grant)] /\ rehires \in [Run -> Nat] /\ ticket \in [Run -> Ticket]
      /\ task \in [Run -> {"BLOCKED", "READY", "RUNNING", "VERIFIED"}]
      /\ \A q \in Run : task[q] = "BLOCKED" => ticket[q].open
      /\ used \in [Run -> Nat]
  BY DEF Ladder
<1> HIDE DEF now, left, stop
<1>4. /\ returns' = [returns EXCEPT ![r] = now] /\ rehires' = [rehires EXCEPT ![r] = left]
      /\ task' = IF stop THEN [task EXCEPT ![r] = "BLOCKED"] ELSE task
      /\ ticket' = IF stop THEN [ticket EXCEPT ![r] = held] ELSE ticket
      /\ stop => held.open
  BY DEF now, left, stop
<1>5. /\ returns' \in [Run -> Seq(Grant)] /\ returns'[r] = now
      /\ \A q \in Run \ {r} : returns'[q] = returns[q]
  BY <1>1, <1>3, <1>4
<1>6. /\ rehires' \in [Run -> Nat] /\ rehires'[r] = left
      /\ \A q \in Run \ {r} : rehires'[q] = rehires[q]
  BY <1>2, <1>3, <1>4
<1>7. Ladder'
  <2>1. /\ ticket' \in [Run -> Ticket]
        /\ task' \in [Run -> {"BLOCKED", "READY", "RUNNING", "VERIFIED"}]
        /\ \A q \in Run : task'[q] = "BLOCKED" => ticket'[q].open
    <3>1. CASE stop
      BY <1>3, <1>4, <3>1
    <3>2. CASE ~stop
      BY <1>3, <1>4, <3>2
    <3> QED
      BY <3>1, <3>2
  <2> QED
    BY <1>3, <1>5, <1>6, <2>1 DEF Ladder
<1>8. ASSUME NEW q \in Run, NEW i \in DOMAIN returns'[q]
      PROVE  /\ i \in DOMAIN returns[q]
             /\ returns'[q][i].grounds = returns[q][i].grounds
             /\ returns'[q][i].was = returns[q][i].was /\ returns'[q][i].now = returns[q][i].now
             /\ ~returns'[q][i].revoked => ~returns[q][i].revoked /\ (q = r => i \notin hit)
  <2>1. CASE q = r
    BY <1>1, <1>5, <2>1
  <2>2. CASE q # r
    BY <1>5, <2>2
  <2> QED
    BY <2>1, <2>2
<1>9. Grants'
  <2> SUFFICES ASSUME NEW q \in Run PROVE Earned(q)'
    BY DEF Grants
  <2>1. Earned(q)
    BY DEF Grants
  <2>2. ASSUME NEW i \in DOMAIN returns'[q]
        PROVE  /\ (Outgrown(q, returns[q][i].was) \/ returns[q][i].was = returns[q][i].now)'
               /\ \A p \in returns'[q][i].grounds : by'[p] = q
    BY <1>8, <2>1 DEF Outgrown, Earned
  <2>3. CASE q = r
    <3>1. CASE Outgrown(r, left)
      <4>1. Outgrown(q, rehires[q])'
        BY <1>6, <2>3, <3>1 DEF Outgrown
      <4> QED
        BY <2>2, <4>1 DEF Earned
    <3>2. CASE ~Outgrown(r, left)
      <4>1. PICK i \in DOMAIN returns[r] \ hit :
               /\ ~returns[r][i].revoked /\ returns[r][i].now = left
               /\ Outgrown(r, returns[r][i].was)
        BY <1>2, <3>2
      <4>2. /\ i \in DOMAIN returns'[r] /\ ~returns'[r][i].revoked
            /\ returns'[r][i].now = left /\ returns'[r][i].was = returns[r][i].was
        BY <1>1, <1>5, <4>1
      <4>3. Carries(r, returns[r][i])'
        BY <1>6, <4>1, <4>2 DEF Carries, Outgrown
      <4> QED
        BY <2>2, <2>3, <4>2, <4>3 DEF Earned
    <3> QED
      BY <3>1, <3>2
  <2>4. CASE q # r
    BY <1>5, <1>6, <2>1, <2>4 DEF Earned, Carries, Outgrown
  <2> QED
    BY <2>3, <2>4
<1> QED
  BY <1>7, <1>8, <1>9

-----------------------------------------------------------------------------
(* The tree                                                                  *)

\* A patch that fits a tree it is not in is then in it whole, and once.
\* A patch is in every text it changes once it went in, and the others are where they were.
LEMMA AppliedHas ==
    ASSUME NEW t \in Text, NEW p \in Patch
    PROVE  LET u == Applied(p, t)
           IN  /\ \A m \in Module, q \in Patch : q # p => (Has(u, m, q) <=> Has(t, m, q))
               /\ \A m \in Touches[p] : Has(u, m, p)
<1> DEFINE u == Applied(p, t)
<1>1. t \in [Module -> Seq(Patch \cup {Torn})] /\ Touches[p] \subseteq Module
  BY RepairAssumption DEF Text
<1>2. \A m \in Module :
         /\ m \in Touches[p] => u[m] = Append(t[m], p)
         /\ m \notin Touches[p] => u[m] = t[m]
  BY <1>1 DEF Applied
<1>3. \A m \in Module, q \in Patch : q # p => (Has(u, m, q) <=> Has(t, m, q))
  <2> SUFFICES ASSUME NEW m \in Touches[p], NEW q \in Patch, q # p
               PROVE  Has(u, m, q) <=> Has(t, m, q)
    BY <1>2 DEF Has
  <2>1. /\ t[m] \in Seq(Patch \cup {Torn}) /\ u[m] = Append(t[m], p)
    BY <1>1, <1>2
  <2>2. /\ DOMAIN t[m] = 1..Len(t[m]) /\ DOMAIN u[m] = 1..(Len(t[m]) + 1) /\ Len(t[m]) \in Nat
        /\ u[m][Len(t[m]) + 1] = p /\ \A i \in 1..Len(t[m]) : u[m][i] = t[m][i]
    BY <2>1
  <2> HIDE DEF u
  <2> QED
    BY <2>2 DEF Has
<1>4. \A m \in Touches[p] : Has(u, m, p)
  <2> SUFFICES ASSUME NEW m \in Touches[p] PROVE Has(u, m, p)
    OBVIOUS
  <2>1. /\ Len(t[m]) + 1 \in DOMAIN Append(t[m], p) /\ Append(t[m], p)[Len(t[m]) + 1] = p
    BY <1>1
  <2> QED
    BY <1>1, <1>2, <2>1 DEF Has
<1> QED
  BY <1>3, <1>4

LEMMA AppliedWhole ==
    ASSUME NEW known, NEW lost, NEW t, Whole(t, known, lost), NEW p \in Patch, p \in known,
           \A m \in Touches[p] : ~Has(t, m, p)
    PROVE  Whole(Applied(p, t), known, lost)
<1> DEFINE u == Applied(p, t)
<1>1. /\ t \in [Module -> Seq(Patch \cup {Torn})] /\ Touches[p] \subseteq Module
      /\ \A q \in Patch : Touches[q] \subseteq Module
  BY RepairAssumption DEF Whole, Text
<1>2. \A m \in Module :
         /\ u[m] \in Seq(Patch \cup {Torn})
         /\ m \in Touches[p] => u[m] = Append(t[m], p)
         /\ m \notin Touches[p] => u[m] = t[m]
  BY <1>1 DEF Applied
<1>3. u \in Text
  BY <1>2 DEF Applied, Text
<1>4. \A m \in Module, q \in Patch : q # p => (Has(u, m, q) <=> Has(t, m, q))
  BY AppliedHas DEF Whole
<1>5. \A m \in Touches[p] : Has(u, m, p)
  BY AppliedHas DEF Whole
<1>6. \A m \in Module : \A i, j \in DOMAIN u[m] : u[m][i] = u[m][j] => i = j
  <2> SUFFICES ASSUME NEW m \in Touches[p], NEW i \in DOMAIN u[m], NEW j \in DOMAIN u[m],
                      u[m][i] = u[m][j]
               PROVE  i = j
    BY <1>2 DEF Whole
  <2>1. /\ t[m] \in Seq(Patch \cup {Torn}) /\ u[m] = Append(t[m], p)
    BY <1>1, <1>2
  <2>2. /\ DOMAIN t[m] = 1..Len(t[m]) /\ DOMAIN u[m] = 1..(Len(t[m]) + 1) /\ Len(t[m]) \in Nat
        /\ u[m][Len(t[m]) + 1] = p /\ \A k \in 1..Len(t[m]) : u[m][k] = t[m][k]
    BY <2>1
  <2>3. \A k \in DOMAIN t[m] : t[m][k] # p
    BY DEF Has
  <2>4. \A k, l \in DOMAIN t[m] : t[m][k] = t[m][l] => k = l
    BY <1>1 DEF Whole
  <2> HIDE DEF u
  <2> QED
    BY <2>2, <2>3, <2>4
<1> HIDE DEF u
<1>7. \A m \in Module, q \in Patch : Has(u, m, q) => q \in known
  BY <1>4 DEF Whole
<1>8. ASSUME NEW q \in Patch, Clear(q, lost)
      PROVE (\A m \in Touches[q] : Has(u, m, q)) \/ (\A m \in Touches[q] : ~Has(u, m, q))
  BY <1>1, <1>4, <1>5, <1>8 DEF Whole
<1> QED
  BY <1>3, <1>6, <1>7, <1>8 DEF Whole, u

\* A patch that is on top of every text it changed is then in none of them.
LEMMA RevertedHas ==
    ASSUME NEW known, NEW lost, NEW t, Whole(t, known, lost), NEW p \in Patch, OnTop(p, t)
    PROVE  LET u == Reverted(p, t)
           IN  /\ \A m \in Module, q \in Patch : q # p => (Has(u, m, q) <=> Has(t, m, q))
               /\ \A m \in Touches[p] : ~Has(u, m, p)
<1> DEFINE u == Reverted(p, t)
<1>1. /\ t \in [Module -> Seq(Patch \cup {Torn})] /\ Touches[p] \subseteq Module
      /\ \A q \in Patch : Touches[q] \subseteq Module
  BY RepairAssumption DEF Whole, Text
<1>2. ASSUME NEW m \in Touches[p]
      PROVE  /\ u[m] \in Seq(Patch \cup {Torn}) /\ Len(t[m]) \in Nat \ {0} /\ t[m][Len(t[m])] = p
             /\ DOMAIN t[m] = 1..Len(t[m]) /\ DOMAIN u[m] = 1..(Len(t[m]) - 1)
             /\ \A i \in 1..(Len(t[m]) - 1) : u[m][i] = t[m][i]
  <2>1. t[m] \in Seq(Patch \cup {Torn}) /\ t[m] # <<>> /\ t[m][Len(t[m])] = p
    BY <1>1 DEF OnTop, Last
  <2>2. u[m] = SubSeq(t[m], 1, Len(t[m]) - 1)
    BY <1>1 DEF Reverted, Front
  <2>3. Len(t[m]) \in Nat \ {0} /\ DOMAIN t[m] = 1..Len(t[m])
    BY <2>1
  <2> HIDE DEF u
  <2> QED
    BY <2>1, <2>2, <2>3
<1>3. \A m \in Module : m \notin Touches[p] => u[m] = t[m]
  BY DEF Reverted
<1> HIDE DEF u
<1>4. \A m \in Module : \A i, j \in DOMAIN t[m] : t[m][i] = t[m][j] => i = j
  BY DEF Whole
<1>5. \A m \in Module, q \in Patch : q # p => (Has(u, m, q) <=> Has(t, m, q))
  <2> SUFFICES ASSUME NEW m \in Touches[p], NEW q \in Patch, q # p
               PROVE  Has(u, m, q) <=> Has(t, m, q)
    BY <1>3 DEF Has
  <2> QED
    BY <1>2 DEF Has
<1>6. \A m \in Touches[p] : ~Has(u, m, p)
  <2> SUFFICES ASSUME NEW m \in Touches[p], NEW i \in DOMAIN u[m], u[m][i] = p PROVE FALSE
    BY DEF Has
  <2>1. /\ i \in DOMAIN t[m] /\ Len(t[m]) \in DOMAIN t[m] /\ t[m][i] = t[m][Len(t[m])]
        /\ i # Len(t[m])
    BY <1>2
  <2> QED
    BY <1>1, <1>4, <2>1
<1> QED
  BY <1>5, <1>6 DEF u

LEMMA RevertedWhole ==
    ASSUME NEW known, NEW lost, NEW t, Whole(t, known, lost), NEW p \in Patch, OnTop(p, t)
    PROVE  Whole(Reverted(p, t), known, lost)
<1> DEFINE u == Reverted(p, t)
<1>1. /\ t \in [Module -> Seq(Patch \cup {Torn})] /\ Touches[p] \subseteq Module
      /\ \A q \in Patch : Touches[q] \subseteq Module
  BY RepairAssumption DEF Whole, Text
<1>2. ASSUME NEW m \in Touches[p]
      PROVE  /\ u[m] \in Seq(Patch \cup {Torn}) /\ Len(t[m]) \in Nat \ {0} /\ t[m][Len(t[m])] = p
             /\ DOMAIN t[m] = 1..Len(t[m]) /\ DOMAIN u[m] = 1..(Len(t[m]) - 1)
             /\ \A i \in 1..(Len(t[m]) - 1) : u[m][i] = t[m][i]
  <2>1. t[m] \in Seq(Patch \cup {Torn}) /\ t[m] # <<>> /\ t[m][Len(t[m])] = p
    BY <1>1 DEF OnTop, Last
  <2>2. u[m] = SubSeq(t[m], 1, Len(t[m]) - 1)
    BY <1>1 DEF Reverted, Front
  <2>3. Len(t[m]) \in Nat \ {0} /\ DOMAIN t[m] = 1..Len(t[m])
    BY <2>1
  <2> HIDE DEF u
  <2> QED
    BY <2>1, <2>2, <2>3
<1>3. \A m \in Module : m \notin Touches[p] => u[m] = t[m]
  BY DEF Reverted
<1>4. u \in Text
  BY <1>1, <1>2, <1>3 DEF Reverted, Text
<1> HIDE DEF u
<1>5. \A m \in Module : \A i, j \in DOMAIN t[m] : t[m][i] = t[m][j] => i = j
  BY DEF Whole
<1>6. \A m \in Module, q \in Patch : q # p => (Has(u, m, q) <=> Has(t, m, q))
  BY RevertedHas DEF u
<1>7. \A m \in Touches[p] : ~Has(u, m, p)
  BY RevertedHas DEF u
<1>8. \A m \in Module : \A i, j \in DOMAIN u[m] : u[m][i] = u[m][j] => i = j
  <2> SUFFICES ASSUME NEW m \in Touches[p] PROVE \A i, j \in DOMAIN u[m] : u[m][i] = u[m][j] => i = j
    BY <1>3, <1>5
  <2>1. DOMAIN u[m] \subseteq DOMAIN t[m] /\ \A i \in DOMAIN u[m] : u[m][i] = t[m][i]
    BY <1>2
  <2> QED
    BY <1>1, <1>5, <2>1
<1>9. \A m \in Module, q \in Patch : Has(u, m, q) => Has(t, m, q)
  <2>1. \A m \in Touches[p] : Has(t, m, p)
    BY <1>2 DEF Has
  <2> QED
    BY <1>3, <1>6, <2>1 DEF Has
<1>10. ASSUME NEW q \in Patch, Clear(q, lost)
       PROVE (\A m \in Touches[q] : Has(u, m, q)) \/ (\A m \in Touches[q] : ~Has(u, m, q))
  BY <1>1, <1>6, <1>7, <1>10 DEF Whole
<1> QED
  BY <1>4, <1>8, <1>9, <1>10 DEF Whole, u

LEMMA KnownGrows ==
    ASSUME NEW a, NEW b, a \subseteq b, NEW c, NEW d, c \subseteq d, NEW t, Whole(t, a, c)
    PROVE  Whole(t, b, d)
BY DEF Whole, Clear

LEMMA StillWhole ==
    ASSUME Trees, UNCHANGED <<current, before, wake, cut>>, Known \subseteq Known'
    PROVE  Trees'
<1>1. Whole(current', Known', cut')
  BY KnownGrows DEF Trees
<1>2. \A r \in Run : wake'[r].at = "copied" => Whole(wake'[r].tree, Known', cut' \cup wake'[r].cut)
  <2> SUFFICES ASSUME NEW r \in Run, wake[r].at = "copied"
               PROVE  Whole(wake[r].tree, Known', cut \cup wake[r].cut)
    OBVIOUS
  <2>1. Whole(wake[r].tree, Known, cut \cup wake[r].cut)
    BY DEF Trees
  <2> QED
    BY <2>1, KnownGrows
<1>3. (before \in [Patch -> Text] /\ \A p \in Patch : \A m \in Touches[p] : ~Has(before[p], m, p))'
  BY DEF Trees, Has
<1> HIDE DEF Known
<1> QED
  BY <1>1, <1>2, <1>3 DEF Trees

-----------------------------------------------------------------------------
(* What an action leaves as it was                                           *)

\* Only a project whose wake-up is not under way loses what was staged.
LEMMA StillInHand ==
    ASSUME Wakes, UNCHANGED <<wake, by>>, by \in [Patch -> Run],
           \A p \in Patch : place[p] = "pending" => place'[p] = "pending" \/ Free(by[p]),
           \A p \in Patch : revert[p] = "pending" => revert'[p] = "pending" \/ Free(by[p])
    PROVE  Wakes'
<1> SUFFICES ASSUME NEW r \in Run PROVE Hands(r, wake[r])'
  BY DEF Wakes
<1>1. Hands(r, wake[r]) /\ wake'[r] = wake[r]
  BY DEF Wakes
<1>2. wake[r].left \cup wake[r].done \cup wake[r].bad \subseteq PendingEntries(r)'
  <2>1. CASE wake[r].at = "idle"
    <3>1. wake[r] = Idle
      BY <1>1, <2>1 DEF Hands
    <3> QED
      BY <3>1 DEF Idle
  <2>2. CASE wake[r].at # "idle"
    <3>1. ASSUME NEW e \in PendingEntries(r) PROVE e \in PendingEntries(r)'
      <4>1. e \in Entry /\ e[2] \in Patch /\ by[e[2]] = r /\ ~Free(by[e[2]])
        BY <2>2, <3>1 DEF PendingEntries, Entry, Free
      <4> QED
        BY <3>1, <4>1 DEF PendingEntries
    <3> QED
      BY <1>1, <3>1 DEF Hands
  <2> QED
    BY <2>1, <2>2
<1> QED
  BY <1>1, <1>2 DEF Hands

LEMMA StillGrounded ==
    ASSUME Ladder, Grounded, UNCHANGED <<returns, wake, crashes>>,
           \A p \in Patch : Live(p) => Live(p)'
    PROVE  Grounded'
<1> SUFFICES ASSUME crashes = 0, NEW r \in Run, NEW i \in DOMAIN returns[r],
                    ~returns[r][i].revoked
             PROVE  \E p \in returns[r][i].grounds : Live(p)' \/ p \in wake[r].gone
  BY DEF Grounded
<1>1. PICK p \in returns[r][i].grounds : Live(p) \/ p \in wake[r].gone
  BY DEF Grounded
<1>2. returns[r] \in Seq(Grant)
  BY DEF Ladder
<1>3. p \in Patch
  <2>1. returns[r][i] \in Grant
    BY <1>2
  <2> QED
    BY <2>1 DEF Grant
<1> QED
  BY <1>1, <1>3

\* One more revision outgrows at least what the revisions before it had outgrown.
LEMMA StillEarned ==
    ASSUME Ladder, Grants, UNCHANGED <<returns, rehires, by>>,
           \A r \in Run : used'[r] \in {used[r], used[r] + 1}
    PROVE  Grants'
<1> SUFFICES ASSUME NEW r \in Run PROVE Earned(r)'
  BY DEF Grants
<1>1. Earned(r) /\ returns[r] \in Seq(Grant) /\ rehires[r] \in Nat /\ used[r] \in Nat
  BY DEF Grants, Ladder
<1>2. ASSUME NEW h \in Nat, Outgrown(r, h) PROVE Outgrown(r, h)'
  <2>1. Budget \in Nat
    BY RepairAssumption
  <2>2. Budget * (h + 1) \in Int
    BY <2>1
  <2> DEFINE limit == Budget * (h + 1)
  <2>3. used[r] >= limit /\ limit \in Int
    BY <1>2, <2>2 DEF Outgrown
  <2> HIDE DEF limit
  <2>4. used'[r] >= limit
    BY <1>1, <2>3
  <2> QED
    BY <2>4 DEF Outgrown, limit
<1>3. \A i \in DOMAIN returns[r] : returns[r][i].was \in Nat
  <2>1. \A i \in DOMAIN returns[r] : returns[r][i] \in Grant
    BY <1>1
  <2> QED
    BY <2>1 DEF Grant
<1>4. \A i \in DOMAIN returns[r] : Carries(r, returns[r][i]) => Carries(r, returns[r][i])'
  BY <1>2, <1>3 DEF Carries
<1>5. \A i \in DOMAIN returns[r] :
         Outgrown(r, returns[r][i].was)' \/ returns[r][i].was = returns[r][i].now
  <2>1. \A i \in DOMAIN returns[r] :
           Outgrown(r, returns[r][i].was) \/ returns[r][i].was = returns[r][i].now
    BY <1>1 DEF Earned
  <2>2. \A i \in DOMAIN returns[r] :
           Outgrown(r, returns[r][i].was) => Outgrown(r, returns[r][i].was)'
    BY <1>2, <1>3
  <2> QED
    BY <2>1, <2>2
<1>6. Outgrown(r, rehires[r]) => Outgrown(r, rehires[r])'
  BY <1>1, <1>2
<1> QED
  BY <1>1, <1>4, <1>5, <1>6 DEF Earned

\* The rest is as it was when nothing moves that the tree, the entries and the grants
\* depend on.
LEMMA ElsewhereKept ==
    ASSUME IInv, UNCHANGED <<current, before, place, by, revert, wake, returns, crashes, cut>>
    PROVE  Trees' /\ Wakes' /\ Grounded'
<1>1. Known' = Known /\ \A p \in Patch : Live(p)' = Live(p)
  BY DEF Known, Live, PatchStatus
<1> QED
  BY <1>1, StillWhole, StillInHand, StillGrounded DEF IInv, Places

\* The wake-up of a project goes on with something else in hand.
LEMMA NextInHand ==
    ASSUME IInv, NEW r \in Run, NEW w \in Wake, wake' = [wake EXCEPT ![r] = w],
           UNCHANGED <<before, place, by, revert>>,
           Hands(r, w), w.at = "copied" => Whole(w.tree, Known, cut \cup w.cut),
           cut \subseteq cut', Whole(current', Known, cut')
    PROVE  Wakes' /\ Trees'
<1>1. wake \in [Run -> Wake] /\ \A q \in Run : Hands(q, wake[q])
  BY DEF IInv, Wakes
<1>2. wake' \in [Run -> Wake] /\ wake'[r] = w /\ \A q \in Run \ {r} : wake'[q] = wake[q]
  BY <1>1
<1>3. Known' = Known /\ \A q \in Run : PendingEntries(q)' = PendingEntries(q)
  BY DEF Known, PendingEntries
<1>4. ASSUME NEW q \in Run PROVE Hands(q, wake[q])'
  <2>1. Hands(q, wake'[q])
    BY <1>1, <1>2
  <2> QED
    BY <1>3, <2>1 DEF Hands
<1>5. Wakes'
  BY <1>2, <1>4 DEF Wakes
<1>6. Trees'
  <2>1. \A q \in Run : wake'[q].at = "copied" =>
                           Whole(wake'[q].tree, Known', cut' \cup wake'[q].cut)
    <3> SUFFICES ASSUME NEW q \in Run, wake'[q].at = "copied"
                 PROVE  Whole(wake'[q].tree, Known, cut' \cup wake'[q].cut)
      BY <1>3
    <3>1. Whole(wake'[q].tree, Known, cut \cup wake'[q].cut)
      BY <1>2 DEF IInv, Trees
    <3> QED
      BY <3>1, KnownGrows
  <2>2. Whole(current', Known', cut')
    BY <1>3
  <2>3. (before \in [Patch -> Text]
           /\ \A p \in Patch : \A m \in Touches[p] : ~Has(before[p], m, p))'
    BY DEF IInv, Trees, Has
  <2> HIDE DEF Known
  <2> QED
    BY <2>1, <2>2, <2>3 DEF Trees
<1> QED
  BY <1>5, <1>6

-----------------------------------------------------------------------------
(* The steps: the on-call's turn and the task                                *)

LEMMA HoldTicket ==
    ASSUME Ladder, NEW r \in Run, NEW kind \in Kinds
    PROVE  Hold(r, kind) \in Ticket /\ Hold(r, kind).open
<1>1. ticket[r] \in Ticket
  BY DEF Ladder
<1>2. ticket[r].no \in Nat
  BY <1>1 DEF Ticket
<1> QED
  BY <1>2 DEF Hold, Ticket

LEMMA TaskGoesOn ==
    ASSUME IInv, NEW r \in Run,
           \/ EngineerComes(r) \/ CloseTicket(r) \/ Reserve(r) \/ Accept(r) \/ Revise(r) \/ Age(r)
           \/ \E p \in Patch : RecordRuntimePatch(r, p)
    PROVE  IInv'
<1>1. UNCHANGED <<current, before, place, by, revert, wake, returns, rehires, crashes, faults,
                 cut>>
  BY DEF EngineerComes, CloseTicket, Reserve, Accept, Revise, Age, RecordRuntimePatch, tree, run
<1>2. Trees' /\ Wakes' /\ Grounded'
  BY <1>1, ElsewhereKept
<1>3. Ladder /\ Places
  BY DEF IInv
<1>4. ticket[r] \in Ticket /\ task[r] \in {"BLOCKED", "READY", "RUNNING", "VERIFIED"}
      /\ used[r] \in Nat
  BY <1>3 DEF Ladder
<1>5. Places'
  <2>1. ticket[r].no \in Nat
    BY <1>4 DEF Ticket
  <2>2. PendingEntries(r) \subseteq Entry
    BY DEF PendingEntries
  <2>3. /\ recorded' = recorded \/ \E p \in Patch : recorded' = [recorded EXCEPT ![p] = ticket[r].no]
        /\ aged' = aged \/ aged' = aged \cup PendingEntries(r)
    BY DEF EngineerComes, CloseTicket, Reserve, Accept, Revise, Age, RecordRuntimePatch, tree
  <2>4. recorded' \in [Patch -> Nat]
    BY <1>3, <2>1, <2>3 DEF Places
  <2> QED
    BY <1>1, <1>3, <2>2, <2>3, <2>4 DEF Places
<1>6. Ladder'
  <2>1. CASE UNCHANGED <<ticket, task, used>>
    BY <1>1, <1>3, <2>1 DEF Ladder
  <2>2. CASE CloseTicket(r)
    <3>1. [ticket[r] EXCEPT !.open = FALSE] \in Ticket
      BY <1>4 DEF Ticket
    <3>2. ticket' = [ticket EXCEPT ![r] = [ticket[r] EXCEPT !.open = FALSE]]
      BY <2>2 DEF CloseTicket
    <3> QED
      BY <1>3, <2>2, <3>1, <3>2 DEF Ladder, CloseTicket
  <2>3. CASE Reserve(r) \/ Accept(r)
    BY <1>3, <2>3 DEF Ladder, Reserve, Accept
  <2>4. CASE Revise(r)
    <3>1. Hold(r, "ladder_exhausted") \in Ticket /\ Hold(r, "ladder_exhausted").open
      BY <1>3, HoldTicket DEF Kinds
    <3>2. CASE Spent(r)
      BY <1>3, <2>4, <3>1, <3>2 DEF Ladder, Revise
    <3>3. CASE ~Spent(r)
      <4>1. /\ task' = [task EXCEPT ![r] = "READY"]
            /\ used' = [used EXCEPT ![r] = used[r] + 1]
            /\ UNCHANGED <<ticket, returns, rehires>>
        BY <2>4, <3>3 DEF Revise
      <4>2. used' \in [Run -> Nat]
        BY <1>3, <1>4, <4>1 DEF Ladder
      <4>3. /\ task' \in [Run -> {"BLOCKED", "READY", "RUNNING", "VERIFIED"}]
            /\ \A q \in Run : task'[q] = "BLOCKED" => ticket[q].open
        BY <1>3, <4>1 DEF Ladder
      <4> QED
        BY <1>3, <4>1, <4>2, <4>3 DEF Ladder
    <3> QED
      BY <3>2, <3>3
  <2> QED
    BY <2>1, <2>2, <2>3, <2>4 DEF EngineerComes, RecordRuntimePatch, Age, run
<1>7. \A q \in Run : used'[q] \in {used[q], used[q] + 1}
  BY <1>3 DEF EngineerComes, CloseTicket, Reserve, Accept, Revise, Age, RecordRuntimePatch, run,
              Ladder
<1>8. Grants'
  BY <1>1, <1>3, <1>7, StillEarned DEF IInv
<1> QED
  BY <1>2, <1>5, <1>6, <1>8 DEF IInv

LEMMA EngineerGoneKeeps ==
    ASSUME IInv, NEW r \in Run, EngineerGone(r)
    PROVE  IInv'
<1>1. /\ UNCHANGED <<current, before, by, revert, aged, recorded, wake, ticket, task, rehires,
                     used, returns, crashes, faults, cut>>
      /\ place' = [p \in Patch |-> IF by[p] = r /\ place[p] = "proving" THEN "dropped"
                                                                        ELSE place[p]]
  BY DEF EngineerGone
<1>2. Places'
  BY <1>1 DEF IInv, Places, Where
<1>3. Known \subseteq Known' /\ \A p \in Patch : Live(p) => Live(p)'
  BY <1>1 DEF Known, Live, PatchStatus
<1>4. \A p \in Patch : /\ place[p] = "pending" => place'[p] = "pending"
                       /\ revert[p] = "pending" => revert'[p] = "pending"
  BY <1>1
<1>5. Trees' /\ Wakes' /\ Grounded'
  BY <1>1, <1>3, <1>4, StillWhole, StillInHand, StillGrounded DEF IInv, Places
<1>6. Ladder' /\ Grants'
  BY <1>1, StillEarned DEF IInv, Ladder
<1> QED
  BY <1>2, <1>5, <1>6 DEF IInv

LEMMA ProvenKeeps ==
    ASSUME IInv, NEW p \in Patch, StageProvenPatch(p) \/ \E r \in Run : ProvePatch(r, p)
    PROVE  IInv'
<1>1. UNCHANGED <<current, by, revert, aged, recorded, wake, ticket, task, rehires, used, returns,
                  crashes, faults, cut>>
  BY DEF StageProvenPatch, ProvePatch, run
<1>2. /\ place[p] \in {"absent", "proving"}
      /\ \/ place' = [place EXCEPT ![p] = "proving"] \/ place' = [place EXCEPT ![p] = "pending"]
      /\ \/ before' = before
         \/ before' = [before EXCEPT ![p] = current] /\ place[p] = "absent"
  BY DEF StageProvenPatch, ProvePatch
<1>3. Places
  BY DEF IInv
<1>4. Places'
  BY <1>1, <1>2, <1>3 DEF Places, Where
<1>5. Known \subseteq Known' /\ \A q \in Patch : Live(q) => Live(q)'
  BY <1>1, <1>2, <1>3 DEF Known, Live, PatchStatus, Places
<1>6. \A q \in Patch : /\ place[q] = "pending" => place'[q] = "pending"
                       /\ revert[q] = "pending" => revert'[q] = "pending"
  BY <1>1, <1>2, <1>3 DEF Places
<1>7. Wakes' /\ Grounded'
  BY <1>1, <1>3, <1>5, <1>6, StillInHand, StillGrounded DEF IInv, Places
<1>8. Trees'
  <2>1. Whole(current, Known, cut) /\ before \in [Patch -> Text]
        /\ \A q \in Patch : \A m \in Touches[q] : ~Has(before[q], m, q)
    BY DEF IInv, Trees
  <2>2. Whole(current', Known', cut')
    BY <1>1, <1>5, <2>1, KnownGrows
  <2>3. \A r \in Run : wake'[r].at = "copied" => Whole(wake'[r].tree, Known', cut' \cup wake'[r].cut)
    <3> SUFFICES ASSUME NEW r \in Run, wake[r].at = "copied"
                 PROVE  Whole(wake[r].tree, Known', cut \cup wake[r].cut)
      BY <1>1
    <3>1. Whole(wake[r].tree, Known, cut \cup wake[r].cut)
      BY DEF IInv, Trees
    <3> QED
      BY <1>5, <3>1, KnownGrows
  <2>4. ASSUME place[p] = "absent" PROVE \A m \in Touches[p] : ~Has(current, m, p)
    <3>1. \A m \in Touches[p] : m \in Module
      BY RepairAssumption
    <3> QED
      BY <2>1, <2>4, <3>1 DEF Whole, Known
  <2>5. before' \in [Patch -> Text]
    BY <1>2, <2>1 DEF Whole
  <2>6. \A q \in Patch : \A m \in Touches[q] : ~Has(before'[q], m, q)
    BY <1>2, <2>1, <2>4
  <2>7. (\A q \in Patch : \A m \in Touches[q] : ~Has(before[q], m, q))'
    BY <2>6 DEF Has
  <2> HIDE DEF Known
  <2> QED
    BY <2>2, <2>3, <2>5, <2>7 DEF Trees
<1>9. Ladder' /\ Grants'
  BY <1>1, StillEarned DEF IInv, Ladder
<1> QED
  BY <1>4, <1>7, <1>8, <1>9 DEF IInv

LEMMA ReturnKeeps ==
    ASSUME IInv, NEW r \in Run, ReturnStoppedTask(r)
    PROVE  IInv'
<1> DEFINE capped == ticket[r].kind = "ladder_exhausted" \/ Spent(r)
           fresh == AcceptancePatches(r) \ Consumed(r)
           bought == used[r] \div Budget
           hires == IF rehires[r] > bought THEN rehires[r] ELSE bought
           g == [grounds |-> fresh, was |-> rehires[r], now |-> hires, revoked |-> FALSE]
<1>1. /\ UNCHANGED <<current, before, place, by, revert, aged, recorded, wake, ticket, used,
                     crashes, faults, cut>>
      /\ task' = [task EXCEPT ![r] = "READY"]
      /\ capped => fresh # {}
      /\ rehires' = IF capped THEN [rehires EXCEPT ![r] = hires] ELSE rehires
      /\ returns' = IF capped THEN [returns EXCEPT ![r] = Append(returns[r], g)] ELSE returns
  BY DEF ReturnStoppedTask, tree
<1>2. Ladder /\ Places /\ Grants /\ Earned(r)
  BY DEF IInv, Grants
<1>3. /\ ticket \in [Run -> Ticket] /\ returns \in [Run -> Seq(Grant)]
      /\ task \in [Run -> {"BLOCKED", "READY", "RUNNING", "VERIFIED"}]
      /\ \A q \in Run : task[q] = "BLOCKED" => ticket[q].open
      /\ rehires \in [Run -> Nat] /\ used \in [Run -> Nat]
  BY <1>2 DEF Ladder
<1>4. bought \in Nat /\ (Outgrown(r, rehires[r]) \/ bought <= rehires[r])
  BY <1>3, Rung DEF Outgrown
<1>5. hires \in Nat /\ (Outgrown(r, rehires[r]) \/ hires = rehires[r])
  BY <1>3, <1>4
<1>6. fresh \subseteq Patch /\ \A p \in fresh : Live(p) /\ by[p] = r
  BY RepairAssumption DEF AcceptancePatches
<1> HIDE DEF capped, fresh, hires
<1>7. /\ g \in Grant /\ g.grounds = fresh /\ g.was = rehires[r] /\ g.now = hires /\ ~g.revoked
  BY <1>3, <1>5, <1>6 DEF Grant
<1> HIDE DEF g
<1>8. Places'
  BY <1>1, <1>2 DEF Places
<1>9. Known' = Known /\ \A p \in Patch : Live(p)' = Live(p)
  BY <1>1 DEF Known, Live, PatchStatus
<1>10. Trees' /\ Wakes'
  BY <1>1, <1>2, <1>9, StillWhole, StillInHand DEF IInv, Places
<1>11. /\ task' \in [Run -> {"BLOCKED", "READY", "RUNNING", "VERIFIED"}]
       /\ \A q \in Run : task'[q] = "BLOCKED" => ticket'[q].open
  BY <1>1, <1>3
<1>12. CASE ~capped
  <2>1. UNCHANGED <<rehires, returns>>
    BY <1>1, <1>12
  <2>2. Ladder' /\ Grants' /\ Grounded'
    BY <1>1, <1>2, <1>3, <1>9, <1>11, <2>1, StillEarned, StillGrounded DEF IInv, Ladder
  <2> QED
    BY <1>8, <1>10, <2>2 DEF IInv
<1>13. CASE capped
  <2>0. PICK n \in Nat : n = Len(returns[r])
    BY <1>3
  <2>1. /\ DOMAIN returns[r] = 1..n
        /\ Append(returns[r], g) \in Seq(Grant) /\ DOMAIN Append(returns[r], g) = 1..(n + 1)
        /\ Append(returns[r], g)[n + 1] = g
        /\ \A i \in 1..n : Append(returns[r], g)[i] = returns[r][i]
    BY <1>3, <1>7, <2>0
  <2>2. /\ returns' = [returns EXCEPT ![r] = Append(returns[r], g)]
        /\ rehires' = [rehires EXCEPT ![r] = hires]
    BY <1>1, <1>13
  <2>3. /\ returns' \in [Run -> Seq(Grant)]
        /\ DOMAIN returns'[r] = 1..(n + 1) /\ returns'[r][n + 1] = g
        /\ \A i \in 1..n : returns'[r][i] = returns[r][i]
        /\ \A q \in Run \ {r} : returns'[q] = returns[q]
    BY <1>3, <2>1, <2>2
  <2>4. /\ rehires' \in [Run -> Nat] /\ rehires'[r] = hires
        /\ \A q \in Run \ {r} : rehires'[q] = rehires[q]
    BY <1>3, <1>5, <2>2
  <2>5. Ladder'
    BY <1>1, <1>3, <1>11, <2>3, <2>4 DEF Ladder
  <2>6. /\ n + 1 \in 1..(n + 1) /\ \A i \in 1..(n + 1) : i = n + 1 \/ i \in 1..n
        /\ \A i \in 1..n : i \in 1..(n + 1)
    OBVIOUS
  <2>7. Grants'
    <3> SUFFICES ASSUME NEW q \in Run PROVE Earned(q)'
      BY DEF Grants
    <3>1. CASE q # r
      <4>1. Earned(q) /\ returns'[q] = returns[q] /\ rehires'[q] = rehires[q]
        BY <1>2, <2>3, <2>4, <3>1 DEF Grants
      <4> QED
        BY <1>1, <4>1 DEF Earned, Carries, Outgrown
    <3>2. CASE q = r
      <4>1. ASSUME NEW i \in 1..(n + 1)
            PROVE  /\ (Outgrown(r, returns[r][i].was) \/ returns[r][i].was = returns[r][i].now)'
                   /\ \A p \in returns'[r][i].grounds : by'[p] = r
        <5>1. CASE i = n + 1
          BY <1>1, <1>5, <1>6, <1>7, <2>3, <5>1 DEF Outgrown
        <5>2. CASE i \in 1..n
          BY <1>1, <1>2, <2>1, <2>3, <5>2 DEF Earned, Outgrown
        <5> QED
          BY <2>6, <5>1, <5>2
      <4>2. (Outgrown(r, rehires[r]) \/ \E i \in DOMAIN returns[r] : Carries(r, returns[r][i]))'
        <5>1. CASE Outgrown(r, rehires[r])
          <6>1. Carries(r, returns[r][n + 1])'
            BY <1>1, <1>7, <2>3, <2>4, <5>1 DEF Carries, Outgrown
          <6> QED
            BY <2>3, <2>6, <6>1
        <5>2. CASE ~Outgrown(r, rehires[r])
          <6>1. hires = rehires[r]
            BY <1>5, <5>2
          <6>2. PICK i \in 1..n : Carries(r, returns[r][i])
            BY <1>2, <2>1, <5>2 DEF Earned
          <6>3. Carries(r, returns[r][i])'
            BY <1>1, <2>3, <2>4, <6>1, <6>2 DEF Carries, Outgrown
          <6> QED
            BY <2>3, <2>6, <6>3
        <5> QED
          BY <5>1, <5>2
      <4> QED
        BY <2>3, <3>2, <4>1, <4>2 DEF Earned
    <3> QED
      BY <3>1, <3>2
  <2>8. Grounded'
    <3> SUFFICES ASSUME crashes = 0, NEW q \in Run, NEW i \in DOMAIN returns'[q],
                        ~returns'[q][i].revoked
                 PROVE  \E p \in returns'[q][i].grounds : Live(p)' \/ p \in wake'[q].gone
      BY <1>1 DEF Grounded
    <3>1. CASE q = r /\ i = n + 1
      <4>1. returns'[q][i].grounds = fresh
        BY <1>7, <2>3, <3>1
      <4>2. PICK p \in fresh : TRUE
        BY <1>1, <1>13
      <4> QED
        BY <1>6, <1>9, <4>1, <4>2
    <3>2. CASE ~(q = r /\ i = n + 1)
      <4>1. i \in DOMAIN returns[q] /\ returns'[q][i] = returns[q][i]
        BY <2>1, <2>3, <2>6, <3>2
      <4>2. PICK p \in returns[q][i].grounds : Live(p) \/ p \in wake[q].gone
        BY <4>1 DEF IInv, Grounded
      <4>3. returns[q][i] \in Grant
        BY <1>3, <4>1
      <4>4. p \in Patch
        BY <4>2, <4>3 DEF Grant
      <4> QED
        BY <1>1, <1>9, <4>1, <4>2, <4>4
    <3> QED
      BY <3>1, <3>2
  <2> QED
    BY <1>8, <1>10, <2>5, <2>7, <2>8 DEF IInv
<1> QED
  BY <1>12, <1>13

\* The grants a revocation leaves rest on what it leaves.
LEMMA TakeBackKeeps ==
    ASSUME IInv, NEW r \in Run, NEW p \in Patch, TakeBackPatch(r, p)
    PROVE  IInv'
<1>1. /\ UNCHANGED <<current, before, by, recorded, wake, used, crashes, faults, cut>>
      /\ Free(r) /\ by[p] = r
      /\ \/ /\ PatchStatus(p) = "pending" /\ place' = [place EXCEPT ![p] = "withdrawn"]
            /\ aged' = aged \ {<<"patch", p>>} /\ UNCHANGED revert
         \/ /\ PatchStatus(p) = "installed" /\ revert' = [revert EXCEPT ![p] = "pending"]
            /\ UNCHANGED <<place, aged>>
  BY DEF TakeBackPatch
<1> DEFINE live == {q \in Patch : Live(q)}'
           held == IF ticket[r].open THEN ticket[r] ELSE Hold(r, "runtime_patch_taken_back")
           hit == {i \in DOMAIN returns[r] :
                      LET g == returns[r][i]
                      IN  /\ ~g.revoked /\ g.grounds \intersect {p} # {}
                          /\ ~\E q \in g.grounds \ {p} : q \in live}
<1>2. /\ rehires' = [rehires EXCEPT ![r] = Revoked(r, hit).rehires]
      /\ returns' = [returns EXCEPT ![r] = Revoked(r, hit).returns]
      /\ task' = IF Revoked(r, hit).blocked THEN [task EXCEPT ![r] = "BLOCKED"] ELSE task
      /\ ticket' = IF Revoked(r, hit).blocked THEN [ticket EXCEPT ![r] = held] ELSE ticket
  BY DEF TakeBackPatch, Revoke, RevokeGrants
<1>3. Ladder /\ Places /\ Grants
  BY DEF IInv
<1>4. held \in Ticket /\ held.open
  <2>1. ticket[r] \in Ticket
    BY <1>3 DEF Ladder
  <2> QED
    BY <1>3, <2>1, HoldTicket DEF Kinds
<1>5. hit \in SUBSET DOMAIN returns[r]
  OBVIOUS
<1>6. \A q \in Patch \ {p} : Live(q)' = Live(q)
  BY <1>1, <1>3 DEF Live, PatchStatus, Places
<1>7. ASSUME NEW i \in DOMAIN returns[r], ~returns[r][i].revoked, i \notin hit
      PROVE  p \notin returns[r][i].grounds \/ \E q \in returns[r][i].grounds : q \in live
  BY <1>7
<1> HIDE DEF hit, held
<1>8. /\ Ladder' /\ Grants'
      /\ \A q \in Run : \A i \in DOMAIN returns'[q] :
            /\ i \in DOMAIN returns[q]
            /\ returns'[q][i].grounds = returns[q][i].grounds
            /\ ~returns'[q][i].revoked => ~returns[q][i].revoked /\ (q = r => i \notin hit)
  BY <1>1, <1>2, <1>3, <1>4, <1>5, RevokeKeeps
<1>9. Places'
  BY <1>1, <1>3 DEF Places, Where
<1>10. Known \subseteq Known'
  BY <1>1, <1>3 DEF Known, Places
<1>11. Trees'
  BY <1>1, <1>10, StillWhole DEF IInv
<1>12. /\ \A q \in Patch : place[q] = "pending" => place'[q] = "pending" \/ Free(by[q])
       /\ \A q \in Patch : revert[q] = "pending" => revert'[q] = "pending" \/ Free(by[q])
  BY <1>1, <1>3 DEF Places
<1>13. Wakes'
  BY <1>1, <1>3, <1>12, StillInHand DEF IInv, Places
<1>14. Grounded'
  <2> SUFFICES ASSUME crashes = 0, NEW q \in Run, NEW i \in DOMAIN returns'[q],
                      ~returns'[q][i].revoked
               PROVE  \E x \in returns'[q][i].grounds : Live(x)' \/ x \in wake'[q].gone
    BY <1>1 DEF Grounded
  <2>1. /\ i \in DOMAIN returns[q] /\ returns'[q][i].grounds = returns[q][i].grounds
        /\ ~returns[q][i].revoked /\ (q = r => i \notin hit)
    BY <1>8
  <2>2. PICK x \in returns[q][i].grounds : Live(x) \/ x \in wake[q].gone
    BY <2>1 DEF IInv, Grounded
  <2>3. returns[q][i] \in Grant
    BY <1>3, <2>1 DEF Ladder
  <2>4. x \in Patch
    BY <2>2, <2>3 DEF Grant
  <2>5. CASE x # p
    BY <1>1, <1>6, <2>1, <2>2, <2>4, <2>5
  <2>6. CASE x = p
    <3>1. q = r
      BY <1>1, <1>3, <2>1, <2>2, <2>6 DEF Grants, Earned
    <3>2. \E y \in returns[r][i].grounds : y \in live
      BY <1>7, <2>1, <2>2, <2>6, <3>1
    <3> QED
      BY <2>1, <3>1, <3>2
  <2> QED
    BY <2>5, <2>6
<1> QED
  BY <1>8, <1>9, <1>11, <1>13, <1>14 DEF IInv

-----------------------------------------------------------------------------
(* The steps: the wake-up                                                    *)

LEMMA HandMoves ==
    ASSUME IInv, NEW r \in Run, NEW w \in Wake, wake' = [wake EXCEPT ![r] = w],
           UNCHANGED <<before, place, by, revert, aged, recorded, run>>,
           Hands(r, w), w.at = "copied" => Whole(w.tree, Known, cut \cup w.cut),
           cut \subseteq cut', Whole(current', Known, cut'),
           faults' \in 0..MaxFaults, cut' \subseteq Module,
           \/ crashes' = crashes /\ wake[r].gone \subseteq w.gone
           \/ crashes' \in 1..MaxCrashes
    PROVE  IInv'
<1>1. Wakes' /\ Trees'
  BY NextInHand
<1>2. crashes' \in 0..MaxCrashes
  BY RepairAssumption DEF IInv, Places
<1>3. Places' /\ Ladder'
  BY <1>2 DEF IInv, Places, Ladder, run
<1>4. Grants'
  BY StillEarned DEF IInv, run, Ladder
<1>5. Grounded'
  <2> SUFFICES ASSUME crashes' = 0, NEW q \in Run, NEW i \in DOMAIN returns[q],
                      ~returns[q][i].revoked
               PROVE  \E p \in returns[q][i].grounds : Live(p)' \/ p \in wake'[q].gone
    BY DEF Grounded, run
  <2>1. crashes = 0 /\ wake[r].gone \subseteq w.gone
    OBVIOUS
  <2>2. \A p : Live(p)' = Live(p)
    BY DEF Live, PatchStatus
  <2>3. wake[q].gone \subseteq wake'[q].gone
    BY <2>1 DEF IInv, Wakes
  <2> QED
    BY <2>1, <2>2, <2>3 DEF IInv, Grounded
<1> QED
  BY <1>1, <1>3, <1>4, <1>5 DEF IInv

LEMMA IdleHands ==
    ASSUME NEW r \in Run
    PROVE  Idle \in Wake /\ Hands(r, Idle) /\ Idle.at = "idle" /\ Idle.gone = {}
BY DEF Idle, Wake, Hands

\* A wake-up that starts takes all that is staged, to install it or to refuse it.
LEMMA WakeStarts ==
    ASSUME IInv, NEW r \in Run, Copy(r) \/ RefuseAll(r)
    PROVE  IInv'
<1> DEFINE w == IF Copy(r) THEN [Idle EXCEPT !.at = "copied", !.tree = current,
                                             !.left = PendingEntries(r)]
                           ELSE [Idle EXCEPT !.at = "filing", !.bad = PendingEntries(r)]
<1>1. /\ Free(r) /\ wake' = [wake EXCEPT ![r] = w]
      /\ UNCHANGED <<current, before, place, by, revert, aged, recorded, run, crashes, faults, cut>>
  BY DEF Copy, RefuseAll, tree
<1>2. Whole(current, Known, cut) /\ wake[r].gone = {} /\ cut \subseteq Module /\ faults \in 0..MaxFaults
  BY <1>1 DEF IInv, Trees, Wakes, Hands, Free, Idle, Places
<1>3. current \in Text /\ PendingEntries(r) \subseteq Entry
  BY <1>2 DEF Whole, PendingEntries
<1>4. /\ w \in Wake /\ Hands(r, w)
      /\ w.at = "copied" => w.tree = current /\ w.cut = {}
  BY <1>3 DEF Wake, Hands, Idle
<1> HIDE DEF w
<1>5. w.at = "copied" => Whole(w.tree, Known, cut \cup w.cut)
  BY <1>2, <1>4
<1>6. Whole(current', Known, cut')
  BY <1>1, <1>2
<1> QED
  BY <1>1, <1>2, <1>4, <1>5, <1>6, HandMoves

LEMMA PutShape ==
    ASSUME NEW w \in Wake, NEW e \in Entry, Installable(e, w.tree) => InstallProven(e, w.tree) \in Text
    PROVE  LET new == Put(w, e)
           IN  /\ new \in Wake /\ new.at = w.at /\ new.gone = w.gone /\ new.cut = w.cut
               /\ new.left = w.left \ {e}
               /\ \/ /\ Installable(e, w.tree) /\ new.tree = InstallProven(e, w.tree)
                     /\ new.done = w.done \cup {e} /\ new.bad = w.bad
                  \/ new.tree = w.tree /\ new.done = w.done /\ new.bad = w.bad \cup {e}
<1> DEFINE next == InstallProven(e, w.tree)
           left == w.left \ {e}
           done == w.done \cup {e}
           bad == w.bad \cup {e}
<1>1. left \in SUBSET Entry /\ done \in SUBSET Entry /\ bad \in SUBSET Entry
  BY DEF Wake
<1>2. CASE Installable(e, w.tree)
  <2>1. Put(w, e) = [w EXCEPT !.left = left, !.done = done, !.tree = next]
    BY <1>2 DEF Put
  <2>2. next \in Text \cup {<<>>}
    BY <1>2
  <2> HIDE DEF next, left, done
  <2>3. /\ Put(w, e) \in Wake /\ Put(w, e).at = w.at /\ Put(w, e).gone = w.gone
        /\ Put(w, e).cut = w.cut
        /\ Put(w, e).left = left /\ Put(w, e).tree = next /\ Put(w, e).done = done
        /\ Put(w, e).bad = w.bad
    BY <1>1, <2>1, <2>2 DEF Wake
  <2> QED
    BY <1>2, <2>3 DEF next, left, done
<1>3. CASE ~Installable(e, w.tree)
  <2>1. Put(w, e) = [w EXCEPT !.left = left, !.bad = bad]
    BY <1>3 DEF Put
  <2> HIDE DEF left, bad
  <2>2. /\ Put(w, e) \in Wake /\ Put(w, e).at = w.at /\ Put(w, e).gone = w.gone
        /\ Put(w, e).cut = w.cut
        /\ Put(w, e).left = left /\ Put(w, e).tree = w.tree /\ Put(w, e).done = w.done
        /\ Put(w, e).bad = bad
    BY <1>1, <2>1 DEF Wake
  <2> QED
    BY <2>2 DEF left, bad
<1> QED
  BY <1>2, <1>3

\* An entry that fits a tree leaves it whole.
LEMMA InstalledWhole ==
    ASSUME IInv, NEW r \in Run, NEW e \in PendingEntries(r), NEW lost,
           NEW t, Whole(t, Known, lost), Installable(e, t)
    PROVE  Whole(InstallProven(e, t), Known, lost)
<1>1. e[1] \in {"patch", "revert"} /\ e[2] \in Patch
  BY DEF PendingEntries, Entry
<1>2. e[1] = "patch" => e[2] \in Known
  BY <1>1 DEF PendingEntries, Known
<1>3. CASE e[1] = "patch"
  <2>1. \A m \in Touches[e[2]] : t[m] = before[e[2]][m]
    BY <1>3 DEF Installable, Fits
  <2>2. \A m \in Touches[e[2]] : ~Has(before[e[2]], m, e[2])
    BY <1>1 DEF IInv, Trees
  <2>3. \A m \in Touches[e[2]] : ~Has(t, m, e[2])
    BY <2>1, <2>2 DEF Has
  <2>4. Whole(Applied(e[2], t), Known, lost)
    BY <1>1, <1>2, <1>3, <2>3, AppliedWhole
  <2> QED
    BY <1>3, <2>4 DEF InstallProven
<1>4. CASE e[1] # "patch"
  <2>1. OnTop(e[2], t)
    BY <1>4 DEF Installable
  <2>2. Whole(Reverted(e[2], t), Known, lost)
    BY <1>1, <2>1, RevertedWhole
  <2> QED
    BY <1>4, <2>2 DEF InstallProven
<1> QED
  BY <1>3, <1>4

LEMMA InstallKeeps ==
    ASSUME IInv, NEW r \in Run, NEW e \in Entry, InstallPending(r, e)
    PROVE  IInv'
<1> DEFINE w == wake[r]
           new == Put(w, e)
           lost == cut \cup w.cut
<1>1. /\ w.at = "copied" /\ e \in w.left /\ wake' = [wake EXCEPT ![r] = new]
      /\ UNCHANGED <<current, before, place, by, revert, aged, recorded, run, crashes, faults, cut>>
  BY DEF InstallPending, tree, IInv, Wakes
<1>2. /\ w \in Wake /\ Hands(r, w) /\ Whole(w.tree, Known, lost) /\ Whole(current, Known, cut)
      /\ cut \subseteq Module /\ faults \in 0..MaxFaults
  BY <1>1 DEF IInv, Wakes, Trees, Places
<1>5. ASSUME Installable(e, w.tree) PROVE Whole(InstallProven(e, w.tree), Known, lost)
  <2>1. e \in PendingEntries(r)
    BY <1>1, <1>2 DEF Hands
  <2> QED
    BY <1>2, <1>5, <2>1, InstalledWhole
<1> HIDE DEF w, lost
<1>6. Installable(e, w.tree) => InstallProven(e, w.tree) \in Text
  BY <1>5 DEF Whole
<1>7. /\ new \in Wake /\ new.at = w.at /\ new.gone = w.gone /\ new.cut = w.cut
      /\ new.left = w.left \ {e}
      /\ \/ /\ Installable(e, w.tree) /\ new.tree = InstallProven(e, w.tree)
            /\ new.done = w.done \cup {e} /\ new.bad = w.bad
         \/ new.tree = w.tree /\ new.done = w.done /\ new.bad = w.bad \cup {e}
  BY <1>2, <1>6, PutShape
<1> HIDE DEF new
<1>8. Hands(r, new)
  BY <1>1, <1>2, <1>7 DEF Hands
<1>9. Whole(new.tree, Known, lost) /\ lost = cut \cup new.cut
  BY <1>2, <1>5, <1>7 DEF lost
<1>10. Whole(current', Known, cut') /\ wake[r].gone \subseteq new.gone
  BY <1>1, <1>2, <1>7 DEF w
<1> QED
  BY <1>1, <1>2, <1>7, <1>8, <1>9, <1>10, HandMoves

\* A write that fails leaves texts that hold what they held, have the entry written in, or
\* are torn.
Partly(w, e, ms, torn, new) ==
    /\ new \in Wake /\ new.at = w.at /\ new.gone = w.gone /\ new.left = w.left \ {e}
    /\ new.done = w.done /\ new.bad = w.bad \cup {e}
    /\ new.cut = w.cut \cup ms \cup torn /\ new.tree \in Text
    /\ \A m \in Module : /\ m \in torn => new.tree[m] = <<Torn>>
                         /\ m \in ms \ torn => new.tree[m] = InstallProven(e, w.tree)[m]
                         /\ m \notin ms \cup torn => new.tree[m] = w.tree[m]

LEMMA CutShape ==
    ASSUME NEW w \in Wake, w.tree \in Text, NEW e \in Entry, InstallProven(e, w.tree) \in Text,
           NEW ms \in SUBSET Module, NEW torn \in SUBSET Module
    PROVE  Partly(w, e, ms, torn, CutShort(w, e, ms, torn))
<1> DEFINE next == [m \in Module |-> IF m \in torn THEN <<Torn>>
                                    ELSE IF m \in ms THEN InstallProven(e, w.tree)[m]
                                    ELSE w.tree[m]]
           left == w.left \ {e}
           bad == w.bad \cup {e}
           lost == w.cut \cup ms \cup torn
<1>1. left \in SUBSET Entry /\ bad \in SUBSET Entry /\ lost \in SUBSET Module
  BY RepairAssumption DEF Wake, Entry
<1>2. next \in Text
  <2>1. <<Torn>> \in Seq(Patch \cup {Torn})
    OBVIOUS
  <2>2. \A m \in Module : /\ w.tree[m] \in Seq(Patch \cup {Torn})
                          /\ InstallProven(e, w.tree)[m] \in Seq(Patch \cup {Torn})
    BY DEF Text
  <2> QED
    BY <2>1, <2>2 DEF Text
<1>3. CutShort(w, e, ms, torn) = [w EXCEPT !.left = left, !.bad = bad, !.cut = lost, !.tree = next]
  BY DEF CutShort
<1> HIDE DEF next, left, bad, lost
<1>4. LET new == CutShort(w, e, ms, torn)
      IN  /\ new \in Wake /\ new.at = w.at /\ new.gone = w.gone /\ new.left = left
          /\ new.done = w.done /\ new.bad = bad /\ new.cut = lost /\ new.tree = next
  BY <1>1, <1>2, <1>3 DEF Wake
<1> QED
  BY <1>2, <1>4 DEF next, left, bad, lost, Partly

LEMMA FailsKeeps ==
    ASSUME IInv, NEW r \in Run, NEW e \in Entry, InstallFails(r, e)
    PROVE  IInv'
<1> DEFINE w == wake[r]
           lost == cut \cup w.cut
<1>1. PICK ms \in SUBSET Module, torn \in SUBSET Module :
         wake' = [wake EXCEPT ![r] = CutShort(w, e, ms, torn)]
  BY RepairAssumption DEF InstallFails, IInv, Wakes, Entry
<1> DEFINE new == CutShort(w, e, ms, torn)
           next == InstallProven(e, w.tree)
<1>2. /\ w.at = "copied" /\ e \in w.left /\ faults < MaxFaults /\ faults' = faults + 1
      /\ Installable(e, w.tree)
      /\ UNCHANGED <<current, before, place, by, revert, aged, recorded, run, crashes, cut>>
  BY DEF InstallFails, tree
<1>3. /\ w \in Wake /\ Hands(r, w) /\ Whole(w.tree, Known, lost) /\ Whole(current, Known, cut)
      /\ cut \subseteq Module /\ faults \in 0..MaxFaults
  BY <1>2 DEF IInv, Wakes, Trees, Places
<1>4. Whole(next, Known, lost)
  <2>1. e \in PendingEntries(r)
    BY <1>2, <1>3 DEF Hands
  <2> QED
    BY <1>2, <1>3, <2>1, InstalledWhole
<1>5. faults' \in 0..MaxFaults
  BY <1>2, <1>3, RepairAssumption
<1> HIDE DEF w, lost, new, next
<1>6. w.tree \in Text /\ next \in Text
  BY <1>3, <1>4 DEF Whole
<1>7. /\ new \in Wake /\ new.at = w.at /\ new.gone = w.gone /\ new.left = w.left \ {e}
      /\ new.done = w.done /\ new.bad = w.bad \cup {e}
      /\ new.cut = w.cut \cup ms \cup torn /\ new.tree \in Text
      /\ \A m \in Module : /\ m \in torn => new.tree[m] = <<Torn>>
                           /\ m \in ms \ torn => new.tree[m] = next[m]
                           /\ m \notin ms \cup torn => new.tree[m] = w.tree[m]
  <2>1. Partly(w, e, ms, torn, CutShort(w, e, ms, torn))
    BY <1>3, <1>6, CutShape DEF next
  <2> QED
    BY <2>1 DEF Partly, new, next
<1>8. Hands(r, new)
  BY <1>2, <1>3, <1>7 DEF Hands
<1>9. Whole(new.tree, Known, cut \cup new.cut)
  <2>1. \A m \in Module : /\ \A q \in Patch : Has(new.tree, m, q) => q \in Known
                          /\ \A i, j \in DOMAIN new.tree[m] :
                                new.tree[m][i] = new.tree[m][j] => i = j
    <3> SUFFICES ASSUME NEW m \in Module
                 PROVE  /\ \A q \in Patch : Has(new.tree, m, q) => q \in Known
                        /\ \A i, j \in DOMAIN new.tree[m] :
                              new.tree[m][i] = new.tree[m][j] => i = j
      OBVIOUS
    <3>1. CASE m \in torn
      <4>1. new.tree[m] = <<Torn>> /\ Torn \notin Patch
        BY <1>7, <3>1, RepairAssumption DEF Torn
      <4> HIDE DEF Known
      <4> QED
        BY <4>1 DEF Has
    <3>2. CASE m \in ms \ torn
      BY <1>4, <1>7, <3>2 DEF Whole, Has
    <3>3. CASE m \notin ms \cup torn
      BY <1>3, <1>7, <3>3 DEF Whole, Has
    <3> QED
      BY <3>1, <3>2, <3>3
  <2>2. ASSUME NEW q \in Patch, Clear(q, cut \cup new.cut)
        PROVE  \/ \A m \in Touches[q] : Has(new.tree, m, q)
               \/ \A m \in Touches[q] : ~Has(new.tree, m, q)
    <3>1. Clear(q, lost)
      BY <1>7, <2>2 DEF Clear, lost
    <3>2. \A m \in Touches[q] : new.tree[m] = w.tree[m]
      BY <1>7, <2>2, RepairAssumption DEF Clear
    <3> QED
      BY <1>3, <3>1, <3>2 DEF Whole, Has
  <2> HIDE DEF Known
  <2> QED
    BY <1>7, <2>1, <2>2 DEF Whole
<1>10. Whole(current', Known, cut') /\ wake[r].gone \subseteq new.gone
  BY <1>2, <1>3, <1>7 DEF w
<1>11. cut \subseteq cut' /\ cut' \subseteq Module
  BY <1>2, <1>3
<1> QED
  BY <1>1, <1>2, <1>5, <1>7, <1>8, <1>9, <1>10, <1>11, HandMoves DEF new

\* An installation that raised leaves nothing in hand, or everything to be refused.
LEMMA RaisesKeeps ==
    ASSUME IInv, NEW r \in Run, InstallRaises(r)
    PROVE  IInv'
<1> DEFINE w == IF DrainOverdue(r) THEN [Idle EXCEPT !.at = "filing", !.bad = PendingEntries(r)]
                                   ELSE Idle
<1>1. /\ wake[r].at = "copied" /\ wake' = [wake EXCEPT ![r] = w]
      /\ faults < MaxFaults /\ faults' = faults + 1
      /\ UNCHANGED <<current, before, place, by, revert, aged, recorded, run, crashes, cut>>
  BY DEF InstallRaises, tree
<1>2. /\ Whole(current, Known, cut) /\ wake[r].gone = {} /\ cut \subseteq Module
      /\ faults \in 0..MaxFaults
  BY <1>1 DEF IInv, Trees, Wakes, Hands, Places
<1>3. faults' \in 0..MaxFaults
  BY <1>1, <1>2, RepairAssumption
<1>4. w \in Wake /\ Hands(r, w) /\ w.at # "copied"
  BY DEF Wake, Hands, Idle, PendingEntries
<1> HIDE DEF w
<1>5. Whole(current', Known, cut') /\ cut' \subseteq Module
  BY <1>1, <1>2
<1> QED
  BY <1>1, <1>2, <1>3, <1>4, <1>5, HandMoves

LEMMA SwitchKeeps ==
    ASSUME IInv, NEW r \in Run, Switch(r)
    PROVE  IInv'
<1> DEFINE w == wake[r]
           new == [w EXCEPT !.at = "filing"]
<1>1. /\ w.at = "copied" /\ wake' = [wake EXCEPT ![r] = new]
      /\ current' = IF w.done = {} THEN current ELSE w.tree
      /\ cut' = IF w.done = {} THEN cut ELSE cut \cup w.cut
      /\ UNCHANGED <<before, place, by, revert, aged, recorded, run, crashes, faults>>
  BY DEF Switch, IInv, Wakes
<1>2. /\ w \in Wake /\ Hands(r, w) /\ Whole(w.tree, Known, cut \cup w.cut)
      /\ Whole(current, Known, cut) /\ cut \subseteq Module /\ faults \in 0..MaxFaults
  BY <1>1 DEF IInv, Wakes, Trees, Places
<1> HIDE DEF w
<1>3. new \in Wake /\ Hands(r, new) /\ new.at = "filing" /\ new.gone = w.gone
  BY <1>2 DEF Wake, Hands
<1> HIDE DEF new
<1>4. Whole(current', Known, cut') /\ cut \subseteq cut' /\ cut' \subseteq Module
  <2>1. w.cut \subseteq Module
    BY <1>2 DEF Wake
  <2> QED
    BY <1>1, <1>2, <2>1
<1>5. wake[r].gone \subseteq new.gone
  BY <1>3 DEF w
<1> QED
  BY <1>1, <1>2, <1>3, <1>4, <1>5, HandMoves

\* A wake-up that was killed has nothing in hand.
LEMMA CrashKeeps ==
    ASSUME IInv, NEW r \in Run, Crash(r)
    PROVE  IInv'
<1>1. /\ wake' = [wake EXCEPT ![r] = Idle] /\ crashes' = crashes + 1 /\ crashes < MaxCrashes
      /\ UNCHANGED <<current, before, place, by, revert, aged, recorded, run, faults, cut>>
  BY DEF Crash, tree
<1>2. crashes' \in 1..MaxCrashes
  BY <1>1, RepairAssumption DEF IInv, Places
<1>3. Whole(current', Known, cut') /\ cut \subseteq Module /\ faults \in 0..MaxFaults
  BY <1>1 DEF IInv, Trees, Places
<1> QED
  BY <1>1, <1>2, <1>3, IdleHands, HandMoves

\* One more entry is filed: it leaves the hand of its wake-up for where it belongs.
LEMMA FileKeeps ==
    ASSUME IInv, NEW r \in Run, NEW e \in Entry, NEW where \in {"installed", "refused"},
           NEW new \in Wake, wake' = [wake EXCEPT ![r] = new],
           wake[r].at = "filing", new.at = "filing", e \in wake[r].done \cup wake[r].bad,
           new.left = wake[r].left, new.done = wake[r].done \ {e}, new.bad = wake[r].bad \ {e},
           wake[r].gone \subseteq new.gone,
           where = "refused" /\ e[1] = "patch" => e[2] \in new.gone,
           File(e, where), UNCHANGED <<current, before, by, recorded, run, crashes, faults, cut>>
    PROVE  IInv'
<1>1. Places /\ Ladder /\ Grants /\ wake \in [Run -> Wake] /\ \A q \in Run : Hands(q, wake[q])
  BY DEF IInv, Wakes
<1>2. /\ e[1] \in {"patch", "revert"} /\ e[2] \in Patch
      /\ \A d \in Entry : d[1] = e[1] /\ d[2] = e[2] => d = e
      /\ \A d \in Entry : d[1] \in {"patch", "revert"} /\ d[2] \in Patch
  BY DEF Entry
<1>3. /\ by[e[2]] = r
      /\ e[1] = "patch" => place[e[2]] = "pending" /\ place' = [place EXCEPT ![e[2]] = where]
                           /\ revert' = revert
      /\ e[1] = "revert" => revert[e[2]] = "pending" /\ revert' = [revert EXCEPT ![e[2]] = where]
                            /\ place' = place
      /\ aged' \subseteq aged
  BY <1>1, <1>2 DEF Hands, PendingEntries, File
<1>4. wake' \in [Run -> Wake] /\ wake'[r] = new /\ \A q \in Run \ {r} : wake'[q] = wake[q]
  BY <1>1
<1>5. Places'
  BY <1>1, <1>2, <1>3 DEF Places, Where
<1>6. Known \subseteq Known'
  BY <1>1, <1>2, <1>3 DEF Known, Places
<1>7. \A p \in Patch : p # e[2] => /\ place'[p] = place[p] /\ revert'[p] = revert[p]
                                   /\ Live(p)' = Live(p)
  BY <1>1, <1>2, <1>3 DEF Places, Live, PatchStatus
<1>8. Wakes'
  <2> SUFFICES ASSUME NEW q \in Run PROVE Hands(q, wake[q])'
    BY <1>4 DEF Wakes
  <2>1. CASE q = r
    <3>1. ASSUME NEW d \in PendingEntries(r), d # e PROVE d \in PendingEntries(r)'
      <4>1. d \in Entry /\ by[d[2]] = r /\ (d[1] # e[1] \/ d[2] # e[2])
        BY <1>2, <3>1 DEF PendingEntries
      <4>2. IF d[1] = "patch" THEN place'[d[2]] = "pending" ELSE revert'[d[2]] = "pending"
        BY <1>2, <1>3, <1>7, <3>1, <4>1 DEF PendingEntries
      <4> QED
        BY <4>1, <4>2 DEF PendingEntries
    <3>2. new.left \cup new.done \cup new.bad \subseteq PendingEntries(r)'
      BY <1>1, <3>1 DEF Hands
    <3> QED
      BY <1>1, <1>4, <2>1, <3>2 DEF Hands
  <2>2. CASE q # r
    <3>1. ASSUME NEW d \in PendingEntries(q) PROVE d \in PendingEntries(q)'
      <4>1. d \in Entry /\ by[d[2]] = q /\ d[2] # e[2] /\ d[2] \in Patch
        BY <1>2, <1>3, <2>2, <3>1 DEF PendingEntries
      <4> QED
        BY <1>7, <3>1, <4>1 DEF PendingEntries
    <3> QED
      BY <1>1, <1>4, <2>2, <3>1 DEF Hands
  <2> QED
    BY <2>1, <2>2
<1>9. Trees'
  <2>1. /\ Whole(current, Known, cut)
        /\ \A q \in Run : wake[q].at = "copied" => Whole(wake[q].tree, Known, cut \cup wake[q].cut)
    BY DEF IInv, Trees
  <2>2. Whole(current', Known', cut')
    BY <1>6, <2>1, KnownGrows
  <2>3. \A q \in Run : wake'[q].at = "copied" => Whole(wake'[q].tree, Known', cut' \cup wake'[q].cut)
    <3> SUFFICES ASSUME NEW q \in Run \ {r}, wake[q].at = "copied"
                 PROVE  Whole(wake[q].tree, Known', cut \cup wake[q].cut)
      BY <1>4
    <3> QED
      BY <1>6, <2>1, KnownGrows
  <2>4. (before \in [Patch -> Text]
           /\ \A p \in Patch : \A m \in Touches[p] : ~Has(before[p], m, p))'
    BY DEF IInv, Trees, Has
  <2> HIDE DEF Known
  <2> QED
    BY <2>2, <2>3, <2>4 DEF Trees
<1>10. Ladder' /\ Grants'
  BY <1>1, StillEarned DEF Ladder, run
<1>11. Grounded'
  <2> SUFFICES ASSUME crashes = 0, NEW q \in Run, NEW i \in DOMAIN returns[q],
                      ~returns[q][i].revoked
               PROVE  \E p \in returns[q][i].grounds : Live(p)' \/ p \in wake'[q].gone
    BY DEF Grounded, run
  <2>1. PICK p \in returns[q][i].grounds : Live(p) \/ p \in wake[q].gone
    BY DEF IInv, Grounded
  <2>2. wake[q].gone \subseteq wake'[q].gone
    BY <1>4
  <2>3. returns[q][i] \in Grant
    BY <1>1 DEF Ladder
  <2>4. p \in Patch /\ by[p] = q
    BY <1>1, <2>1, <2>3 DEF Grant, Grants, Earned
  <2>5. CASE p # e[2] \/ p \in wake[q].gone
    BY <1>7, <2>1, <2>2, <2>4, <2>5
  <2>6. CASE p = e[2] /\ Live(p)
    <3>1. q = r /\ e[1] = "patch"
      BY <1>2, <1>3, <2>4, <2>6 DEF Live, PatchStatus
    <3>2. CASE where = "refused"
      BY <1>4, <2>1, <2>6, <3>1, <3>2
    <3>3. CASE where = "installed"
      <4>1. Live(p)'
        BY <1>1, <1>3, <2>4, <2>6, <3>1, <3>3 DEF Live, PatchStatus, Places
      <4> QED
        BY <2>1, <4>1
    <3> QED
      BY <3>2, <3>3
  <2> QED
    BY <2>1, <2>5, <2>6
<1> QED
  BY <1>5, <1>8, <1>9, <1>10, <1>11 DEF IInv

LEMMA FilesKeep ==
    ASSUME IInv, NEW r \in Run, NEW e \in Entry, FileInstalled(r, e) \/ FileRefused(r, e)
    PROVE  IInv'
<1> DEFINE w == wake[r]
<1>1. w \in Wake /\ w.done \cap w.bad = {}
  BY DEF IInv, Wakes, Hands
<1>2. CASE FileInstalled(r, e)
  <2> DEFINE done == w.done \ {e}
             new == [w EXCEPT !.done = done]
  <2>1. /\ w.at = "filing" /\ e \in w.done /\ wake' = [wake EXCEPT ![r] = new]
        /\ File(e, "installed") /\ UNCHANGED <<current, before, by, recorded, run, crashes,
                                               faults, cut>>
    BY <1>2 DEF FileInstalled, IInv, Wakes
  <2>2. done \in SUBSET Entry /\ w.bad \ {e} = w.bad
    BY <1>1, <2>1 DEF Wake
  <2> HIDE DEF w, done
  <2>3. /\ new \in Wake /\ new.at = w.at /\ new.left = w.left /\ new.done = done
        /\ new.bad = w.bad /\ new.gone = w.gone
    BY <1>1, <2>2 DEF Wake
  <2> HIDE DEF new
  <2> QED
    BY <2>1, <2>2, <2>3, FileKeeps DEF w, done
<1>3. CASE FileRefused(r, e)
  <2> DEFINE bad == w.bad \ {e}
             gone == IF e[1] = "patch" THEN w.gone \cup {e[2]} ELSE w.gone
             new == [w EXCEPT !.bad = bad, !.gone = gone]
  <2>1. /\ w.at = "filing" /\ e \in w.bad /\ wake' = [wake EXCEPT ![r] = new]
        /\ w.done \ {e} = w.done
        /\ File(e, "refused") /\ UNCHANGED <<current, before, by, recorded, run, crashes,
                                             faults, cut>>
    BY <1>1, <1>3 DEF FileRefused, IInv, Wakes
  <2>2. /\ bad \in SUBSET Entry /\ gone \in SUBSET Patch /\ w.gone \subseteq gone
        /\ e[1] = "patch" => e[2] \in gone
    BY <1>1 DEF Wake, Entry
  <2> HIDE DEF w, bad, gone
  <2>3. /\ new \in Wake /\ new.at = w.at /\ new.left = w.left /\ new.done = w.done
        /\ new.bad = bad /\ new.gone = gone
    BY <1>1, <2>2 DEF Wake
  <2> HIDE DEF new
  <2> QED
    BY <2>1, <2>2, <2>3, FileKeeps DEF w, bad
<1> QED
  BY <1>2, <1>3

\* The refused patches take with them every grant that rested on them alone.
LEMMA RefusedKeeps ==
    ASSUME IInv, NEW r \in Run, FileRefusedPatches(r)
    PROVE  IInv'
<1> DEFINE live == {q \in Patch : Live(q)}
           held == Hold(r, "runtime_patch_refused")
           gone == wake[r].gone
           hit == {i \in DOMAIN returns[r] :
                      LET g == returns[r][i]
                      IN  /\ ~g.revoked /\ g.grounds \intersect gone # {}
                          /\ ~\E q \in g.grounds \ gone : q \in live}
<1>1. /\ wake' = [wake EXCEPT ![r] = Idle]
      /\ UNCHANGED <<current, before, place, by, revert, aged, recorded, used, crashes, faults,
                     cut>>
  BY DEF FileRefusedPatches, tree
<1>2. /\ rehires' = [rehires EXCEPT ![r] = Revoked(r, hit).rehires]
      /\ returns' = [returns EXCEPT ![r] = Revoked(r, hit).returns]
      /\ task' = IF Revoked(r, hit).blocked THEN [task EXCEPT ![r] = "BLOCKED"] ELSE task
      /\ ticket' = IF Revoked(r, hit).blocked THEN [ticket EXCEPT ![r] = held] ELSE ticket
  BY DEF FileRefusedPatches, Revoke, RevokeGrants
<1>3. Ladder /\ Places /\ Grants /\ wake \in [Run -> Wake]
  BY DEF IInv, Wakes
<1>4. held \in Ticket /\ held.open
  BY <1>3, HoldTicket DEF Kinds
<1>5. hit \in SUBSET DOMAIN returns[r]
  OBVIOUS
<1>6. ASSUME NEW i \in DOMAIN returns[r], ~returns[r][i].revoked, i \notin hit
      PROVE  \/ \A q \in returns[r][i].grounds : q \notin gone
             \/ \E q \in returns[r][i].grounds : q \in live
  BY <1>6
<1> HIDE DEF hit, held
<1>7. /\ Ladder' /\ Grants'
      /\ \A q \in Run : \A i \in DOMAIN returns'[q] :
            /\ i \in DOMAIN returns[q]
            /\ returns'[q][i].grounds = returns[q][i].grounds
            /\ ~returns'[q][i].revoked => ~returns[q][i].revoked /\ (q = r => i \notin hit)
  BY <1>1, <1>2, <1>3, <1>4, <1>5, RevokeKeeps
<1>8. Places'
  BY <1>1, <1>3 DEF Places
<1>9. Whole(current', Known, cut')
  BY <1>1 DEF IInv, Trees
<1>10. Wakes' /\ Trees'
  BY <1>1, <1>9, IdleHands, NextInHand
<1>11. Grounded'
  <2> SUFFICES ASSUME crashes = 0, NEW q \in Run, NEW i \in DOMAIN returns'[q],
                      ~returns'[q][i].revoked
               PROVE  \E x \in returns'[q][i].grounds : Live(x)' \/ x \in wake'[q].gone
    BY <1>1 DEF Grounded
  <2>1. /\ i \in DOMAIN returns[q] /\ returns'[q][i].grounds = returns[q][i].grounds
        /\ ~returns[q][i].revoked /\ (q = r => i \notin hit)
    BY <1>7
  <2>2. PICK x \in returns[q][i].grounds : Live(x) \/ x \in wake[q].gone
    BY <2>1 DEF IInv, Grounded
  <2>3. \A y : Live(y)' = Live(y)
    BY <1>1 DEF Live, PatchStatus
  <2>4. CASE q # r
    BY <1>1, <1>3, <2>1, <2>2, <2>3, <2>4
  <2>5. CASE q = r
    BY <1>6, <2>1, <2>2, <2>3, <2>5
  <2> QED
    BY <2>4, <2>5
<1> QED
  BY <1>7, <1>8, <1>10, <1>11 DEF IInv

-----------------------------------------------------------------------------
(* What stands                                                               *)

LEMMA WithinWhole ==
    ASSUME NEW known, NEW lost, NEW t, Whole(t, known, lost), NEW p \in Patch, Clear(p, lost)
    PROVE  /\ Within(t, p) => \A m \in Touches[p] : Has(t, m, p)
           /\ ~Within(t, p) => ~\A m \in Touches[p] : Has(t, m, p)
<1>1. Touches[p] # {}
  BY RepairAssumption
<1> QED
  BY <1>1 DEF Within, Whole

LEMMA AppliedText ==
    ASSUME NEW t \in Text, NEW p \in Patch
    PROVE  Applied(p, t) \in Text
BY DEF Applied, Text

LEMMA AppliedWithin ==
    ASSUME NEW t \in Text, NEW p \in Patch, NEW q \in Patch
    PROVE  Within(Applied(p, t), q) <=> q = p \/ Within(t, q)
<1> DEFINE u == Applied(p, t)
<1>1. Touches[q] \subseteq Module /\ Touches[q] # {}
  BY RepairAssumption
<1>2. /\ \A m \in Module : q # p => (Has(u, m, q) <=> Has(t, m, q))
      /\ \A m \in Touches[p] : Has(u, m, p)
  BY AppliedHas
<1> HIDE DEF u
<1> QED
  BY <1>1, <1>2 DEF Within, u

LEMMA RevertedWithin ==
    ASSUME NEW known, NEW lost, NEW t, Whole(t, known, lost), NEW p \in Patch, OnTop(p, t),
           NEW q \in Patch
    PROVE  Within(Reverted(p, t), q) <=> q # p /\ Within(t, q)
<1> DEFINE u == Reverted(p, t)
<1>1. Touches[q] \subseteq Module
  BY RepairAssumption
<1>2. /\ \A m \in Module : q # p => (Has(u, m, q) <=> Has(t, m, q))
      /\ \A m \in Touches[p] : ~Has(u, m, p)
  BY RevertedHas
<1> HIDE DEF u
<1> QED
  BY <1>1, <1>2 DEF Within, u

\* Entries in the hand of a wake-up are of its project, and a patch whose revert is staged
\* or filed is not staged itself.
LEMMA InHand ==
    ASSUME IInv, Stands, NEW r \in Run, NEW p \in Patch
    PROVE  /\ wake[r] \in Wake
           /\ <<"patch", p>> \in wake[r].left \cup wake[r].done \cup wake[r].bad =>
                 by[p] = r /\ place[p] = "pending" /\ revert[p] = "absent"
           /\ <<"revert", p>> \in wake[r].left \cup wake[r].done \cup wake[r].bad =>
                 by[p] = r /\ place[p] = "installed" /\ revert[p] = "pending"
           /\ wake[r].at = "idle" => wake[r].done = {}
<1>1. wake[r] \in Wake /\ Hands(r, wake[r])
  BY DEF IInv, Wakes
<1>2. /\ <<"patch", p>> \in PendingEntries(r) => by[p] = r /\ place[p] = "pending"
      /\ <<"revert", p>> \in PendingEntries(r) => by[p] = r /\ revert[p] = "pending"
  BY DEF PendingEntries
<1>3. revert[p] # "absent" => place[p] = "installed"
  BY DEF Stands, Taken
<1>4. wake[r].at = "idle" => wake[r].done = {}
  BY <1>1 DEF Hands, Idle
<1> QED
  BY <1>1, <1>2, <1>3, <1>4 DEF Hands

LEMMA SameCopyStands ==
    ASSUME NEW r \in Run, CopyStands(r), wake'[r] = wake[r], cut' = cut,
           \A p \in Patch : Standing(p)' <=> Standing(p)
    PROVE  CopyStands(r)'
<1> SUFFICES ASSUME wake[r].at = "copied", NEW p \in Patch, Clear(p, cut \cup wake[r].cut)
             PROVE  Within(wake[r].tree, p) <=> /\ Standing(p)' \/ <<"patch", p>> \in wake[r].done
                                                /\ <<"revert", p>> \notin wake[r].done
  BY DEF CopyStands
<1>1. Within(wake[r].tree, p) <=> /\ Standing(p) \/ <<"patch", p>> \in wake[r].done
                                  /\ <<"revert", p>> \notin wake[r].done
  BY DEF CopyStands
<1> QED
  BY <1>1

\* What is behind the symlink stays, and so does what the ledgers say of it.
LEMMA StillStands ==
    ASSUME Stands, NEW r \in Run, Taken', UNCHANGED <<current, crashes, cut>>,
           \A p \in Patch : Standing(p)' <=> Standing(p),
           \A q \in Run \ {r} : wake'[q] = wake[q],
           crashes = 0 => CopyStands(r)'
    PROVE  Stands'
<1> SUFFICES ASSUME crashes = 0 PROVE Behind' /\ \A q \in Run : CopyStands(q)'
  BY DEF Stands
<1>1. Behind /\ \A q \in Run : CopyStands(q)
  BY DEF Stands
<1>2. ASSUME NEW p \in Patch PROVE Within(current', p) <=> Within(current, p)
  BY DEF Within, Has
<1>3. ASSUME NEW q \in Run \ {r} PROVE CopyStands(q)'
  <2>1. wake'[q] = wake[q] /\ CopyStands(q)
    BY <1>1
  <2> QED
    BY <2>1, SameCopyStands
<1> QED
  BY <1>1, <1>2, <1>3 DEF Behind

\* The steps that leave the tree and the wake-ups alone move no entry to or from
\* "installed".
LEMMA OutsideTheWake ==
    ASSUME IInv, Stands, UNCHANGED <<current, wake, by, crashes, cut>>, Taken',
           \A p \in Patch : /\ (place'[p] = "installed") <=> (place[p] = "installed")
                            /\ (revert'[p] = "installed") <=> (revert[p] = "installed")
    PROVE  Stands'
<1>1. \A p \in Patch : Standing(p)' <=> Standing(p)
  BY DEF Standing, Filing
<1> SUFFICES ASSUME crashes = 0 PROVE Behind' /\ \A q \in Run : CopyStands(q)'
  BY DEF Stands
<1>2. Behind /\ \A q \in Run : CopyStands(q)
  BY DEF Stands
<1>3. \A q \in Run : CopyStands(q)'
  BY <1>1, <1>2, SameCopyStands
<1> QED
  BY <1>1, <1>2, <1>3 DEF Behind, Within, Has

LEMMA TurnStands ==
    ASSUME IInv, Stands, NEW r \in Run,
           \/ EngineerComes(r) \/ CloseTicket(r) \/ Reserve(r) \/ Accept(r) \/ Revise(r) \/ Age(r)
           \/ EngineerGone(r) \/ ReturnStoppedTask(r)
           \/ \E p \in Patch : \/ RecordRuntimePatch(r, p) \/ ProvePatch(r, p)
                               \/ StageProvenPatch(p) \/ TakeBackPatch(r, p)
    PROVE  Stands'
<1>1. Places
  BY DEF IInv
<1>2. CASE UNCHANGED <<current, wake, by, place, revert, crashes, cut>>
  <2>1. Taken'
    BY <1>2 DEF Stands, Taken
  <2> QED
    BY <1>2, <2>1, OutsideTheWake
<1>3. CASE EngineerGone(r)
  <2>1. /\ UNCHANGED <<current, wake, by, revert, crashes, cut>>
        /\ place' = [p \in Patch |-> IF by[p] = r /\ place[p] = "proving" THEN "dropped"
                                                                          ELSE place[p]]
    BY <1>3 DEF EngineerGone
  <2>2. \A p \in Patch : (place'[p] = "installed") <=> (place[p] = "installed")
    BY <2>1
  <2>3. Taken'
    BY <2>1, <2>2 DEF Stands, Taken
  <2> QED
    BY <2>1, <2>2, <2>3, OutsideTheWake
<1>4. ASSUME NEW p \in Patch, ProvePatch(r, p) \/ StageProvenPatch(p) PROVE Stands'
  <2>1. /\ UNCHANGED <<current, wake, by, revert, crashes, cut>> /\ place[p] \in {"absent",
                       "proving"}
        /\ \/ place' = [place EXCEPT ![p] = "proving"] \/ place' = [place EXCEPT ![p] = "pending"]
    BY <1>4 DEF ProvePatch, StageProvenPatch
  <2>2. \A q \in Patch : (place'[q] = "installed") <=> (place[q] = "installed")
    BY <1>1, <2>1 DEF Places
  <2>3. Taken'
    BY <2>1, <2>2 DEF Stands, Taken
  <2> QED
    BY <2>1, <2>2, <2>3, OutsideTheWake
<1>5. ASSUME NEW p \in Patch, TakeBackPatch(r, p) PROVE Stands'
  <2>1. UNCHANGED <<current, wake, by, crashes, cut>>
    BY <1>5 DEF TakeBackPatch
  <2>2. \/ /\ place[p] = "pending" /\ place' = [place EXCEPT ![p] = "withdrawn"]
           /\ revert' = revert /\ revert[p] # "installed"
        \/ /\ place[p] = "installed" /\ revert' = [revert EXCEPT ![p] = "pending"]
           /\ place' = place /\ revert[p] # "installed"
    BY <1>5 DEF TakeBackPatch, PatchStatus
  <2>3. \A q \in Patch : /\ (place'[q] = "installed") <=> (place[q] = "installed")
                         /\ (revert'[q] = "installed") <=> (revert[q] = "installed")
    BY <1>1, <2>2 DEF Places
  <2>4. Taken'
    BY <1>1, <2>2, <2>3 DEF Stands, Taken, Places
  <2> QED
    BY <2>1, <2>3, <2>4, OutsideTheWake
<1> QED
  BY <1>2, <1>3, <1>4, <1>5
     DEF EngineerComes, CloseTicket, Reserve, Accept, Revise, Age, ReturnStoppedTask,
         RecordRuntimePatch, tree, run

\* A wake-up that takes nothing from the ledgers and has put nothing behind the symlink.
LEMMA IdleStands ==
    ASSUME IInv, Stands, NEW r \in Run, NEW w \in Wake, wake' = [wake EXCEPT ![r] = w],
           UNCHANGED <<current, place, by, revert, crashes, cut>>,
           wake[r].done = {}, w.done = {}, w.at = "copied" => w.tree = current /\ w.cut = {}
    PROVE  Stands'
<1>1. wake'[r] = w /\ \A q \in Run \ {r} : wake'[q] = wake[q]
  BY DEF IInv, Wakes
<1>2. \A p \in Patch : by[p] \in Run
  BY DEF IInv, Places
<1>3. ASSUME NEW p \in Patch PROVE Standing(p)' <=> Standing(p)
  BY <1>1, <1>2 DEF Standing, Filing
<1>4. ASSUME crashes = 0 PROVE CopyStands(r)'
  <2>1. Behind
    BY <1>4 DEF Stands
  <2>2. ASSUME w.at = "copied", NEW p \in Patch, Clear(p, cut)
        PROVE  Within(wake'[r].tree, p) <=> Standing(p)'
    BY <1>1, <1>3, <2>1, <2>2 DEF Behind
  <2> QED
    BY <1>1, <2>2 DEF CopyStands, Clear
<1>5. Taken'
  BY DEF Stands, Taken
<1> QED
  BY <1>1, <1>3, <1>4, <1>5, StillStands

LEMMA StartStands ==
    ASSUME IInv, Stands, NEW r \in Run, Copy(r) \/ RefuseAll(r) \/ FileRefusedPatches(r)
    PROVE  Stands'
<1> DEFINE w == IF FileRefusedPatches(r) THEN Idle
                ELSE IF Copy(r) THEN [Idle EXCEPT !.at = "copied", !.tree = current,
                                                  !.left = PendingEntries(r)]
                ELSE [Idle EXCEPT !.at = "filing", !.bad = PendingEntries(r)]
<1>1. /\ wake' = [wake EXCEPT ![r] = w]
      /\ UNCHANGED <<current, place, by, revert, crashes, cut>>
      /\ Free(r) \/ wake[r].done = {}
  BY DEF Copy, RefuseAll, FileRefusedPatches, tree
<1>2. wake[r].done = {}
  BY <1>1 DEF IInv, Wakes, Hands, Free, Idle
<1>3. current \in Text /\ PendingEntries(r) \subseteq Entry
  BY DEF IInv, Trees, Whole, PendingEntries
<1>4. w \in Wake /\ w.done = {} /\ (w.at = "copied" => w.tree = current /\ w.cut = {})
  BY <1>3 DEF Wake, Idle
<1> HIDE DEF w
<1> QED
  BY <1>1, <1>2, <1>4, IdleStands

\* An entry that goes into the copy is then the one that the copy differs in.
LEMMA InstallStands ==
    ASSUME IInv, Stands, NEW r \in Run, NEW e \in Entry, InstallPending(r, e)
    PROVE  Stands'
<1> DEFINE w == wake[r]
           new == Put(w, e)
<1>1. /\ w.at = "copied" /\ e \in w.left /\ wake' = [wake EXCEPT ![r] = new]
      /\ UNCHANGED <<current, before, place, by, revert, aged, recorded, run, crashes, faults, cut>>
  BY DEF InstallPending, tree, IInv, Wakes
<1>2. /\ w \in Wake /\ Whole(w.tree, Known, cut \cup w.cut) /\ w.tree \in Text
      /\ \A p \in Patch : by[p] \in Run
  BY <1>1 DEF IInv, Wakes, Trees, Places, Whole
<1>3. PICK kind \in {"patch", "revert"}, p \in Patch : e = <<kind, p>>
  BY DEF Entry
<1>4. Installable(e, w.tree) => InstallProven(e, w.tree) \in Text
  <2>1. CASE kind = "patch"
    BY <1>2, <1>3, <2>1, AppliedText DEF InstallProven
  <2>2. CASE kind = "revert"
    <3>1. ASSUME OnTop(p, w.tree) PROVE Reverted(p, w.tree) \in Text
      <4>1. Whole(Reverted(p, w.tree), Known, cut \cup w.cut)
        BY <1>2, <3>1, RevertedWhole
      <4> QED
        BY <4>1 DEF Whole
    <3> QED
      BY <1>3, <2>2, <3>1 DEF Installable, InstallProven
  <2> QED
    BY <2>1, <2>2
<1>5. /\ kind = "patch" => by[p] = r /\ place[p] = "pending" /\ revert[p] = "absent"
      /\ kind = "revert" => by[p] = r /\ place[p] = "installed" /\ revert[p] = "pending"
      /\ kind = "patch" => <<"revert", p>> \notin w.done
  BY <1>1, <1>3, InHand
<1>6. crashes = 0 => CopyStands(r)
  BY DEF Stands
<1> HIDE DEF w
<1>7. /\ new \in Wake /\ new.at = w.at /\ new.cut = w.cut
      /\ \/ /\ Installable(e, w.tree) /\ new.tree = InstallProven(e, w.tree)
            /\ new.done = w.done \cup {e}
         \/ new.tree = w.tree /\ new.done = w.done
  BY <1>2, <1>4, PutShape
<1> HIDE DEF new
<1>8. wake'[r] = new /\ \A q \in Run \ {r} : wake'[q] = wake[q]
  BY <1>1 DEF IInv, Wakes
<1>9. ASSUME NEW q \in Patch PROVE Standing(q)' <=> Standing(q)
  BY <1>1, <1>2, <1>7, <1>8 DEF Standing, Filing, w
<1>10. ASSUME crashes = 0, NEW q \in Patch, Clear(q, cut \cup w.cut)
       PROVE  Within(new.tree, q) <=> /\ Standing(q) \/ <<"patch", q>> \in new.done
                                      /\ <<"revert", q>> \notin new.done
  <2>1. Within(w.tree, q) <=> /\ Standing(q) \/ <<"patch", q>> \in w.done
                              /\ <<"revert", q>> \notin w.done
    BY <1>1, <1>6, <1>10 DEF CopyStands, w
  <2>2. CASE new.tree = w.tree /\ new.done = w.done
    BY <2>1, <2>2
  <2>3. CASE Installable(e, w.tree) /\ new.tree = InstallProven(e, w.tree)
             /\ new.done = w.done \cup {e} /\ kind = "patch"
    <3>1. new.tree = Applied(p, w.tree)
      BY <1>3, <2>3 DEF InstallProven
    <3>2. Within(new.tree, q) <=> q = p \/ Within(w.tree, q)
      BY <1>2, <3>1, AppliedWithin
    <3> QED
      BY <1>3, <1>5, <2>1, <2>3, <3>2
  <2>4. CASE Installable(e, w.tree) /\ new.tree = InstallProven(e, w.tree)
             /\ new.done = w.done \cup {e} /\ kind = "revert"
    <3>1. new.tree = Reverted(p, w.tree) /\ OnTop(p, w.tree)
      BY <1>3, <2>4 DEF InstallProven, Installable
    <3>2. Within(new.tree, q) <=> q # p /\ Within(w.tree, q)
      BY <1>2, <3>1, RevertedWithin
    <3> QED
      BY <1>3, <2>1, <2>4, <3>2
  <2> QED
    BY <1>7, <2>2, <2>3, <2>4
<1>11. crashes = 0 => CopyStands(r)'
  BY <1>1, <1>7, <1>8, <1>9, <1>10 DEF CopyStands
<1>12. Taken'
  BY <1>1 DEF Stands, Taken
<1> QED
  BY <1>1, <1>8, <1>9, <1>11, <1>12, StillStands

\* A write that failed changed nothing in the modules it did not touch.
LEMMA FailsStand ==
    ASSUME IInv, Stands, NEW r \in Run, NEW e \in Entry, InstallFails(r, e)
    PROVE  Stands'
<1> DEFINE w == wake[r]
           new == wake'[r]
<1>1. /\ w.at = "copied" /\ e \in w.left /\ Installable(e, w.tree)
      /\ UNCHANGED <<current, before, place, by, revert, run, crashes, cut>>
      /\ \A q \in Run \ {r} : wake'[q] = wake[q]
  BY DEF InstallFails, tree, IInv, Wakes
<1>2. PICK ms \in SUBSET Module, torn \in SUBSET Module : new = CutShort(w, e, ms, torn)
  BY RepairAssumption DEF InstallFails, IInv, Wakes, Entry
<1>3. /\ w \in Wake /\ Hands(r, w) /\ Whole(w.tree, Known, cut \cup w.cut)
      /\ \A p \in Patch : by[p] \in Run
  BY <1>1 DEF IInv, Wakes, Trees, Places
<1>4. w.tree \in Text /\ InstallProven(e, w.tree) \in Text
  <2>1. e \in PendingEntries(r)
    BY <1>1, <1>3 DEF Hands
  <2>2. Whole(InstallProven(e, w.tree), Known, cut \cup w.cut)
    BY <1>1, <1>3, <2>1, InstalledWhole
  <2> QED
    BY <1>3, <2>2 DEF Whole
<1> HIDE DEF w, new
<1>5. /\ new.at = w.at /\ new.done = w.done /\ new.cut = w.cut \cup ms \cup torn
      /\ \A m \in Module : m \notin ms \cup torn => new.tree[m] = w.tree[m]
  <2> DEFINE cs == CutShort(w, e, ms, torn)
  <2>1. /\ cs.at = w.at /\ cs.done = w.done /\ cs.cut = w.cut \cup ms \cup torn
        /\ \A m \in Module : m \notin ms \cup torn => cs.tree[m] = w.tree[m]
    <3>1. Partly(w, e, ms, torn, cs)
      BY <1>3, <1>4, CutShape
    <3> QED
      BY <3>1 DEF Partly
  <2> QED
    BY <1>2, <2>1
<1>6. ASSUME NEW q \in Patch PROVE Standing(q)' <=> Standing(q)
  BY <1>1, <1>3, <1>5 DEF Standing, Filing, w, new
<1>7. ASSUME crashes = 0, NEW q \in Patch, Clear(q, cut \cup new.cut)
      PROVE  Within(new.tree, q) <=> /\ Standing(q) \/ <<"patch", q>> \in new.done
                                     /\ <<"revert", q>> \notin new.done
  <2>1. Clear(q, cut \cup w.cut) /\ \A m \in Touches[q] : new.tree[m] = w.tree[m]
    BY <1>5, <1>7, RepairAssumption DEF Clear
  <2>2. CopyStands(r)
    BY <1>7 DEF Stands
  <2>3. Within(w.tree, q) <=> /\ Standing(q) \/ <<"patch", q>> \in w.done
                              /\ <<"revert", q>> \notin w.done
    BY <1>1, <2>1, <2>2 DEF CopyStands, w
  <2>4. Within(new.tree, q) <=> Within(w.tree, q)
    BY <2>1 DEF Within, Has
  <2> QED
    BY <1>5, <2>3, <2>4
<1>8. crashes = 0 => CopyStands(r)'
  BY <1>1, <1>6, <1>7 DEF CopyStands, new
<1>9. Taken'
  BY <1>1 DEF Stands, Taken
<1> QED
  BY <1>1, <1>6, <1>8, <1>9, StillStands

\* An installation that raised before the switch changed nothing.
LEMMA RaisesStand ==
    ASSUME IInv, Stands, NEW r \in Run, InstallRaises(r)
    PROVE  Stands'
<1> DEFINE w == IF DrainOverdue(r) THEN [Idle EXCEPT !.at = "filing", !.bad = PendingEntries(r)]
                                   ELSE Idle
<1>1. /\ wake[r].at = "copied" /\ wake' = [wake EXCEPT ![r] = w]
      /\ UNCHANGED <<current, place, by, revert, crashes, cut>>
  BY DEF InstallRaises, tree
<1>2. w.done = {} /\ w.at # "copied"
  BY DEF Idle
<1> HIDE DEF w
<1>3. wake'[r] = w /\ \A q \in Run \ {r} : wake'[q] = wake[q]
  BY <1>1 DEF IInv, Wakes
<1>4. \A p \in Patch : by[p] \in Run
  BY DEF IInv, Places
<1>5. ASSUME NEW p \in Patch PROVE Standing(p)' <=> Standing(p)
  BY <1>1, <1>2, <1>3, <1>4 DEF Standing, Filing
<1>6. CopyStands(r)'
  BY <1>2, <1>3 DEF CopyStands
<1>7. Taken'
  BY <1>1 DEF Stands, Taken
<1> QED
  BY <1>1, <1>3, <1>5, <1>6, <1>7, StillStands

\* The symlink goes to the copy, of which the wake-up has the only one: what it put in and
\* took out now stands, and what the others filed still does.
LEMMA SwitchStands ==
    ASSUME IInv, Stands, OneCopy, NEW r \in Run, Switch(r)
    PROVE  Stands'
<1> DEFINE w == wake[r]
           new == [w EXCEPT !.at = "filing"]
<1>1. /\ w.at = "copied" /\ wake' = [wake EXCEPT ![r] = new]
      /\ current' = IF w.done = {} THEN current ELSE w.tree
      /\ cut' = IF w.done = {} THEN cut ELSE cut \cup w.cut
      /\ UNCHANGED <<before, place, by, revert, aged, recorded, run, crashes, faults>>
  BY DEF Switch, IInv, Wakes
<1>2. w \in Wake /\ \A p \in Patch : by[p] \in Run
  BY DEF IInv, Wakes, Places
<1>3. \A p \in Patch :
         /\ <<"patch", p>> \in w.done => by[p] = r /\ place[p] = "pending" /\ revert[p] = "absent"
         /\ <<"revert", p>> \in w.done => by[p] = r /\ place[p] = "installed"
  BY InHand
<1>4. /\ \A q \in Run \ {r} : wake[q].at # "copied"
      /\ \A q \in Run \ {r} : wake'[q] = wake[q]
  BY <1>1 DEF OneCopy, IInv, Wakes
<1>5. Taken'
  BY <1>1 DEF Stands, Taken
<1>6. crashes = 0 => Behind /\ CopyStands(r)
  BY DEF Stands
<1> HIDE DEF w
<1>7. wake'[r].at = "filing" /\ wake'[r].done = w.done
  BY <1>1, <1>2 DEF IInv, Wakes, Wake
<1>8. ASSUME NEW p \in Patch
      PROVE  Standing(p)' <=> /\ Standing(p) \/ <<"patch", p>> \in w.done
                              /\ <<"revert", p>> \notin w.done
  <2>1. CASE by[p] = r
    <3>1. Standing(p) <=> place[p] = "installed" /\ revert[p] # "installed"
      BY <1>1, <2>1 DEF Standing, Filing, w
    <3>2. Standing(p)' <=> /\ place[p] = "installed" \/ <<"patch", p>> \in w.done
                           /\ revert[p] # "installed" /\ <<"revert", p>> \notin w.done
      BY <1>1, <1>7, <2>1 DEF Standing, Filing
    <3> QED
      BY <1>3, <3>1, <3>2
  <2>2. CASE by[p] # r
    <3>1. wake'[by[p]] = wake[by[p]]
      BY <1>2, <1>4, <2>2
    <3>2. Standing(p)' <=> Standing(p)
      BY <1>1, <3>1 DEF Standing, Filing
    <3> QED
      BY <1>3, <2>2, <3>2
  <2> QED
    BY <2>1, <2>2
<1>9. ASSUME crashes = 0, NEW p \in Patch, Clear(p, cut') PROVE Within(current', p) <=> Standing(p)'
  <2>1. CASE w.done = {}
    BY <1>1, <1>6, <1>8, <1>9, <2>1 DEF Behind
  <2>2. CASE w.done # {}
    BY <1>1, <1>6, <1>8, <1>9, <2>2 DEF CopyStands, w
  <2> QED
    BY <2>1, <2>2
<1>10. \A q \in Run : wake'[q].at # "copied"
  BY <1>4, <1>7
<1> QED
  BY <1>1, <1>5, <1>9, <1>10 DEF Stands, Behind, CopyStands

\* Filed or refused, an entry that leaves the hand of its wake-up stands as it did.
LEMMA FilesStand ==
    ASSUME IInv, Stands, NEW r \in Run, NEW e \in Entry, FileInstalled(r, e) \/ FileRefused(r, e)
    PROVE  Stands'
<1> DEFINE w == wake[r]
           new == wake'[r]
<1>1. /\ w.at = "filing" /\ UNCHANGED <<current, by, crashes, cut>>
      /\ \A q \in Run \ {r} : wake'[q] = wake[q]
      /\ new.at = "filing"
      /\ \/ FileInstalled(r, e) /\ e \in w.done /\ new.done = w.done \ {e}
         \/ ~FileInstalled(r, e) /\ w.done = {} /\ e \in w.bad /\ new.done = {}
  BY DEF FileInstalled, FileRefused, IInv, Wakes, Wake
<1>2. /\ Places /\ w \in Wake /\ \A p \in Patch : by[p] \in Run
  BY DEF IInv, Places, Wakes
<1>3. PICK kind \in {"patch", "revert"}, p \in Patch : e = <<kind, p>>
  BY DEF Entry
<1>4. /\ kind = "patch" => by[p] = r /\ place[p] = "pending" /\ revert[p] = "absent"
      /\ kind = "revert" => by[p] = r /\ place[p] = "installed" /\ revert[p] = "pending"
      /\ kind = "patch" => <<"revert", p>> \notin w.done
      /\ kind = "revert" => <<"patch", p>> \notin w.done
  BY <1>1, <1>3, InHand
<1>5. PICK where \in {"installed", "refused"} :
         /\ where = "installed" <=> FileInstalled(r, e)
         /\ kind = "patch" => place' = [place EXCEPT ![p] = where] /\ revert' = revert
         /\ kind = "revert" => revert' = [revert EXCEPT ![p] = where] /\ place' = place
  <2>1. CASE FileInstalled(r, e)
    BY <1>3, <2>1 DEF FileInstalled, File
  <2>2. CASE ~FileInstalled(r, e)
    BY <1>3, <2>2 DEF FileRefused, File
  <2> QED
    BY <2>1, <2>2
<1> HIDE DEF w, new
<1>6. ASSUME NEW q \in Patch PROVE Standing(q)' <=> Standing(q)
  <2>1. CASE by[q] # r
    <3>1. wake'[by[q]] = wake[by[q]] /\ q # p
      BY <1>1, <1>2, <1>4, <2>1
    <3>2. place'[q] = place[q] /\ revert'[q] = revert[q]
      BY <1>2, <1>5, <3>1 DEF Places
    <3> QED
      BY <1>1, <3>1, <3>2 DEF Standing, Filing
  <2>2. CASE by[q] = r
    <3>1. /\ Standing(q) <=> /\ place[q] = "installed" \/ <<"patch", q>> \in w.done
                             /\ revert[q] # "installed" /\ <<"revert", q>> \notin w.done
          /\ Standing(q)' <=> /\ place'[q] = "installed" \/ <<"patch", q>> \in new.done
                              /\ revert'[q] # "installed" /\ <<"revert", q>> \notin new.done
      BY <1>1, <2>2 DEF Standing, Filing, w, new
    <3>2. CASE q # p
      <4>1. place'[q] = place[q] /\ revert'[q] = revert[q]
        BY <1>2, <1>5, <3>2 DEF Places
      <4> QED
        BY <1>1, <1>3, <3>1, <3>2, <4>1
    <3>3. CASE q = p /\ kind = "patch"
      <4>1. place'[q] = where /\ revert'[q] = "absent"
        BY <1>2, <1>4, <1>5, <3>3 DEF Places
      <4>2. CASE where = "installed"
        BY <1>1, <1>3, <1>4, <1>5, <3>1, <3>3, <4>1, <4>2
      <4>3. CASE where = "refused"
        <5>1. w.done = {} /\ new.done = {}
          BY <1>1, <1>5, <4>3
        <5> QED
          BY <1>4, <3>1, <3>3, <4>1, <4>3, <5>1
      <4> QED
        BY <4>2, <4>3
    <3>4. CASE q = p /\ kind = "revert"
      <4>1. place'[q] = "installed" /\ revert'[q] = where
        BY <1>2, <1>4, <1>5, <3>4 DEF Places
      <4>2. CASE where = "installed"
        BY <1>1, <1>3, <1>4, <1>5, <3>1, <3>4, <4>1, <4>2
      <4>3. CASE where = "refused"
        <5>1. w.done = {} /\ new.done = {}
          BY <1>1, <1>5, <4>3
        <5> QED
          BY <1>4, <3>1, <3>4, <4>1, <4>3, <5>1
      <4> QED
        BY <4>2, <4>3
    <3> QED
      BY <3>2, <3>3, <3>4
  <2> QED
    BY <2>1, <2>2
<1>7. Taken'
  BY <1>2, <1>4, <1>5 DEF Stands, Taken, Places
<1>8. CopyStands(r)'
  BY <1>1 DEF CopyStands, new
<1> QED
  BY <1>1, <1>6, <1>7, <1>8, StillStands

LEMMA InitStands == Init => Stands
<1> SUFFICES ASSUME Init PROVE Stands
  OBVIOUS
<1>1. \A p \in Patch : by[p] \in Run /\ Touches[p] \subseteq Module
  BY RepairAssumption DEF Init
<1>2. \A r \in Run : wake[r].at = "idle" /\ wake[r].done = {}
  BY DEF Init, Idle
<1>3. \A p \in Patch : ~Within(current, p) /\ ~Standing(p)
  BY <1>1, <1>2 DEF Init, Within, Has, Standing, Filing
<1>4. Taken
  BY DEF Init, Taken
<1> QED
  BY <1>2, <1>3, <1>4 DEF Stands, Behind, CopyStands

LEMMA NextStands == IInv /\ Stands /\ OneCopy /\ [Next]_vars => Stands'
<1> SUFFICES ASSUME IInv, Stands, OneCopy, [Next]_vars PROVE Stands'
  OBVIOUS
<1>1. CASE UNCHANGED vars
  <2>1. UNCHANGED <<current, wake, by, place, revert, crashes, cut>>
    BY <1>1 DEF vars, tree
  <2>2. Taken'
    BY <2>1 DEF Stands, Taken
  <2> QED
    BY <2>1, <2>2, OutsideTheWake
<1>2. ASSUME NEW r \in Run,
             \/ EngineerComes(r) \/ CloseTicket(r) \/ Reserve(r) \/ Accept(r) \/ Revise(r)
             \/ Age(r) \/ EngineerGone(r) \/ ReturnStoppedTask(r)
             \/ \E p \in Patch : \/ RecordRuntimePatch(r, p) \/ ProvePatch(r, p)
                                 \/ StageProvenPatch(p) \/ TakeBackPatch(r, p)
      PROVE  Stands'
  BY <1>2, TurnStands
<1>3. ASSUME NEW r \in Run, Copy(r) \/ RefuseAll(r) \/ FileRefusedPatches(r) PROVE Stands'
  BY <1>3, StartStands
<1>4. ASSUME NEW r \in Run, NEW e \in Entry, InstallPending(r, e) PROVE Stands'
  BY <1>4, InstallStands
<1>5. ASSUME NEW r \in Run, Switch(r) PROVE Stands'
  BY <1>5, SwitchStands
<1>6. ASSUME NEW r \in Run, NEW e \in Entry, FileInstalled(r, e) \/ FileRefused(r, e) PROVE Stands'
  BY <1>6, FilesStand
<1>7. ASSUME NEW r \in Run, Crash(r) PROVE Stands'
  <2>1. crashes' # 0
    BY <1>7 DEF Crash, IInv, Places
  <2>2. Taken'
    BY <1>7 DEF Crash, tree, Stands, Taken
  <2> QED
    BY <2>1, <2>2 DEF Stands
<1>8. ASSUME NEW r \in Run, NEW e \in Entry, InstallFails(r, e) PROVE Stands'
  BY <1>8, FailsStand
<1>9. ASSUME NEW r \in Run, InstallRaises(r) PROVE Stands'
  BY <1>9, RaisesStand
<1> QED
  BY <1>1, <1>2, <1>3, <1>4, <1>5, <1>6, <1>7, <1>8, <1>9 DEF Next, Install

LEMMA InstalledFromStands == IInv /\ Stands => InstalledStands
<1> SUFFICES ASSUME IInv, Stands, crashes = 0, NEW p \in Patch, Uncut(p)
             PROVE  /\ place[p] = "installed" /\ revert[p] # "installed"
                       /\ (\A r \in Run : <<"revert", p>> \notin wake[r].done) => InTree(p)
                    /\ revert[p] = "installed" => ~InTree(p)
  BY DEF InstalledStands
<1>0. Clear(p, cut)
  BY DEF Clear, Uncut
<1>1. by[p] \in Run /\ (Within(current, p) <=> Standing(p))
  BY <1>0 DEF IInv, Places, Stands, Behind
<1>2. InTree(p) <=> \A m \in Touches[p] : Has(current, m, p)
  BY DEF InTree, Has
<1>3. Within(current, p) <=> InTree(p)
  BY <1>0, <1>2, WithinWhole DEF IInv, Trees
<1> QED
  BY <1>1, <1>3 DEF Standing, Filing

-----------------------------------------------------------------------------
(* The theorems                                                              *)

LEMMA InitIInv == Init => IInv
<1> SUFFICES ASSUME Init PROVE IInv
  OBVIOUS
<1>1. \A p \in Patch : Touches[p] \subseteq Module
  BY RepairAssumption
<1>2. current \in Text /\ \A m \in Module, p \in Patch : ~Has(current, m, p)
  BY DEF Init, Text, Has
<1>3. Whole(current, Known, cut)
  <2>1. \A m \in Module : DOMAIN current[m] = {}
    BY DEF Init
  <2> HIDE DEF Known
  <2> QED
    BY <1>1, <1>2, <2>1 DEF Whole
<1>4. before \in [Patch -> Text] /\ \A p \in Patch : before[p] = current
  BY <1>2 DEF Init
<1>5. \A r \in Run : wake[r] = Idle
  BY DEF Init
<1>6. Trees
  <2>1. \A r \in Run : wake[r].at # "copied"
    BY <1>5 DEF Idle
  <2> HIDE DEF Known
  <2> QED
    BY <1>1, <1>2, <1>3, <1>4, <2>1 DEF Trees, Has
<1>7. Wakes
  BY <1>5, IdleHands DEF Init, Wakes
<1>8. Places
  BY RepairAssumption DEF Init, Places, Where
<1>9. Ladder
  <2>1. [no |-> 1, kind |-> "ladder_exhausted", open |-> TRUE] \in Ticket
    BY DEF Ticket, Kinds
  <2>2. Budget \in Nat
    BY RepairAssumption
  <2>3. ticket \in [Run -> Ticket] /\ \A r \in Run : ticket[r].open
    BY <2>1 DEF Init
  <2> QED
    BY <2>2, <2>3 DEF Init, Ladder
<1>10. Grants
  <2> SUFFICES ASSUME NEW r \in Run PROVE Earned(r)
    BY DEF Grants
  <2>1. /\ Budget \in Nat /\ used[r] = Budget /\ rehires[r] = 0 /\ DOMAIN returns[r] = {}
    BY RepairAssumption DEF Init
  <2>2. Budget >= Budget * (0 + 1)
    BY <2>1
  <2> QED
    BY <2>1, <2>2 DEF Earned, Outgrown
<1>11. Grounded
  BY DEF Init, Grounded
<1> QED
  BY <1>6, <1>7, <1>8, <1>9, <1>10, <1>11 DEF IInv

LEMMA NextIInv == IInv /\ [Next]_vars => IInv'
<1> SUFFICES ASSUME IInv, [Next]_vars PROVE IInv'
  OBVIOUS
<1>1. CASE UNCHANGED vars
  <2>1. UNCHANGED <<current, before, place, by, revert, wake, returns, crashes, cut>>
    BY <1>1 DEF vars, tree, run
  <2>2. Trees' /\ Wakes' /\ Grounded'
    BY <2>1, ElsewhereKept
  <2>3. Places' /\ Ladder'
    BY <1>1 DEF IInv, Places, Ladder, vars, tree, run
  <2>4. Grants'
    BY <1>1, StillEarned DEF IInv, vars, tree, run, Ladder
  <2> QED
    BY <2>2, <2>3, <2>4 DEF IInv
<1>2. ASSUME NEW r \in Run,
             \/ EngineerComes(r) \/ CloseTicket(r) \/ Reserve(r) \/ Accept(r) \/ Revise(r)
             \/ Age(r) \/ \E p \in Patch : RecordRuntimePatch(r, p)
      PROVE  IInv'
  BY <1>2, TaskGoesOn
<1>3. ASSUME NEW r \in Run, EngineerGone(r) PROVE IInv'
  BY <1>3, EngineerGoneKeeps
<1>4. ASSUME NEW p \in Patch, StageProvenPatch(p) \/ \E r \in Run : ProvePatch(r, p) PROVE IInv'
  BY <1>4, ProvenKeeps
<1>5. ASSUME NEW r \in Run, ReturnStoppedTask(r) PROVE IInv'
  BY <1>5, ReturnKeeps
<1>6. ASSUME NEW r \in Run, NEW p \in Patch, TakeBackPatch(r, p) PROVE IInv'
  BY <1>6, TakeBackKeeps
<1>7. ASSUME NEW r \in Run, Copy(r) \/ RefuseAll(r) PROVE IInv'
  BY <1>7, WakeStarts
<1>8. ASSUME NEW r \in Run, NEW e \in Entry, InstallPending(r, e) PROVE IInv'
  BY <1>8, InstallKeeps
<1>9. ASSUME NEW r \in Run, Switch(r) PROVE IInv'
  BY <1>9, SwitchKeeps
<1>10. ASSUME NEW r \in Run, NEW e \in Entry, FileInstalled(r, e) \/ FileRefused(r, e) PROVE IInv'
  BY <1>10, FilesKeep
<1>11. ASSUME NEW r \in Run, FileRefusedPatches(r) PROVE IInv'
  BY <1>11, RefusedKeeps
<1>12. ASSUME NEW r \in Run, Crash(r) PROVE IInv'
  BY <1>12, CrashKeeps
<1>13. ASSUME NEW r \in Run, NEW e \in Entry, InstallFails(r, e) PROVE IInv'
  BY <1>13, FailsKeeps
<1>14. ASSUME NEW r \in Run, InstallRaises(r) PROVE IInv'
  BY <1>14, RaisesKeeps
<1> QED
  BY <1>1, <1>2, <1>3, <1>4, <1>5, <1>6, <1>7, <1>8, <1>9, <1>10, <1>11, <1>12, <1>13, <1>14
     DEF Next, Install

LEMMA WholeFromIInv == IInv => WholeSets
<1> SUFFICES ASSUME IInv PROVE WholeSets
  OBVIOUS
<1>1. Whole(current, Known, cut)
  BY DEF IInv, Trees
<1>2. TypeOK
  BY <1>1 DEF IInv, Trees, Places, Ladder, TypeOK, Whole
<1>3. \A p \in Patch :
         Uncut(p) => InTree(p) \/ \A m \in Touches[p] : \A i \in DOMAIN current[m] :
                                    current[m][i] # p
  BY <1>1 DEF Whole, Has, InTree, Clear, Uncut
<1> QED
  BY <1>2, <1>3 DEF WholeSets

LEMMA BudgetFromIInv == IInv => BudgetRestsOnPatch
<1> SUFFICES ASSUME IInv, crashes = 0, NEW r \in Run, Free(r), ~Spent(r)
             PROVE  \E i \in DOMAIN returns[r] :
                       ~returns[r][i].revoked /\ \E p \in returns[r][i].grounds : Live(p)
  BY DEF BudgetRestsOnPatch
<1>1. wake[r].gone = {}
  BY DEF IInv, Wakes, Hands, Free, Idle
<1>2. PICK i \in DOMAIN returns[r] : Carries(r, returns[r][i])
  BY DEF IInv, Grants, Earned, Spent, Outgrown
<1>3. ~returns[r][i].revoked
  BY <1>2 DEF Carries
<1>4. \E p \in returns[r][i].grounds : Live(p)
  BY <1>1, <1>3 DEF IInv, Grounded
<1> QED
  BY <1>3, <1>4

\* The tree behind the symlink holds every patch whole or not at all unless a write that
\* failed touched one of its modules in a copy that went live (install_proven_patch writes
\* module by module, install_pending keeps the copy), and what the modules of the runtime,
\* the ledgers and the ladders hold has its type: however many projects prove, stage,
\* install, refuse and take back patches side by side, whoever is killed.
THEOREM WholeSetsAlways == Spec => []WholeSets
<1> QED
  BY InitIInv, NextIInv, WholeFromIInv, PTL DEF Spec

\* As long as no wake-up was killed, a task past its ladder has a budget only while a patch
\* stands on which it was returned: revoke_grants takes every other fresh hire back before
\* the transaction ends that withdrew, refused or took back the patch.
THEOREM BudgetRestsOnPatchAlways == Spec => []BudgetRestsOnPatch
<1> QED
  BY InitIInv, NextIInv, BudgetFromIInv, PTL DEF Spec

\* As long as no wake-up was killed and no two wake-ups have a copy of the tree open at once,
\* the installation runs what the ledgers of the projects say of every patch none of whose
\* modules a failed write touched: an installed patch is in the tree in every module it
\* changes until its revert is installed, and from then on it is not (install_pending,
\* take_back_patch), whatever else was refused or thrown away on the way.
THEOREM InstalledStandsAlways == Spec /\ []OneCopy => []InstalledStands
<1> QED
  BY InitIInv, NextIInv, InitStands, NextStands, InstalledFromStands, PTL DEF Spec

\* One project on the installation can have no second copy open.
THEOREM OneProjectInstalledStands ==
    ASSUME \A r, q \in Run : r = q
    PROVE  Spec => []InstalledStands
<1>1. OneCopy
  BY DEF OneCopy
<1>2. IInv /\ Stands /\ [Next]_vars => Stands'
  BY <1>1, NextStands
<1> QED
  BY <1>2, InitIInv, NextIInv, InitStands, InstalledFromStands, PTL DEF Spec
=============================================================================
