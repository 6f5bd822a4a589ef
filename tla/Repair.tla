------------------------------- MODULE Repair -------------------------------
(***************************************************************************)
(* How the runtime repairs itself.  An on-call engineer proves a patch in  *)
(* a copy of the tree it runs on and stages it in its own project; while a *)
(* patch is staged the project drains; a wake-up outside the sandbox then  *)
(* copies the live tree, applies what fits and switches the symlink of the *)
(* installation, which every project on the machine shares.  A patch that  *)
(* changed the acceptance path buys a task whose ladder is spent a fresh   *)
(* hire, for as long as the patch stands.                                  *)
(*                                                                         *)
(* An entry is written module by module.  An error on the way is caught as *)
(* a refusal of that entry and the half-written copy stays: it goes live   *)
(* as soon as another entry of the wake-up went in.                        *)
(*                                                                         *)
(* A module's text is the sequence of the patches applied to it, so two    *)
(* texts have one hash exactly when they are equal; what a write left that *)
(* broke off inside the file is Torn.  Every project has one task at the   *)
(* top of its ladder.                                                      *)
(***************************************************************************)
EXTENDS Integers, Sequences, FiniteSets, SequencesExt

CONSTANTS Run,          \* the projects that share the installation
          Module,       \* the runtime's modules
          Patch,        \* patches, numbered in the order of their names
          Touches,      \* the modules a patch changes
          Acceptance,   \* the patches that change the acceptance path
          Budget,       \* max_revision_attempts of a hire
          Installation, \* whether the runtime is an installation
          MaxUsed,      \* bound: revisions of a task
          MaxTickets,   \* bound: tickets that held a task
          MaxCrashes,   \* bound: wake-ups killed while they install
          MaxFaults     \* bound: installations in which a call of the file system fails

ASSUME RepairAssumption ==
    /\ Patch \subseteq Nat \ {0} /\ IsFiniteSet(Patch)
    /\ Touches \in [Patch -> (SUBSET Module) \ {{}}]
    /\ Acceptance \subseteq Patch /\ Installation \in BOOLEAN
    /\ {Budget, MaxUsed, MaxTickets} \subseteq Nat \ {0} /\ {MaxCrashes, MaxFaults} \subseteq Nat

VARIABLES current,   \* the tree behind the installation's symlink
          before,    \* the tree each patch was proven against
          place,     \* where the patch's directory is
          by,        \* the project it was proven in
          recorded,  \* the ticket whose journal names it (0: none)
          revert,    \* where the entry that takes the patch back is
          aged,      \* the entries staged longer ago than the drain deadline
          wake,      \* the installing wake-up of each project
          engineer,  \* the projects whose on-call is at work
          ticket,    \* the ticket that holds the task
          task, rehires, used,
          returns,   \* the journal of returns, with the grant of each
          crashes, faults,
          cut        \* history: the modules a failed write touched in a tree that went live

tree == <<current, before, place, by, revert, aged>>
run == <<engineer, ticket, task, rehires, used, returns>>
vars == <<tree, recorded, wake, run, crashes, faults, cut>>

-----------------------------------------------------------------------------
(* The tree *)

Torn == 0
Text == [Module -> Seq(Patch \union {Torn})]
Entry == {"patch", "revert"} \X Patch

\* A patch goes onto the texts it was proven against, whole or not at all.
Fits(p, t) == \A m \in Touches[p] : t[m] = before[p][m]
Applied(p, t) ==
    [m \in Module |-> IF m \in Touches[p] THEN Append(t[m], p) ELSE t[m]]

\* A revert takes back only what nothing was written over since.
OnTop_First(p, t) == \E m \in Touches[p] : t[m] # <<>> /\ Last(t[m]) = p
OnTop(p, t) == \A m \in Touches[p] : t[m] # <<>> /\ Last(t[m]) = p
Reverted(p, t) ==
    [m \in Module |-> IF m \in Touches[p] THEN Front(t[m]) ELSE t[m]]

Installable(e, t) == IF e[1] = "patch" THEN Fits(e[2], t) ELSE OnTop(e[2], t)
InstallProven(e, t) == IF e[1] = "patch" THEN Applied(e[2], t) ELSE Reverted(e[2], t)

\* Entries go in by name: every patch before every revert.
Earlier(d, e) == IF d[1] = e[1] THEN d[2] < e[2] ELSE d[1] = "patch"

\* The wake-up with the next entry in its copy, or the entry refused.
Put_CountsMisfits(w, e) ==
    IF Installable(e, w.tree)
    THEN [w EXCEPT !.left = @ \ {e}, !.done = @ \union {e}, !.tree = InstallProven(e, w.tree)]
    ELSE [w EXCEPT !.left = @ \ {e}, !.done = @ \union {e}]

Put(w, e) ==
    IF Installable(e, w.tree)
    THEN [w EXCEPT !.left = @ \ {e}, !.done = @ \union {e}, !.tree = InstallProven(e, w.tree)]
    ELSE [w EXCEPT !.left = @ \ {e}, !.bad = @ \union {e}]

\* The wake-up with the entry refused for a write that failed: the modules in ms were
\* written, those in torn (one at most) broke off, the rest are as they were.
CutShort(w, e, ms, torn) ==
    [w EXCEPT !.left = @ \ {e}, !.bad = @ \union {e}, !.cut = @ \union ms \union torn,
              !.tree = [m \in Module |-> IF m \in torn THEN <<Torn>>
                                        ELSE IF m \in ms THEN InstallProven(e, @)[m]
                                        ELSE @[m]]]

InTree(p) == \A m \in Touches[p] : \E i \in DOMAIN current[m] : current[m][i] = p

-----------------------------------------------------------------------------
(* What is staged, and what stands *)

PendingEntries(r) ==
    {e \in Entry : by[e[2]] = r
                   /\ IF e[1] = "patch" THEN place[e[2]] = "pending"
                                        ELSE revert[e[2]] = "pending"}
RuntimePatchPending(r) == PendingEntries(r) # {}

PatchStatus(p) ==
    IF revert[p] \in {"pending", "installed"} THEN "reverted" ELSE place[p]
Live(p) == PatchStatus(p) \in {"pending", "installed"}

DrainOverdue(r) == PendingEntries(r) \intersect aged # {}
InFlight(r) == engineer[r] \/ task[r] = "RUNNING"

Free(r) == wake[r].at = "idle"      \* the project's transaction is not taken

File(e, where) ==
    /\ place' = IF e[1] = "patch" THEN [place EXCEPT ![e[2]] = where] ELSE place
    /\ revert' = IF e[1] = "revert" THEN [revert EXCEPT ![e[2]] = where] ELSE revert
    /\ aged' = aged \ {e}

-----------------------------------------------------------------------------
(* The ladder *)

Spent(r) == used[r] >= Budget * (rehires[r] + 1)
Consumed(r) == UNION {returns[r][i].grounds : i \in DOMAIN returns[r]}
AcceptancePatches(r) ==
    {p \in Acceptance : recorded[p] = ticket[r].no /\ by[p] = r /\ Live(p)}

\* The hires that are left when the returns `hit` are taken back one after another, each
\* only where the task still has what that return gave it.
HiresLeft(r, hit) ==
    LET n == Len(returns[r])
        hires[i \in 0..n] ==
            IF i = 0 THEN rehires[r]
            ELSE IF i \in hit /\ hires[i - 1] = returns[r][i].now THEN returns[r][i].was
                                                                  ELSE hires[i - 1]
    IN  hires[n]

Revoked(r, hit) ==
    [rehires |-> HiresLeft(r, hit),
     returns |-> [i \in DOMAIN returns[r] |->
                    [returns[r][i] EXCEPT !.revoked = @ \/ i \in hit]],
     blocked |-> task[r] = "READY" /\ hit # {}]

RevokeGrants_AnyOther(r, gone, live) ==
    Revoked(r, {i \in DOMAIN returns[r] :
                   LET g == returns[r][i]
                   IN  ~g.revoked /\ g.grounds # {} /\ g.grounds \subseteq gone})

\* Revoking what rested on the patches `gone`, read against where the
\* entries are once the move is made.  A grant another live patch carries
\* stands; a task at work keeps its attempt but not the budget.
RevokeGrants(r, gone, live) ==
    Revoked(r, {i \in DOMAIN returns[r] :
                   LET g == returns[r][i]
                   IN  /\ ~g.revoked /\ g.grounds \intersect gone # {}
                       /\ ~\E p \in g.grounds \ gone : p \in live})

Hold(r, kind) == [no |-> ticket[r].no + 1, kind |-> kind, open |-> TRUE]

Revoke(r, gone, live, held) ==
    LET v == RevokeGrants(r, gone, live)
    IN  /\ rehires' = [rehires EXCEPT ![r] = v.rehires]
        /\ returns' = [returns EXCEPT ![r] = v.returns]
        /\ task' = IF v.blocked THEN [task EXCEPT ![r] = "BLOCKED"] ELSE task
        /\ ticket' = IF v.blocked THEN [ticket EXCEPT ![r] = held] ELSE ticket

-----------------------------------------------------------------------------
Idle == [at |-> "idle", tree |-> <<>>, left |-> {}, done |-> {}, bad |-> {}, gone |-> {},
         cut |-> {}]

Init ==
    /\ current = [m \in Module |-> <<>>]
    /\ before = [p \in Patch |-> current]
    /\ place = [p \in Patch |-> "absent"]
    /\ by \in [Patch -> Run]
    /\ recorded = [p \in Patch |-> 0]
    /\ revert = [p \in Patch |-> "absent"]
    /\ aged = {}
    /\ wake = [r \in Run |-> Idle]
    /\ engineer = [r \in Run |-> FALSE]
    /\ ticket = [r \in Run |-> [no |-> 1, kind |-> "ladder_exhausted", open |-> TRUE]]
    /\ task = [r \in Run |-> "BLOCKED"]
    /\ rehires = [r \in Run |-> 0]
    /\ used = [r \in Run |-> Budget]
    /\ returns = [r \in Run |-> <<>>]
    /\ crashes = 0 /\ faults = 0 /\ cut = {}

-----------------------------------------------------------------------------
(* The on-call's turn *)

\* Nothing new is reserved while a patch is staged, the on-call included.
EngineerComes(r) ==
    /\ Free(r) /\ ~engineer[r] /\ ~RuntimePatchPending(r)
    /\ engineer' = [engineer EXCEPT ![r] = TRUE]
    /\ UNCHANGED <<tree, recorded, wake, ticket, task, rehires, used, returns, crashes,
                   faults, cut>>

\* Its process ends, with a patch half proven or staged and not recorded.
EngineerGone(r) ==
    /\ engineer[r]
    /\ engineer' = [engineer EXCEPT ![r] = FALSE]
    /\ place' = [p \in Patch |-> IF by[p] = r /\ place[p] = "proving" THEN "dropped"
                                                                      ELSE place[p]]
    /\ UNCHANGED <<current, before, by, revert, aged, recorded, wake, ticket, task,
                   rehires, used, returns, crashes, faults, cut>>

\* The gateway runs the suite on a copy of the tree the process started on.
ProvePatch(r, p) ==
    /\ engineer[r] /\ place[p] = "absent" /\ by[p] = r
    /\ \A q \in Patch : by[q] = r => place[q] # "proving"
    /\ place' = [place EXCEPT ![p] = "proving"]
    /\ before' = [before EXCEPT ![p] = current]
    /\ UNCHANGED <<current, by, revert, aged, recorded, wake, run, crashes, faults, cut>>

\* Outside the project's transaction: a finished directory is renamed.
StageProvenPatch(p) ==
    /\ place[p] = "proving"
    /\ place' = [place EXCEPT ![p] = "pending"]
    /\ UNCHANGED <<current, before, by, revert, aged, recorded, wake, run, crashes,
                   faults, cut>>

\* A second step, under the journal's own lock: the ticket names the patch.
RecordRuntimePatch(r, p) ==
    /\ engineer[r] /\ by[p] = r /\ recorded[p] = 0
    /\ place[p] \in {"pending", "installed", "refused"} /\ ticket[r].open
    /\ recorded' = [recorded EXCEPT ![p] = ticket[r].no]
    /\ UNCHANGED <<tree, wake, run, crashes, faults, cut>>

ReturnStoppedTask(r) ==
    LET capped == ticket[r].kind = "ladder_exhausted" \/ Spent(r)
        fresh == AcceptancePatches(r) \ Consumed(r)
        hires == IF rehires[r] > used[r] \div Budget THEN rehires[r]
                                                     ELSE used[r] \div Budget
    IN  /\ Free(r) /\ engineer[r] /\ ticket[r].open /\ task[r] = "BLOCKED"
        /\ capped => fresh # {}
        /\ rehires' = IF capped THEN [rehires EXCEPT ![r] = hires] ELSE rehires
        /\ returns' = IF capped
                      THEN [returns EXCEPT ![r] = Append(@, [grounds |-> fresh, was |-> rehires[r],
                                                             now |-> hires, revoked |-> FALSE])]
                      ELSE returns
        /\ task' = [task EXCEPT ![r] = "READY"]
        /\ UNCHANGED <<tree, recorded, wake, engineer, ticket, used, crashes, faults, cut>>

\* Withdraw what this ticket staged, or stage the revert of what is
\* installed; the grants that rested on it go in the same transaction.
TakeBackPatch(r, p) ==
    /\ Free(r) /\ engineer[r] /\ by[p] = r
    /\ \/ PatchStatus(p) = "pending" /\ recorded[p] = ticket[r].no
          /\ place' = [place EXCEPT ![p] = "withdrawn"]
          /\ aged' = aged \ {<<"patch", p>>}
          /\ UNCHANGED revert
       \/ PatchStatus(p) = "installed"
          /\ revert' = [revert EXCEPT ![p] = "pending"]
          /\ UNCHANGED <<place, aged>>
    /\ Revoke(r, {p}, {q \in Patch : Live(q)}',
              IF ticket[r].open THEN ticket[r] ELSE Hold(r, "runtime_patch_taken_back"))
    /\ UNCHANGED <<current, before, by, recorded, wake, engineer, used, crashes, faults,
                   cut>>

\* A stop ticket closes only once the task it holds is no longer BLOCKED.
CloseTicket(r) ==
    /\ Free(r) /\ engineer[r] /\ ticket[r].open /\ task[r] # "BLOCKED"
    /\ ticket' = [ticket EXCEPT ![r].open = FALSE]
    /\ UNCHANGED <<tree, recorded, wake, engineer, task, rehires, used, returns, crashes,
                   faults, cut>>

-----------------------------------------------------------------------------
(* The task *)

Reserve(r) ==
    /\ Free(r) /\ task[r] = "READY" /\ ~RuntimePatchPending(r)
    /\ task' = [task EXCEPT ![r] = "RUNNING"]
    /\ UNCHANGED <<tree, recorded, wake, engineer, ticket, rehires, used, returns,
                   crashes, faults, cut>>

Accept(r) ==
    /\ Free(r) /\ task[r] = "RUNNING"
    /\ task' = [task EXCEPT ![r] = "VERIFIED"]
    /\ UNCHANGED <<tree, recorded, wake, engineer, ticket, rehires, used, returns,
                   crashes, faults, cut>>

\* The verifier says REVISE: one more attempt, or the ladder is spent.
Revise(r) ==
    /\ Free(r) /\ task[r] = "RUNNING"
    /\ IF Spent(r)
       THEN /\ task' = [task EXCEPT ![r] = "BLOCKED"]
            /\ ticket[r].no < MaxTickets
            /\ ticket' = [ticket EXCEPT ![r] = Hold(r, "ladder_exhausted")]
            /\ UNCHANGED used
       ELSE /\ task' = [task EXCEPT ![r] = "READY"]
            /\ used[r] < MaxUsed
            /\ used' = [used EXCEPT ![r] = @ + 1]
            /\ UNCHANGED ticket
    /\ UNCHANGED <<tree, recorded, wake, engineer, rehires, returns, crashes, faults, cut>>

-----------------------------------------------------------------------------
(* The wake-up, under the project's transaction *)

\* Past the drain deadline since they were staged.
Age(r) ==
    /\ PendingEntries(r) \ aged # {}
    /\ aged' = aged \union PendingEntries(r)
    /\ UNCHANGED <<current, before, place, by, revert, recorded, wake, run, crashes,
                   faults, cut>>

\* The quiet project: the live tree is copied ...
Copy(r) ==
    /\ Free(r) /\ RuntimePatchPending(r) /\ Installation /\ ~InFlight(r)
    /\ wake' = [wake EXCEPT ![r] = [Idle EXCEPT !.at = "copied", !.tree = current,
                                                !.left = PendingEntries(r)]]
    /\ UNCHANGED <<tree, recorded, run, crashes, faults, cut>>

\* ... and every entry that fits is written into the copy, by name.
InstallPending(r, e) ==
    /\ wake[r].at = "copied" /\ e \in wake[r].left
    /\ \A d \in wake[r].left \ {e} : Earlier(e, d)
    /\ wake' = [wake EXCEPT ![r] = Put(@, e)]
    /\ UNCHANGED <<tree, recorded, run, crashes, faults, cut>>

\* A write of an entry that fits fails, on its way through the modules or on the backup or
\* the test beside them: the entry is refused, the copy is kept as it is.
InstallFails(r, e) ==
    /\ wake[r].at = "copied" /\ e \in wake[r].left /\ faults < MaxFaults
    /\ \A d \in wake[r].left \ {e} : Earlier(e, d)
    /\ Installable(e, wake[r].tree)
    /\ \E ms \in SUBSET Touches[e[2]] : \E torn \in SUBSET (Touches[e[2]] \ ms) :
          /\ \A m, n \in torn : m = n
          /\ wake' = [wake EXCEPT ![r] = CutShort(@, e, ms, torn)]
    /\ faults' = faults + 1
    /\ UNCHANGED <<tree, recorded, run, crashes, cut>>

\* Copying the tree or making the symlink fails: the live tree is as it was, and past the
\* drain deadline everything staged is refused.
InstallRaises(r) ==
    /\ wake[r].at = "copied" /\ faults < MaxFaults
    /\ wake' = [wake EXCEPT ![r] = IF DrainOverdue(r)
                                   THEN [Idle EXCEPT !.at = "filing", !.bad = PendingEntries(r)]
                                   ELSE Idle]
    /\ faults' = faults + 1
    /\ UNCHANGED <<tree, recorded, run, crashes, cut>>

RefuseAll_NoDeadline(r) ==
    /\ Free(r) /\ RuntimePatchPending(r) /\ ~Installation
    /\ wake' = [wake EXCEPT ![r] = [Idle EXCEPT !.at = "filing", !.bad = PendingEntries(r)]]
    /\ UNCHANGED <<tree, recorded, run, crashes, faults, cut>>

\* A dispatcher that outlives the deadline, or nowhere to install.
RefuseAll(r) ==
    /\ Free(r) /\ RuntimePatchPending(r)
    /\ ~Installation \/ (InFlight(r) /\ DrainOverdue(r))
    /\ wake' = [wake EXCEPT ![r] = [Idle EXCEPT !.at = "filing", !.bad = PendingEntries(r)]]
    /\ UNCHANGED <<tree, recorded, run, crashes, faults, cut>>

\* One rename of a fresh symlink; a copy that nothing fitted is thrown away.
Switch(r) ==
    /\ wake[r].at = "copied" /\ wake[r].left = {}
    /\ current' = IF wake[r].done = {} THEN current ELSE wake[r].tree
    /\ wake' = [wake EXCEPT ![r].at = "filing"]
    /\ cut' = IF wake[r].done = {} THEN cut ELSE cut \union wake[r].cut
    /\ UNCHANGED <<before, place, by, revert, aged, recorded, run, crashes, faults>>

FileInstalled(r, e) ==
    /\ wake[r].at = "filing" /\ e \in wake[r].done
    /\ File(e, "installed")
    /\ wake' = [wake EXCEPT ![r].done = @ \ {e}]
    /\ UNCHANGED <<current, before, by, recorded, run, crashes, faults, cut>>

FileRefused(r, e) ==
    /\ wake[r].at = "filing" /\ wake[r].done = {} /\ e \in wake[r].bad
    /\ File(e, "refused")
    /\ wake' = [wake EXCEPT ![r].bad = @ \ {e},
                            ![r].gone = IF e[1] = "patch" THEN @ \union {e[2]} ELSE @]
    /\ UNCHANGED <<current, before, by, recorded, run, crashes, faults, cut>>

\* What the refused patches bought is revoked, a ticket is filed for the
\* on-call, the run's state is saved and the transaction ends.
FileRefusedPatches(r) ==
    /\ wake[r].at = "filing" /\ wake[r].done = {} /\ wake[r].bad = {}
    /\ Revoke(r, wake[r].gone, {q \in Patch : Live(q)}, Hold(r, "runtime_patch_refused"))
    /\ wake' = [wake EXCEPT ![r] = Idle]
    /\ UNCHANGED <<tree, recorded, engineer, used, crashes, faults, cut>>

\* The wake-up is killed, or moving a directory or saving the run raises: its lock goes
\* with it, the files stay.
Crash(r) ==
    /\ wake[r].at # "idle" /\ crashes < MaxCrashes
    /\ crashes' = crashes + 1
    /\ wake' = [wake EXCEPT ![r] = Idle]
    /\ UNCHANGED <<tree, recorded, run, faults, cut>>

-----------------------------------------------------------------------------
Install(r) ==
    \/ Copy(r) \/ RefuseAll(r) \/ Switch(r) \/ FileRefusedPatches(r)
    \/ \E e \in Entry : InstallPending(r, e) \/ FileInstalled(r, e) \/ FileRefused(r, e)

Next ==
    \E r \in Run :
        \/ EngineerComes(r) \/ EngineerGone(r) \/ ReturnStoppedTask(r) \/ CloseTicket(r)
        \/ \E p \in Patch : ProvePatch(r, p) \/ RecordRuntimePatch(r, p) \/ TakeBackPatch(r, p)
        \/ \E p \in Patch : by[p] = r /\ StageProvenPatch(p)
        \/ Reserve(r) \/ Accept(r) \/ Revise(r)
        \/ Age(r) \/ Install(r) \/ InstallRaises(r) \/ Crash(r)
        \/ \E e \in Entry : InstallFails(r, e)

Spec == Init /\ [][Next]_vars

\* The wake-up comes back on its schedule and the clock moves; nobody has
\* to leave, and no worker has to finish.
FairSpec == Spec /\ \A r \in Run : WF_vars(Install(r)) /\ WF_vars(Age(r))

-----------------------------------------------------------------------------
Where == {"absent", "proving", "dropped", "pending", "installed", "refused", "withdrawn"}

\* A staged directory is in one place, the tree is made of patches, and a
\* ticket holds the task whenever it is BLOCKED.
TypeOK ==
    /\ current \in Text /\ before \in [Patch -> Text]
    /\ place \in [Patch -> Where] /\ revert \in [Patch -> Where] /\ by \in [Patch -> Run]
    /\ recorded \in [Patch -> Nat] /\ aged \subseteq Entry
    /\ task \in [Run -> {"BLOCKED", "READY", "RUNNING", "VERIFIED"}]
    /\ \A r \in Run : task[r] = "BLOCKED" => ticket[r].open
    /\ rehires \in [Run -> Nat] /\ used \in [Run -> Nat]
    /\ crashes \in 0..MaxCrashes /\ faults \in 0..MaxFaults /\ cut \subseteq Module

\* No write into the modules of the patch failed in a tree that went live.
Uncut(p) == Touches[p] \intersect cut = {}

\* No process ever starts on half a set: the tree behind the symlink holds
\* each patch in all the modules it changes or in none of them, whatever
\* was staged, proven on another tree, taken back, refused or killed.  It
\* is so only of patches none of whose modules a failed write touched: a
\* failed write is filed as a refusal and its copy still goes live.
WholeSets ==
    /\ TypeOK
    /\ \A p \in Patch :
          Uncut(p) => InTree(p) \/ \A m \in Touches[p] : \A i \in DOMAIN current[m] :
                                     current[m][i] # p

\* What the project says of a patch is what the installation runs: an
\* installed patch is in the tree until its revert is, and then it is not.
\* A killed wake-up may have switched and not filed; a failed write that
\* went live may have left a patch filed as installed half reverted.
InstalledStands ==
    crashes = 0 =>
        \A p \in Patch : Uncut(p) =>
            /\ place[p] = "installed" /\ revert[p] # "installed"
               /\ (\A r \in Run : <<"revert", p>> \notin wake[r].done) => InTree(p)
            /\ revert[p] = "installed" => ~InTree(p)

\* A task past its ladder has a budget only while a patch it was returned on
\* still stands: withdrawn, refused or taken back, the budget is gone before
\* any reservation can see the task.
BudgetRestsOnPatch ==
    crashes = 0 =>
        \A r \in Run : Free(r) /\ ~Spent(r) =>
            \E i \in DOMAIN returns[r] :
                ~returns[r][i].revoked /\ \E p \in returns[r][i].grounds : Live(p)

\* A drained project is not drained for good: what is staged is installed or
\* refused although a dispatcher of the project never ends.
DrainEnds == \A r \in Run : RuntimePatchPending(r) ~> ~RuntimePatchPending(r)
=============================================================================
