------------------------------- MODULE Leads -------------------------------
\* Who accepts the work of a profession (R30): role_lead, validate_department_leads
\* and the helpers they rest on, as operators over a plan.  A plan is what each task
\* names in verification.verifier_role; `settled' are the tasks accepted already.
\* A lead heads one department here (no department is declared beside the leads and
\* no 0.13 binding overrides one), every named lead is a role of the plan (the graph
\* stage refuses another) and none is the generic legacy-worker.
EXTENDS Naturals, FiniteSets

CONSTANTS
    Task,
    Role,
    NoLead,         \* a task that names none
    RoleOf          \* the profession of each task

ASSUME LeadsAssumption ==
    /\ IsFiniteSet(Task) /\ NoLead \notin Role
    /\ RoleOf \in [Task -> Role]

Plan == [Task -> Role \cup {NoLead}]

Staff(role) == {t \in Task : RoleOf[t] = role}

NamedBy(plan, tasks) == {plan[t] : t \in tasks} \ {NoLead}

\* role_lead: the leads a profession names for the tasks still to be accepted; those
\* of its accepted tasks only when the rest name none.
LeadsOf(plan, role, settled) ==
    LET live == NamedBy(plan, Staff(role) \ settled)
    IN  IF live # {} THEN live ELSE NamedBy(plan, Staff(role) \cap settled)

\* derive_task_department: a settled task keeps the lead that judged it.
LeadsOfTask(plan, t, settled) ==
    IF t \in settled /\ plan[t] # NoLead THEN {plan[t]} ELSE LeadsOf(plan, RoleOf[t], settled)

CanLead_Any(lead, role) == TRUE

\* A lead R30 admits: named, and of another profession.
CanLead(lead, role) == lead \in Role \ {role}

\* _history: settled tasks as the current plan holds them, never as a change wrote them.
History(plan, settled, current) == {t \in settled : current[t] = plan[t]}

Accepted(plan, role, history) ==
    {lead \in {plan[t] : t \in Staff(role) \cap history} : CanLead(lead, role)}

\* The leads the current plan names for the rest of a profession.
Kept(current, role, settled) ==
    {lead \in {current[t] : t \in Staff(role) \ settled} : CanLead(lead, role)}

Moved_Never(plan, settled, current) == {}

\* _moved_leads: the professions a change takes, after their first acceptance, to a
\* lead they never had.
Moved(plan, settled, current) ==
    LET history == History(plan, settled, current)
    IN  {role \in Role :
            /\ Accepted(plan, role, history) # {}
            /\ \E lead \in Role :
                  /\ NamedBy(plan, Staff(role) \ history) = {lead}
                  /\ lead \notin Accepted(plan, role, history) \cup Kept(current, role, settled)}

\* Professions whose tasks still to be accepted name several leads.
Divided(plan, settled, current) ==
    {role \in Role :
        Cardinality(NamedBy(plan, Staff(role) \ History(plan, settled, current))) > 1}

\* validate_department_leads: the tasks its findings name, none if it finds nothing.
Faulty(plan, exempt, settled, current) ==
    LET history == History(plan, settled, current)
        wrong   == Divided(plan, settled, current) \cup Moved(plan, settled, current)
    IN  {t \in Task \ exempt : plan[t] \in {NoLead, RoleOf[t]}}
        \cup {t \in Task \ history : RoleOf[t] \in wrong /\ plan[t] # NoLead}

\* collect_graph_issues: the plan judged as it stands, its settled tasks as history.
Unstaffed(plan, settled) == Faulty(plan, settled, settled, plan)

\* profession_leads: of all its tasks, the profession itself not counted.
ProfessionLeads(plan, role) == NamedBy(plan, Staff(role)) \ {role}
=============================================================================
