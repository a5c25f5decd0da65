---------------------------- MODULE CaseWorkflow ----------------------------
(***************************************************************************)
(* scoring/services/case_workflow.py: CaseWorkflowEngine, its cases and    *)
(* analysts.  Every operation runs under one lock; a bulk operation takes  *)
(* it case by case, so it is a series of the single ones.  Priority, SLA   *)
(* deadlines, templates, notes and the timeline are left out.              *)
(***************************************************************************)
EXTENDS Integers, FiniteSets

CONSTANTS
  Cases, Analysts,
  Limits,     \* max_cases an analyst may be registered with
  Expertise,  \* pairs: the analyst's expertise has the fraud type of the case
  MaxUnusual  \* bound: manual assignments and reopenings

VARIABLES
  cases,     \* _cases: per case its state and analyst; "absent" before create_case
  limit,     \* _analysts: max_cases of an active analyst, 0 for any other
  roof,      \* history: the highest max_cases an analyst was registered with
  manual,    \* history: assign() calls per analyst
  reopened   \* history: reopenings of resolved cases per analyst

cwvars == <<cases, limit, roof, manual, reopened>>

Nobody == "nobody"
States == {"open", "investigating", "escalated", "resolved", "closed"}
ValidTransitions ==
  [absent        |-> {},
   open          |-> {"investigating", "escalated", "closed"},
   investigating |-> {"escalated", "resolved", "closed"},
   escalated     |-> {"investigating", "resolved", "closed"},
   resolved      |-> {"closed", "investigating"},
   closed        |-> {}]
Active == {"open", "investigating", "escalated"}

Init ==
  /\ cases = [c \in Cases |-> [state |-> "absent", assignee |-> Nobody]]
  /\ limit = [a \in Analysts |-> 0] /\ roof = [a \in Analysts |-> 0]
  /\ manual = [a \in Analysts |-> 0] /\ reopened = [a \in Analysts |-> 0]
-----------------------------------------------------------------------------
\* get_analyst_workload
Workload(a) == Cardinality({c \in Cases : cases[c].assignee = a /\ cases[c].state \in Active})

\* An analyst who is registered again is replaced.
RegisterAnalyst(a, n) ==
  /\ limit' = [limit EXCEPT ![a] = n] /\ roof' = [roof EXCEPT ![a] = IF n > @ THEN n ELSE @]
  /\ UNCHANGED <<cases, manual, reopened>>

\* The cases of an analyst who is removed, or registered as inactive, keep their assignee.
RemoveAnalyst(a) ==
  /\ limit[a] > 0 /\ limit' = [limit EXCEPT ![a] = 0]
  /\ UNCHANGED <<cases, roof, manual, reopened>>

CreateCase(c) ==
  /\ cases[c].state = "absent"
  /\ cases' = [cases EXCEPT ![c] = [state |-> "open", assignee |-> Nobody]]
  /\ UNCHANGED <<limit, roof, manual, reopened>>

Unusual == Cardinality({p \in Analysts \X (1..MaxUnusual) : p[2] <= manual[p[1]] + reopened[p[1]]})

Transition(c, target) ==
  LET old == cases[c].state
      who == cases[c].assignee
      reopens == old = "resolved" /\ target \in Active
  IN  /\ target \in ValidTransitions[old]
      /\ cases' = [cases EXCEPT ![c].state = target]
      /\ IF reopens /\ who # Nobody
         THEN Unusual < MaxUnusual /\ reopened' = [reopened EXCEPT ![who] = @ + 1]
         ELSE UNCHANGED reopened
      /\ UNCHANGED <<limit, roof, manual>>

\* auto_assign does not look at the state of the case.
HasRoom_AtLimit(a) == Workload(a) <= limit[a]
HasRoom(a) == Workload(a) < limit[a]
Candidates == {a \in Analysts : limit[a] > 0 /\ HasRoom(a)}
Expert(a, c) == <<a, c>> \in Expertise

\* Experts first, then the least loaded; the order of registration decides between
\* equals, here any of them.
BestFit(c) ==
  {a \in Candidates : \A b \in Candidates :
     \/ Expert(a, c) /\ ~Expert(b, c)
     \/ Expert(a, c) = Expert(b, c) /\ Workload(a) <= Workload(b)}
AutoAssign(c) ==
  /\ cases[c].state \in States
  /\ \E a \in BestFit(c) : cases' = [cases EXCEPT ![c].assignee = a]
  /\ UNCHANGED <<limit, roof, manual, reopened>>

\* assign, to any identifier
Assign(c, a) ==
  /\ cases[c].state \in States /\ Unusual < MaxUnusual
  /\ cases' = [cases EXCEPT ![c].assignee = a] /\ manual' = [manual EXCEPT ![a] = @ + 1]
  /\ UNCHANGED <<limit, roof, reopened>>

Next ==
  \/ \E a \in Analysts, n \in Limits : RegisterAnalyst(a, n)
  \/ \E a \in Analysts : RemoveAnalyst(a)
  \/ \E c \in Cases : \/ AutoAssign(c) \/ CreateCase(c)
                      \/ \E s \in States : Transition(c, s)
                      \/ \E a \in Analysts : Assign(c, a)

Spec == Init /\ [][Next]_cwvars
-----------------------------------------------------------------------------
\* Only manual assignments and reopened cases take an analyst over the highest
\* max_cases ever registered, by one case each; removal and registration with a lower
\* limit do not take cases away.
LoadBound == \A a \in Analysts : Workload(a) <= roof[a] + manual[a] + reopened[a]
=============================================================================
