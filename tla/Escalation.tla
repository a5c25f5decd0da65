----------------------------- MODULE Escalation -----------------------------
(***************************************************************************)
(* scoring/services/alert_routing.py: the escalation ladder.  escalate()   *)
(* reads the position of an alert, fires that level and advances the       *)
(* position under a second acquisition of the tracker's lock; other        *)
(* threads escalate or acknowledge the alert in between.                   *)
(***************************************************************************)
EXTENDS Integers, Sequences, FiniteSets

CONSTANTS Threads, Alerts, MaxCalls \* bound: calls of escalate

VARIABLES
  index,  \* _EscalationTracker._state, 0 where there is no entry
  step,   \* per thread in escalate the alert and the position it has read, or None
  era,    \* history: acknowledgements per alert
  fired   \* history: the escalations that fired, numbered

evars == <<index, step, era, fired>>

None == [none |-> TRUE]
Ladder == <<"L1_ANALYST", "L2_SENIOR", "L3_MANAGER", "L4_EXECUTIVE">>

Init == /\ index = [a \in Alerts |-> 0] /\ step = [t \in Threads |-> None]
        /\ era = [a \in Alerts |-> 0] /\ fired = {}

\* Past the top of the ladder the call returns at once.
Read(t, a) ==
  /\ step[t] = None /\ index[a] < Len(Ladder) /\ Cardinality(fired) < MaxCalls
  /\ step' = [step EXCEPT ![t] = [alert |-> a, at |-> index[a]]]
  /\ fired' = fired \cup {[alert |-> a, level |-> Ladder[index[a] + 1], era |-> era[a],
                           no |-> Cardinality(fired)]}
  /\ UNCHANGED <<index, era>>

Advanced_FromRead(t) == step[t].at + 1
Advanced(t) == index[step[t].alert] + 1
Advance(t) ==
  /\ step[t] # None
  /\ index' = [index EXCEPT ![step[t].alert] = Advanced(t)]
  /\ step' = [step EXCEPT ![t] = None]
  /\ UNCHANGED <<era, fired>>

\* acknowledge()
Acknowledge(a) ==
  /\ index[a] > 0 /\ index' = [index EXCEPT ![a] = 0] /\ era' = [era EXCEPT ![a] = @ + 1]
  /\ UNCHANGED <<step, fired>>

Next == \/ \E t \in Threads : Advance(t) \/ \E a \in Alerts : Read(t, a)
        \/ \E a \in Alerts : Acknowledge(a)

Spec == Init /\ [][Next]_evars
-----------------------------------------------------------------------------
\* Concurrent escalations of an alert may fire the same level, but between two
\* acknowledgements no level fires more often than there are threads.
FewRepeats ==
  \A a \in Alerts, l \in 1..Len(Ladder), n \in 0..MaxCalls :
    Cardinality({f \in fired : f.alert = a /\ f.level = Ladder[l] /\ f.era = n})
      <= Cardinality(Threads)

\* And each repeat takes the ladder past a level that never fires: once every call under
\* way has advanced the position, it is at most as many levels above the last one that
\* fired since the acknowledgement as there are threads.
FewSkips ==
  \A a \in Alerts : \E top \in 0..Len(Ladder) :
    /\ top > 0 => \E f \in fired : f.alert = a /\ f.era = era[a] /\ f.level = Ladder[top]
    /\ index[a] + Cardinality({t \in Threads : step[t] # None /\ step[t].alert = a})
         <= top + Cardinality(Threads)

\* What racing escalations of an alert can do to its ladder is bounded.
LadderFollowed == FewRepeats /\ FewSkips
-----------------------------------------------------------------------------
\* The engine says it is "Thread-safe", and escalate that it fires "the next escalation
\* step" and that "Each call advances the tracker by one level": so every level the
\* position has left behind since the last acknowledgement has fired.
EveryLevelFires ==
  \A a \in Alerts, l \in 1..Len(Ladder) : l <= index[a] =>
    \E f \in fired : f.alert = a /\ f.era = era[a] /\ f.level = Ladder[l]
=============================================================================
