---------------------------- MODULE AlertRouting ----------------------------
(***************************************************************************)
(* scoring/services/alert_routing.py: AlertRoutingEngine, called from      *)
(* several threads: the rules and the suppression store, each with a lock  *)
(* of its own.  route_alert reads the rules under the first and checks the *)
(* store under the second.  Scores are in hundredths, times in minutes;    *)
(* channels and assignees are left out.  The ladder is Escalation.         *)
(***************************************************************************)
EXTENDS Integers, Sequences, FiniteSets, SequencesExt

CONSTANTS
  Threads,
  Alerts,      \* inputs: records [txn, entity, score, amount, sanctioned]
  CustomRules, \* rules that operators add
  Times,       \* readings of the clock
  MaxStall,    \* bound: minutes a call may take with the time it has read
  MaxRouted    \* bound: decisions

VARIABLES
  rules,    \* _rules, in order of insertion
  seen,     \* _SuppressionStore._store: per fingerprint a time, or None
  now,      \* time.monotonic()
  task,     \* per thread in route_alert what it has read, or None
  routed    \* history: decisions with a matching rule, in the order of the check

arvars == <<rules, seen, now, task, routed>>

None == [none |-> TRUE]
Cond(f, op, v) == [field |-> f, op |-> op, value |-> v]
Rule(id, cond, prio, window) ==
  [id |-> id, enabled |-> TRUE, conds |-> {cond}, prio |-> prio, window |-> window]
DefaultRules == <<
  Rule("default-p1-score", Cond("score", ">=", 95), 1, 5),
  Rule("default-p2-score", Cond("score", ">=", 80), 2, 10),
  Rule("default-p3-score", Cond("score", ">=", 50), 3, 15),
  Rule("default-high-amount", Cond("amount", ">=", 50000), 2, 10),
  Rule("default-sanctions", Cond("sanctioned", "==", TRUE), 1, 0) >>
EvictAfter == 60 \* max_age_seconds of evict_expired, never overridden

\* suppress_check.  round(score, 1) rounds the hundredths 95 down: 0.95 lies below
\* the half.
Bucket(score) == (score + 4) \div 10
Fingerprint(a) == <<a.txn, Bucket(a.score), a.entity>>

Init ==
  /\ rules = DefaultRules /\ seen = [f \in {Fingerprint(a) : a \in Alerts} |-> None]
  /\ now = 0 /\ task = [t \in Threads |-> None]
  /\ routed = <<>>
-----------------------------------------------------------------------------
(***************************************************************************)
(* Rules                                                                   *)
(***************************************************************************)
EvalSingle(actual, op, expected) ==
  CASE op = ">=" -> actual >= expected
    [] op = "<=" -> actual <= expected
    [] op = ">"  -> actual > expected
    [] op = "<"  -> actual < expected
    [] op = "==" -> actual = expected
    [] op = "!=" -> actual # expected
    [] op = "in" -> actual \in expected
Holds(a, conds) == \A c \in conds : EvalSingle(a[c.field], c.op, c.value)
Matching(a) == {i \in DOMAIN rules : rules[i].enabled /\ Holds(a, rules[i].conds)}

\* _rules is a dict: a rule with a known identifier keeps its place, none occurs twice.
AddRule(r) ==
  /\ rules' = IF \E i \in DOMAIN rules : rules[i].id = r.id
              THEN [i \in DOMAIN rules |-> IF rules[i].id = r.id THEN r ELSE rules[i]]
              ELSE Append(rules, r)
  /\ UNCHANGED <<seen, now, task, routed>>

RemoveRule(id) ==
  /\ \E i \in DOMAIN rules : rules[i].id = id /\ rules' = RemoveAt(rules, i)
  /\ UNCHANGED <<seen, now, task, routed>>
-----------------------------------------------------------------------------
(***************************************************************************)
(* Routing                                                                 *)
(***************************************************************************)
\* min(matched_rules, key=priority): the first of the most urgent
IsTop(i, matching) ==
  \A j \in matching : \/ rules[i].prio < rules[j].prio
                      \/ rules[i].prio = rules[j].prio /\ i <= j
Priority(best, matching) ==
  LET ids == {rules[i].id : i \in matching}
  IN  IF "default-high-amount" \in ids /\ ids # {"default-high-amount"}
      THEN (IF best > 1 THEN best - 1 ELSE 1) ELSE best

\* The rules are read under their lock, the clock before the store's lock is taken.
RouteReads(t, a) ==
  /\ task[t] = None /\ Len(routed) < MaxRouted
  /\ \E top \in Matching(a) :
       /\ IsTop(top, Matching(a))
       /\ task' = [task EXCEPT ![t] =
                     [alert |-> a, at |-> now, window |-> rules[top].window,
                      prio |-> Priority(rules[top].prio, Matching(a))]]
  /\ UNCHANGED <<rules, seen, now, routed>>

Within_Closed(at, first, window) == at - first <= window
Within(at, first, window) == at - first < window
IsSuppressed(r) ==
  LET first == seen[Fingerprint(r.alert)]
  IN  r.window > 0 /\ first # None /\ Within(r.at, first.at, r.window)

RouteDecides(t) ==
  LET r == task[t]
  IN  /\ r # None
      /\ seen' = IF r.window <= 0 \/ IsSuppressed(r) THEN seen
                 ELSE [seen EXCEPT ![Fingerprint(r.alert)] = [at |-> r.at]]
      /\ routed' = Append(routed, [alert |-> r.alert, at |-> r.at, window |-> r.window,
                                   prio |-> r.prio, suppressed |-> IsSuppressed(r)])
      /\ task' = [task EXCEPT ![t] = None]
      /\ UNCHANGED <<rules, now>>

\* maintenance(): evict_expired
IsStale(f) == seen[f] # None /\ now - seen[f].at > EvictAfter
Maintenance ==
  /\ \E f \in DOMAIN seen : IsStale(f)
  /\ seen' = [f \in DOMAIN seen |-> IF IsStale(f) THEN None ELSE seen[f]]
  /\ UNCHANGED <<rules, now, task, routed>>
-----------------------------------------------------------------------------
Tick == /\ now' \in {m \in Times : m > now}
        /\ \A t \in Threads :
             task[t] # None => now' - task[t].at <= MaxStall
        /\ UNCHANGED <<rules, seen, task, routed>>

Next ==
  \/ \E t \in Threads, a \in Alerts : RouteReads(t, a)
  \/ \E t \in Threads : RouteDecides(t)
  \/ \E r \in CustomRules : AddRule(r) \/ RemoveRule(r.id)
  \/ Maintenance \/ Tick

Spec == Init /\ [][Next]_arvars
-----------------------------------------------------------------------------
SameAlert(d, e) == Fingerprint(d.alert) = Fingerprint(e.alert)

\* An alert is suppressed only if its fingerprint was routed within the window before,
\* and one that has a window and is routed all the same has no such predecessor, unless
\* eviction has forgotten it: that takes a window of an hour less the longest stall.
SuppressionExact ==
  \A i \in DOMAIN routed :
    LET d == routed[i]
        earlier == {j \in 1..(i-1) : /\ SameAlert(routed[j], d) /\ ~routed[j].suppressed
                                     /\ routed[j].window > 0 /\ d.at - routed[j].at < d.window}
    IN  /\ d.suppressed => earlier # {}
        /\ ~d.suppressed /\ d.window > 0 /\ earlier # {} => d.window + MaxStall > EvictAfter

\* "Immediate P1 alert whenever a transaction touches a sanctioned entity."
SanctionedAlerted ==
  \A i \in DOMAIN routed :
    routed[i].alert.sanctioned => routed[i].prio = 1 /\ ~routed[i].suppressed
=============================================================================
