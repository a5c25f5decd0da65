---------------------------- MODULE Experiments -----------------------------
(***************************************************************************)
(* scoring/services/model_experimentation.py: ExperimentationService with  *)
(* one experiment that concludes itself on precision, its default metric.  *)
(* Outcomes are counted under the lock; the significance tests that follow *)
(* each of them read the counters without it, one comparison at a time.    *)
(* An outcome that predicts no fraud counts as a request only.             *)
(***************************************************************************)
EXTENDS Integers, FiniteSets

CONSTANTS
  Threads,
  Control, Treatments, \* the variants
  MinSamples,  \* min_samples_per_variant
  MaxOutcomes  \* bound: outcomes recorded

VARIABLES
  status,  \* draft, running or concluded
  winner,  \* the winner, "undecided" until there is one
  metrics, \* per variant: total_requests, true and false positives
  results, \* significance_results for precision
  task,    \* per thread, where it is and with what
  late     \* history: an outcome was recorded since the experiment runs

exvars == <<status, winner, metrics, results, task, late>>

Variants == {Control} \cup Treatments
Outcomes == {"tp", "fp", "negative"}
Idle == [at |-> "idle"]
NoCounts == [n |-> 0, tp |-> 0, fp |-> 0]

Init ==
  /\ status = "draft" /\ winner = "undecided" /\ metrics = [v \in Variants |-> NoCounts]
  /\ results = {} /\ task = [t \in Threads |-> Idle] /\ late = FALSE

To(t, step) == task' = [task EXCEPT ![t] = step]
-----------------------------------------------------------------------------
\* proportion_z_test at 95 percent: z * z > 1.96 * 1.96 with a pooled proportion
Significant(sa, na, sb, nb) ==
  LET hits == sa + sb
      all == na + nb
      gap == sa * nb - sb * na
  IN  /\ na > 0 /\ nb > 0 /\ 0 < hits /\ hits < all
      /\ 10000 * gap * gap * all > 38416 * na * nb * hits * (all - hits)

\* The comparisons of a treatment with the control: none if either lacks samples or has
\* predicted no fraud, so that its precision is of nothing.
Predicted(v) == metrics[v].tp + metrics[v].fp
Sampled(v) == metrics[v].n >= MinSamples
Comparisons(v) ==
  LET c == metrics[Control]
      m == metrics[v]
      sig == Significant(c.tp, Predicted(Control), m.tp, Predicted(v))
      better == m.tp * Predicted(Control) > c.tp * Predicted(v)
  IN  IF Sampled(v) /\ Sampled(Control) /\ Predicted(v) > 0 /\ Predicted(Control) > 0
      THEN {[of |-> v, significant |-> sig,
             winner |-> IF ~sig THEN "none" ELSE IF better THEN v ELSE Control]}
      ELSE {}
-----------------------------------------------------------------------------
StartExperiment ==
  /\ status = "draft" /\ status' = "running"
  /\ UNCHANGED <<winner, metrics, results, task, late>>

\* conclude_experiment raises unless the experiment runs.
Conclude(w) == IF status = "running" THEN status' = "concluded" /\ winner' = w
                                     ELSE UNCHANGED <<status, winner>>
ConcludeByHand ==
  /\ status = "running" /\ \E w \in Variants \cup {"none"} : Conclude(w)
  /\ UNCHANGED <<metrics, results, task, late>>

\* record_outcome counts in any status.
Requests == {p \in Variants \X (1..MaxOutcomes) : p[2] <= metrics[p[1]].n}
RecordOutcome(t, v, o) ==
  /\ task[t] = Idle /\ Cardinality(Requests) < MaxOutcomes
  /\ metrics' = [metrics EXCEPT ![v].n = @ + 1, ![v].tp = @ + (IF o = "tp" THEN 1 ELSE 0),
                                ![v].fp = @ + (IF o = "fp" THEN 1 ELSE 0)]
  /\ late' = (late \/ status = "running") /\ To(t, [at |-> "check"])
  /\ UNCHANGED <<status, winner, results>>

\* _check_auto_conclude
Enough == \A v \in Variants : Sampled(v)
MayTest_Alone == status = "running" /\ Enough /\ \A t \in Threads : task[t].at # "test"
MayTest == status = "running" /\ Enough
Testing(auto) == [at |-> "test", auto |-> auto, left |-> Treatments, found |-> {}]
Check(t) ==
  /\ task[t].at = "check" /\ To(t, IF MayTest THEN Testing(TRUE) ELSE Idle)
  /\ UNCHANGED <<status, winner, metrics, results, late>>

\* run_significance_tests, which anyone may call
RunTests(t) ==
  /\ task[t] = Idle /\ To(t, Testing(FALSE))
  /\ UNCHANGED <<status, winner, metrics, results, late>>
Compare(t, v) ==
  /\ task[t].at = "test" /\ v \in task[t].left
  /\ To(t, [task[t] EXCEPT !.left = @ \ {v}, !.found = @ \cup Comparisons(v)])
  /\ UNCHANGED <<status, winner, metrics, results, late>>

\* The winner is who wins most comparisons, any of them in a tie.
Wins(found, w) == Cardinality({r \in found : r.winner = w})
Best(found) == {w \in Variants : \A v \in Variants : Wins(found, v) <= Wins(found, w)}
StoreResults(t) ==
  LET found == task[t].found
  IN  /\ task[t].at = "test" /\ task[t].left = {}
      /\ results' = found
      /\ IF task[t].auto /\ found # {} /\ \A r \in found : r.significant
         THEN \E w \in Best(found) : To(t, [at |-> "conclude", winner |-> w])
         ELSE To(t, Idle)
      /\ UNCHANGED <<status, winner, metrics, late>>

AutoConclude(t) ==
  /\ task[t].at = "conclude" /\ Conclude(task[t].winner) /\ To(t, Idle)
  /\ UNCHANGED <<metrics, results, late>>

Next ==
  \/ StartExperiment \/ ConcludeByHand
  \/ \E t \in Threads :
       \/ \E v \in Variants, o \in Outcomes : RecordOutcome(t, v, o)
       \/ Check(t) \/ RunTests(t) \/ StoreResults(t) \/ AutoConclude(t)
       \/ \E v \in Treatments : Compare(t, v)

Spec == Init /\ [][Next]_exvars
-----------------------------------------------------------------------------
\* Whoever records last has seen every outcome: once the threads are done, an experiment
\* that runs on is not conclusive by its counters, unless all outcomes are older than its
\* start.  Conclusive: enough samples of each variant, and each comparison there is, and
\* there is one, is significant.
Compared == UNION {Comparisons(v) : v \in Treatments}
Conclusive == Enough /\ Compared # {} /\ \A r \in Compared : r.significant
ConcludedInTime ==
  status = "running" /\ late /\ (\A t \in Threads : task[t] = Idle) => ~Conclusive
=============================================================================
