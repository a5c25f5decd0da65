------------------------------- MODULE Canary -------------------------------
(***************************************************************************)
(* scoring/services/shadow_mode.py: CanaryDeploymentService on top of      *)
(* ShadowModeService, for one model name.  The two services have a lock    *)
(* each, and a call takes them one after the other.  A scorer is known by  *)
(* the number of the start that brought it.  A sample is what a scorer     *)
(* said next to the primary one, under the number of the scoring; a window *)
(* may hold any part of the samples, as clocks are left out.               *)
(***************************************************************************)
EXTENDS Integers, FiniteSets

CONSTANTS
  Threads,
  MinSamples, \* min_samples
  MaxStarts,  \* bound: calls of start_canary
  MaxScored   \* bound: transactions scored

VARIABLES
  shadow,    \* _models: the scorer under the name, or Gone
  canary,    \* _canaries: the start under the name, or Gone
  samples,   \* per start, its deque; whoever holds a deque that was dropped can add to it
  task,      \* per thread, where it is and with what
  starts, scored, \* counters
  straddled, \* history, per start: scorings under way when its scorer came
  mixed      \* history: the last starts and stops overlapped

cnvars == <<shadow, canary, samples, task, starts, scored, straddled, mixed>>

Gone == 0
Starts == 1..MaxStarts
Outcomes == {"agrees", "differs", "error"}
Idle == [at |-> "idle"]

Init ==
  /\ shadow = Gone /\ canary = Gone /\ samples = [s \in Starts |-> {}]
  /\ task = [t \in Threads |-> Idle] /\ starts = 0 /\ scored = 0
  /\ straddled = [s \in Starts |-> 0] /\ mixed = FALSE

To(t, step) == task' = [task EXCEPT ![t] = step]
At(places) == {t \in Threads : task[t].at \in places}
Changing == At({"start", "stop"})
-----------------------------------------------------------------------------
\* start_canary: the scorer is registered, then the canary with a deque of its own.
Register(t) ==
  /\ task[t] = Idle /\ starts < MaxStarts
  /\ starts' = starts + 1 /\ shadow' = starts' /\ To(t, [at |-> "start", of |-> starts'])
  /\ straddled' = [straddled EXCEPT ![starts'] = Cardinality(At({"scoring"}))]
  /\ mixed' = (Changing # {})
  /\ UNCHANGED <<canary, samples, scored>>

Deque_Kept == IF canary = Gone THEN {} ELSE samples[canary]
Deque == {}
Install(t) ==
  /\ task[t].at = "start"
  /\ canary' = task[t].of /\ samples' = [samples EXCEPT ![canary'] = Deque]
  /\ To(t, Idle)
  /\ UNCHANGED <<shadow, starts, scored, straddled, mixed>>

\* stop_canary, by hand or after a decision
Unregister(t) ==
  /\ task[t].at \in {"idle", "decided"} /\ (task[t] = Idle => canary # Gone \/ shadow # Gone)
  /\ shadow' = Gone /\ To(t, [at |-> "stop"]) /\ mixed' = (Changing # {})
  /\ UNCHANGED <<canary, samples, starts, scored, straddled>>

Pop(t) ==
  /\ task[t].at = "stop" /\ canary' = Gone /\ To(t, Idle)
  /\ UNCHANGED <<shadow, samples, starts, scored, straddled, mixed>>
-----------------------------------------------------------------------------
\* run_shadow_scoring takes the scorer and awaits it; its errors become results.
RunShadowScoring(t) ==
  /\ task[t] = Idle /\ shadow # Gone /\ scored < MaxScored
  /\ scored' = scored + 1 /\ To(t, [at |-> "scoring", of |-> shadow, no |-> scored'])
  /\ UNCHANGED <<shadow, canary, samples, starts, straddled, mixed>>

\* record_result finds the deque by the name, and adds to it under another hold of the lock.
FindEntry(t) ==
  /\ task[t].at = "scoring"
  /\ To(t, IF canary = Gone THEN Idle
           ELSE [at |-> "record", of |-> task[t].of, no |-> task[t].no, to |-> canary])
  /\ UNCHANGED <<shadow, canary, samples, starts, scored, straddled, mixed>>

\* A full deque lets go of its oldest sample; which one that is stays open.
Remaining(d) == IF Cardinality(d) < 10 * MinSamples THEN {d} ELSE {d \ {x} : x \in d}
AppendSample(t) ==
  /\ task[t].at = "record"
  /\ \E o \in Outcomes, kept \in Remaining(samples[task[t].to]) :
       samples' = [samples EXCEPT ![task[t].to] =
                     kept \cup {[no |-> task[t].no, of |-> task[t].of, outcome |-> o]}]
  /\ To(t, Idle)
  /\ UNCHANGED <<shadow, canary, starts, scored, straddled, mixed>>
-----------------------------------------------------------------------------
\* evaluate_canary on the samples w of the window, with the default thresholds in percent
With(w, o) == Cardinality({x \in w : x.outcome = o})
Action(w) ==
  LET n == Cardinality(w)
      valid == n - With(w, "error")
  IN  IF n = 0 \/ n < MinSamples THEN "continue"
      ELSE IF 100 * With(w, "error") > 5 * n THEN "rollback"
      ELSE IF 100 * With(w, "agrees") >= 80 * valid THEN "promote"
      ELSE IF 100 * With(w, "agrees") <= 30 * valid THEN "rollback"
      ELSE "continue"

AutoEvaluate(t) ==
  /\ task[t] = Idle /\ canary # Gone /\ To(t, [at |-> "evaluate"])
  /\ UNCHANGED <<shadow, canary, samples, starts, scored, straddled, mixed>>

\* The canary may be gone by now (KeyError), and the deque may grow while it is walked
\* through, which raises out of auto_evaluate.
Evaluate(t) ==
  /\ task[t].at = "evaluate"
  /\ \/ /\ canary # Gone
        /\ \E w \in SUBSET samples[canary] :
             To(t, IF Action(w) = "continue" THEN Idle ELSE [at |-> "decided"])
     \/ (canary = Gone \/ At({"record"}) # {}) /\ To(t, Idle)
  /\ UNCHANGED <<shadow, canary, samples, starts, scored, straddled, mixed>>

Next == \E t \in Threads :
  \/ Register(t) \/ Install(t) \/ Unregister(t) \/ Pop(t)
  \/ RunShadowScoring(t) \/ FindEntry(t) \/ AppendSample(t)
  \/ AutoEvaluate(t) \/ Evaluate(t)

Spec == Init /\ [][Next]_cnvars
-----------------------------------------------------------------------------
\* A canary is measured by its own scorer.  Between starts and stops, the scorer that
\* runs is the canary's unless the last of them overlapped; and of its samples at most
\* those are of an earlier scorer whose scoring was under way when its own came.
Earlier(s) == {x \in samples[s] : x.of < s}
MeasuredByItsOwn ==
  /\ Changing = {} /\ ~mixed => shadow = canary
  /\ \A s \in Starts : Cardinality(Earlier(s)) <= straddled[s]
=============================================================================
