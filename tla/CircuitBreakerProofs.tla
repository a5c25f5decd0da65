------------------------ MODULE CircuitBreakerProofs ------------------------
(***************************************************************************)
(* Theorems about CircuitBreaker for every number of tasks, threshold and  *)
(* timeout.                                                                *)
(***************************************************************************)
EXTENDS CircuitBreaker, FiniteSetTheorems, TLAPS

\* Values stay in their domains whatever the thresholds.
THEOREM TypeCorrect == Spec => []TypeOK
<1> USE CircuitBreakerAssumption DEF TypeOK, States
<1>1. Init => TypeOK
  BY DEF Init
<1>2. TypeOK /\ [Next]_vars => TypeOK'
  <2> SUFFICES ASSUME TypeOK, [Next]_vars PROVE TypeOK'
    OBVIOUS
  <2>1. CASE ReadState
    BY <2>1 DEF ReadState, EnterHalfOpen, HalfOpenCalls, Demoted
  <2>2. CASE Reset
    BY <2>2 DEF Reset, Close
  <2>3. CASE Tick
    BY <2>3 DEF Tick, counters
  <2>4. ASSUME NEW c \in Callers, Admit(c) PROVE TypeOK'
    <3>1. CASE AdmitClosed(c)
      BY <3>1 DEF AdmitClosed, counters
    <3>2. CASE AdmitProbe(c)
      BY <3>2 DEF AdmitProbe
    <3>3. CASE AdmitFirstProbe(c)
      BY <3>3 DEF AdmitFirstProbe, EnterHalfOpen, HalfOpenCalls, Demoted
    <3> QED BY <2>4, <3>1, <3>2, <3>3 DEF Admit
  <2>5. ASSUME NEW c \in Callers, Finish(c) PROVE TypeOK'
    <3>1. CASE SucceedHalfOpen(c)
      BY <3>1 DEF SucceedHalfOpen, Close
    <3>2. CASE SucceedElse(c)
      BY <3>2 DEF SucceedElse
    <3>3. CASE FailCall(c)
      BY <3>3 DEF FailCall, CountFailure, SinceFailure
    <3> QED BY <2>5, <3>1, <3>2, <3>3 DEF Finish
  <2>6. ASSUME NEW c \in Callers, Cancel(c) PROVE TypeOK'
    BY <2>6 DEF Cancel, counters
  <2>7. CASE UNCHANGED vars
    BY <2>7 DEF vars, counters
  <2> QED BY <2>1, <2>2, <2>3, <2>4, <2>5, <2>6, <2>7 DEF Next
<1> QED BY <1>1, <1>2, PTL DEF Spec
-----------------------------------------------------------------------------
\* A set of tasks drawn from Callers can be counted.
LEMMA ProbesFinite == IsFiniteSet(Probes) /\ Cardinality(Probes) \in Nat
<1>1. Probes \subseteq Callers
  BY DEF Probes
<1> QED BY <1>1, FS_Subset, FS_CardinalityType, CircuitBreakerAssumption

\* Ending a call never adds a test call.
LEMMA EndingKeepsBudget ==
  ASSUME NEW c \in Callers, TypeOK,
         call' = [call EXCEPT ![c] = "idle"]
  PROVE  /\ Cardinality(Probes') \in Nat
         /\ Cardinality(Probes') <= Cardinality(Probes)
<1>1. Probes' \subseteq Probes
  BY DEF Probes, TypeOK
<1> QED BY <1>1, ProbesFinite, FS_Subset, FS_CardinalityType

\* No call is a test call just after the circuit half-opened.
LEMMA DemotedHasNoProbe == \A c \in Callers : Demoted[c] # "probe"
  BY DEF Demoted

\* The budget of test calls holds in every half-open period: the count of running
\* test calls is covered by half_open_calls, which no admission takes past the limit.
THEOREM BudgetRespected == Spec => []ProbeBudget
<1> USE CircuitBreakerAssumption
<1>1. Init => ProbeBudget
  BY DEF Init, ProbeBudget
<1>2. TypeOK /\ TypeOK' /\ ProbeBudget /\ [Next]_vars => ProbeBudget'
  <2> SUFFICES ASSUME TypeOK, TypeOK', ProbeBudget, [Next]_vars PROVE ProbeBudget'
    OBVIOUS
  <2>0. Cardinality(Probes) \in Nat /\ half_open_calls \in Nat
    BY ProbesFinite DEF TypeOK
  <2>1. CASE ReadState
    <3>1. Probes' = {}
      BY <2>1, DemotedHasNoProbe DEF ReadState, Probes
    <3>2. half_open_calls' = 0
      BY <2>1 DEF ReadState, HalfOpenCalls
    <3> QED BY <3>1, <3>2, FS_EmptySet DEF ProbeBudget
  <2>2. CASE Reset
    BY <2>2 DEF Reset, Close, ProbeBudget
  <2>3. CASE Tick
    BY <2>3 DEF Tick, counters, ProbeBudget, Probes
  <2>4. ASSUME NEW c \in Callers, AdmitClosed(c) PROVE ProbeBudget'
    BY <2>4 DEF AdmitClosed, ProbeBudget
  <2>5. ASSUME NEW c \in Callers, AdmitProbe(c) PROVE ProbeBudget'
    <3>1. Probes' = Probes \cup {c} /\ c \notin Probes
      BY <2>5 DEF AdmitProbe, Probes, TypeOK
    <3>2. Cardinality(Probes') = Cardinality(Probes) + 1
      BY <3>1, ProbesFinite, FS_AddElement
    <3> QED BY <2>0, <2>5, <3>2 DEF AdmitProbe, MayProbe, ProbeBudget
  <2>6. ASSUME NEW c \in Callers, AdmitFirstProbe(c) PROVE ProbeBudget'
    <3>1. Probes' = {c}
      BY <2>6, DemotedHasNoProbe DEF AdmitFirstProbe, Probes, Demoted
    <3>2. half_open_calls' = 1
      BY <2>6 DEF AdmitFirstProbe, HalfOpenCalls
    <3>3. Cardinality({c}) = 1
      BY FS_Singleton
    <3> QED BY <3>1, <3>2, <3>3 DEF ProbeBudget
  <2>7. ASSUME NEW c \in Callers, SucceedHalfOpen(c) PROVE ProbeBudget'
    <3>1. Cardinality(Probes') \in Nat /\ Cardinality(Probes') <= Cardinality(Probes)
      BY <2>7, EndingKeepsBudget DEF SucceedHalfOpen
    <3> QED BY <2>0, <2>7, <3>1 DEF SucceedHalfOpen, Close, ProbeBudget
  <2>8. ASSUME NEW c \in Callers, SucceedElse(c) PROVE ProbeBudget'
    BY <2>8 DEF SucceedElse, ProbeBudget
  <2>9. ASSUME NEW c \in Callers, FailCall(c) PROVE ProbeBudget'
    BY <2>9 DEF FailCall, Trips, ProbeBudget
  <2>10. ASSUME NEW c \in Callers, Cancel(c) PROVE ProbeBudget'
    <3>1. Cardinality(Probes') \in Nat /\ Cardinality(Probes') <= Cardinality(Probes)
      BY <2>10, EndingKeepsBudget DEF Cancel
    <3> QED BY <2>0, <2>10, <3>1 DEF Cancel, counters, ProbeBudget
  <2>11. CASE UNCHANGED vars
    BY <2>11 DEF vars, counters, ProbeBudget, Probes
  <2> QED
    BY <2>1, <2>2, <2>3, <2>4, <2>5, <2>6, <2>7, <2>8, <2>9, <2>10, <2>11
       DEF Next, Admit, Finish
<1> QED BY <1>1, <1>2, TypeCorrect, PTL DEF Spec
-----------------------------------------------------------------------------
\* In CLOSED the failure counter is below its threshold: reaching it opens the circuit.
THEOREM ClosedIsBelow == Spec => []ClosedBelowThreshold
<1> USE CircuitBreakerAssumption DEF ClosedBelowThreshold
<1>1. Init => ClosedBelowThreshold
  BY DEF Init
<1>2. TypeOK /\ ClosedBelowThreshold /\ [Next]_vars => ClosedBelowThreshold'
  <2> SUFFICES ASSUME TypeOK, ClosedBelowThreshold, [Next]_vars
               PROVE  ClosedBelowThreshold'
    OBVIOUS
  <2>1. CASE ReadState \/ Reset \/ Tick
    BY <2>1 DEF ReadState, EnterHalfOpen, Reset, Close, Tick, counters, TypeOK
  <2>2. ASSUME NEW c \in Callers, Admit(c) PROVE ClosedBelowThreshold'
    BY <2>2 DEF Admit, AdmitClosed, AdmitProbe, AdmitFirstProbe, EnterHalfOpen, counters
  <2>3. ASSUME NEW c \in Callers, Finish(c) PROVE ClosedBelowThreshold'
    BY <2>3 DEF Finish, SucceedHalfOpen, SucceedElse, FailCall, Close, Trips, CountFailure,
                TypeOK, States
  <2>4. ASSUME NEW c \in Callers, Cancel(c) PROVE ClosedBelowThreshold'
    BY <2>4 DEF Cancel, counters
  <2>5. CASE UNCHANGED vars
    BY <2>5 DEF vars, counters
  <2> QED BY <2>1, <2>2, <2>3, <2>4, <2>5 DEF Next
<1> QED BY <1>1, <1>2, TypeCorrect, PTL DEF Spec
-----------------------------------------------------------------------------
\* The clock of the last failure never runs ahead of the clock of the opening.
THEOREM OpenTimeoutRespected == Spec => []OpenAtLeastTimeout
<1> USE CircuitBreakerAssumption DEF OpenAtLeastTimeout
<1>1. Init => OpenAtLeastTimeout
  BY DEF Init
<1>2. TypeOK /\ OpenAtLeastTimeout /\ [Next]_vars => OpenAtLeastTimeout'
  <2> SUFFICES ASSUME TypeOK, OpenAtLeastTimeout, [Next]_vars
               PROVE  OpenAtLeastTimeout'
    OBVIOUS
  <2>1. CASE ReadState \/ Reset
    BY <2>1 DEF ReadState, EnterHalfOpen, Reset, Close
  <2>2. CASE Tick
    BY <2>2 DEF Tick, TypeOK
  <2>3. ASSUME NEW c \in Callers, Admit(c) PROVE OpenAtLeastTimeout'
    BY <2>3 DEF Admit, AdmitClosed, AdmitProbe, AdmitFirstProbe, EnterHalfOpen
  <2>4. ASSUME NEW c \in Callers, Finish(c) PROVE OpenAtLeastTimeout'
    BY <2>4 DEF Finish, SucceedHalfOpen, SucceedElse, FailCall, Close, SinceFailure, TypeOK
  <2>5. ASSUME NEW c \in Callers, Cancel(c) PROVE OpenAtLeastTimeout'
    BY <2>5 DEF Cancel
  <2>6. CASE UNCHANGED vars
    BY <2>6 DEF vars
  <2> QED BY <2>1, <2>2, <2>3, <2>4, <2>5, <2>6 DEF Next
<1> QED BY <1>1, <1>2, TypeCorrect, PTL DEF Spec
-----------------------------------------------------------------------------
\* The breaker implements BreakerSpec: its steps are steps of the abstract gate, or
\* leave the gate alone (a clock that has saturated).
THEOREM Implements == Spec => AbstractSpec
<1> USE CircuitBreakerAssumption
<1>1. Init => Abstract!Init
  BY DEF Init, Abstract!Init, Running
<1>2. TypeOK /\ OpenAtLeastTimeout /\ [Next]_vars => [Abstract!Next]_(Abstract!vars)
  <2> SUFFICES ASSUME TypeOK, OpenAtLeastTimeout, [Next]_vars
               PROVE  [Abstract!Next]_(Abstract!vars)
    OBVIOUS
  <2>0. Due => Abstract!Recovered
    BY DEF Due, Abstract!Recovered, OpenAtLeastTimeout, TypeOK
  <2>1. CASE ReadState
    <3>1. Running' = Running
      BY <2>1 DEF ReadState, Demoted, Running, TypeOK
    <3> QED BY <2>0, <2>1, <3>1
            DEF ReadState, EnterHalfOpen, Abstract!HalfOpen, Abstract!Next
  <2>2. CASE Reset
    BY <2>2 DEF Reset, Close, Running, Abstract!Reset, Abstract!Next
  <2>3. CASE Tick
    <3>1. Running' = Running
      BY <2>3 DEF Tick, Running
    <3> QED BY <2>3, <3>1 DEF Tick, TypeOK, Abstract!Tick, Abstract!Next, Abstract!vars
  <2>4. ASSUME NEW c \in Callers, Admit(c) PROVE Abstract!Admit(c)
    <3>1. c \notin Running
      BY <2>4 DEF Admit, AdmitClosed, AdmitProbe, AdmitFirstProbe, Running
    <3>2. Running' = Running \cup {c}
      BY <2>4 DEF Admit, AdmitClosed, AdmitProbe, AdmitFirstProbe, Demoted, Running, TypeOK
    <3> QED BY <2>0, <2>4, <3>1, <3>2
            DEF Admit, AdmitClosed, AdmitProbe, AdmitFirstProbe, EnterHalfOpen, Abstract!Admit
  <2>5. ASSUME NEW c \in Callers, call[c] # "idle", call' = [call EXCEPT ![c] = "idle"]
        PROVE  c \in Running /\ Running' = Running \ {c}
    BY <2>5 DEF Running, TypeOK
  <2>6. ASSUME NEW c \in Callers, SucceedHalfOpen(c) \/ SucceedElse(c)
        PROVE  Abstract!Succeed(c)
    BY <2>5, <2>6 DEF SucceedHalfOpen, SucceedElse, Close, Abstract!Succeed
  <2>7. ASSUME NEW c \in Callers, FailCall(c) PROVE Abstract!Fail(c)
    BY <2>5, <2>7 DEF FailCall, Abstract!Fail
  <2>8. ASSUME NEW c \in Callers, Cancel(c) PROVE Abstract!Abandon(c)
    BY <2>5, <2>8 DEF Cancel, Abstract!Abandon
  <2>9. CASE UNCHANGED vars
    BY <2>9 DEF vars, Running, Abstract!vars
  <2> QED BY <2>1, <2>2, <2>3, <2>4, <2>6, <2>7, <2>8, <2>9
          DEF Next, Finish, Abstract!Next
<1> QED BY <1>1, <1>2, TypeCorrect, OpenTimeoutRespected, PTL
        DEF Spec, AbstractSpec, Abstract!Spec
=============================================================================
