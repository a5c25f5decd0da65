--------------------------- MODULE CircuitBreaker ---------------------------
(***************************************************************************)
(* shared/circuit_breaker.py: CircuitBreaker.call around the calls of      *)
(* several tasks of one event loop.  Admission and the success or failure  *)
(* handler run without an await, so each is one action; the protected call *)
(* between them interleaves with every other task, and may be cancelled,   *)
(* which neither handler sees.                                             *)
(* Time and failure_count only matter up to their thresholds and saturate  *)
(* there, so the model needs no bound.                                     *)
(***************************************************************************)
EXTENDS Integers, FiniteSets

CONSTANTS
  Callers,          \* tasks that use the breaker
  FailureThreshold, SuccessThreshold, HalfOpenMaxCalls, RecoveryTimeout,
  MayCancel         \* whether a task can be cancelled inside its call

ASSUME CircuitBreakerAssumption ==
  /\ IsFiniteSet(Callers)
  /\ FailureThreshold \in Nat \ {0} /\ SuccessThreshold \in Nat \ {0}
  /\ HalfOpenMaxCalls \in Nat \ {0} /\ RecoveryTimeout \in Nat
  /\ MayCancel \in BOOLEAN

VARIABLES
  state,            \* _state
  failure_count,    \* _failure_count, saturating at FailureThreshold
  success_count,    \* _success_count
  half_open_calls,  \* _half_open_calls
  since_failure,    \* time since _last_failure_time, saturating at RecoveryTimeout
  call,             \* per task: no call, a call, or a test call of the present half-open period
  sinceOpened       \* history: time since the circuit last opened, saturating

counters == <<failure_count, success_count, half_open_calls>>
vars == <<state, counters, since_failure, call, sinceOpened>>

States == {"closed", "open", "half_open"}
Running == {c \in Callers : call[c] # "idle"}
Probes  == {c \in Callers : call[c] = "probe"}

Init ==
  /\ state = "closed"
  /\ failure_count = 0 /\ success_count = 0 /\ half_open_calls = 0
  /\ since_failure = RecoveryTimeout /\ sinceOpened = RecoveryTimeout
  /\ call = [c \in Callers |-> "idle"]

\* The `state` property moves OPEN to HALF_OPEN when it is read late enough.
Due_Always == state = "open"
Due == state = "open" /\ since_failure >= RecoveryTimeout

\* Entering HALF_OPEN clears the test-call counters; calls admitted earlier go on.
HalfOpenCalls == 0
EnterHalfOpen ==
  /\ state' = "half_open"
  /\ success_count' = 0
  /\ UNCHANGED <<failure_count, since_failure, sinceOpened>>
Demoted == [c \in Callers |-> IF call[c] = "idle" THEN "idle" ELSE "plain"]

ReadState ==
  /\ Due
  /\ EnterHalfOpen
  /\ half_open_calls' = HalfOpenCalls
  /\ call' = Demoted

AdmitClosed(c) ==
  /\ call[c] = "idle" /\ state = "closed"
  /\ call' = [call EXCEPT ![c] = "plain"]
  /\ UNCHANGED <<state, counters, since_failure, sinceOpened>>

MayProbe_Unlimited == TRUE
MayProbe_OneLess == half_open_calls + 1 < HalfOpenMaxCalls
MayProbe == half_open_calls < HalfOpenMaxCalls

AdmitProbe(c) ==
  /\ call[c] = "idle" /\ state = "half_open" /\ MayProbe
  /\ half_open_calls' = half_open_calls + 1
  /\ call' = [call EXCEPT ![c] = "probe"]
  /\ UNCHANGED <<state, failure_count, success_count, since_failure, sinceOpened>>

\* The first call after the timeout both half-opens the circuit and is its first test.
AdmitFirstProbe(c) ==
  /\ call[c] = "idle" /\ Due
  /\ EnterHalfOpen
  /\ half_open_calls' = HalfOpenCalls + 1
  /\ call' = [Demoted EXCEPT ![c] = "probe"]

\* _transition(CLOSED)
Close ==
  /\ state' = "closed"
  /\ failure_count' = 0 /\ success_count' = 0 /\ half_open_calls' = 0

\* _on_success: whoever admitted the call, the present state decides.
SucceedHalfOpen(c) ==
  /\ state = "half_open" /\ call[c] # "idle"
  /\ IF success_count + 1 >= SuccessThreshold
     THEN Close
     ELSE /\ success_count' = success_count + 1
          /\ UNCHANGED <<state, failure_count, half_open_calls>>
  /\ call' = [call EXCEPT ![c] = "idle"]
  /\ UNCHANGED <<since_failure, sinceOpened>>

SucceedElse(c) ==
  /\ state # "half_open" /\ call[c] # "idle"
  /\ failure_count' = 0
  /\ call' = [call EXCEPT ![c] = "idle"]
  /\ UNCHANGED <<state, success_count, half_open_calls, since_failure, sinceOpened>>

\* _on_failure
CountFailure == IF failure_count < FailureThreshold THEN failure_count + 1 ELSE FailureThreshold
Trips == state = "half_open" \/ failure_count + 1 >= FailureThreshold

SinceFailure == 0

FailCall(c) ==
  /\ call[c] # "idle"
  /\ failure_count' = CountFailure
  /\ since_failure' = SinceFailure
  /\ IF Trips THEN state' = "open" /\ sinceOpened' = 0
              ELSE UNCHANGED <<state, sinceOpened>>
  /\ call' = [call EXCEPT ![c] = "idle"]
  /\ UNCHANGED <<success_count, half_open_calls>>

\* CancelledError is no Exception: no handler runs, the test slot stays taken.
Cancel(c) ==
  /\ MayCancel /\ call[c] # "idle"
  /\ call' = [call EXCEPT ![c] = "idle"]
  /\ UNCHANGED <<state, counters, since_failure, sinceOpened>>

Reset == Close /\ UNCHANGED <<since_failure, call, sinceOpened>>

Tick ==
  /\ since_failure < RecoveryTimeout \/ sinceOpened < RecoveryTimeout
  /\ since_failure' = IF since_failure < RecoveryTimeout THEN since_failure + 1 ELSE RecoveryTimeout
  /\ sinceOpened' = IF sinceOpened < RecoveryTimeout THEN sinceOpened + 1 ELSE RecoveryTimeout
  /\ UNCHANGED <<state, counters, call>>

Admit(c)  == AdmitClosed(c) \/ AdmitProbe(c) \/ AdmitFirstProbe(c)
Finish(c) == SucceedHalfOpen(c) \/ SucceedElse(c) \/ FailCall(c)

Next ==
  \/ ReadState \/ Reset \/ Tick
  \/ \E c \in Callers : Admit(c) \/ Finish(c) \/ Cancel(c)

Spec == Init /\ [][Next]_vars

\* Tasks keep calling, every call returns or raises, and time passes.  Nobody is
\* obliged to call reset() or to be cancelled.
Fairness ==
  /\ WF_vars(Tick)
  /\ \A c \in Callers : WF_vars(Admit(c)) /\ WF_vars(Finish(c))

FairSpec == Spec /\ Fairness
-----------------------------------------------------------------------------
TypeOK ==
  /\ state \in States
  /\ failure_count \in 0..FailureThreshold
  /\ success_count \in Nat /\ half_open_calls \in Nat
  /\ since_failure \in 0..RecoveryTimeout /\ sinceOpened \in 0..RecoveryTimeout
  /\ call \in [Callers -> {"idle", "plain", "probe"}]

\* However calls of earlier periods end, a half-open period never has more test
\* calls running than half_open_max_calls.
ProbeBudget ==
  state = "half_open" =>
    Cardinality(Probes) <= half_open_calls /\ half_open_calls <= HalfOpenMaxCalls

\* A closed circuit has seen fewer failures in a row than the threshold.
ClosedBelowThreshold == state = "closed" => failure_count < FailureThreshold

\* The time measured from the last failure, late ones included, is never longer
\* than the time since the circuit opened.
OpenAtLeastTimeout == state = "open" => since_failure <= sinceOpened

\* Every step is one the abstract breaker allows.
Abstract == INSTANCE BreakerSpec WITH gate <- state, busy <- Running
AbstractSpec == Abstract!Spec

\* Neither OPEN nor HALF_OPEN lasts for ever, except that cancelled test calls may have
\* used up every half-open slot.
SlotsUsedUp == Running = {} /\ half_open_calls = HalfOpenMaxCalls
Recovers ==
  /\ (state = "open") ~> (state # "open")
  /\ (state = "half_open") ~> (state # "half_open" \/ SlotsUsedUp)
-----------------------------------------------------------------------------
\* The module docstring: in HALF_OPEN "a limited number of test requests are allowed
\* through".  So a half-open circuit with no call running would admit one.
HalfOpenAdmits == state = "half_open" /\ Running = {} => MayProbe
=============================================================================
