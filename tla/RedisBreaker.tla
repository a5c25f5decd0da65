---------------------------- MODULE RedisBreaker ----------------------------
(***************************************************************************)
(* scoring/services/redis_pool.py: the CircuitBreaker around the commands  *)
(* of RedisPoolManager.  Admission and both handlers hold the same asyncio *)
(* lock, so each is one action, even where it awaits the logger.           *)
(* Unlike shared/circuit_breaker.py a half-open circuit has no limit on    *)
(* test calls, and entering HALF_OPEN leaves _failure_count alone: it is   *)
(* that count, still at the threshold, which makes one failed test reopen. *)
(* The module's docstring (line 6) says of HALF_OPEN that "one request is  *)
(* allowed through to test recovery"; call() lets every command through    *)
(* then, and so does Admit.  No property below claims the single request.  *)
(***************************************************************************)
EXTENDS Integers, FiniteSets

CONSTANTS
  Callers,            \* tasks issuing Redis commands
  FailureThreshold, SuccessThreshold, RecoveryTimeout

ASSUME RedisBreakerAssumption ==
  /\ IsFiniteSet(Callers)
  /\ FailureThreshold \in Nat \ {0} /\ SuccessThreshold \in Nat \ {0}
  /\ RecoveryTimeout \in Nat

VARIABLES
  state,            \* _state
  failure_count,    \* _failure_count, saturating at FailureThreshold
  success_count,    \* _success_count
  since_failure,    \* time since _last_failure_time, saturating at RecoveryTimeout
  running,          \* callers whose command is under way
  sinceOpened       \* history: time since the circuit last opened, saturating

vars == <<state, failure_count, success_count, since_failure, running, sinceOpened>>

Init ==
  /\ state = "closed"
  /\ failure_count = 0 /\ success_count = 0
  /\ since_failure = RecoveryTimeout /\ sinceOpened = RecoveryTimeout
  /\ running = {}

Due_Always == state = "open"
Due == state = "open" /\ since_failure >= RecoveryTimeout

\* call(), up to the await of the command; HALF_OPEN admits whoever comes
Admit(c) ==
  /\ c \notin running
  /\ \/ state # "open" /\ UNCHANGED <<state, success_count>>
     \/ Due /\ state' = "half_open" /\ success_count' = 0
  /\ running' = running \cup {c}
  /\ UNCHANGED <<failure_count, since_failure, sinceOpened>>

\* A refused call raises RedisError before the try, so it is not counted as a failure.
Reject(c) ==
  /\ c \notin running /\ state = "open" /\ ~Due
  /\ UNCHANGED vars

Done(c) == c \in running /\ running' = running \ {c}

\* _on_success
AfterClosing_Kept == failure_count
AfterClosing == 0

SucceedHalfOpen(c) ==
  /\ Done(c) /\ state = "half_open"
  /\ success_count' = success_count + 1
  /\ IF success_count' >= SuccessThreshold
     THEN state' = "closed" /\ failure_count' = AfterClosing
     ELSE UNCHANGED <<state, failure_count>>
  /\ UNCHANGED <<since_failure, sinceOpened>>

SucceedElse(c) ==
  /\ Done(c) /\ state # "half_open"
  /\ failure_count' = IF state = "closed" THEN 0 ELSE failure_count
  /\ UNCHANGED <<state, success_count, since_failure, sinceOpened>>

\* _on_failure: opening looks at the count only, in whatever state
CountFailure == IF failure_count < FailureThreshold THEN failure_count + 1 ELSE FailureThreshold
SinceFailure == 0

FailCall(c) ==
  /\ Done(c)
  /\ failure_count' = CountFailure
  /\ since_failure' = SinceFailure
  /\ IF failure_count' >= FailureThreshold /\ state # "open"
     THEN state' = "open" /\ sinceOpened' = 0
     ELSE UNCHANGED <<state, sinceOpened>>
  /\ UNCHANGED success_count

\* A cancelled command, or one that raises anything but a Redis error, meets no handler.
Abandon(c) ==
  /\ Done(c)
  /\ UNCHANGED <<state, failure_count, success_count, since_failure, sinceOpened>>

Tick ==
  /\ since_failure < RecoveryTimeout \/ sinceOpened < RecoveryTimeout
  /\ since_failure' = IF since_failure < RecoveryTimeout THEN since_failure + 1 ELSE RecoveryTimeout
  /\ sinceOpened' = IF sinceOpened < RecoveryTimeout THEN sinceOpened + 1 ELSE RecoveryTimeout
  /\ UNCHANGED <<state, failure_count, success_count, running>>

Finish(c) == SucceedHalfOpen(c) \/ SucceedElse(c) \/ FailCall(c)

Next == Tick \/ \E c \in Callers : Admit(c) \/ Reject(c) \/ Finish(c) \/ Abandon(c)

Spec == Init /\ [][Next]_vars
-----------------------------------------------------------------------------
TypeOK ==
  /\ state \in {"closed", "open", "half_open"}
  /\ failure_count \in 0..FailureThreshold
  /\ success_count \in 0..SuccessThreshold
  /\ state = "half_open" => success_count < SuccessThreshold
  /\ since_failure \in 0..RecoveryTimeout /\ sinceOpened \in 0..RecoveryTimeout
  /\ running \subseteq Callers

\* The count is at its threshold exactly while the circuit is not closed.  So one
\* failure in HALF_OPEN reopens it, and a closed circuit needs a full run of them.
CountTellsState == state = "closed" <=> failure_count < FailureThreshold

\* The timeout of an open circuit is measured from its latest failure, so a late
\* failure may lengthen the open period and nothing shortens it.
OpenAtLeastTimeout == state = "open" => since_failure <= sinceOpened

\* Every step is one the abstract breaker allows, which leaves open how many commands a
\* half-open circuit admits: here there is no limit, whatever the docstring says.
Abstract == INSTANCE BreakerSpec WITH gate <- state, busy <- running
AbstractSpec == Abstract!Spec
=============================================================================
