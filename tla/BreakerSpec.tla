---------------------------- MODULE BreakerSpec ----------------------------
(***************************************************************************)
(* What a circuit breaker of this platform promises its callers, whatever  *)
(* its counters: a call is admitted while the gate is closed or half open; *)
(* an open gate admits nothing before RecoveryTimeout has passed since it  *)
(* opened; only a failure opens the gate and, apart from a manual reset,   *)
(* only a success seen half open closes it.  CircuitBreaker (shared/) and  *)
(* RedisBreaker (redis_pool.py) implement it.  It does not promise that a  *)
(* half-open gate admits few callers: CircuitBreaker has a limit of its    *)
(* own (ProbeBudget), RedisBreaker none, against its docstring.            *)
(***************************************************************************)
EXTENDS Integers

CONSTANTS Callers, RecoveryTimeout

VARIABLES
  gate,         \* "closed", "open" or "half_open"
  sinceOpened,  \* time since the gate last opened, saturating at RecoveryTimeout
  busy          \* callers whose admitted call is running

vars == <<gate, sinceOpened, busy>>

Init == gate = "closed" /\ sinceOpened = RecoveryTimeout /\ busy = {}

Recovered == gate = "open" /\ sinceOpened = RecoveryTimeout

\* The gate becomes half open lazily, when it is looked at.
HalfOpen ==
  /\ Recovered
  /\ gate' = "half_open"
  /\ UNCHANGED <<sinceOpened, busy>>

Admit(c) ==
  /\ c \notin busy
  /\ \/ gate # "open" /\ UNCHANGED gate
     \/ Recovered /\ gate' = "half_open"
  /\ busy' = busy \cup {c}
  /\ UNCHANGED sinceOpened

Succeed(c) ==
  /\ c \in busy
  /\ busy' = busy \ {c}
  /\ gate' = gate \/ (gate = "half_open" /\ gate' = "closed")
  /\ UNCHANGED sinceOpened

Fail(c) ==
  /\ c \in busy
  /\ busy' = busy \ {c}
  /\ \/ UNCHANGED <<gate, sinceOpened>>
     \/ gate' = "open" /\ sinceOpened' = 0

Abandon(c) ==
  /\ c \in busy
  /\ busy' = busy \ {c}
  /\ UNCHANGED <<gate, sinceOpened>>

Reset == gate' = "closed" /\ UNCHANGED <<sinceOpened, busy>>

Tick ==
  /\ sinceOpened < RecoveryTimeout
  /\ sinceOpened' = sinceOpened + 1
  /\ UNCHANGED <<gate, busy>>

Next ==
  \/ HalfOpen \/ Reset \/ Tick
  \/ \E c \in Callers : Admit(c) \/ Succeed(c) \/ Fail(c) \/ Abandon(c)

Spec == Init /\ [][Next]_vars
=============================================================================
