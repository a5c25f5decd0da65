---------------------------- MODULE WebhookRetry ----------------------------
(***************************************************************************)
(* scoring/services/webhook_retry.py: WebhookRetryService.  Each event is  *)
(* delivered by a task of its own, which shares the endpoint's circuit     *)
(* breaker and the dead-letter queue with all the others.  A task runs     *)
(* without interruption from one await (the HTTP request, the backoff      *)
(* sleep) to the next; retry_dead_letters empties the queue first and      *)
(* starts its tasks afterwards.                                            *)
(***************************************************************************)
EXTENDS Integers, Sequences, FiniteSets

CONSTANTS
  Events, Endpoints,
  Target,            \* the endpoint of each event
  MaxRetries, FailureThreshold, RecoveryTimeout, DlqEnabled,
  MaxRounds          \* bound: calls of retry_dead_letters

VARIABLES
  registered,   \* keys of _endpoints (and of _circuit_breakers)
  breaker,      \* CircuitBreaker of each endpoint; running tasks keep it after removal
  task,         \* per event: where its deliver() is
  tries,        \* attempts the present deliver() has begun
  dlq,          \* _dlq
  outcome,      \* status of the event's latest DeliveryRecord, or how it left the service
  rounds,       \* calls of retry_dead_letters so far
  received,     \* what the receiver saw: how often each event arrived
  late          \* history: attempts begun during the endpoint's present open period

vars == <<registered, breaker, task, tries, dlq, outcome, rounds, received, late>>

InFlight == {e \in Events : task[e] \in {"queued", "attempt", "backoff"}}
Copies(e) == Cardinality({i \in DOMAIN dlq : dlq[i] = e})
Outcomes == {"none", "delivered", "dead_lettered", "failed", "raised", "purged"}

Init ==
  /\ registered = Endpoints
  /\ breaker = [p \in Endpoints |-> [state |-> "closed", failures |-> 0, since |-> 0]]
  /\ task = [e \in Events |-> "new"] /\ tries = [e \in Events |-> 0]
  /\ dlq = <<>> /\ outcome = [e \in Events |-> "none"] /\ rounds = 0
  /\ received = [e \in Events |-> 0]
  /\ late = [e \in Events |-> 0]
-----------------------------------------------------------------------------
\* CircuitBreaker, as operators on one breaker b
Due(b) == b.state = "open" /\ b.since >= RecoveryTimeout

Allows_Always(b) == TRUE
Allows(b) == b.state # "open" \/ Due(b)
AfterAllow(b) == IF Due(b) THEN [b EXCEPT !.state = "half_open", !.since = 0] ELSE b

AfterSuccess(b) ==
  IF b.state = "half_open" THEN [state |-> "closed", failures |-> 0, since |-> 0]
                           ELSE [b EXCEPT !.failures = 0]

AfterFailure(b) ==
  LET n == IF b.failures < FailureThreshold THEN b.failures + 1 ELSE FailureThreshold
  IN  IF b.state = "half_open" \/ (b.state = "closed" /\ n >= FailureThreshold)
      THEN [state |-> "open", failures |-> n, since |-> 0]
      ELSE [b EXCEPT !.failures = n]

\* The history of an open period starts over when the circuit opens.
LateAfter(p, old, new) ==
  IF old.state # "open" /\ new.state = "open"
  THEN [e \in Events |-> IF Target[e] = p THEN 0 ELSE late[e]]
  ELSE late
-----------------------------------------------------------------------------
\* A client calls deliver() or deliver_batch().
Submit(e) ==
  /\ task[e] = "new"
  /\ task' = [task EXCEPT ![e] = "queued"]
  /\ UNCHANGED <<registered, breaker, tries, dlq, outcome, rounds, received, late>>

\* The end of deliver() for an event that did not get through: the record is
\* dead-lettered, or stays failed when there is no queue.
Requeued(e) == IF DlqEnabled THEN Append(dlq, e) ELSE dlq
GiveUp(e) ==
  /\ task' = [task EXCEPT ![e] = "done"]
  /\ dlq' = Requeued(e)
  /\ outcome' = [outcome EXCEPT ![e] = IF DlqEnabled THEN "dead_lettered" ELSE "failed"]
  /\ UNCHANGED tries

StartAttempt(e, b) ==
  /\ task' = [task EXCEPT ![e] = "attempt"]
  /\ late' = IF b.state = "open" THEN [late EXCEPT ![e] = @ + 1] ELSE late

\* deliver() up to its first await
BeginUnknown_Waits(e) == FALSE
BeginUnknown(e) ==
  /\ task[e] = "queued" /\ Target[e] \notin registered
  /\ task' = [task EXCEPT ![e] = "done"]
  /\ outcome' = [outcome EXCEPT ![e] = "raised"]
  /\ UNCHANGED <<registered, breaker, tries, dlq, rounds, received, late>>

BeginRefused(e) ==
  /\ task[e] = "queued" /\ Target[e] \in registered
  /\ ~Allows(breaker[Target[e]])
  /\ GiveUp(e)
  /\ UNCHANGED <<registered, breaker, rounds, received, late>>

BeginAllowed(e) ==
  LET b == AfterAllow(breaker[Target[e]]) IN
  /\ task[e] = "queued" /\ Target[e] \in registered
  /\ Allows(breaker[Target[e]])
  /\ breaker' = [breaker EXCEPT ![Target[e]] = b]
  /\ StartAttempt(e, b)
  /\ tries' = [tries EXCEPT ![e] = 1]
  /\ UNCHANGED <<registered, dlq, outcome, rounds, received>>

\* A 2xx answer
Succeed(e) ==
  /\ task[e] = "attempt"
  /\ breaker' = [breaker EXCEPT ![Target[e]] = AfterSuccess(@)]
  /\ received' = [received EXCEPT ![e] = @ + 1]
  /\ task' = [task EXCEPT ![e] = "done"]
  /\ outcome' = [outcome EXCEPT ![e] = "delivered"]
  /\ UNCHANGED <<registered, tries, dlq, rounds, late>>

\* Any other answer, a timeout or a connection error; the receiver may have got the
\* event all the same.  `retryable` is false for a status not worth retrying.
Exhausted(e) == tries[e] > MaxRetries

Fail(e, arrived, retryable) ==
  LET p == Target[e]
      b == AfterFailure(breaker[p])
      last == Exhausted(e) \/ ~retryable
  IN
  /\ task[e] = "attempt"
  /\ received' = IF arrived THEN [received EXCEPT ![e] = @ + 1] ELSE received
  /\ breaker' = [breaker EXCEPT ![p] = IF last THEN b ELSE AfterAllow(b)]
  /\ late' = LateAfter(p, breaker[p], b)
  /\ IF last \/ ~Allows(b)
     THEN GiveUp(e)
     ELSE /\ task' = [task EXCEPT ![e] = "backoff"]
          /\ UNCHANGED <<dlq, outcome, tries>>
  /\ UNCHANGED <<registered, rounds>>

\* asyncio.sleep(delay) ends; the circuit is not asked again before the attempt.
Wake(e) ==
  /\ task[e] = "backoff"
  /\ StartAttempt(e, breaker[Target[e]])
  /\ tries' = [tries EXCEPT ![e] = @ + 1]
  /\ UNCHANGED <<registered, breaker, dlq, outcome, rounds, received>>
-----------------------------------------------------------------------------
\* Drained_Kept retries the events and leaves them queued as well.
Drained_Kept == dlq
Drained == <<>>
RetryDeadLetters ==
  /\ dlq # <<>> /\ rounds < MaxRounds
  /\ task' = [e \in Events |-> IF Copies(e) > 0 THEN "queued" ELSE task[e]]
  /\ dlq' = Drained
  /\ rounds' = rounds + 1
  /\ UNCHANGED <<registered, breaker, tries, outcome, received, late>>

PurgeDeadLetters ==
  /\ dlq # <<>>
  /\ outcome' = [e \in Events |-> IF Copies(e) > 0 THEN "purged" ELSE outcome[e]]
  /\ dlq' = <<>>
  /\ UNCHANGED <<registered, breaker, task, tries, rounds, received, late>>

UnregisterEndpoint(p) ==
  /\ p \in registered
  /\ registered' = registered \ {p}
  /\ UNCHANGED <<breaker, task, tries, dlq, outcome, rounds, received, late>>

ResetCircuit(p) ==
  /\ p \in registered
  /\ breaker' = [breaker EXCEPT ![p] = [state |-> "closed", failures |-> 0, since |-> 0]]
  /\ UNCHANGED <<registered, task, tries, dlq, outcome, rounds, received, late>>

Tick ==
  /\ \E p \in Endpoints : breaker[p].since < RecoveryTimeout
  /\ breaker' = [p \in Endpoints |->
       [breaker[p] EXCEPT !.since = IF @ < RecoveryTimeout THEN @ + 1 ELSE @]]
  /\ UNCHANGED <<registered, task, tries, dlq, outcome, rounds, received, late>>

Deliver(e) ==
  \/ BeginUnknown(e) \/ BeginRefused(e) \/ BeginAllowed(e)
  \/ Succeed(e) \/ Wake(e)
  \/ \E arrived, retryable \in BOOLEAN : Fail(e, arrived, retryable)

Next ==
  \/ \E e \in Events : Submit(e) \/ Deliver(e)
  \/ \E p \in Endpoints : UnregisterEndpoint(p) \/ ResetCircuit(p)
  \/ RetryDeadLetters \/ PurgeDeadLetters \/ Tick

Spec == Init /\ [][Next]_vars

\* Requests answer or time out (timeout_seconds) and sleeps end.
FairSpec == Spec /\ \A e \in Events : WF_vars(Deliver(e))
-----------------------------------------------------------------------------
TypeOK ==
  /\ registered \subseteq Endpoints
  /\ breaker \in [Endpoints -> [state : {"closed", "open", "half_open"},
                                failures : 0..FailureThreshold, since : 0..RecoveryTimeout]]
  /\ task \in [Events -> {"new", "queued", "attempt", "backoff", "done"}]
  /\ tries \in [Events -> 0..MaxRetries + 1]
  /\ dlq \in Seq(Events) /\ outcome \in [Events -> Outcomes] /\ rounds \in 0..MaxRounds
  /\ received \in [Events -> Nat] /\ late \in [Events -> Nat]

\* An event handed to the service is in exactly one place: being delivered, once in
\* the dead-letter queue, or done with for a reason the caller was told; it has
\* begun at most one attempt more than the retries (TypeOK).
OnePlace == TypeOK /\ \A e \in Events :
  CASE task[e] = "new"   -> Copies(e) = 0
    [] e \in InFlight    -> Copies(e) = 0
    [] task[e] = "done"  -> Copies(e) = (IF outcome[e] = "dead_lettered" THEN 1 ELSE 0)

\* Delivered means received, and duplicates are bounded by the attempts that the
\* first delivery and each round over the dead letters may make.
DuplicateBound == \A e \in Events :
  /\ received[e] <= (MaxRetries + 1) * (rounds + 1)
  /\ outcome[e] = "delivered" => received[e] >= 1

\* An endpoint whose circuit is open gets at most one more attempt of each event:
\* the one that was already waiting in its backoff.
OneLateAttempt == \A e \in Events : late[e] <= 1

\* The receiver is asked as often as the retries and the breaker allow, and no more.
AttemptsBounded == DuplicateBound /\ OneLateAttempt

\* Every deliver() ends, whatever the receiver answers and whoever trips the circuit.
DeliveriesEnd == \A e \in Events : e \in InFlight ~> task[e] = "done"
=============================================================================
