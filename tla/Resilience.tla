----------------------------- MODULE Resilience -----------------------------
(***************************************************************************)
(* What the in-process services promise whose tasks must not be left       *)
(* waiting: batch queue, webhook retries, audit log and usage meter, hot   *)
(* reload.  They share nothing; each is an instance with its constants.    *)
(***************************************************************************)
EXTENDS Integers, Sequences, FiniteSets

CONSTANTS
  Requests, MaxBatchSize, MaxQueueSize,                     \* BatchQueue
  Webhooks, Endpoints, Target, MaxRetries, HookThreshold, HookTimeout,
    DlqEnabled, MaxRounds,                                  \* WebhookRetry
  Entries, Critical, Malformed, BufferSize, MaxFaults,      \* BufferedLog
  Reloaders, MaxEdits, MaxReloads                           \* HotReload

VARIABLES
  req, queue, batch, ppc, turn, stop,
  registered, breaker, task, tries, dlq, outcome, rounds, received, late,
  calls, buffer, lock, waiting, loop, stopper, taken, stored, logged, faults,
  file, version, snapshot, holder, read, calling, watched, changed, edits, reloads, announced

B == INSTANCE BatchQueue
W == INSTANCE WebhookRetry WITH
       Events <- Webhooks, FailureThreshold <- HookThreshold, RecoveryTimeout <- HookTimeout
L == INSTANCE BufferedLog WITH
       Events <- Entries, call <- calls, holder <- lock, queue <- waiting, batch <- taken
H == INSTANCE HotReload WITH Threads <- Reloaders

BatchSizes == MaxBatchSize \in Nat \ {0} /\ MaxQueueSize \in Nat \ {0}
RetrySettings ==
  /\ Target \in [Webhooks -> Endpoints] /\ DlqEnabled \in BOOLEAN
  /\ MaxRetries \in Nat /\ HookThreshold \in Nat \ {0} /\ HookTimeout \in Nat
  /\ MaxRounds \in Nat
LogSettings == IsFiniteSet(Entries) /\ L!None \notin Entries /\ BufferSize \in Nat \ {0}
ReloadThreads == IsFiniteSet(Reloaders) /\ H!Nobody \notin Reloaders
ASSUME ResilienceAssumption == BatchSizes /\ RetrySettings /\ LogSettings /\ ReloadThreads
-----------------------------------------------------------------------------
\* batch queue: no request is forgotten or in two places, callers get an answer
PlacedOnce == B!PlacedOnce
Answering == B!Answering

\* webhook retry: each event is in one place, attempts are bounded, deliveries end
OnePlace == W!OnePlace
AttemptsBounded == W!AttemptsBounded
DeliveriesEnd == W!DeliveriesEnd

\* audit log and usage meter: losses are bounded by faults, the buffer drains
LossBound == L!LossBound
Drains == L!Drains

\* hot reload: every version is announced once, changes settle
AnnouncedOnce == H!AnnouncedOnce
Settles == H!Settles
=============================================================================
