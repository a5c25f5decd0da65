--------------------------- MODULE AlertService ---------------------------
(***************************************************************************)
(* One replica of the alert service (src/alert_service) reading its        *)
(* partition of the "alerts" topic: the consumer wrapper of                *)
(* shared/kafka_utils.py, AlertService._handle_message, the deduplicator   *)
(* and its cleanup task, the telegram/webhook retry loops, the e-mail      *)
(* digest with its flush task, the signal handler and the shutdown path.   *)
(* Several asyncio tasks interleave: the consume loop, one task per        *)
(* notification, the flush task, the cleanup task and the shutdown task.   *)
(* Kafka is external: its log, the committed offset, and auto-commit.      *)
(***************************************************************************)
EXTENDS Integers, FiniteSets, Sequences

CONSTANTS
  Users,           \* user ids
  Scores,          \* fraud scores in hundredths
  Pushers,         \* the enabled retrying notifiers, a subset of {"telegram", "webhook"}
  EmailEnabled,    \* email_enabled
  MaxRetries,      \* telegram_max_retries, webhook_max_retries
  Ttl,             \* dedup_ttl_seconds
  MaxMsgs,         \* bound: messages ever in the log
  MaxTime,         \* bound: clock
  MaxRuns,         \* bound: process starts
  None             \* absent value

ASSUME AlertServiceAssumption ==
  /\ Scores \subseteq 0..100
  /\ Pushers \subseteq {"telegram", "webhook"}
  /\ EmailEnabled \in BOOLEAN
  /\ MaxRetries \in Nat \ {0} /\ Ttl \in Nat \ {0}
  /\ MaxMsgs \in Nat /\ MaxTime \in Nat /\ MaxRuns \in Nat
  /\ None \notin Int

VARIABLES
  log,        \* the topic partition: an immutable sequence of messages
  committed,  \* offset committed by the consumer group (None before the first)
  position,   \* offset of the last message the iterator handed out
  leaving,    \* the signal task is in aiokafka's stop(), before its last commit
  proc,       \* life cycle of the process
  runs,       \* number of process starts
  now,        \* time.monotonic(), in ticks
  seen,       \* AlertDeduplicator._seen
  locked,     \* AlertDeduplicator._lock is held by the cleanup task
  hpc,        \* where the consume loop's handler is
  msg,        \* offset being handled
  captured,   \* `now` read by is_duplicate before it waits for the lock
  tries,      \* per pushing notifier: attempts left to its running task
  pending,    \* EmailNotifier._pending_alerts, as offsets
  batch,      \* the alerts a running _flush has taken out of _pending_alerts
  \* history, read by the properties only
  handled,    \* offsets whose handler returned
  skipped,    \* number of messages jumped over by auto_offset_reset = "latest"
  passed,     \* per dedup key: when this process last let an alert through
  got         \* per notifier and offset: notifications the remote end received

kafka   == <<log, committed, position, leaving>>
dedup   == <<seen, locked, passed>>
handler == <<hpc, msg, captured, tries>>
email   == <<pending, batch>>
vars    == <<kafka, proc, runs, now, dedup, handler, email, handled, skipped, got>>

Channels == {"telegram", "webhook", "email"}
Offsets  == 1..MaxMsgs

\* What the topic carries: payloads that validate as ScoredTransaction, and others.
Messages ==
  [valid : {TRUE}, user : Users, score : Scores] \cup [valid : {FALSE}]

\* BaseScorer.decide with the service's thresholds; is_flagged travels in the message.
Decide(score) ==
  IF score >= 80 THEN "BLOCK" ELSE IF score >= 50 THEN "REVIEW" ELSE "ALLOW"
IsFlagged(m) == Decide(m.score) # "ALLOW"

\* The alert type the service derives again from the score, and its severity.
AlertType(score) == IF score >= 90 THEN "BLOCK" ELSE "REVIEW"
Severity(score) ==
  IF score >= 95 THEN "critical"
  ELSE IF score >= 85 THEN "high" ELSE IF score >= 75 THEN "medium" ELSE "low"

Keys == Users \X {"BLOCK", "REVIEW"}
Key(m) == <<m.user, AlertType(m.score)>>

Up == proc \in {"running", "closing", "stopping"}
-----------------------------------------------------------------------------
(***************************************************************************)
(* Process start, and the consumer's position on start: the committed      *)
(* offset, or the end of the log when the group has none.                  *)
(***************************************************************************)
Init ==
  /\ log = <<>> /\ committed = None /\ position = 0 /\ leaving = FALSE
  /\ proc = "down" /\ runs = 0 /\ now = 0
  /\ seen = [k \in Keys |-> None] /\ locked = FALSE /\ passed = seen
  /\ hpc = "idle" /\ msg = None /\ captured = None
  /\ tries = [c \in Pushers |-> 0]
  /\ pending = {} /\ batch = {}
  /\ handled = {} /\ skipped = 0
  /\ got = [c \in Channels |-> [o \in Offsets |-> 0]]

\* Everything in memory is lost with the process.
Forget ==
  /\ seen' = [k \in Keys |-> None] /\ locked' = FALSE /\ passed' = seen'
  /\ hpc' = "idle" /\ msg' = None /\ captured' = None
  /\ tries' = [c \in Pushers |-> 0]
  /\ pending' = {} /\ batch' = {}
  /\ leaving' = FALSE

ResumeAt_Latest(c, end) == end
ResumeAt(c, end) == IF c = None THEN end ELSE c

Start ==
  /\ proc \in {"down", "stopped"} /\ runs < MaxRuns
  /\ proc' = "running" /\ runs' = runs + 1
  /\ position' = ResumeAt(committed, Len(log))
  /\ skipped' = IF committed = None THEN Len(log) ELSE skipped
  /\ Forget
  /\ UNCHANGED <<log, committed, now, handled, got>>

Crash ==
  /\ Up
  /\ proc' = "down"
  /\ Forget
  /\ UNCHANGED <<log, committed, position, runs, now, handled, skipped, got>>

Produce(m) ==
  /\ Len(log) < MaxMsgs
  /\ log' = Append(log, m)
  /\ UNCHANGED <<committed, position, leaving, proc, runs, now, dedup, handler, email, handled, skipped, got>>

Tick ==
  /\ now < MaxTime
  /\ now' = now + 1
  /\ UNCHANGED <<kafka, proc, runs, dedup, handler, email, handled, skipped, got>>

AutoCommit ==
  /\ proc = "running" /\ committed # position
  /\ committed' = position
  /\ UNCHANGED <<log, position, leaving, proc, runs, now, dedup, handler, email, handled, skipped, got>>
-----------------------------------------------------------------------------
(***************************************************************************)
(* KafkaConsumerWrapper.consume and AlertService._handle_message.          *)
(***************************************************************************)
\* A message that does not validate, or is not flagged, is finished at once.
Receive ==
  /\ proc = "running" /\ hpc = "idle" /\ position < Len(log)
  /\ position' = position + 1
  /\ LET m == log[position']
     IN  IF m.valid /\ IsFlagged(m)
         THEN /\ hpc' = "received" /\ msg' = position' /\ captured' = now
              /\ UNCHANGED <<tries, handled>>
         ELSE /\ handled' = handled \cup {position'}
              /\ UNCHANGED handler
  /\ UNCHANGED <<log, committed, leaving, proc, runs, now, dedup, email, skipped, got>>

SeenWithinTtl(last, t) == last # None /\ t - last < Ttl

Suppress ==
  /\ Up /\ hpc = "received" /\ ~locked
  /\ SeenWithinTtl(seen[Key(log[msg])], captured)
  /\ hpc' = "idle" /\ msg' = None /\ captured' = None
  /\ handled' = handled \cup {msg}
  /\ UNCHANGED <<kafka, proc, runs, now, dedup, tries, email, skipped, got>>

\* _seen is written before any notification is sent.
MarkSeen_Never(k, t) == seen
MarkSeen(k, t) == [seen EXCEPT ![k] = t]

\* for attempt in range(1, max_retries + 1)
Attempts == MaxRetries
AfterFailure(left) == left - 1

\* Telegram is skipped for LOW alerts; the webhook always gets a task.
Routed(c, m) == c # "telegram" \/ Severity(m.score) # "low"

Route ==
  /\ Up /\ hpc = "received" /\ ~locked
  /\ LET m == log[msg]
     IN  /\ ~SeenWithinTtl(seen[Key(m)], captured)
         /\ seen' = MarkSeen(Key(m), captured)
         /\ passed' = [passed EXCEPT ![Key(m)] = captured]
         /\ tries' = [c \in Pushers |-> IF Routed(c, m) THEN Attempts ELSE 0]
  /\ hpc' = "notifying"
  /\ UNCHANGED locked
  /\ pending' = IF EmailEnabled THEN pending \cup {msg} ELSE pending
  /\ UNCHANGED <<kafka, proc, runs, now, msg, captured, batch, handled, skipped, got>>

\* One POST of TelegramNotifier.send or WebhookNotifier.send.  A request can be
\* refused, or be received while its answer is lost: both are retried alike.
Attempt(c) ==
  /\ Up /\ hpc = "notifying" /\ tries[c] > 0
  /\ \E received, answered \in BOOLEAN :
       /\ answered => received
       /\ got' = IF received THEN [got EXCEPT ![c][msg] = @ + 1] ELSE got
       /\ tries' = [tries EXCEPT ![c] = IF answered THEN 0 ELSE AfterFailure(@)]
  /\ UNCHANGED <<kafka, proc, runs, now, dedup, hpc, msg, captured, email, handled, skipped>>

\* gather(return_exceptions=True) ends whatever the results were.
Gathered ==
  /\ Up /\ hpc = "notifying"
  /\ \A c \in Pushers : tries[c] = 0
  /\ hpc' = "idle" /\ msg' = None /\ captured' = None
  /\ handled' = handled \cup {msg}
  /\ UNCHANGED <<kafka, proc, runs, now, dedup, tries, email, skipped, got>>
-----------------------------------------------------------------------------
(***************************************************************************)
(* Background tasks: AlertDeduplicator._cleanup and EmailNotifier._flush.  *)
(***************************************************************************)
Expired(last, t) == last # None /\ t - last >= Ttl

\* The cleanup holds the lock while it logs what it removed.  It cannot come between
\* the clock read of is_duplicate and its turn on the lock: a free lock is taken
\* without yielding and waiters are served in order.
Cleanup ==
  /\ proc \in {"running", "closing"} /\ ~locked /\ hpc # "received"
  /\ \E k \in Keys : Expired(seen[k], now)
  /\ seen' = [k \in Keys |-> IF Expired(seen[k], now) THEN None ELSE seen[k]]
  /\ locked' = TRUE
  /\ UNCHANGED <<kafka, proc, runs, now, passed, handler, email, handled, skipped, got>>

CleanupEnd ==
  /\ Up /\ locked
  /\ locked' = FALSE
  /\ UNCHANGED <<kafka, proc, runs, now, seen, passed, handler, email, handled, skipped, got>>

\* The batch is taken under the lock.
TakeBatch == batch' = pending /\ pending' = {}

FlushBegin ==
  /\ proc \in {"running", "closing"} /\ batch = {} /\ pending # {}
  /\ TakeBatch
  /\ UNCHANGED <<kafka, proc, runs, now, dedup, handler, handled, skipped, got>>

\* The digest reaches the mail server or the send fails; it is not sent again.
FlushEnd ==
  /\ Up /\ batch # {}
  /\ \/ got' = [got EXCEPT !["email"] =
                  [o \in Offsets |-> IF o \in batch THEN @[o] + 1 ELSE @[o]]]
     \/ UNCHANGED got
  /\ batch' = {}
  /\ UNCHANGED <<kafka, proc, runs, now, dedup, handler, pending, handled, skipped>>
-----------------------------------------------------------------------------
(***************************************************************************)
(* Shutdown: the signal task closes the consumer, the consume loop ends    *)
(* when its handler is idle, and run()'s finally stops the rest.           *)
(***************************************************************************)
\* KafkaConsumerWrapper.stop() clears _running and awaits aiokafka's stop().
Signal ==
  /\ proc = "running"
  /\ proc' = "closing" /\ leaving' = TRUE
  /\ UNCHANGED <<log, committed, position, runs, now, dedup, handler, email, handled, skipped, got>>

\* aiokafka's stop() commits the position once more when auto-commit is on.  The consume
\* loop and run()'s finally go on beside it; run()'s own stop() finds the consumer closed.
CloseConsumer ==
  /\ leaving
  /\ committed' = position /\ leaving' = FALSE
  /\ UNCHANGED <<log, position, proc, runs, now, dedup, handler, email, handled, skipped, got>>

LoopMayEnd_Drained == hpc = "idle" /\ pending = {}
LoopMayEnd == hpc = "idle"

\* email.stop() cancels the flush task, even while it is sending.
BeginStop ==
  /\ proc' = "stopping"
  /\ TakeBatch
  /\ UNCHANGED <<log, leaving, runs, now, dedup, handler, handled, skipped, got>>

\* The iterator stops, or yields one more message, before the last commit or after it,
\* that consume() drops because _running is already false.
LoopEnd ==
  /\ proc = "closing" /\ LoopMayEnd
  /\ position' \in {position} \cup (IF position < Len(log) THEN {position + 1} ELSE {})
  /\ UNCHANGED committed
  /\ BeginStop

\* A KafkaError ends consume(); run() logs it and stops the service itself.
ConsumerError ==
  /\ proc = "running" /\ hpc = "idle"
  /\ committed' \in {committed, position}
  /\ UNCHANGED position
  /\ BeginStop

\* The end of run() ends the process: a last commit still under way is cut off.
Stopped ==
  /\ proc = "stopping" /\ batch = {}
  /\ proc' = "stopped" /\ leaving' = FALSE
  /\ UNCHANGED <<log, committed, position, runs, now, dedup, handler, email, handled, skipped, got>>
-----------------------------------------------------------------------------
Handler == Receive \/ Suppress \/ Route \/ (\E c \in Pushers : Attempt(c)) \/ Gathered
Mailer  == FlushBegin \/ FlushEnd
Shutdown == Signal \/ CloseConsumer \/ LoopEnd \/ ConsumerError \/ Stopped

Next ==
  \/ Start \/ Crash \/ Tick \/ AutoCommit
  \/ \E m \in Messages : Produce(m)
  \/ Handler \/ Cleanup \/ CleanupEnd \/ Mailer \/ Shutdown

Spec == Init /\ [][Next]_vars

(***************************************************************************)
(* The event loop runs every task that is ready: an HTTP call or a mail    *)
(* session returns or times out, and once asked to stop the service goes   *)
(* through its shutdown.  Nothing obliges Kafka, the signal or the clock.  *)
(***************************************************************************)
Fairness ==
  /\ WF_vars(Suppress) /\ WF_vars(Route) /\ WF_vars(Gathered)
  /\ \A c \in Pushers : WF_vars(Attempt(c))
  /\ WF_vars(CleanupEnd) /\ WF_vars(FlushEnd) /\ WF_vars(LoopEnd) /\ WF_vars(Stopped)

FairSpec == Spec /\ Fairness
-----------------------------------------------------------------------------
TypeOK ==
  /\ log \in Seq(Messages) /\ Len(log) <= MaxMsgs
  /\ committed \in Offsets \cup {0, None} /\ position \in Offsets \cup {0}
  /\ leaving \in BOOLEAN /\ proc \in {"down", "running", "closing", "stopping", "stopped"}
  /\ runs \in 0..MaxRuns /\ now \in 0..MaxTime
  /\ seen \in [Keys -> 0..MaxTime \cup {None}] /\ locked \in BOOLEAN
  /\ hpc \in {"idle", "received", "notifying"}
  /\ msg \in Offsets \cup {None} /\ captured \in 0..MaxTime \cup {None}
  /\ tries \in [Pushers -> 0..MaxRetries]
  /\ pending \subseteq Offsets /\ batch \subseteq Offsets
  /\ handled \subseteq Offsets /\ skipped \in 0..MaxMsgs

Routing == hpc = "received" /\ hpc' = "notifying"

\* Two alerts of one user and type that a process lets through are at least the
\* TTL apart, whatever the cleanup task removed from _seen in between.
DedupWindow ==
  [][Routing => LET last == passed[Key(log[msg])]
                IN  last = None \/ captured - last >= Ttl]_vars

\* Besides those skipped by a start without a committed offset, each end of a process
\* (crash or shutdown) loses at most one message.
Lost == IF committed = None THEN {} ELSE ((1..committed) \ handled) \ {msg}
Ends == IF proc \in {"running", "closing"} THEN runs - 1 ELSE runs
LossBound == Cardinality(Lost) <= Ends + skipped

\* A retrying notifier sends at most MaxRetries requests for a message in each
\* process that handles it, although a lost answer makes it send again.
DeliveryBound == \A c \in Pushers, o \in Offsets : got[c][o] <= MaxRetries * runs

\* What auto-commit, the "latest" reset, crashes and lost answers may cost: few messages
\* are never handled, few notifications arrive twice.  Every state is well-formed (TypeOK).
NearlyOnce == TypeOK /\ LossBound /\ DeliveryBound

\* Once the consumer is being closed the process reaches its end; if it does not crash
\* before, no handler is in flight then and no e-mail is in the buffer or in a flush.
CleanlyStopped == proc = "stopped" /\ hpc = "idle" /\ pending = {} /\ batch = {}
ShutdownEnds ==
  (proc \in {"closing", "stopping"}) ~> (CleanlyStopped \/ proc = "down")
=============================================================================
