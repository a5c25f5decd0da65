# Verification of the fraud detection platform

TLA+ models of the parts of this repository where tasks, replicas, messages and
clocks meet, their model-checking runs, and proofs about the most important of
them. Everything is translated from the Python code; paths below are relative to
the root of the repository. `PROJECT.json` maps each definition to the lines it
stands for.

    tlc -workers 2 -config Alerting_replicas.cfg MCAlerting     # a run
    tlapm AlertPathProofs.tla                                   # a proof

## 1. The system

    simulator --raw_txn--> scoring (3 replicas) --scored, alerts--> alert service (2) --> people
                  |            ^ features (Redis)
                  +--raw_txn--> streaming (2) --> Redis features and windows, enriched topic

The services talk only through Kafka topics and Redis. Each is one asyncio process
per replica, so within a process interleaving happens at `await` only; between
replicas everything interleaves. Offsets are committed in the background
(`enable_auto_commit`), so delivery is neither at least nor at most once.

### Components, state, operations, properties

| Component | State it keeps | Operations | What is hard | What makes it correct |
|---|---|---|---|---|
| Alert service (`alert_service/`) | `_seen` (dedup), digest buffer, consumer position | handle a message, clean up, flush, stop | cleanup beside a stale clock read, retries with lost answers, cancellation of the flush, commit beside the handler | window between two alerts; bounded loss and duplication; a stop that ends and leaves nothing |
| Scoring consumer (`scoring/consumer.py`, `scoring/main.py`) | consume task, producer and consumer wrappers | start, handle a transaction, shut down | two sends that fail separately, cancellation, a dead task, missing Kafka | an alert has its record; bounded loss and duplication |
| Path scoring to alerts | the `alerts` topic, one memory per alert replica | publish, mark as seen, send, commit, crash, stop, rebalance | two schemas, two keys, memory that does not move, a mark before a send that may reach nobody, commits beside the handler | no alert is lost without one of four causes; only recent repeats are suppressed |
| Streaming and online features (`streaming/`, `feature_store/online_store.py`) | windows and features in Redis, offsets | record, aggregate, update, publish | non-transactional pipelines of two replicas, replays, late timestamps | exact aggregates, bounded counts, no stale average |
| Shared circuit breaker (`shared/circuit_breaker.py`) | state, three counters, last failure | call, read state, reset | outcomes that arrive in another period, cancellation | half-open budget, threshold, open timeout, recovery |
| Redis breaker (`scoring/services/redis_pool.py`) | state, counters, last failure | call | overlapping commands, no half-open branch | the count decides the state, open timeout, recovery |
| Webhook retry (`scoring/services/webhook_retry.py`) | endpoints, their breakers, dead letters | deliver, retry and purge dead letters, remove, reset | a breaker asked before a sleep, a drained queue, timeouts | an event is in one place, bounded duplicates, every delivery ends |
| Batch queue (`scoring/services/batch_queue.py`) | queue, batch, futures | score, collect, dispatch, stop | cancellation at every await, full queue, partial failure | a waiting request is never forgotten or passed over |
| Audit logger, usage meter (`scoring/services/audit_logger.py`, `usage_meter.py`) | a buffer, a lock, a flush task | log, flush, stop | the lock is not reentrant, batches that fail, callers that are cancelled | losses bounded by faults; the buffer drains |
| Event store (`event_store.py`) | live events, archive, versions, subscribers; a projection's progress | append, append a batch, compact, apply, rebuild | racing versions, rebuild beside dispatch, compaction before a replay | one append-only log per aggregate; the projection goes through what was stored |
| Alert routing (`alert_routing.py`) | rules, suppression store, escalation levels | route, add and remove rules, maintain, escalate, acknowledge | clock read before the lock, eviction, ties between rules, a level read and advanced separately | suppression by exactly the window; levels repeated and skipped at most once per racing thread |
| Case workflow (`case_workflow.py`) | cases, analysts | create, move, assign automatically or by hand, register, remove | limits against reopening, manual assignment and new limits | load over the limit only by manual assignment and reopening |
| Graph analysis (`graph_analysis.py`) | the graph, three caches, one dirty flag | add, clear, compute in an executor thread | a result that is older than the graph clears the flag | a cached PageRank misses only what raced with a computation |
| Hot reload (`shared/hot_reload.py`) | snapshot and version, a watcher thread | reload, watch, announce | two files read one after the other, callbacks outside the lock, failing reloads | each version announced once; changes settle |
| Data lake archiver (`data_lake/archiver/main.py`) | buffer, Delta version, a flush task, executor threads | handle, flush, upload, log, stop | commits beside an unwritten buffer, a flush task that dies, two flushes at once | what the group has passed is in the bucket but for named losses |
| Feature cache (`feature_cache.py`) | a local level per replica, Redis | get, set, invalidate, warm | ages of two levels, invalidation by another replica | what Redis has let go of is served for a short while only |
| Rate limiter (`redis_rate_limiter.py`) | a sorted set per key | check | clocks read before the script, failing open | a window holds at most `max_requests`, twice that where calls overtook one another |
| Dashboard sockets (`websocket_hub.py`) | connections, Pub/Sub listener | connect, publish, broadcast, listen | local fallback beside the channel, a listener that ends | what the listener sends a client is a segment of the channel, no gaps and no repeats |
| Shadow mode and canaries (`shadow_mode.py`) | registry of shadow scorers, registry of canaries with a deque of samples each, a lock for either | start, stop, score, record, evaluate | two locks taken one after the other, a result filed by name after its scorer was replaced | a canary is measured by its own scorer, but for scorings under way at its start |
| Experiments (`model_experimentation.py`) | status, counters per variant, results, winner | start, record, test, conclude | counters read outside the lock, several threads that conclude | an experiment that is conclusive does not run on |
| YAML rule engine (`scoring/models/yaml_rules_v2.py`) | rule set, hash of the file, a watcher thread | load, reload, change in memory, watch | the file is read, compared and published under separate holds of the lock | a watched file ends up in force |
| The rest | | | | see section 8 and `PROJECT.json` |

The interactions modelled are: `ScoringConsumer` and `AlertService` are the two ends of
the `alerts` topic in detail, and `AlertPath` composes them at a coarser grain: a publication is a step,
a handler run is two or more, since it marks its key before it sends.
`CircuitBreaker` and `RedisBreaker` implement one abstract specification, `BreakerSpec`.
`WebhookRetry` holds a third breaker, which implements something weaker (section 7) and
is therefore modelled with its clients. `FeaturePipeline` composes the stream handler
with the two Redis stores it writes. The other services above do not call one another:
routes and background tasks call each of them, and each is modelled with its callers.

## 2. Modules

| Module | Models | Notes |
|---|---|---|
| `AlertService`, `MCAlertService` | one alert service replica | consume loop, notifier tasks, flush task, cleanup task and shutdown task interleave; an action is what a task does between two awaits |
| `ScoringConsumer`, `MCScoringConsumer` | one scoring replica on its Kafka side | `hpc` is where `handle_message` is; a send is one attempt that can be written and fail all the same |
| `AlertPath` | scoring, the `alerts` topic, the alert replicas | messages carry their schema, their dedup key and `is_flagged`; a handler is a member of `sending` from the mark in `_seen` to the end of `gather`; `read` and `stored` are a partition's position and committed offset |
| `MCAlerting` | `ScoringConsumer` and `AlertPath`, one of them at a time | see below |
| `FeaturePipeline`, `MCFeaturePipeline` | the streaming replicas and their Redis keys | one action per Redis command, because `transaction=False` lets them interleave |
| `BreakerSpec` | what a breaker promises | admission, opening, closing, with the counters abstracted away |
| `CircuitBreaker`, `RedisBreaker` | the two breakers | `_on_success` and `_on_failure` run without an await and are one action each |
| `WebhookRetry` | deliveries of several events that share a breaker and the dead letters | an action is what `deliver` does from one await to the next |
| `BatchQueue` | callers and the processor task | the same granularity |
| `BufferedLog` | the audit logger and the usage meter, which differ in what they buffer only | the lock and its queue of waiters are state, since the deadlock is about them |
| `EventLog` | an append-only log per aggregate: each version is written once and kept | the abstract specification of the event store |
| `EventStore` | the store with its writers, and one projection that subscribes and is rebuilt | an append with its fan-out is one action: nothing is awaited in between |
| `AlertRouting`, `MCAlertRouting` | rules, and the suppression store called from several threads | the default rules are those of the code, windows in minutes |
| `Escalation` | the ladder against acknowledgements | a step per hold of the lock |
| `CaseWorkflow` | cases and analysts | every operation is one action under the engine's lock |
| `GraphCache` | caches and the threads that fill them | a result is the set of transactions it is based on |
| `HotReload` | editor of the two files, reloading threads, watcher | real threads: a step per file read, per publication, per callback |
| `Archiver` | consume loop, periodic flush and stop with their executor threads | `_write_parquet` is upload, entry and count |
| `FeatureCache` | tasks in two replicas over one Redis | a step per Redis command |
| `SlidingWindow` | callers of the limiter | the script is one action, the clock reading another |
| `WebSocketHub` | clients, hub replicas, the channel | a broadcast goes on send by send |
| `Canary` | threads that start, stop, score and evaluate under one model name | a step per hold of either lock; a scorer is the number of its start |
| `Experiments` | threads that record outcomes of one experiment, test and conclude | a step per comparison; the z-test and the precision are those of the code, in integers |
| `RuleEngine` | threads that load, reload and change rules, the editor of the file, the watcher | a step per read of the file and per hold of the lock |
| `Resilience`, `SharedState` | the services of one process whose tasks must not be left waiting, and those whose state threads or replicas share | an instance of each service with its constants, what is assumed of these, and the properties |
| `MCResilience`, `MCServices` | the same, one service at a time | see below |
| `AlertPathProofs`, `AlertServiceProofs`, `ScoringConsumerProofs`, `FeaturePipelineProofs`, `CircuitBreakerProofs`, `ResilienceProofs`, `SharedStateProofs`, `ReplicaProofs` | theorems | section 6 |

`MCResilience` and `MCServices` check services that share nothing in one run. Their variable
`service` (`part` in `MCAlerting`, for the scoring consumer and the alert path) is chosen in the initial state and a behaviour is a behaviour of that service, the
others staying in their initial states: the state space is the sum of those of the services,
not their product, and each property holds or fails exactly as it would by itself. Every
service has constants of its own, renamed in `Resilience` and `SharedState` where two share a
name, and their values are in the cfg. `MCResilience` collects the services with liveness
properties and their fairness, `MCServices` those with safety properties alone.

State corresponds to the code by name where possible: `seen` is `AlertDeduplicator._seen`,
`pending` is `EmailNotifier._pending_alerts`, `dlq` is `WebhookRetryService._dlq`,
`stats.avg` is the hash field `avg`, and so on; the comment at each VARIABLE says which.
Variables marked *history* exist for the properties only and guard no action.
An operator with a suffix (`MarkSeen_Never`, `HashOf_Now`) is a plausible bug
in the operator it is named after: putting it in that operator's place makes a
property fail, which shows the property is about the code.

Abstractions worth knowing:

- Kafka is a sequence per partition, a committed offset and a position. A failed send may
  or may not have been written. Rebalances may or may not commit first.
- Time is a counter. In the breakers and in `WebhookRetry` it is the time since an event,
  saturating at the timeout, so those models need no bound on time.
- In `CircuitBreaker` and `RedisBreaker` the failure count saturates at its threshold: the
  code compares it with the threshold only.
- In `FeaturePipeline` all Redis keys belong to one user, since every key carries the user
  id; the message key does too, so all messages are in one partition. `avg` is kept
  as the pair of sum and count it was computed from. `sq_sum` moves with `sum`; geo, device
  and merchant keys and key expiry are left out. A command not executed when its connection
  breaks is never executed.
- Alert routing, escalation and the case workflow are called from the event loop today, where
  their methods run without an await. Their locks and docstrings promise more, thread safety,
  and the models hold them to that: a step of another thread between two holds of a lock.
  The same goes for canaries and experiments. The threads of hot reload, the rule engine's
  watcher, graph analysis and the archiver are those the code starts.
- `Canary` has no clock: the window of an evaluation may be any part of the samples.
  `Experiments` reads the counters of one comparison in one step, although the code reads them
  one by one without the lock, and compares precision only, the default metric. In `RuleEngine`
  a poll of the watcher reads the file and compares hashes in one step; a poll that decided on
  an older reading is followed by another. Its callbacks and statistics are left out.
- `GraphCache` keeps what a result is based on, not the ranks; `HotReload` keeps the values of
  two files and which combinations validate; `Archiver` keeps message numbers, and the
  versions of the log.
- The scoring function is a choice among scores: features are read from Redis or defaulted,
  so the score of a message is not a function of the message.

## 3. Runs

| Run | Shows | Bounds, and why they are enough |
|---|---|---|
| `AlertService_replica` | `NearlyOnce`: each end of a process, a crash or a stop, loses at most one message, the one in flight or the one dropped after `stop()` whose position the last commit takes along, plus those jumped over by a start without a committed offset (`LossBound`), and there are at most `MaxRetries` requests per message and process (`DeliveryBound`). `DedupWindow`: two alerts let through under one key are `Ttl` apart although the cleanup task removes entries beside a stale clock read. `ShutdownEnds`. | Two messages, two process starts, time to 2 with a window of 2, scores 40, 55 and 82 (allowed, flagged and low, flagged and medium). Loss and replay need one crash and one restart; the cleanup race needs one entry that expires. |
| `Alerting_replicas`: consumer | `AlertBacked`: no alert without its scored record. `NearlyOnce`: bounds on the transactions that are moved past (`LossBound`, where a record without the alert it calls for counts as lost) and published again (`DuplicateBound`). `ShutdownEnds`, also with a producer that never started. | Two transactions, two attempts per send, two process starts. |
| path | `HandledIsNotified`: an alert behind the position was notified of under its key or is being sent, or it is a loss of one of four kinds: a send for its key reached nobody, a crash cut its handler off, a shutdown dropped it, a start without a committed offset jumped over it. `SuppressedIsRecent`: an alert is suppressed only within `Ttl` of a notification, or of an alert the same process let through and told nobody of. `AllHandled`: neither a message that does not validate nor a send that fails holds up a partition. | Two partitions, two replicas (the deployed number), two messages under one key, of either schema and flagged or not, one notifier, one crash, stop or rebalance, window 2, time to 2. The first of two alerts is marked and told or not, the process or the owner changes, the second is suppressed, sent or lost: each kind of loss needs one message and one move, each suppression two messages. Which replica owns the first partition at first is fixed, the replicas being symmetric. |
| `FeaturePipeline_stream` | `AggregatesExact`: what is read back holds nothing outside the window or twice, and all that is within, unless a newer transaction has pruned it. `CountBound`: the count misses no stored transaction and repeats one only for a replayed message. `AverageSettles`: with no update half-way the average is that of sum and count, for overlapping updates of two replicas. `EnrichedBacked`. | Two replicas, two messages, one rebalance or crash (so a message is handled by both replicas at once), windows of 1 and 2, and three transactions: two of equal time and amount, one exactly a window later. Replicas are symmetric; no liveness is checked in this run. |
| `Services_resilience`: breaker | `ProbeBudget` with outcomes of earlier periods. `AbstractSpec`: every step is one of `BreakerSpec`, so an open period is never cut short and only failures open. `Recovers`: neither OPEN nor HALF_OPEN lasts, unless cancelled calls have used up the slots. | Three tasks, thresholds and budget 2: two test calls and a call from before. No bound on time or length. |
| webhook | `OnePlace`: an event is in flight, or once among the dead letters, or done for a reason its caller was told. `AttemptsBounded`: an endpoint gets an event a bounded number of times (`DuplicateBound`), and an open circuit lets through at most the one attempt of each event already in its backoff (`OneLateAttempt`). `DeliveriesEnd`, also when the endpoint is removed. | Two events on one endpoint (they meet in its breaker), one retry, threshold 2, one round over the dead letters. |
| batch | `PlacedOnce`: a waiting request is in the queue or in the batch, once. `Answering`: a request that asks for a place is answered or refused, unless its caller leaves, `stop()` is called or the processor has ended. | Three callers, batches of two, a queue of one: a full batch, a full queue and a caller that waits for room. |
| log | `LossBound`: each fault costs at most a buffer that is not full and the events of cancelled callers, which can overfill it. `Drains`: buffered events leave the buffer unless a caller waits for its own lock. | A critical, a malformed and two plain events, buffer of 2, two faults. |
| config | `AnnouncedOnce`: callbacks hear of each version once, in whatever order. `Settles`: a change the watcher was told of ends in a snapshot of the files as they are, unless they are not valid, the watcher is stopped, or an override appeared that is not watched. | One calling thread beside the watcher, three edits of two files, two reloads. |
| rules | `RulesSettle`: while the file is watched the rules come to be those of the file, even if another thread publishes an older content over a newer one; changes in memory last until the next reload. | Two threads and the watcher, two rule sets, a file that does not parse and a missing one, two edits, three calls: one thread can be overtaken by another between its read and its publication. |
| `Services_state`: redis | `CountTellsState`: the count is at its threshold exactly while the circuit is not closed, which is what reopens it after one half-open failure. `AbstractSpec`. | Three callers, threshold 3, two successes to close, timeout 3. |
| events | `ProjectionFollows`: until a rebuild the projection has been given the dispatched events, once and in order; after one it misses only what was compacted away or never dispatched, and may have been given an event twice. `LogSpec`: the store implements `EventLog`. | One aggregate (aggregates share the lock only), two racing writers, two versions, two timestamps, and a read limit of 1 for the code's 10,000, so that a read that misses the latest version happens. |
| routing | `SuppressionExact`: an alert is suppressed only if one with its fingerprint was let through less than its window before, and one that is let through all the same has a window that exceeds, with the time a call may be stalled, the 60 minutes after which entries are evicted. | Two threads, three alerts, of which two share a fingerprint and match rules with different windows (10 or the custom 60 minutes, and 0); the third has a window of 5. Stalls of up to 5, times 0, 57 and 62: within the custom window, exactly at the window of 5, and past the eviction for a call that read the clock before, three decisions. |
| escalation | `LadderFollowed`: between acknowledgements a level fires at most once per racing thread (`FewRepeats`), and the position is at most that many levels past the last that fired (`FewSkips`). The docstring promises more: see `Escalation_finding_skip`. | Two threads, one alert, six calls over the ladder of four levels, so the position can pass its end. |
| archiver | `NothingElseLost`: messages behind the committed offset are in the bucket but for those in memory at a crash, in a failed upload, left by a dead flush task, or dropped after the signal, one for each process at most. | Three messages, buffer of 2, two process starts, one failure. |
| cases | `LoadBound`: an analyst is over the highest registered limit by the manual assignments and reopenings at most. | Two analysts, two cases, limits 1 and 2, one unusual operation. |
| graph | `PagerankCovers`: a PageRank served from the cache misses only transactions added during a computation. | Two transactions, two callers. |
| cache | `ServedBriefly`: a value that Redis has dropped, replaced or never got is served by a local level for that level's age at most, plus the time of a read under way. | Two replicas, ages 1 and 2, two writes, time to 3. |
| window | `WindowBound`: the window ending at an admitted request holds at most the limit, although callers overtake one another between clock and script; for a request that was itself overtaken, at most twice the limit, provided that requests reach Redis within half a window. | Two callers, limit 2, window 4, delays up to 2 (half a window), five requests (one more than twice the limit), two random members so that requests of one time may collide. |
| hub | `NoGaps`: what a client gets from the listener is a contiguous part of the channel, in order, whoever connects or fails meanwhile; beside it come, once each, events whose publisher got an error. | One client, three events, one failure. What a client receives is kept per sender, the listener or a publisher. |
| canary | `MeasuredByItsOwn`: between starts and stops that did not overlap the scorer that runs is the canary's, and its samples hold an earlier scorer's only from scorings under way when its own came. | Three threads, two starts, two scorings, `min_samples` 2: one thread scores while two others start and stop. The deque has room for ten times `min_samples` and is never full within these bounds; the theorem covers one that is. |
| experiment | `ConcludedInTime`: once the threads are done, an experiment with an outcome since its start does not run on although each of its comparisons is significant. | Two threads, a control and a treatment, two samples per variant, four outcomes: 2 of 2 against 0 of 2 is significant in the code's test. |

Seven runs end in a counterexample, because the code does not do what a comment, docstring or
document says of it:

| Run | What it shows |
|---|---|
| `AlertPath_finding_schema` | scoring publishes `AlertEvent` to `alerts`, the alert service validates `ScoredTransaction`: every alert is dropped as invalid. `Alerting_replicas` therefore publishes both schemas: what the service would do with the messages its docstring and tests describe, next to those it gets. |
| `ScoringConsumer_finding_await` | `handle_message` does not await the async `score` of the `EnsembleScorer` it is given, so each valid transaction ends as a counted error. `Alerting_replicas` has the consumer with a scorer whose `score` returns a result, as in the tests. |
| `CircuitBreaker_finding_stuck` | cancelled test calls keep their half-open slots for good |
| `BufferedLog_finding_stop` | the call that fills the buffer waits for the lock it holds, and `stop()` ("Flush remaining buffer and stop.") for it |
| `AlertRouting_finding_sanctions` | a score of 0.95 on a sanctioned entity matches two rules of priority 1; `min` takes the window of the first, so the alert that is to be immediate is suppressed |
| `Escalation_finding_skip` | two threads that escalate one alert at once both fire `L1` and advance the position twice: `L2` never fires, although the class calls itself thread-safe (line 361) and `escalate` says that each call fires the next step and advances by one level (lines 590-592) |
| `Archiver_finding_log` | two writers of one Delta log version, in a process or after a restart, overwrite each other's entry |

`CHECK_DEADLOCK FALSE` is set where bounds on messages, time, calls or process starts let the
model stop, which is every run except the one of the stuck breaker.

Between them the passing runs take every action of every module, including every failure
branch. The largest state space is that of `Services_state` with about 944,000 states.

## 4. Fairness

- `AlertService`: the event loop runs each ready task, an HTTP call or mail session returns
  or times out, and a begun shutdown goes on. The signal, Kafka and the clock owe nothing.
- `ScoringConsumer`: the handler runs while it can (Redis and sends answer or time out) and
  a begun shutdown goes on.
- `AlertPath`: each partition's owner handles its messages while it is not busy with another, and
  a send ends, since its attempts are counted and time out. Nothing makes a request arrive, a
  process restart or an offset be committed.
- `CircuitBreaker`: time passes, each task keeps calling, calls return
  or raise. Weak fairness is per task for admission and for the end of a call,
  never for one outcome: no call is obliged to succeed, none to be cancelled.
- `WebhookRetry`: each `deliver` goes on, since requests time out and sleeps end.
- `BatchQueue`: the processor runs when it can, and a wait for a full queue ends within its
  five seconds.
- `BufferedLog`: tasks that are ready run, the flush loop wakes, a write that has begun ends
  or raises. A caller need not log, or be cancelled.
- `HotReload`: a reload that has begun goes on and the watcher takes up changes it was told of.
- `RuleEngine`: a thread in a reload goes on and the watcher polls. Nobody has to edit the file,
  call the engine or stop the watcher.
- The services of `MCServices` state no fairness: their properties are about what may not happen.

## 5. What the properties are for

`PROJECT.json` lists the hazards of the code, each at its line, with the properties that
would catch it going wrong, and a note where none does.

## 6. Proofs

Every invariant the passing runs check is also a theorem, and so are the three action
properties (`SuppressedIsRecent`, `DedupWindow`, `AggregatesExact`) and the three refinements
(`AbstractSpec` of either breaker, `LogSpec`). They hold for every value of the constants that
the named assumptions allow, not only for the bounds of section 3: any number of tasks,
replicas, messages, retries, crashes and process starts, any thresholds and ages.

### The path of a transaction

- `ScoringConsumerProofs`. `TInv` is the type invariant with what the handler may rely on: one
  that is sending has an attempt left, one that is at its alert has written the record.
  `AlertsBacked` follows with `Backed`, which says the same of every alert in the topic.
  `DeliveredNearlyOnce` needs `LossInv`, the losses so far with the one a process is about to
  cause, and `Capped`, the records of a transaction with the attempts that are still due.
- `AlertPathProofs`. `IInv` adds to `HandledIsNotified` (type invariant and `AlertsAccountedFor`) what links a memory to its causes:
  `SendIsMarked`, a replica that sends has marked the key; `SeenIsBacked`, a key in a
  replica's memory is being sent by it, was notified of no earlier than it was marked, or was marked at the time
  recorded in `silent`; `SilentIsUnheard`; and `OneSend`, a replica is busy with one handler. Without
  `SeenIsBacked` a suppression says nothing about anything. `SuppressionIsRecent` follows since the remembered
  time is at most that of the notification, or is that of the silent alert itself.
- `AlertServiceProofs`. `HandledNearlyOnce` as in the consumer. A message is handled when its handler
  returned, and lost when it is committed and was never handled: the one in flight at a crash, and the one the
  iterator handed out after `stop()` that `consume()` drops, whose position the signal task's last commit
  takes along. `LossInv` counts either with the end of its process. E-mails still in the buffer or in a
  digest at such an end are lost on top of that; `ShutdownEnds` says a stop without a crash leaves none behind in memory, not that the mail server got them.
  `AlertsApart` needs `Apart`: the last time a key was let through is what the deduplicator
  remembers, or the cleanup task has forgotten it and its window is over by the handler's clock too.
- `FeaturePipelineProofs`. `EventsBacked`: a handler that is about to publish has stored its
  transaction. `AverageHolds`: one that is about to run the script has counted. `CountHolds`:
  the count with the increments still to come is at most the messages handed out, replays
  included. `AggregatesHold`: a recorded transaction is in its window or a newer one has pruned
  it, by the timestamps alone, in whatever order they arrive.

### Breakers

- `CircuitBreakerProofs`: `TypeCorrect`, `BudgetRespected`, `ClosedIsBelow`,
  `OpenTimeoutRespected`, and `Implements` (`Spec => AbstractSpec`). The budget needs the type
  invariant and that a set of test calls is finite: admitting adds one to the set and to the
  counter, entering HALF_OPEN empties both, and ending a call removes at most one from the
  set and nothing from the counter. That last step is why the count bounds the running test
  calls rather than equalling them. The refinement maps `gate <- state` and `busy <- Running`;
  it needs `OpenTimeoutRespected` to show that a circuit due to half-open has been open for
  the timeout.
- `ReplicaProofs`, Redis breaker: `IInv` is the type invariant, `CountTellsState` and
  `OpenAtLeastTimeout` together. `CountTellsState` needs the clause of the type invariant that
  a half-open circuit still lacks a success. `Implements` as above.

### Services

In the order of the modules, with the inductive invariant and what it adds to the property:

| Theorem | Inductive invariant and argument |
|---|---|
| `BatchPlacedOnce` | `BInv`: neither queue nor batch holds a request twice, they share none, and what they hold waits or has left |
| `WebhookOnePlace`, `WebhookAttempts` | `WInv`: the dead letters hold nothing twice, an event received within its rounds and tries; an event in its backoff has made no late attempt |
| `HotAnnouncedOnce` | `Announcing`: announcements made and under way are the pairs of successive versions, and as many as there are versions |
| `LogLossBound` | `Buffering`: the buffer and each batch taken from it hold less than its size and the cancelled callers, one more while the lock is held; each fault costs one of them |
| `LadderIsFollowed` | `Climbed`: whoever fired the next level of an alert is on the way to advance its position; `NotFarAhead`: the position with the advances under way is no more than the number of threads past the last level that fired |
| `CaseLoadBound` | `Loaded`: by the cases held before and after a step |
| `GraphPagerankCovers` | `Covered`: a computation under way misses only what raced with it |
| `ExperimentConcludedInTime` | `Concluding`: a conclusive experiment that runs has a thread in its comparisons that will find it conclusive, since counters only grow after their reading by the thread that made them conclusive |
| `RoutingSuppressionExact` | `Routed`: an entry of the store was left by an alert let through at its time, and an alert let through has a newer entry or is older than 60 minutes |
| `CanaryMeasured` | `CanaryInv`: at most the thread that changes the registries keeps them apart, and foreign samples with those still under way are at most the straddling scorings |
| `EventProjectionFollows`, `EventLogImplemented` | `EventsInv`: what was dispatched is what was handled followed by what is in the inbox. `Intact`: of each version up to an aggregate's last, archive and live events together hold one event, once |
| `CacheServedBriefly` | `Fresh`: a read under way began before the value it holds was let go of, so the local entry it makes ends in time |
| `LimiterWindowBound` | `Windowed`: an admitted request is in the set or out of the window of the newest, and no stretch of a window's length that ended when its newest request came holds more than the limit |
| `ArchiverNothingElseLost` | `Placed`: a writer at its log entry has uploaded; `Kept`: what was handed out since the start is in the bucket, in memory, or one of the four named losses; a process drops a message only after its signal, at the end of its loop, hence once |
| `HubNoGaps` | `HubInv`: what a connection has got and what is still being sent to it are next to each other in the channel |

`BInv` to `Buffering` are in `ResilienceProofs`, `Climbed` to `EventsInv` in
`SharedStateProofs`, the rest in `ReplicaProofs`. These theorems are about the specification of the single
service, `B!Spec` or `E!Spec`, which is the instance the runs go through.

An event leaves the live log for the archive by its timestamp, which takes any subset of a
sequence. `EventStore` writes this with `Kept`, a recursive function that selects elements.
Its properties (what it selects, that it goes over concatenations, that it keeps order) are proved in
`SharedStateProofs` from the well-foundedness of strict inclusion on finite sets:
`LeastNatural` finds the least length at which a claim would fail, so no induction over
sequences is assumed.

### Assumptions

`AlertPathAssumption`, `AlertServiceAssumption`, `ScoringConsumerAssumption`,
`FeaturePipelineAssumption`, `CircuitBreakerAssumption`, `RedisBreakerAssumption`,
`ResilienceAssumption` and `SharedStateAssumption`, each evaluated by the runs. Most clauses are
types: thresholds, retries, windows and sizes at least 1, timeouts natural numbers, finitely
many threads and cases where something is counted. Ages, limits and timestamps are numbers of
any size, not ordered among themselves: `L1Ttl` may exceed `L2Ttl`. How long a call may be
stalled between its clock reading and its effect (`MaxStall`, `Stall`, `Delay`) is a parameter:
it guards the clock in the model, and the statements name it where they depend on it.
`WindowBound` gives its second bound only for delays of half a window at most; the code sees to that only
as far as Redis is quick (windows are of one second, socket timeouts of several), so it is a
condition in the property and no assumption.

### What the proofs changed

- `SuppressionExact` used to tie a repeat to a window above 60 minutes. Eviction uses a newer clock
  than the call that was stalled before it, so a window of less than 60 minutes by up to the
  stall is enough; the run now has a rule of 60 minutes and shows it.
- `WindowBound` used to say less than twice the limit for an overtaken request. The limit before it and the limit
  after it can both be in its window, so the bound is twice the limit. The proof takes delays
  within half a window, and the property says so.
- `Canary` now lets a full deque drop a sample, so that the theorem needs no bound on scorings.
- Hub and canary state became sets and functions in place of bags (received per sender, samples
  with the number of their scoring), the event store's selection a function in place of
  one of a library that cannot be reasoned about. The behaviours are the same.

The type invariants, `ClosedIsBelow` and `OpenTimeoutRespected` are theorems only: `AbstractSpec`
says more, and no run repeats them.

### Model-checked only

The liveness properties: `Recovers`, `AllHandled`, `Answering`, `DeliveriesEnd`, `Drains`,
`Settles`, `RulesSettle` and the two `ShutdownEnds`. They need fairness and ENABLED, which the
prover does not reach. `RuleEngine` has this kind of property alone, and hence no theorem.
The properties of the seven runs that end in a counterexample do not hold, by these runs.

## 7. Disagreements seen while modelling, without a run

These are readings of the code that the models reflect but for which no run is kept.

- `webhook_retry.py:429-430` says the breaker is consulted before each attempt; it is asked
  before the backoff. Line 199 speaks of a single half-open probe; all are let through. A
  success from before the opening closes a half-open circuit (line 159).
  `retry_dead_letters` empties the queue first, so an event whose endpoint was removed
  leaves with an exception and is in no queue (line 570). `OnePlace` counts it as done:
  its caller got the exception.
- `batch_queue.py`: a `stop()` during the filling of a batch is swallowed and `stop()` then
  waits (line 114); one during scoring leaves the batch's callers waiting (line 129); a caller
  cancelled while its request is scored alone ends the processor (lines 140-146).
  `EnsembleScorer` has no `score_batch`. The fill window starts before the first item (line 95).
- `email.py:63`: stopping cancels a digest that is being sent, and its alerts are lost.
- `dedup.py:87` marks a key before anybody was told. An alert whose sends all fail, that is LOW with telegram as the
  only notifier, or that finds no notifier enabled, suppresses the alerts of its key for the whole window.
- `kafka_utils.py:196-197` drops a message handed out after `stop()` began, and aiokafka's stop commits its position
  when it comes later.
- `redis_pool.py:6` says of half-open that "one request is allowed through to test recovery". `call()` (lines 62-70)
  counts nothing in that state: every request is let through. `BreakerSpec` asks of a breaker
  what both have, an open period that lasts and a circuit that only failures open; the number of test calls is
  limited in `shared/circuit_breaker.py` alone, and `ProbeBudget` is about that one.
- `alert_service/main.py:142` types an alert BLOCK from 0.90, `ensemble.py:46` decides BLOCK
  from 0.80: a blocked transaction in between shares the dedup key of REVIEW alerts.
- Alerts are keyed by transaction (`consumer.py:143`) and deduplicated per user in each
  replica's memory, so two replicas can notify of one user twice within the window.
- `consumer.py:126` decides with default thresholds, the scorer with configured ones.
  A shutdown cancels the handler and commits past its transaction (`main.py:207`); if
  the consume task has failed, awaiting it raises and nothing is closed (`main.py:209`).
- Scoring reads `features:{user_id}` (`consumer.py:64`), which nothing in the repository
  writes: streaming writes `user:{id}:*` and the window keys.
- `online_store.py:263` fills `max_amount_24h` with the maximum ever seen; the velocity member
  `ts:amount` makes two equal transactions one. Lines 88-98 call the update atomic and use a
  pipeline without a transaction: `AverageSettles` and `CountBound` state what is left of it
  when a connection breaks between two commands.
- `event_store.py:206` promises a batch "all-or-nothing"; a conflict at its second event leaves
  the first stored, without fan-out. `get_latest_event` reads live events only, so after a
  compaction, or past 10,000 events, a writer computes a version that conflicts.
- `graph_analysis.py:564`: "Results are cached until the graph is mutated." A computation that
  ends after a mutation clears the flag of that mutation; only `compute_pagerank` clears it.
  `network_analysis.py` keeps a flag that it never clears.
- `hot_reload.py:328-331` watches the override file only if it exists when watching starts.
- `model_experimentation.py:811`: "Auto-concludes when all treatment vs control comparisons show
  statistical significance." A treatment that predicted no fraud has no comparison and is left
  out. Of two threads that conclude, the second gets a `ValueError` out of `record_outcome`,
  which documents `KeyError` only. Outcomes are counted in any status, and the stored results
  may be older than the counters.
- `shadow_mode.py`: overlapping calls of `start_canary` and `stop_canary` can leave a canary
  without a scorer or a scorer without a canary; an evaluation walks through the deque without
  the lock while others append, which raises `RuntimeError` out of `auto_evaluate`.
- `yaml_rules_v2.py:662` calls back "after each successful reload", and does so after a failed
  one. Rules changed in memory are lost at the next reload.
- `feature_cache.py:209` invalidates the local level of its own replica, and there only the keys
  that Redis lists; line 139 gives a value from Redis a new age.
- `redis_rate_limiter.py:4` speaks of a fallback to the in-memory token bucket; the code fails
  open (lines 104-107). Two requests of one millisecond with the same draw are one member.
- `websocket_hub.py:137`: an error ends the listener and nothing starts it again.
- `archiver/main.py`: offsets are committed while messages are in the buffer; a periodic
  flush that fails ends its task, and `stop()` raises the exception before it flushes.
- `adaptive_rate_limiter.py` gives PEXPIRE a number computed as seconds; its recovery step is
  rounded down to 0 before the limit is reached. `api/rate_limiter.py` below 30 requests a
  minute has a bucket smaller than a request.

## 8. Not modelled, and why

Pure computation over floating-point features (rules, scorers, analytics, risk services,
enrichment), request formatting (the HTTP API, SDKs, CLI), stores that are a dictionary
or one SQL statement per operation, generated or declarative parts (migrations,
infrastructure, dashboards, load tests), training jobs. They are the bulk of the
repository's lines: about nine tenths of them compute, format or declare, and have no state that
two parties share. `velocity_engine.py` keeps
windows in sorted sets, as `FeaturePipeline` and `SlidingWindow` model them; the reputation of
`device_fingerprint.py` is read and written back, which can lose an update in a shared store,
though not in the in-memory one that `scoring/main.py` uses; A/B tests pick one of two scorers.
Within modelled components: payload formats, signatures, HTML, metrics, logging, health
endpoints, connection retries of `start()` in the Kafka wrappers, the registry of breakers,
registering a webhook endpoint again, snapshots of the event store, priorities and service
levels of cases, and the streaming service's own start and stop.

## 9. Plan

The models come first in the order of importance: the path of a transaction to an alert, the
services that guard it, the services beside it. The safety properties of all of them are
proved. What is left:

1. `ScoringConsumer` and `AlertService` as implementations of the two ends of `AlertPath`,
   which is now a reading of the same code at a coarser grain.
2. A safety property of `RuleEngine` beside `RulesSettle`: the hash kept is that of a content
   that was published, unless rules were changed in memory since.
3. Type invariants of the services in `Resilience` and `SharedState` as theorems of their own;
   each is part of the inductive invariant of its service today.
