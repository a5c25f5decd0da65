--------------------------- MODULE ScoringConsumer ---------------------------
(***************************************************************************)
(* One scoring replica: the Kafka side of src/scoring.  scoring/main.py    *)
(* starts a producer and a consume task and tears them down; the task runs *)
(* KafkaConsumerWrapper.consume (shared/kafka_utils.py) over               *)
(* handle_message (scoring/consumer.py), which scores a transaction,       *)
(* publishes it, and then publishes an alert when its score is flagged.    *)
(* Kafka is external: the log of raw transactions, the committed offset,   *)
(* auto-commit, and a send that may be written although it raises.         *)
(***************************************************************************)
EXTENDS Integers, FiniteSets, Sequences

CONSTANTS
  Scores,            \* fraud scores a model can give, in hundredths
  AsyncScorer,       \* TRUE for EnsembleScorer (async score), FALSE for a BaseScorer
  ThresholdReview,   \* score_threshold_review the scorer is configured with
  MaxSends,          \* kafka_max_retries
  MaxMsgs,           \* bound: raw transactions in the log
  MaxRuns,           \* bound: process starts
  None

ASSUME ScoringConsumerAssumption ==
  /\ Scores \subseteq 0..100 /\ ThresholdReview \in 1..100
  /\ AsyncScorer \in BOOLEAN
  /\ MaxSends \in Nat \ {0} /\ MaxMsgs \in Nat /\ MaxRuns \in Nat
  /\ None \notin Int

VARIABLES
  log,        \* the raw topic: whether each message validates as a Transaction
  committed,  \* offset committed by the consumer group (None before the first)
  position,   \* offset of the last message handed out
  proc,       \* life cycle of the process
  runs,       \* number of process starts
  task,       \* scoring-consumer task: "none", "running" or "failed"
  producer,   \* the producer wrapper: "none" (start failed), "open" or "closed"
  consumer,   \* the consumer wrapper: "none" (start failed), "open" or "closed"
  hpc,        \* where handle_message is
  msg,        \* offset being handled
  score,      \* score given to it
  tries,      \* sends left of the present producer.send
  scored,     \* the scored topic: how often <<offset, score, flagged>> was written
  alerts,     \* the alerts topic: how often <<offset, score>> was written
  \* history, read by the properties only
  counted,    \* offsets whose handler counted a transaction error
  unsent,     \* offsets for which a send ran out of retries
  skipped     \* messages jumped over by auto_offset_reset = "latest"

kafka   == <<log, committed, position>>
life    == <<proc, runs, task, producer, consumer>>
handler == <<hpc, msg, score, tries>>
topics  == <<scored, alerts>>
history == <<counted, unsent, skipped>>
vars    == <<kafka, life, handler, topics, history>>

Offsets == 1..MaxMsgs
Sending == {"scored", "alert"}

\* EnsembleScorer.score uses the configured threshold, handle_message the default one.
DefaultReview == 50
IsFlagged(s) == s >= ThresholdReview
Alerted(s) == s >= DefaultReview

Idle == hpc' = "idle" /\ msg' = None /\ score' = None /\ tries' = 0

Init ==
  /\ log = <<>> /\ committed = None /\ position = 0
  /\ proc = "down" /\ runs = 0 /\ task = "none" /\ producer = "none" /\ consumer = "none"
  /\ hpc = "idle" /\ msg = None /\ score = None /\ tries = 0
  /\ scored = [r \in Offsets \X Scores \X BOOLEAN |-> 0]
  /\ alerts = [r \in Offsets \X Scores |-> 0]
  /\ counted = {} /\ unsent = {} /\ skipped = 0
-----------------------------------------------------------------------------
(***************************************************************************)
(* Start and end of the process.                                           *)
(***************************************************************************)
\* A producer or consumer that cannot connect is left out and the service starts.
Start ==
  /\ proc \in {"down", "stopped"} /\ runs < MaxRuns
  /\ proc' = "up" /\ runs' = runs + 1
  /\ producer' \in {"none", "open"} /\ consumer' \in {"none", "open"}
  /\ IF consumer' = "open"
     THEN /\ task' = "running"
          /\ position' = IF committed = None THEN Len(log) ELSE committed
          /\ skipped' = IF committed = None THEN Len(log) ELSE skipped
     ELSE task' = "none" /\ UNCHANGED <<position, skipped>>
  /\ UNCHANGED <<log, committed, handler, topics, counted, unsent>>

\* A send cancelled or cut off in flight may still be written.
MayLand(o, s, where) ==
  CASE where = "scored" -> /\ scored' \in {scored, [scored EXCEPT ![<<o, s, IsFlagged(s)>>] = @ + 1]}
                           /\ UNCHANGED alerts
    [] where = "alert"  -> /\ alerts' \in {alerts, [alerts EXCEPT ![<<o, s>>] = @ + 1]}
                           /\ UNCHANGED scored
    [] OTHER            -> UNCHANGED topics

Crash ==
  /\ proc \in {"up", "stopping"}
  /\ proc' = "down" /\ task' = "none" /\ producer' = "none" /\ consumer' = "none"
  /\ MayLand(msg, score, hpc)
  /\ Idle
  /\ UNCHANGED <<kafka, runs, history>>

\* Shutdown: consumer_task.cancel().  CancelledError passes every `except Exception`.
CancelConsumer ==
  /\ proc = "up" /\ task # "failed"
  /\ proc' = "stopping" /\ task' = "none"
  /\ MayLand(msg, score, hpc)
  /\ Idle
  /\ UNCHANGED <<kafka, runs, producer, consumer, counted, unsent, skipped>>

\* Awaiting a task that has failed re-raises its KafkaError: nothing else is closed.
CancelFailed ==
  /\ proc = "up" /\ task = "failed"
  /\ proc' = "stopped"
  /\ UNCHANGED <<kafka, runs, task, producer, consumer, handler, topics, history>>

\* consumer.stop() commits the position, as the consumer's own close does.
StopConsumer ==
  /\ proc = "stopping" /\ consumer = "open"
  /\ consumer' = "closed" /\ committed' = position
  /\ UNCHANGED <<log, position, proc, runs, task, producer, handler, topics, history>>

StopProducer_IfOpen ==
  /\ proc = "stopping" /\ consumer # "open" /\ producer = "open"
  /\ producer' = "closed" /\ proc' = "stopped"
  /\ UNCHANGED <<kafka, runs, task, consumer, handler, topics, history>>
StopProducer ==
  /\ proc = "stopping" /\ consumer # "open"
  /\ producer' = IF producer = "open" THEN "closed" ELSE producer
  /\ proc' = "stopped"
  /\ UNCHANGED <<kafka, runs, task, consumer, handler, topics, history>>
-----------------------------------------------------------------------------
(***************************************************************************)
(* The topic, and the consumer's background commit.                        *)
(***************************************************************************)
Produce(valid) ==
  /\ Len(log) < MaxMsgs
  /\ log' = Append(log, valid)
  /\ UNCHANGED <<committed, position, life, handler, topics, history>>

Commit_Next == IF position < Len(log) THEN position + 1 ELSE position
Commit == position
AutoCommit ==
  /\ proc = "up" /\ consumer = "open" /\ committed # position
  /\ committed' = Commit
  /\ UNCHANGED <<log, position, life, handler, topics, history>>

\* The iterator raises KafkaError: consume() re-raises and the task is over.
ConsumerError ==
  /\ proc = "up" /\ task = "running" /\ hpc = "idle"
  /\ task' = "failed"
  /\ UNCHANGED <<kafka, proc, runs, producer, consumer, handler, topics, history>>
-----------------------------------------------------------------------------
(***************************************************************************)
(* handle_message.  Every exception ends in the handler's `except`: the    *)
(* error is counted and the loop goes on with the next message.            *)
(***************************************************************************)
Working == proc = "up" /\ task = "running"

CountError == counted' = counted \cup {msg} /\ Idle

ReceiveInvalid ==
  /\ Working /\ hpc = "idle" /\ position < Len(log) /\ ~log[position + 1]
  /\ position' = position + 1
  /\ counted' = counted \cup {position'}
  /\ UNCHANGED <<log, committed, life, handler, topics, unsent, skipped>>

Receive ==
  /\ Working /\ hpc = "idle" /\ position < Len(log) /\ log[position + 1]
  /\ position' = position + 1
  /\ hpc' = "features" /\ msg' = position'
  /\ UNCHANGED <<log, committed, life, score, tries, topics, history>>

\* Features come from Redis or are defaults, so the score is not a function of the
\* message.  The result of an async scorer is not awaited: reading it raises.
ScoreTransaction ==
  /\ Working /\ hpc = "features" /\ ~AsyncScorer /\ producer = "open"
  /\ score' \in Scores
  /\ hpc' = "scored" /\ tries' = MaxSends
  /\ UNCHANGED <<kafka, life, msg, topics, history>>

ScoreFails ==
  /\ Working /\ hpc = "features" /\ (AsyncScorer \/ producer = "none")
  /\ CountError
  /\ UNCHANGED <<kafka, life, topics, unsent, skipped>>

\* One attempt of producer.send: acknowledged, or failed with or without a record.
AfterFailure == tries - 1
Failed_Swallowed ==
  IF tries > 1
  THEN tries' = AfterFailure /\ UNCHANGED <<hpc, msg, score, counted, unsent>>
  ELSE /\ hpc' = (IF hpc = "scored" THEN "alert" ELSE "idle") /\ tries' = MaxSends
       /\ UNCHANGED <<msg, score, counted, unsent>>
Failed ==
  IF tries > 1
  THEN tries' = AfterFailure /\ UNCHANGED <<hpc, msg, score, counted, unsent>>
  ELSE CountError /\ unsent' = unsent \cup {msg}

\* An acknowledged record is followed by its alert, or ends the handler.
SendScored(written, acked) ==
  /\ Working /\ hpc = "scored" /\ (acked => written)
  /\ scored' = IF written THEN [scored EXCEPT ![<<msg, score, IsFlagged(score)>>] = @ + 1] ELSE scored
  /\ IF ~acked THEN Failed
     ELSE /\ UNCHANGED <<counted, unsent>>
          /\ IF Alerted(score)
             THEN hpc' = "alert" /\ tries' = MaxSends /\ UNCHANGED <<msg, score>>
             ELSE Idle
  /\ UNCHANGED <<kafka, life, alerts, skipped>>

SendAlert(written, acked) ==
  /\ Working /\ hpc = "alert" /\ (acked => written)
  /\ alerts' = IF written THEN [alerts EXCEPT ![<<msg, score>>] = @ + 1] ELSE alerts
  /\ IF ~acked THEN Failed ELSE Idle /\ UNCHANGED <<counted, unsent>>
  /\ UNCHANGED <<kafka, life, scored, skipped>>
-----------------------------------------------------------------------------
Send == \E written, acked \in BOOLEAN : SendScored(written, acked) \/ SendAlert(written, acked)
Handler == ReceiveInvalid \/ Receive \/ ScoreTransaction \/ ScoreFails \/ Send
Shutdown == CancelConsumer \/ CancelFailed \/ StopConsumer \/ StopProducer

Next ==
  \/ Start \/ Crash \/ Shutdown \/ AutoCommit \/ ConsumerError
  \/ \E valid \in BOOLEAN : Produce(valid)
  \/ Handler

Spec == Init /\ [][Next]_vars

\* The event loop runs the handler: Redis and sends answer or time out, the messages
\* of the log reach a running consumer, and a shutdown that has begun goes on.
FairSpec ==
  /\ Spec
  /\ WF_vars(Handler)
  /\ WF_vars(StopConsumer \/ StopProducer)
-----------------------------------------------------------------------------
TypeOK ==
  /\ log \in Seq(BOOLEAN) /\ Len(log) <= MaxMsgs
  /\ committed \in 0..Len(log) \cup {None} /\ position \in 0..Len(log)
  /\ proc \in {"down", "up", "stopping", "stopped"} /\ runs \in 0..MaxRuns
  /\ task \in {"none", "running", "failed"}
  /\ producer \in {"none", "open", "closed"} /\ consumer \in {"none", "open", "closed"}
  /\ hpc \in {"idle", "features"} \cup Sending /\ (msg = None <=> hpc = "idle")
  /\ msg \in Offsets \cup {None} /\ score \in Scores \cup {None} /\ tries \in 0..MaxSends
  /\ counted \subseteq Offsets /\ unsent \subseteq Offsets
  /\ skipped \in 0..MaxMsgs

\* The scored record is there and, when the score calls for one, its alert.
Completed(o) ==
  \E s \in Scores, f \in BOOLEAN : scored[<<o, s, f>>] > 0 /\ (Alerted(s) => alerts[<<o, s>>] > 0)

\* An alert never overtakes its transaction: whatever was cut off or sent again, the
\* scored record an alert is about is in the scored topic.  Every state is well-formed
\* (TypeOK).
AlertBacked == TypeOK /\ \A o \in Offsets, s \in Scores :
  alerts[<<o, s>>] > 0 => Alerted(s) /\ \E f \in BOOLEAN : scored[<<o, s, f>>] > 0

\* Transactions the group has moved past without a scored record, or without the alert
\* that belongs to it, are the counted errors, those skipped for want of a committed
\* offset, and one per process end.
Ends == IF proc = "up" THEN runs - 1 ELSE runs
LossBound ==
  LET lost == {o \in 1..(IF committed = None THEN 0 ELSE committed) :
                 ~Completed(o) /\ o # msg /\ o \notin counted}
  IN  Cardinality(lost) <= Ends + skipped

\* A transaction is published at most MaxSends times by each process that handles it.
DuplicateBound == \A o \in Offsets, s \in Scores :
  /\ \A f \in BOOLEAN : scored[<<o, s, f>>] <= MaxSends * runs
  /\ alerts[<<o, s>>] <= MaxSends * runs

\* What auto-commit, crashes, cancellation and failing sends may cost: few transactions
\* are never scored or alerted of, few are published again.
NearlyOnce == LossBound /\ DuplicateBound

\* A shutdown that has begun reaches its end.
ShutdownEnds == (proc = "stopping") ~> (proc \in {"stopped", "down"})
-----------------------------------------------------------------------------
\* The docstring of handle_message: it processes "a single raw transaction message"
\* and returns "The scored transaction."  With a producer that works, an error is
\* counted only for a message that does not validate.
ErrorHasCause ==
  [][\A o \in counted' \ counted :
       ~log[o] \/ o \in unsent' \/ producer = "none"]_vars
=============================================================================
