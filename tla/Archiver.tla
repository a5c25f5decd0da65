------------------------------ MODULE Archiver ------------------------------
(***************************************************************************)
(* data_lake/archiver/main.py: DataLakeArchiver buffers what it consumes   *)
(* and writes it as Parquet files with a Delta log entry each.  The        *)
(* handler, the periodic flush and stop() take the whole buffer in one     *)
(* step and write it in an executor thread: upload, log entry, version     *)
(* counter.  Threads run side by side, and one whose task is cancelled     *)
(* runs on.  Kafka (auto-commit, auto_offset_reset = "latest") is as in    *)
(* AlertService; messages are their offsets.                               *)
(***************************************************************************)
EXTENDS Integers, Sequences, FiniteSets, SequencesExt

CONSTANTS
  BufferMax,                  \* buffer_max_messages
  MaxMsgs, MaxRuns, MaxFaults \* bounds: messages, process starts, failing requests

VARIABLES
  produced,   \* messages in the partition
  committed,  \* committed offset, or None
  position,   \* last message handed out
  consumer,   \* "open", "leaving" (the signal task waits for aiokafka's stop), "closed"
  proc,       \* "down", "running", "closing" (signal or failure), "stopping", "stopped"
  starts,     \* process starts
  buffer,     \* _buffer
  flusher,    \* the periodic task: "asleep", "flushing", "dead", "cancelled"
  thread,     \* per thread its stage and the messages it writes
  delta,      \* _delta_version
  files,      \* Parquet files in the bucket: sequences of messages
  deltaLog,   \* the log: what the entry of each version adds
  failures,   \* requests that failed so far
  skipped,    \* history: messages passed over by "latest"
  excused,    \* history: messages in memory at a crash, in a failed upload, or in
              \* the buffer of a process whose periodic task had died
  dropped,    \* history: messages handed out after the signal, and not again since
  entered     \* history: files whose log entry was written

kafka == <<produced, committed, position>>
history == <<skipped, excused, dropped>>
lake == <<delta, files, deltaLog, entered>>
acvars == <<kafka, consumer, proc, starts, buffer, flusher, thread, lake, failures, history>>

None == -1
ThreadOf == {"handler", "loop", "stop"}
Up == proc \in {"running", "closing", "stopping"}
Idle == [stage |-> "idle", msgs |-> <<>>]
InMemory == Range(buffer) \cup UNION {Range(thread[w].msgs) : w \in ThreadOf}

Init ==
  /\ produced = 0 /\ committed = None /\ position = 0 /\ proc = "down" /\ starts = 0
  /\ buffer = <<>> /\ flusher = "asleep" /\ thread = [w \in ThreadOf |-> Idle] /\ delta = 0
  /\ files = {} /\ deltaLog = [v \in {} |-> <<>>] /\ entered = {}
  /\ failures = 0 /\ skipped = 0 /\ excused = {} /\ dropped = {} /\ consumer = "closed"
-----------------------------------------------------------------------------
Produce == /\ produced < MaxMsgs /\ produced' = produced + 1
           /\ UNCHANGED <<committed, position, consumer, proc, starts, buffer, flusher, thread, lake, failures, history>>

\* What is in memory ends with the process; the version counter starts again from zero.
Forget ==
  /\ buffer' = <<>> /\ flusher' = "asleep" /\ thread' = [w \in ThreadOf |-> Idle] /\ delta' = 0
  /\ consumer' = "closed"

Start ==
  /\ proc \in {"down", "stopped"} /\ starts < MaxRuns
  /\ proc' = "running" /\ starts' = starts + 1 /\ consumer' = "open"
  /\ position' = IF committed = None THEN produced ELSE committed
  /\ skipped' = IF committed = None THEN produced ELSE skipped
  /\ UNCHANGED <<produced, committed, buffer, flusher, thread, lake, failures, excused, dropped>>

Crash ==
  /\ Up
  /\ proc' = "down" /\ excused' = excused \cup InMemory
  /\ Forget
  /\ UNCHANGED <<kafka, starts, files, deltaLog, entered, failures, skipped, dropped>>

\* The periodic commit goes on until the consumer is closed.
AutoCommit ==
  /\ Up /\ consumer = "open" /\ committed # position
  /\ committed' = position
  /\ UNCHANGED <<produced, position, consumer, proc, starts, buffer, flusher, thread, lake, failures, history>>
-----------------------------------------------------------------------------
\* _flush(): the buffer goes to the thread of the caller.
Flush(w) == /\ thread' = [thread EXCEPT ![w] = [stage |-> "upload", msgs |-> buffer]]
            /\ buffer' = <<>>

\* _handle_message; the consume loop waits while the handler writes.
Handle ==
  /\ proc = "running" /\ thread["handler"] = Idle /\ position < produced
  /\ position' = position + 1 /\ dropped' = dropped \ {position + 1}
  /\ LET filled == Append(buffer, position + 1)
     IN  IF Len(filled) >= BufferMax
         THEN thread' = [thread EXCEPT !["handler"] = [stage |-> "upload", msgs |-> filled]]
              /\ buffer' = <<>>
         ELSE buffer' = filled /\ UNCHANGED thread
  /\ UNCHANGED <<produced, committed, consumer, proc, starts, flusher, lake, failures, skipped, excused>>

PeriodicFlush ==
  /\ proc \in {"running", "closing"} /\ flusher = "asleep" /\ buffer # <<>>
  /\ thread["loop"] = Idle /\ flusher' = "flushing" /\ Flush("loop")
  /\ UNCHANGED <<kafka, consumer, proc, starts, lake, failures, history>>

\* _write_parquet, step by step.  The consume loop swallows the handler's exception;
\* the periodic task ends with it.
AfterUpload_BufferToo == <<>>
AfterUpload == buffer
Upload(w, ok) ==
  /\ thread[w].stage = "upload" /\ buffer' = AfterUpload
  /\ IF ok
     THEN /\ thread' = [thread EXCEPT ![w].stage = "log"]
          /\ files' = files \cup {thread[w].msgs}
          /\ UNCHANGED <<flusher, failures, excused>>
     ELSE /\ failures < MaxFaults /\ failures' = failures + 1
          /\ thread' = [thread EXCEPT ![w] = Idle]
          /\ excused' = excused \cup Range(thread[w].msgs) /\ UNCHANGED files
          /\ flusher' = IF w = "loop" /\ flusher = "flushing" THEN "dead" ELSE flusher
  /\ UNCHANGED <<kafka, consumer, proc, starts, delta, deltaLog, entered, skipped, dropped>>

Ended(w) == /\ thread' = [thread EXCEPT ![w] = Idle]
            /\ flusher' = IF w = "loop" /\ flusher = "flushing" THEN "asleep" ELSE flusher

WriteEntry(w) ==
  /\ thread[w].stage = "log"
  /\ deltaLog' = [v \in DOMAIN deltaLog \cup {delta} |->
                    IF v = delta THEN thread[w].msgs ELSE deltaLog[v]]
  /\ entered' = entered \cup {thread[w].msgs}
  /\ thread' = [thread EXCEPT ![w].stage = "count"]
  /\ UNCHANGED <<kafka, consumer, proc, starts, buffer, flusher, delta, files, failures, history>>

\* The exception of the log entry is caught; the version stays.
EntryFails(w) ==
  /\ thread[w].stage = "log" /\ failures < MaxFaults /\ failures' = failures + 1 /\ Ended(w)
  /\ UNCHANGED <<kafka, consumer, proc, starts, buffer, lake, history>>

CountVersion(w) ==
  /\ thread[w].stage = "count" /\ delta' = delta + 1 /\ Ended(w)
  /\ UNCHANGED <<kafka, consumer, proc, starts, buffer, files, deltaLog, entered, failures, history>>
-----------------------------------------------------------------------------
\* The signal handler's task clears _running and waits for aiokafka's stop(), which ends
\* the consume loop and commits the position.  stop() and the final flush go on beside it.
Signal ==
  /\ proc = "running" /\ proc' = "closing" /\ consumer' = "leaving"
  /\ UNCHANGED <<kafka, starts, buffer, flusher, thread, lake, failures, history>>

LastCommit ==
  /\ Up /\ consumer = "leaving"
  /\ consumer' = "closed" /\ committed' = position
  /\ UNCHANGED <<produced, position, proc, starts, buffer, flusher, thread, lake, failures, history>>

\* A KafkaError ends the consume loop; the consumer stays open.
ConsumerFails ==
  /\ proc = "running" /\ thread["handler"] = Idle /\ failures < MaxFaults
  /\ proc' = "closing" /\ failures' = failures + 1
  /\ UNCHANGED <<kafka, consumer, starts, buffer, flusher, thread, lake, history>>

\* After the signal the iterator may hand out one more message, before the last commit
\* or after it, which consume() drops because _running is already false.
LoopEnd ==
  \/ UNCHANGED <<position, dropped>>
  \/ /\ consumer # "open" /\ position < produced
     /\ position' = position + 1 /\ dropped' = dropped \cup {position + 1}

\* stop(), once the consume loop has ended: cancel the periodic task, flush the rest.
\* The exception of a dead task comes out of stop() before the flush, both times.
Stop ==
  /\ proc = "closing" /\ thread["handler"] = Idle
  /\ LoopEnd
  /\ IF flusher = "dead"
     THEN /\ proc' = "stopped" /\ excused' = excused \cup Range(buffer)
          /\ Forget
     ELSE /\ proc' = "stopping" /\ flusher' = "cancelled"
          /\ IF buffer = <<>> THEN UNCHANGED <<thread, buffer>> ELSE Flush("stop")
          /\ UNCHANGED <<excused, consumer, delta>>
  /\ UNCHANGED <<produced, committed, starts, files, deltaLog, entered, failures, skipped>>

\* The consumer is closed at the end of stop(), at once when the signal did so before.
\* The interpreter waits for the executor's threads.
Exit == /\ proc = "stopping" /\ \A w \in ThreadOf : thread[w] = Idle
        /\ proc' = "stopped" /\ committed' = IF consumer = "open" THEN position ELSE committed
        /\ Forget
        /\ UNCHANGED <<produced, position, starts, files, deltaLog, entered, failures, history>>

Next ==
  \/ Produce \/ Start \/ Crash \/ AutoCommit \/ Handle \/ PeriodicFlush
  \/ Signal \/ LastCommit \/ ConsumerFails \/ Stop \/ Exit
  \/ \E w \in ThreadOf : WriteEntry(w) \/ EntryFails(w) \/ CountVersion(w)
                         \/ \E ok \in BOOLEAN : Upload(w, ok)

Spec == Init /\ [][Next]_acvars
-----------------------------------------------------------------------------
Archived == UNION {Range(f) : f \in files}
\* messages nobody will be given again
Passed == {m \in 1..produced : m > skipped /\ committed # None /\ m <= committed}

\* A message the consumer group is done with is in the bucket, unless it was in memory at
\* a crash, in a failed upload, left behind by a periodic task that had died, or dropped
\* after the signal: one message for each process at most.
DroppedBy == IF proc \in {"running", "closing"} THEN starts - 1 ELSE starts
NothingElseLost ==
  /\ Passed \subseteq Archived \cup excused \cup dropped
                       \cup (IF proc \in {"down", "stopped"} THEN {} ELSE InMemory)
  /\ Cardinality(dropped) <= DroppedBy

\* "Delta Lake enables ACID transactions": what was entered in the log stays in it.
LogKeepsFiles == \A f \in entered : \E v \in DOMAIN deltaLog : deltaLog[v] = f
=============================================================================
