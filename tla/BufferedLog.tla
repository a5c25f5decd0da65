---------------------------- MODULE BufferedLog ----------------------------
(***************************************************************************)
(* The buffered writers scoring/services/audit_logger.py (AuditLogger) and *)
(* usage_meter.py (UsageMeter): callers append to a buffer under an        *)
(* asyncio.Lock, a loop flushes it to PostgreSQL, stop() flushes the rest. *)
(* The lock is not reentrant, and the caller that fills the buffer awaits  *)
(* _flush(), which takes it, while holding it.  Every other critical       *)
(* section has no await and is one step.  UsageMeter has no critical       *)
(* events, which are written at once.                                      *)
(***************************************************************************)
EXTENDS Integers, Sequences, FiniteSets, SequencesExt

CONSTANTS
  Events,      \* one call of log() or record() each
  Critical,    \* events of CRITICAL_ACTIONS
  Malformed,   \* events with an organisation id that is no UUID
  BufferSize,  \* buffer_size
  MaxFaults    \* bound: failing writes

VARIABLES
  call,     \* per event: "idle", "locking", "stuck", "writing", "returned", "cancelled"
  buffer,   \* _buffer
  holder,   \* who holds _lock between steps, or None
  queue,    \* tasks waiting for _lock, first come first served
  loop,     \* _flush_loop: "asleep", "locking", "writing", "ended"
  stopper,  \* stop(): "no", "locking", "writing", "done", "raised"
  batch,    \* what the loop and stop() have taken and not yet written
  stored,   \* rows of the table
  logged,   \* history: events appended to the buffer
  faults    \* history: batches that were dropped

blvars == <<call, buffer, holder, queue, loop, stopper, batch, stored, logged, faults>>

None == "none"
Loop == "loop"
Stop == "stop"

Init ==
  /\ call = [e \in Events |-> "idle"] /\ buffer = <<>> /\ holder = None /\ queue = <<>>
  /\ loop = "asleep" /\ stopper = "no" /\ batch = [t \in {Loop, Stop} |-> <<>>]
  /\ stored = {} /\ logged = {} /\ faults = 0

Acquires(t) == holder = None /\ queue # <<>> /\ queue[1] = t
Without(t) == SelectSeq(queue, LAMBDA x : x # t)
-----------------------------------------------------------------------------
\* log() and record().  A critical event goes to the database on its own.
Log(e) ==
  /\ call[e] = "idle"
  /\ IF e \in Critical
     THEN call' = [call EXCEPT ![e] = "writing"] /\ UNCHANGED queue
     ELSE call' = [call EXCEPT ![e] = "locking"] /\ queue' = Append(queue, e)
  /\ UNCHANGED <<buffer, holder, loop, stopper, batch, stored, logged, faults>>

WriteSingle(e, ok) ==
  /\ call[e] = "writing" /\ call' = [call EXCEPT ![e] = "returned"]
  /\ ok => e \notin Malformed
  /\ stored' = IF ok THEN stored \cup {e} ELSE stored
  /\ UNCHANGED <<buffer, holder, queue, loop, stopper, batch, logged, faults>>

\* The caller that fills the buffer waits for the lock it holds.
Add(e) ==
  /\ call[e] = "locking" /\ Acquires(e)
  /\ queue' = Tail(queue) /\ buffer' = Append(buffer, e) /\ logged' = logged \cup {e}
  /\ IF Len(buffer') >= BufferSize
     THEN holder' = e /\ call' = [call EXCEPT ![e] = "stuck"]
     ELSE UNCHANGED holder /\ call' = [call EXCEPT ![e] = "returned"]
  /\ UNCHANGED <<loop, stopper, batch, stored, faults>>

\* The caller is cancelled at an await; a lock it holds is released.
Cancel(e) ==
  /\ call[e] \in {"locking", "stuck", "writing"}
  /\ call' = [call EXCEPT ![e] = "cancelled"] /\ queue' = Without(e)
  /\ holder' = IF holder = e THEN None ELSE holder
  /\ UNCHANGED <<buffer, loop, stopper, batch, stored, logged, faults>>
-----------------------------------------------------------------------------
\* _flush(): take the buffer under the lock, write it outside.
Take(t) ==
  /\ Acquires(t) /\ queue' = Tail(queue)
  /\ batch' = [batch EXCEPT ![t] = buffer] /\ buffer' = <<>>

\* what the buffer holds once a batch is written
AfterWrite_Cleared == <<>>
AfterWrite == buffer
WriteBatch(t, ok) ==
  /\ ok => Range(batch[t]) \cap Malformed = {}
  /\ ~ok => \/ Range(batch[t]) \cap Malformed # {}
            \/ faults < MaxFaults
  /\ stored' = IF ok THEN stored \cup Range(batch[t]) ELSE stored
  /\ faults' = IF ok THEN faults ELSE faults + 1
  /\ batch' = [batch EXCEPT ![t] = <<>>] /\ buffer' = AfterWrite
  /\ UNCHANGED <<holder, queue, call, logged>>

LoopWakes ==
  /\ loop = "asleep" /\ loop' = "locking" /\ queue' = Append(queue, Loop)
  /\ UNCHANGED <<call, buffer, holder, stopper, batch, stored, logged, faults>>

LoopTakes ==
  /\ loop = "locking" /\ Take(Loop)
  /\ loop' = IF buffer = <<>> THEN "asleep" ELSE "writing"
  /\ UNCHANGED <<call, holder, stopper, stored, logged, faults>>

\* Whatever _flush() raises, the loop goes on.
AfterAttempt_NotCaught(ok) == IF ok THEN "asleep" ELSE "ended"
AfterAttempt(ok) == "asleep"
LoopWrites(ok) ==
  /\ loop = "writing" /\ WriteBatch(Loop, ok)
  /\ loop' = AfterAttempt(ok) /\ UNCHANGED stopper

\* stop() cancels the loop.  A write it interrupts reaches the database or not.
StopBegins(reached) ==
  /\ stopper = "no" /\ stopper' = "locking" /\ loop' = "ended"
  /\ queue' = Append(Without(Loop), Stop)
  /\ reached => loop = "writing" /\ Range(batch[Loop]) \cap Malformed = {}
  /\ stored' = IF reached THEN stored \cup Range(batch[Loop]) ELSE stored
  /\ faults' = IF loop = "writing" /\ ~reached THEN faults + 1 ELSE faults
  /\ batch' = [batch EXCEPT ![Loop] = <<>>]
  /\ UNCHANGED <<call, buffer, holder, logged>>

StopTakes ==
  /\ stopper = "locking" /\ Take(Stop)
  /\ stopper' = IF buffer = <<>> THEN "done" ELSE "writing"
  /\ UNCHANGED <<call, holder, loop, stored, logged, faults>>

\* A record that cannot be built raises out of stop(), a failing session does not.
StopWrites(ok) ==
  /\ stopper = "writing" /\ WriteBatch(Stop, ok)
  /\ stopper' = IF Range(batch[Stop]) \cap Malformed # {} THEN "raised" ELSE "done"
  /\ UNCHANGED loop

Next ==
  \/ \E e \in Events : Log(e) \/ Add(e) \/ Cancel(e) \/ \E ok \in BOOLEAN : WriteSingle(e, ok)
  \/ LoopWakes \/ LoopTakes \/ \E ok \in BOOLEAN : LoopWrites(ok)
  \/ StopTakes \/ \E ok \in BOOLEAN : StopWrites(ok) \/ StopBegins(ok)

\* The event loop runs whoever can run; nobody has to call or to cancel.
Proceed ==
  \/ \E e \in Events : Add(e) \/ \E ok \in BOOLEAN : WriteSingle(e, ok)
  \/ StopTakes \/ \E ok \in BOOLEAN : StopWrites(ok)
Flushing == LoopTakes \/ \E ok \in BOOLEAN : LoopWrites(ok)
Fairness == WF_blvars(Proceed) /\ WF_blvars(LoopWakes) /\ WF_blvars(Flushing)

Spec == Init /\ [][Next]_blvars /\ Fairness
-----------------------------------------------------------------------------
InHand == Range(buffer) \cup Range(batch[Loop]) \cup Range(batch[Stop])
Lost == logged \ (stored \cup InHand)
Cancelled == {e \in Events : call[e] = "cancelled"}

\* A buffered event is lost only with its batch, and a batch is dropped only by a fault
\* or by the stop that interrupts its write.  A batch stays below the size of the buffer,
\* but for the callers cancelled while they waited for their own lock.
LossBound ==
  Cardinality(Lost) <= faults * (BufferSize - 1 + Cardinality(Cancelled))

\* Buffered events leave the buffer, unless a caller waits for its own lock or the
\* loop was stopped.
Drains == (buffer # <<>>) ~> (buffer = <<>> \/ holder # None \/ stopper # "no")

\* "Flush remaining buffer and stop."
StopFlushes == (stopper = "locking") ~> (stopper \in {"done", "raised"})
=============================================================================
