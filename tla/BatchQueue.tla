----------------------------- MODULE BatchQueue -----------------------------
(***************************************************************************)
(* scoring/services/batch_queue.py: BatchInferenceQueue.  Callers of       *)
(* score() put a request into a bounded asyncio queue and wait for its     *)
(* future; one processor task collects a batch, scores it, and falls back  *)
(* to scoring one by one.  Between awaits nothing else runs, so an action  *)
(* is what a task does from one await to the next.                         *)
(***************************************************************************)
EXTENDS Integers, Sequences, FiniteSets

CONSTANTS Requests, MaxBatchSize, MaxQueueSize \* both sizes at least 1

VARIABLES
  req,    \* per request: where its caller and its future are
  queue,  \* _queue
  batch,  \* the batch the processor holds
  ppc,    \* await at which the processor task is, or "ended"
  turn,   \* index of the request being scored alone, 0 while the failure is logged
  stop    \* stop(): not called, waiting for the task, or returned

vars == <<req, queue, batch, ppc, turn, stop>>

Answered == {"result", "error"}
\* future.done(): answered, or cancelled with its caller
FutureDone(r) == req[r] \in Answered \cup {"left"}
InSystem == {r \in Requests : req[r] \in {"queued", "held"}}

Init ==
  /\ req = [r \in Requests |-> "new"] /\ queue = <<>> /\ batch = <<>>
  /\ ppc = "first" /\ turn = 0 /\ stop = "no"
-----------------------------------------------------------------------------
(***************************************************************************)
(* score()                                                                 *)
(***************************************************************************)
Submit(r) ==
  /\ req[r] = "new"
  /\ req' = [req EXCEPT ![r] = "putting"]
  /\ UNCHANGED <<queue, batch, ppc, turn, stop>>

HasRoom == Len(queue) < MaxQueueSize
Put(r) ==
  /\ req[r] = "putting" /\ HasRoom
  /\ queue' = Append(queue, r)
  /\ req' = [req EXCEPT ![r] = "queued"]
  /\ UNCHANGED <<batch, ppc, turn, stop>>

\* The wait for a full queue times out after five seconds.
Refuse(r) ==
  /\ req[r] = "putting" /\ ~HasRoom
  /\ req' = [req EXCEPT ![r] = "refused"]
  /\ UNCHANGED <<queue, batch, ppc, turn, stop>>

\* Cancelling the caller cancels the future it awaits; the request stays queued.
Leave(r) ==
  /\ r \in InSystem
  /\ req' = [req EXCEPT ![r] = "left"]
  /\ UNCHANGED <<queue, batch, ppc, turn, stop>>
-----------------------------------------------------------------------------
(***************************************************************************)
(* _process_loop and _dispatch_batch                                       *)
(***************************************************************************)
Held(r) == IF req[r] = "queued" THEN [req EXCEPT ![r] = "held"] ELSE req

BatchFull(b) == Len(b) >= MaxBatchSize

Collect ==
  /\ ppc \in {"first", "fill"} /\ queue # <<>>
  /\ batch' = Append(batch, Head(queue))
  /\ queue' = Tail(queue)
  /\ req' = Held(Head(queue))
  /\ ppc' = IF BatchFull(batch') THEN "scoring" ELSE "fill"
  /\ UNCHANGED <<turn, stop>>

\* The time window closes, between two items or while waiting for one.
WindowCloses ==
  /\ ppc = "fill"
  /\ ppc' = "scoring"
  /\ UNCHANGED <<req, queue, batch, turn, stop>>

NextBatch == ppc' = "first" /\ batch' = <<>> /\ turn' = 0

\* score_batch returns: every future that is not done gets its result.
Resolve_First(rs) == {batch[1]} \cap rs
Resolve(rs) == rs
BatchScored ==
  LET waiting == {batch[i] : i \in DOMAIN batch} \cap {r \in Requests : ~FutureDone(r)}
  IN
  /\ ppc = "scoring"
  /\ req' = [r \in Requests |-> IF r \in Resolve(waiting) THEN "result" ELSE req[r]]
  /\ NextBatch
  /\ UNCHANGED <<queue, stop>>

\* score_batch raises; the failure is logged, and logging awaits.
BatchFails ==
  /\ ppc = "scoring"
  /\ ppc' = "alone" /\ turn' = 0
  /\ UNCHANGED <<req, queue, batch, stop>>

\* The next request whose future is not done, after position i of the batch.
Later(i, q) == {j \in i + 1..Len(batch) : q[batch[j]] \notin Answered \cup {"left"}}
GoOnAfter_GivesUp(i, q) == NextBatch
GoOnAfter(i, q) ==
  IF Later(i, q) = {} THEN NextBatch
  ELSE /\ turn' = CHOOSE j \in Later(i, q) : \A k \in Later(i, q) : j <= k
       /\ UNCHANGED <<batch, ppc>>

FirstAlone ==
  /\ ppc = "alone" /\ turn = 0
  /\ GoOnAfter(0, req)
  /\ UNCHANGED <<req, queue, stop>>

\* One scorer.score() ends.  A future cancelled meanwhile refuses the result and
\* then the exception: InvalidStateError leaves the processor task.
ScoredAlone(how) ==
  LET r == batch[turn] IN
  /\ ppc = "alone" /\ turn > 0
  /\ IF FutureDone(r)
     THEN ppc' = "ended" /\ UNCHANGED <<req, batch, turn>>
     ELSE LET q == [req EXCEPT ![r] = how]
          IN  req' = q /\ GoOnAfter(turn, q)
  /\ UNCHANGED <<queue, stop>>

\* stop() cancels the task at its await.  Waiting for a first item, the task returns;
\* filling a batch, it goes on to score it and keeps running; anywhere else the
\* CancelledError ends the task on the spot.
Stop ==
  /\ stop = "no"
  /\ ppc' = CASE ppc = "fill" -> "scoring"
              [] OTHER        -> "ended"
  /\ stop' = "waiting"
  /\ UNCHANGED <<req, queue, batch, turn>>

StopReturn ==
  /\ stop = "waiting" /\ ppc = "ended"
  /\ stop' = "returned"
  /\ UNCHANGED <<req, queue, batch, ppc, turn>>
-----------------------------------------------------------------------------
Alone == FirstAlone \/ \E how \in Answered : ScoredAlone(how)
Processor == Collect \/ WindowCloses \/ BatchScored \/ BatchFails \/ Alone

Next ==
  \/ \E r \in Requests : Submit(r) \/ Put(r) \/ Refuse(r) \/ Leave(r)
  \/ Processor \/ Stop \/ StopReturn

Spec == Init /\ [][Next]_vars

\* The event loop runs the processor whenever it can go on, a scoring call comes
\* back, and a request waits for room no longer than its timeout.
FairSpec ==
  /\ Spec
  /\ WF_vars(Processor) /\ WF_vars(StopReturn)
  /\ \A r \in Requests : WF_vars(Put(r) \/ Refuse(r))
-----------------------------------------------------------------------------
TypeOK ==
  /\ req \in [Requests -> {"new", "putting", "queued", "held", "refused", "left"} \cup Answered]
  /\ queue \in Seq(Requests) /\ Len(queue) <= MaxQueueSize
  /\ batch \in Seq(Requests) /\ Len(batch) <= MaxBatchSize
  /\ ppc \in {"first", "fill", "scoring", "alone", "ended"}
  /\ turn \in 0..Len(batch) /\ stop \in {"no", "waiting", "returned"}

\* A caller that waits is never forgotten: its request is once in the queue or once
\* in the batch the processor holds, and neither outgrows its limit (TypeOK).
PlacedOnce ==
  LET places(r, s) == Cardinality({i \in DOMAIN s : s[i] = r}) IN
  TypeOK /\ \A r \in Requests :
    /\ req[r] = "queued" => places(r, queue) = 1 /\ places(r, batch) = 0
    /\ req[r] = "held"   => places(r, queue) = 0 /\ places(r, batch) = 1

\* A request that asks for a place is answered or refused, or its caller gives up.  What
\* can prevent it is a stop(), and the end of the processor, which a caller that leaves
\* while its request is scored alone brings about.
Answering == \A r \in Requests :
  req[r] = "putting" ~> \/ req[r] \in Answered \cup {"refused", "left"}
                        \/ stop # "no" \/ ppc = "ended"
=============================================================================
