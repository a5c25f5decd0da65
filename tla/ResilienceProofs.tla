-------------------------- MODULE ResilienceProofs --------------------------
(***************************************************************************)
(* Theorems about the in-process services whose tasks must not be left     *)
(* waiting, for every value of their constants.                            *)
(***************************************************************************)
EXTENDS Resilience, FiniteSetTheorems, WellFoundedInduction, TLAPS

\* A sequence that holds nothing twice.
Once(s) == \A i, j \in DOMAIN s : s[i] = s[j] => i = j
Holds(s, r) == \E i \in DOMAIN s : s[i] = r

\* What Append and Head/Tail do to what a sequence holds.
LEMMA Appended ==
  ASSUME NEW S, NEW s \in Seq(S), NEW x \in S
  PROVE  /\ Append(s, x) \in Seq(S) /\ Len(Append(s, x)) = Len(s) + 1
         /\ \A r : Holds(Append(s, x), r) <=> Holds(s, r) \/ r = x
         /\ Once(s) /\ ~Holds(s, x) => Once(Append(s, x))
<1> DEFINE t == Append(s, x)
<1>1. /\ t \in Seq(S) /\ Len(t) = Len(s) + 1 /\ DOMAIN t = 1..Len(s) + 1 /\ DOMAIN s = 1..Len(s)
      /\ \A i \in 1..Len(s) : t[i] = s[i]
      /\ t[Len(s) + 1] = x /\ Len(s) \in Nat
  OBVIOUS
<1> HIDE DEF t
<1>2. ASSUME NEW r PROVE Holds(t, r) <=> Holds(s, r) \/ r = x
  BY <1>1 DEF Holds
<1>3. ASSUME Once(s), ~Holds(s, x), NEW i \in DOMAIN t, NEW j \in DOMAIN t, t[i] = t[j] PROVE i = j
  BY <1>1, <1>3 DEF Holds, Once
<1> QED BY <1>1, <1>2, <1>3 DEF Once, t

LEMMA Headless ==
  ASSUME NEW S, NEW s \in Seq(S), s # <<>>
  PROVE  /\ Tail(s) \in Seq(S) /\ Len(Tail(s)) = Len(s) - 1 /\ Head(s) \in S /\ Holds(s, Head(s))
         /\ Once(s) => Once(Tail(s))
         /\ Once(s) => \A r : Holds(Tail(s), r) <=> Holds(s, r) /\ r # Head(s)
<1> DEFINE t == Tail(s)  x == Head(s)
<1>1. /\ t \in Seq(S) /\ Len(t) = Len(s) - 1 /\ DOMAIN t = 1..Len(s) - 1 /\ DOMAIN s = 1..Len(s)
      /\ \A i \in 1..Len(s) - 1 : t[i] = s[i + 1]
      /\ x = s[1] /\ Len(s) \in Nat /\ Len(s) > 0 /\ x \in S
  OBVIOUS
<1> HIDE DEF t, x
<1>2. Holds(s, x)
  BY <1>1 DEF Holds
<1>3. ASSUME Once(s), NEW i \in DOMAIN t, NEW j \in DOMAIN t, t[i] = t[j] PROVE i = j
  <2>1. i + 1 \in DOMAIN s /\ j + 1 \in DOMAIN s /\ s[i + 1] = s[j + 1] /\ i \in Nat /\ j \in Nat
    BY <1>1, <1>3
  <2> QED BY <1>3, <2>1 DEF Once
<1>4. ASSUME Once(s), NEW r, Holds(t, r) PROVE Holds(s, r) /\ r # x
  BY <1>1, <1>4 DEF Holds, Once
<1>5. ASSUME NEW r, Holds(s, r), r # x PROVE Holds(t, r)
  <2>1. PICK i \in 1..Len(s) : s[i] = r
    BY <1>1, <1>5 DEF Holds
  <2>2. i - 1 \in 1..Len(s) - 1 /\ t[i - 1] = r
    BY <1>1, <1>5, <2>1
  <2> QED BY <1>1, <2>2 DEF Holds
<1> QED BY <1>1, <1>2, <1>3, <1>4, <1>5 DEF Once, t, x

\* A set of positive integers that is not empty has a least element.
LEMMA Least ==
  ASSUME NEW S \in SUBSET Nat, S # {}
  PROVE  \E j \in S : \A k \in S : j <= k
<1> DEFINE Below == {p \in Nat \X Nat : p[1] < p[2]}
<1>0. OpToRel(<, Nat) = Below
  BY Zenon DEF OpToRel
<1>1. PICK j \in S : \A k \in S : ~(<<k, j>> \in Below)
  BY <1>0, NatLessThanWellFounded, WFMin
<1>2. ASSUME NEW k \in S PROVE j <= k
  <2>1. j \in Nat /\ k \in Nat /\ (k < j => <<k, j>> \in Below)
    OBVIOUS
  <2> HIDE DEF Below
  <2> QED BY <1>1, <2>1
<1> QED BY <1>1, <1>2

\* How often a sequence that holds nothing twice holds something.
LEMMA Times ==
  ASSUME NEW s, Once(s), NEW r
  PROVE  Cardinality({i \in DOMAIN s : s[i] = r}) = IF Holds(s, r) THEN 1 ELSE 0
<1> DEFINE at == {i \in DOMAIN s : s[i] = r}
<1>1. CASE Holds(s, r)
  <2>1. PICK i \in DOMAIN s : s[i] = r
    BY <1>1 DEF Holds
  <2>2. at = {i}
    BY <2>1 DEF Once
  <2> QED BY <1>1, <2>2, FS_Singleton
<1>2. CASE ~Holds(s, r)
  BY <1>2, FS_EmptySet DEF Holds
<1> QED BY <1>1, <1>2
-----------------------------------------------------------------------------
(***************************************************************************)
(* The batch queue                                                         *)
(***************************************************************************)
\* Nothing is in two places; who waits is where its state says; a batch is full at most
\* when it is scored, and before the request being scored alone all have their answers.
Placed ==
  /\ Once(queue) /\ Once(batch)
  /\ \A r \in Requests :
       /\ req[r] = "queued" => Holds(queue, r)
       /\ req[r] = "held" => Holds(batch, r)
       /\ Holds(queue, r) => req[r] \in {"queued", "left"} /\ ~Holds(batch, r)
       /\ Holds(batch, r) => req[r] \in {"held", "left", "result", "error"}
  /\ ppc = "first" => batch = <<>>
  /\ ppc = "fill" => Len(batch) < MaxBatchSize
  /\ ppc = "alone" => \A i \in 1..turn - 1 : B!FutureDone(batch[i])
BInv == B!TypeOK /\ Placed

LEMMA BatchInit == ASSUME BatchSizes PROVE B!Init => BInv
  BY DEF BatchSizes, B!Init, BInv, B!TypeOK, Placed, Once, Holds, B!Answered

\* The next batch begins when nobody in this one waits any longer.
LEMMA Stranded ==
  ASSUME BatchSizes, BInv, req' \in [Requests -> {"new", "putting", "queued", "held", "refused", "left"} \cup B!Answered],
         \A r \in Requests : req[r] # req'[r] => Holds(batch, r) /\ req[r] = "held" /\ req'[r] \in B!Answered,
         \A r \in Requests : Holds(batch, r) => req'[r] # "held",
         B!NextBatch, UNCHANGED <<queue, stop>>
  PROVE  BInv'
<1> USE DEF BatchSizes, B!Answered
<1>1. Once(batch') /\ \A r : ~Holds(batch', r)
  BY DEF B!NextBatch, Once, Holds
<1>2. B!TypeOK'
  BY DEF BInv, B!TypeOK, B!NextBatch
<1>3. ASSUME NEW r \in Requests
      PROVE  /\ req'[r] = "queued" => Holds(queue', r)
             /\ req'[r] # "held"
             /\ Holds(queue', r) => req'[r] \in {"queued", "left"}
  BY DEF BInv, Placed
<1> QED BY <1>1, <1>2, <1>3 DEF BInv, Placed, B!NextBatch

\* How the processor goes on after position i of the batch, once it has dealt with that.
LEMMA GoesOn ==
  ASSUME BatchSizes, BInv, ppc = "alone", NEW i \in 0..Len(batch), NEW q \in [Requests -> {"new", "putting", "queued", "held", "refused", "left"} \cup B!Answered],
         req' = q, \A r \in Requests : req[r] # q[r] => Holds(batch, r) /\ req[r] = "held" /\ q[r] \in B!Answered,
         \A j \in 1..i : q[batch[j]] \in B!Answered \cup {"left"},
         B!GoOnAfter(i, q), UNCHANGED <<queue, stop>>
  PROVE  BInv'
<1> USE DEF BatchSizes, B!Answered
<1> DEFINE todo == B!Later(i, q)
<1>1. todo \in SUBSET (1..Len(batch)) /\ Len(batch) \in Nat
      /\ \A j \in 1..Len(batch) : j > i /\ j \notin todo => q[batch[j]] \in B!Answered \cup {"left"}
  BY DEF B!Later, BInv, B!TypeOK
<1>2. CASE todo = {}
  <2>1. ASSUME NEW r \in Requests, Holds(batch, r) PROVE q[r] # "held"
    <3>1. PICK j \in 1..Len(batch) : batch[j] = r
      BY <2>1 DEF Holds, BInv, B!TypeOK
    <3> QED BY <1>1, <1>2, <3>1
  <2> QED BY <1>2, <2>1, Stranded DEF B!GoOnAfter
<1>3. CASE todo # {}
  <2>1. \E j \in todo : \A k \in todo : j <= k
    BY <1>1, <1>3, Least
  <2>2. turn' \in todo /\ (\A k \in todo : turn' <= k) /\ UNCHANGED <<batch, ppc>>
    BY <1>3, <2>1 DEF B!GoOnAfter
  <2> HIDE DEF todo
  <2>3. ASSUME NEW j \in 1..turn' - 1 PROVE q[batch[j]] \in B!Answered \cup {"left"}
    <3> DEFINE n == turn'
    <3>0. n \in 1..Len(batch) /\ n \in todo /\ \A k \in todo : n <= k
      BY <1>1, <2>2
    <3> HIDE DEF n
    <3>1. j \in 1..n - 1
      BY DEF n
    <3>2. j \notin todo /\ j \in 1..Len(batch)
      BY <1>1, <3>0, <3>1
    <3> QED BY <1>1, <3>2
  <2>4. B!TypeOK'
    BY <1>1, <2>2 DEF BInv, B!TypeOK
  <2>5. ASSUME NEW r \in Requests
        PROVE  /\ req'[r] = "queued" => Holds(queue', r)
               /\ req'[r] = "held" => Holds(batch', r)
               /\ Holds(queue', r) => req'[r] \in {"queued", "left"} /\ ~Holds(batch', r)
               /\ Holds(batch', r) => req'[r] \in {"held", "left", "result", "error"}
    BY <2>2 DEF BInv, Placed
  <2> QED BY <2>2, <2>3, <2>4, <2>5 DEF BInv, Placed, B!FutureDone
<1> QED BY <1>2, <1>3

LEMMA BatchStep == ASSUME BatchSizes PROVE BInv /\ [B!Next]_(B!vars) => BInv'
<1> SUFFICES ASSUME BInv, [B!Next]_(B!vars) PROVE BInv'
  OBVIOUS
<1> USE DEF BatchSizes, BInv, B!TypeOK, Placed, B!Answered, B!FutureDone
<1>1. ASSUME NEW r \in Requests, B!Submit(r) PROVE BInv'
  BY <1>1 DEF B!Submit
<1>2. ASSUME NEW r \in Requests, B!Put(r) PROVE BInv'
  <2>1. ~Holds(queue, r) /\ ~Holds(batch, r)
    BY <1>2 DEF B!Put
  <2>2. /\ queue' \in Seq(Requests) /\ Len(queue') <= MaxQueueSize
        /\ Once(queue') /\ \A x : Holds(queue', x) <=> Holds(queue, x) \/ x = r
    BY <1>2, <2>1, Appended DEF B!Put, B!HasRoom
  <2> QED BY <1>2, <2>1, <2>2 DEF B!Put
<1>3. ASSUME NEW r \in Requests, B!Refuse(r) PROVE BInv'
  BY <1>3 DEF B!Refuse, B!HasRoom
<1>4. ASSUME NEW r \in Requests, B!Leave(r) PROVE BInv'
  BY <1>4 DEF B!Leave, B!InSystem
<1>5. CASE B!Collect
  <2> DEFINE h == Head(queue)
  <2>1. /\ queue # <<>> /\ queue' = Tail(queue) /\ batch' = Append(batch, h)
        /\ req' = IF req[h] = "queued" THEN [req EXCEPT ![h] = "held"] ELSE req
        /\ ppc' = (IF Len(batch') >= MaxBatchSize THEN "scoring" ELSE "fill")
        /\ ppc \in {"first", "fill"} /\ UNCHANGED <<turn, stop>>
    BY <1>5 DEF B!Collect, B!Held, B!BatchFull
  <2>2. /\ queue' \in Seq(Requests) /\ Len(queue') <= MaxQueueSize /\ h \in Requests
        /\ Holds(queue, h) /\ Once(queue') /\ \A x : Holds(queue', x) <=> Holds(queue, x) /\ x # h
    BY <2>1, Headless
  <2>3. ~Holds(batch, h) /\ req[h] \in {"queued", "left"} /\ Len(batch) < MaxBatchSize
    BY <2>1, <2>2
  <2>4. /\ batch' \in Seq(Requests) /\ Len(batch') = Len(batch) + 1
        /\ Once(batch') /\ \A x : Holds(batch', x) <=> Holds(batch, x) \/ x = h
    BY <2>1, <2>2, <2>3, Appended
  <2> HIDE DEF h
  <2>5. B!TypeOK'
    BY <2>1, <2>2, <2>3, <2>4
  <2>6. ASSUME NEW r \in Requests
        PROVE  /\ req'[r] = "queued" => Holds(queue', r)
               /\ req'[r] = "held" => Holds(batch', r)
               /\ Holds(queue', r) => req'[r] \in {"queued", "left"} /\ ~Holds(batch', r)
               /\ Holds(batch', r) => req'[r] \in {"held", "left", "result", "error"}
    BY <2>1, <2>2, <2>3, <2>4
  <2> QED BY <2>1, <2>2, <2>4, <2>5, <2>6
<1>6. CASE B!WindowCloses \/ B!BatchFails
  BY <1>6 DEF B!WindowCloses, B!BatchFails
<1>7. CASE B!BatchScored
  <2> DEFINE unresolved == {batch[i] : i \in DOMAIN batch} \cap {r \in Requests : ~B!FutureDone(r)}
  <2>1. B!NextBatch /\ UNCHANGED <<queue, stop>>
        /\ req' = [r \in Requests |-> IF r \in unresolved THEN "result" ELSE req[r]]
    BY <1>7 DEF B!BatchScored, B!Resolve
  <2>2. \A r \in Requests : Holds(batch, r) /\ req[r] = "held" <=> r \in unresolved
    BY DEF Holds
  <2> HIDE DEF unresolved
  <2> QED BY <2>1, <2>2, Stranded
<1>8. CASE B!FirstAlone
  BY <1>8, GoesOn DEF B!FirstAlone
<1>9. ASSUME NEW how \in B!Answered, B!ScoredAlone(how) PROVE BInv'
  <2> DEFINE r == batch[turn]  q == [req EXCEPT ![r] = how]
  <2>1. turn \in 1..Len(batch) /\ ppc = "alone" /\ UNCHANGED <<queue, stop>> /\ r \in Requests /\ Holds(batch, r)
    BY <1>9 DEF B!ScoredAlone, Holds
  <2>2. CASE B!FutureDone(r)
    BY <1>9, <2>2 DEF B!ScoredAlone
  <2>3. CASE ~B!FutureDone(r)
    <3>1. req' = q /\ B!GoOnAfter(turn, q) /\ req[r] = "held"
      BY <1>9, <2>1, <2>3 DEF B!ScoredAlone
    <3>2. \A j \in 1..turn : q[batch[j]] \in B!Answered \cup {"left"}
      <4> SUFFICES ASSUME NEW j \in 1..turn PROVE q[batch[j]] \in B!Answered \cup {"left"}
        OBVIOUS
      <4>1. CASE j = turn
        BY <4>1, <2>1
      <4>2. CASE j # turn
        BY <4>2, <2>1
      <4> QED BY <4>1, <4>2
    <3>3. q \in [Requests -> {"new", "putting", "queued", "held", "refused", "left"} \cup B!Answered]
          /\ \A x \in Requests : req[x] # q[x] => Holds(batch, x) /\ req[x] = "held" /\ q[x] \in B!Answered
      BY <2>1, <3>1
    <3> HIDE DEF q
    <3> QED BY <2>1, <3>1, <3>2, <3>3, GoesOn
  <2> QED BY <2>2, <2>3
<1>10. CASE B!Stop
  BY <1>10 DEF B!Stop
<1>11. CASE B!StopReturn
  BY <1>11 DEF B!StopReturn
<1>12. CASE UNCHANGED B!vars
  BY <1>12 DEF B!vars
<1> QED BY <1>1, <1>2, <1>3, <1>4, <1>5, <1>6, <1>7, <1>8, <1>9, <1>10, <1>11, <1>12
         DEF B!Next, B!Processor, B!Alone

\* A request that waits is in the queue, or in the batch the processor holds, exactly
\* once, and neither outgrows its limit: no order of callers that leave, failed batches,
\* retries one by one and stop() makes the batch queue forget or double a request.
THEOREM BatchPlacedOnce == B!Spec => []PlacedOnce
<1>1. BInv => PlacedOnce
  <2> SUFFICES ASSUME BInv PROVE PlacedOnce
    OBVIOUS
  <2> DEFINE at(r, s) == {i \in DOMAIN s : s[i] = r}
  <2>1. ASSUME NEW s, Once(s), NEW r
        PROVE  Cardinality(at(r, s)) = IF Holds(s, r) THEN 1 ELSE 0
    BY <2>1, Times
  <2>2. Once(queue) /\ Once(batch) /\ B!TypeOK
    BY DEF BInv, Placed
  <2>3. ASSUME NEW r \in Requests
        PROVE  /\ req[r] = "queued" => Holds(queue, r) /\ ~Holds(batch, r)
               /\ req[r] = "held" => ~Holds(queue, r) /\ Holds(batch, r)
    BY DEF BInv, Placed
  <2>4. ASSUME NEW r \in Requests
        PROVE  /\ req[r] = "queued" => Cardinality(at(r, queue)) = 1 /\ Cardinality(at(r, batch)) = 0
               /\ req[r] = "held" => Cardinality(at(r, queue)) = 0 /\ Cardinality(at(r, batch)) = 1
    BY <2>1, <2>2, <2>3
  <2>5. \A S : B!Cardinality(S) = Cardinality(S)
    BY DEF B!Cardinality, Cardinality
  <2> QED BY <2>2, <2>4, <2>5 DEF PlacedOnce, B!PlacedOnce
<1> QED BY <1>1, BatchInit, BatchStep, ResilienceAssumption, PTL DEF B!Spec
-----------------------------------------------------------------------------
(***************************************************************************)
(* The webhook retry service                                               *)
(***************************************************************************)
\* The dead-letter queue holds an event once, just when its delivery ended in it; what a
\* receiver has got is bounded by the rounds that are over and the tries of this one; and
\* an event that waits in its backoff has not yet made its late attempt.
Budget == (MaxRetries + 1) * rounds
Retried(e) ==
  /\ Holds(dlq, e) <=> task[e] = "done" /\ outcome[e] = "dead_lettered"
  /\ outcome[e] = "delivered" => received[e] >= 1
  /\ late[e] <= 1
  /\ task[e] = "backoff" /\ breaker[Target[e]].state = "open" => late[e] = 0
  /\ task[e] = "attempt" => tries[e] >= 1
  /\ task[e] = "backoff" => tries[e] <= MaxRetries
  /\ task[e] \in {"new", "queued"} => received[e] <= Budget
  /\ task[e] = "attempt" => received[e] < Budget + tries[e]
  /\ task[e] = "backoff" => received[e] <= Budget + tries[e]
  /\ received[e] <= Budget + MaxRetries + 1
WInv == W!TypeOK /\ Once(dlq) /\ \A e \in Webhooks : Retried(e)

LEMMA BudgetGrows ==
  ASSUME RetrySettings, W!TypeOK
  PROVE  /\ Budget \in Nat
         /\ (MaxRetries + 1) * (rounds + 1) = Budget + MaxRetries + 1
  BY DEF RetrySettings, W!TypeOK, Budget

Breakers == [state : {"closed", "open", "half_open"}, failures : 0..HookThreshold,
             since : 0..HookTimeout]

LEMMA BreakerSteps ==
  ASSUME RetrySettings, NEW b \in Breakers
  PROVE  /\ W!AfterSuccess(b) \in Breakers /\ (W!AfterSuccess(b).state = "open" => b.state = "open")
         /\ W!AfterFailure(b) \in Breakers
         /\ b.state = "open" => W!AfterFailure(b).state = "open"
         /\ W!AfterAllow(b) \in Breakers /\ (W!AfterAllow(b).state = "open" => b.state = "open")
         /\ W!Allows(b) => W!AfterAllow(b).state # "open"
<1> USE DEF RetrySettings, Breakers
<1>1. W!AfterSuccess(b) \in Breakers /\ (W!AfterSuccess(b).state = "open" => b.state = "open")
  BY DEF W!AfterSuccess
<1>2. W!AfterAllow(b) \in Breakers /\ (W!AfterAllow(b).state = "open" => b.state = "open")
  <2>1. 0 \in 0..HookTimeout
    OBVIOUS
  <2>2. CASE W!Due(b)
    BY <2>1, <2>2 DEF W!AfterAllow
  <2>3. CASE ~W!Due(b)
    BY <2>3 DEF W!AfterAllow
  <2> QED BY <2>2, <2>3
<1>3. W!Allows(b) => W!AfterAllow(b).state # "open"
  BY DEF W!AfterAllow, W!Allows, W!Due
<1>4. W!AfterFailure(b) \in Breakers /\ (b.state = "open" => W!AfterFailure(b).state = "open")
  <2> DEFINE n == IF b.failures < HookThreshold THEN b.failures + 1 ELSE HookThreshold
  <2>1. n \in 0..HookThreshold
    OBVIOUS
  <2> HIDE DEF n
  <2>2. W!AfterFailure(b) = IF b.state = "half_open" \/ (b.state = "closed" /\ n >= HookThreshold)
                              THEN [state |-> "open", failures |-> n, since |-> 0]
                              ELSE [b EXCEPT !.failures = n]
    BY DEF W!AfterFailure, n
  <2> QED BY <2>1, <2>2
<1> QED BY <1>1, <1>2, <1>3, <1>4

LEMMA RetryInit == ASSUME RetrySettings PROVE W!Init => WInv
  BY DEF RetrySettings, W!Init, WInv, W!TypeOK, Retried, Once, Holds, W!Outcomes, Budget

\* An event whose deliver() ends without success.
LEMMA GivesUp ==
  ASSUME RetrySettings, WInv, NEW e \in Webhooks, task[e] \in {"queued", "attempt"}, W!GiveUp(e)
  PROVE  /\ dlq' \in Seq(Webhooks) /\ Once(dlq')
         /\ \A x \in Webhooks : Holds(dlq', x) <=> task'[x] = "done" /\ outcome'[x] = "dead_lettered"
<1>1. ~Holds(dlq, e)
  BY DEF WInv, Retried
<1>2. CASE DlqEnabled
  <2>1. dlq' = Append(dlq, e)
    BY <1>2 DEF W!GiveUp, W!Requeued
  <2> QED BY <1>1, <1>2, <2>1, Appended DEF W!GiveUp, WInv, W!TypeOK, Retried
<1>3. CASE ~DlqEnabled
  BY <1>1, <1>3 DEF W!GiveUp, W!Requeued, WInv, W!TypeOK, Retried
<1> QED BY <1>2, <1>3

LEMMA CopiesHeld ==
  ASSUME Once(dlq), NEW e
  PROVE  W!Copies(e) = IF Holds(dlq, e) THEN 1 ELSE 0
<1>1. \A S : W!Cardinality(S) = Cardinality(S)
  BY DEF W!Cardinality, Cardinality
<1> QED BY <1>1, Times DEF W!Copies

LEMMA RetryStep == ASSUME RetrySettings PROVE WInv /\ [W!Next]_(W!vars) => WInv'
<1> SUFFICES ASSUME WInv, [W!Next]_(W!vars) PROVE WInv'
  OBVIOUS
<1> USE DEF RetrySettings
<1>0. /\ W!TypeOK /\ Once(dlq) /\ (\A e \in Webhooks : Retried(e))
      /\ breaker \in [Endpoints -> Breakers] /\ Budget \in Nat
      /\ (UNCHANGED rounds => Budget' = Budget)
      /\ (rounds' = rounds + 1 => Budget' = Budget + MaxRetries + 1)
  BY BudgetGrows DEF Breakers, Budget, WInv, W!TypeOK
<1> USE DEF W!Outcomes
<1>1. ASSUME NEW e \in Webhooks, W!Submit(e) PROVE WInv'
  <2>1. W!TypeOK'
    BY <1>0, <1>1 DEF W!Submit, W!TypeOK
  <2>2. ASSUME NEW x \in Webhooks PROVE Retried(x)'
    BY <1>0, <1>1 DEF W!Submit, W!TypeOK, Retried
  <2> QED BY <1>0, <1>1, <2>1, <2>2 DEF WInv, W!Submit
<1>2. ASSUME NEW e \in Webhooks, W!BeginUnknown(e) PROVE WInv'
  <2>1. W!TypeOK'
    BY <1>0, <1>2 DEF W!BeginUnknown, W!TypeOK
  <2>2. ASSUME NEW x \in Webhooks PROVE Retried(x)'
    BY <1>0, <1>2 DEF W!BeginUnknown, W!TypeOK, Retried
  <2> QED BY <1>0, <1>2, <2>1, <2>2 DEF WInv, W!BeginUnknown
<1>3. ASSUME NEW e \in Webhooks, W!BeginRefused(e) PROVE WInv'
  <2>1. /\ dlq' \in Seq(Webhooks) /\ Once(dlq')
        /\ \A x \in Webhooks : Holds(dlq', x) <=> task'[x] = "done" /\ outcome'[x] = "dead_lettered"
    BY <1>3, GivesUp DEF W!BeginRefused
  <2>2. W!TypeOK'
    BY <1>0, <1>3, <2>1 DEF W!BeginRefused, W!GiveUp, W!TypeOK
  <2>3. ASSUME NEW x \in Webhooks PROVE Retried(x)'
    BY <1>0, <1>3, <2>1 DEF W!BeginRefused, W!GiveUp, W!TypeOK, Retried
  <2> QED BY <2>1, <2>2, <2>3 DEF WInv
<1>4. ASSUME NEW e \in Webhooks, W!BeginAllowed(e) PROVE WInv'
  <2> DEFINE b == W!AfterAllow(breaker[Target[e]])
  <2>1. b \in Breakers /\ b.state # "open" /\ breaker' = [breaker EXCEPT ![Target[e]] = b]
    <3>1. Target[e] \in Endpoints /\ breaker[Target[e]] \in Breakers
      BY <1>0
    <3> QED BY <1>4, <3>1, BreakerSteps DEF W!BeginAllowed
  <2>2. task[e] = "queued" /\ task' = [task EXCEPT ![e] = "attempt"] /\ tries' = [tries EXCEPT ![e] = 1]
        /\ UNCHANGED <<registered, dlq, outcome, rounds, received, late>>
    BY <1>4, <2>1 DEF W!BeginAllowed, W!StartAttempt
  <2> HIDE DEF b
  <2>0. breaker' \in [Endpoints -> Breakers]
    BY <1>0, <2>1
  <2>3. W!TypeOK'
    BY <1>0, <2>0, <2>2 DEF W!TypeOK, Breakers
  <2>4. ASSUME NEW x \in Webhooks PROVE Retried(x)'
    BY <1>0, <2>1, <2>2 DEF W!TypeOK, Retried
  <2> QED BY <1>0, <2>2, <2>3, <2>4 DEF WInv
<1>5. ASSUME NEW e \in Webhooks, W!Succeed(e) PROVE WInv'
  <2> DEFINE b == W!AfterSuccess(breaker[Target[e]])
  <2>1. b \in Breakers /\ (b.state = "open" => breaker[Target[e]].state = "open")
        /\ breaker' = [breaker EXCEPT ![Target[e]] = b]
    <3>1. Target[e] \in Endpoints /\ breaker[Target[e]] \in Breakers
      BY <1>0
    <3> QED BY <1>5, <3>1, BreakerSteps DEF W!Succeed
  <2> HIDE DEF b
  <2>0. breaker' \in [Endpoints -> Breakers]
        /\ \A q \in Endpoints : breaker'[q].state = "open" => breaker[q].state = "open"
    BY <1>0, <2>1
  <2>2. W!TypeOK'
    <3>1. /\ task' = [task EXCEPT ![e] = "done"] /\ outcome' = [outcome EXCEPT ![e] = "delivered"]
          /\ received' = [received EXCEPT ![e] = @ + 1] /\ UNCHANGED <<registered, tries, dlq, rounds, late>>
      BY <1>5 DEF W!Succeed
    <3>2. received' \in [Webhooks -> Nat]
      BY <1>0, <3>1 DEF W!TypeOK
    <3> QED BY <1>0, <2>0, <3>1, <3>2 DEF W!TypeOK, Breakers
  <2>3. ASSUME NEW x \in Webhooks PROVE Retried(x)'
    <3>1. /\ Target[x] \in Endpoints /\ Retried(x) /\ W!TypeOK /\ Budget' = Budget /\ Budget \in Nat
          /\ breaker'[Target[x]].state = "open" => breaker[Target[x]].state = "open"
      BY <1>0, <1>5, <2>0 DEF W!Succeed
    <3>2. CASE x = e
      BY <1>5, <3>1, <3>2 DEF W!Succeed, W!TypeOK, Retried
    <3>3. CASE x # e
      BY <1>5, <3>1, <3>3 DEF W!Succeed, W!TypeOK, Retried
    <3> QED BY <3>2, <3>3
  <2> QED BY <1>0, <1>5, <2>2, <2>3 DEF WInv, W!Succeed
<1>6. ASSUME NEW e \in Webhooks, W!Wake(e) PROVE WInv'
  <2>1. late[e] \in {0, 1} /\ (breaker[Target[e]].state = "open" => late[e] = 0) /\ tries[e] <= MaxRetries
    BY <1>0, <1>6 DEF W!Wake, W!TypeOK, Retried
  <2>2. /\ task[e] = "backoff" /\ task' = [task EXCEPT ![e] = "attempt"] /\ tries' = [tries EXCEPT ![e] = @ + 1]
        /\ late' = IF breaker[Target[e]].state = "open" THEN [late EXCEPT ![e] = @ + 1] ELSE late
        /\ UNCHANGED <<registered, breaker, dlq, outcome, rounds, received>> /\ Budget' = Budget
    BY <1>0, <1>6 DEF W!Wake, W!StartAttempt
  <2>5. /\ late' \in [Webhooks -> Nat] /\ late'[e] <= 1 /\ \A x \in Webhooks : x # e => late'[x] = late[x]
        /\ tries' \in [Webhooks -> 0..MaxRetries + 1] /\ tries'[e] = tries[e] + 1
        /\ \A x \in Webhooks : x # e => tries'[x] = tries[x]
    BY <1>0, <2>1, <2>2 DEF W!TypeOK
  <2>3. W!TypeOK'
    BY <1>0, <2>2, <2>5 DEF W!TypeOK
  <2>4. ASSUME NEW x \in Webhooks PROVE Retried(x)'
    <3>1. CASE x = e
      BY <1>0, <2>2, <2>5, <3>1 DEF W!TypeOK, Retried
    <3>2. CASE x # e
      BY <1>0, <2>2, <2>5, <3>2 DEF W!TypeOK, Retried
    <3> QED BY <3>1, <3>2
  <2> QED BY <1>0, <1>6, <2>3, <2>4 DEF WInv, W!Wake
<1>7. ASSUME NEW e \in Webhooks, NEW arrived \in BOOLEAN, NEW retryable \in BOOLEAN, W!Fail(e, arrived, retryable)
      PROVE  WInv'
  <2> DEFINE p == Target[e]  b == W!AfterFailure(breaker[p])
             last == W!Exhausted(e) \/ ~retryable
             c == IF last THEN b ELSE W!AfterAllow(b)
             over == last \/ ~W!Allows(b)
  <2>0. p \in Endpoints /\ breaker[p] \in Breakers
    BY <1>0
  <2>1. /\ task[e] = "attempt" /\ breaker' = [breaker EXCEPT ![p] = c] /\ UNCHANGED <<registered, rounds>>
        /\ late' = W!LateAfter(p, breaker[p], b)
        /\ received' = IF arrived THEN [received EXCEPT ![e] = @ + 1] ELSE received
        /\ over => W!GiveUp(e)
        /\ ~over => task' = [task EXCEPT ![e] = "backoff"] /\ UNCHANGED <<dlq, outcome, tries>>
    BY <1>7 DEF W!Fail
  <2>2. b \in Breakers /\ c \in Breakers
        /\ (breaker[p].state = "open" => b.state = "open")
        /\ (c.state = "open" => b.state = "open") /\ (~over => c.state # "open")
    BY <2>0, BreakerSteps
  <2>3. ~over => tries[e] <= MaxRetries
    BY <1>0 DEF W!Exhausted, W!TypeOK
  <2> HIDE DEF p, b, last, c, over
  <2>4. /\ late' \in [Webhooks -> Nat]
        /\ \A x \in Webhooks : late'[x] = 0 \/ late'[x] = late[x]
        /\ \A x \in Webhooks : Target[x] = p /\ breaker[p].state # "open" /\ b.state = "open" => late'[x] = 0
    BY <1>0, <2>1 DEF W!LateAfter, W!TypeOK
  <2>5. \A x \in Webhooks : task[x] = "backoff" /\ breaker'[Target[x]].state = "open" => late'[x] = 0
    <3> SUFFICES ASSUME NEW x \in Webhooks, task[x] = "backoff", breaker'[Target[x]].state = "open" PROVE late'[x] = 0
      OBVIOUS
    <3>1. late[x] \in Nat /\ (breaker[Target[x]].state = "open" => late[x] = 0) /\ Target[x] \in Endpoints
      BY <1>0 DEF Retried, W!TypeOK
    <3>2. CASE Target[x] # p
      BY <1>0, <2>1, <2>4, <3>1, <3>2
    <3>3. CASE Target[x] = p
      <4>1. c.state = "open"
        BY <1>0, <2>1, <2>2, <3>3
      <4> QED BY <2>2, <2>4, <3>1, <3>3, <4>1
    <3> QED BY <3>2, <3>3
  <2>6. breaker' \in [Endpoints -> Breakers] /\ (~over => breaker'[Target[e]].state # "open")
    BY <1>0, <2>0, <2>1, <2>2 DEF p
  <2>7. received' \in [Webhooks -> Nat] /\ received'[e] \in {received[e], received[e] + 1}
        /\ \A x \in Webhooks : x # e => received'[x] = received[x]
    BY <1>0, <2>1 DEF W!TypeOK
  <2>8. ASSUME NEW x \in Webhooks
        PROVE  /\ Retried(x) /\ Budget' = Budget /\ Budget \in Nat /\ task[e] = "attempt"
               /\ tries[x] \in 0..MaxRetries + 1 /\ received[x] \in Nat /\ received'[x] \in Nat
               /\ late'[x] \in Nat /\ late'[x] <= 1
               /\ received[x] <= received'[x] /\ received'[x] <= received[x] + 1
               /\ x # e => received'[x] = received[x]
    <3>1. late[x] \in Nat /\ late[x] <= 1 /\ tries[x] \in 0..MaxRetries + 1 /\ received[x] \in Nat
      BY <1>0 DEF W!TypeOK, Retried
    <3>2. Retried(x) /\ Budget' = Budget /\ Budget \in Nat /\ task[e] = "attempt"
      BY <1>0, <2>1
    <3> QED BY <2>4, <2>7, <3>1, <3>2
  <2>9. CASE over
    <3>1. W!GiveUp(e)
      BY <2>1, <2>9
    <3>2. /\ dlq' \in Seq(Webhooks) /\ Once(dlq')
          /\ \A x \in Webhooks : Holds(dlq', x) <=> task'[x] = "done" /\ outcome'[x] = "dead_lettered"
      BY <2>1, <3>1, GivesUp
    <3>3. W!TypeOK'
      BY <1>0, <2>1, <2>4, <2>6, <2>7, <3>1, <3>2 DEF W!GiveUp, W!TypeOK, Breakers
    <3>4. ASSUME NEW x \in Webhooks PROVE Retried(x)'
      <4>1. /\ UNCHANGED tries
            /\ x = e => task'[x] = "done" /\ outcome'[x] # "delivered"
            /\ x # e => task'[x] = task[x] /\ outcome'[x] = outcome[x]
        BY <1>0, <3>1 DEF W!GiveUp, W!TypeOK
      <4>2. CASE x = e
        BY <2>8, <3>2, <4>1, <4>2 DEF Retried
      <4>3. CASE x # e
        BY <2>5, <2>8, <3>2, <4>1, <4>3 DEF Retried
      <4> QED BY <4>2, <4>3
    <3> QED BY <3>2, <3>3, <3>4 DEF WInv
  <2>10. CASE ~over
    <3>1. W!TypeOK'
      BY <1>0, <2>1, <2>4, <2>6, <2>7, <2>10 DEF W!TypeOK, Breakers
    <3>2. ASSUME NEW x \in Webhooks PROVE Retried(x)'
      <4>1. /\ UNCHANGED <<dlq, outcome, tries>> /\ breaker'[Target[e]].state # "open"
            /\ x = e => task'[x] = "backoff"
            /\ x # e => task'[x] = task[x]
        BY <1>0, <2>1, <2>6, <2>10 DEF W!TypeOK
      <4>2. CASE x = e
        BY <2>3, <2>8, <2>10, <4>1, <4>2 DEF Retried
      <4>3. CASE x # e
        BY <2>5, <2>8, <4>1, <4>3 DEF Retried
      <4> QED BY <4>2, <4>3
    <3> QED BY <1>0, <2>1, <2>10, <3>1, <3>2 DEF WInv
  <2> QED BY <2>9, <2>10
<1>8. CASE W!RetryDeadLetters
  <2>1. dlq' = <<>> /\ Once(dlq') /\ \A x : ~Holds(dlq', x)
    BY <1>8 DEF W!RetryDeadLetters, W!Drained, Once, Holds
  <2>2. task' = [e \in Webhooks |-> IF Holds(dlq, e) THEN "queued" ELSE task[e]]
    BY <1>0, <1>8, CopiesHeld DEF W!RetryDeadLetters
  <2>3. rounds' = rounds + 1 /\ rounds < MaxRounds /\ UNCHANGED <<registered, breaker, tries, outcome, received, late>>
    BY <1>8 DEF W!RetryDeadLetters
  <2>4. W!TypeOK'
    BY <1>0, <2>1, <2>2, <2>3 DEF W!TypeOK
  <2>5. ASSUME NEW x \in Webhooks PROVE Retried(x)'
    BY <1>0, <2>1, <2>2, <2>3 DEF W!TypeOK, Retried
  <2> QED BY <2>1, <2>4, <2>5 DEF WInv
<1>9. CASE W!PurgeDeadLetters
  <2>1. dlq' = <<>> /\ Once(dlq') /\ \A x : ~Holds(dlq', x)
    BY <1>9 DEF W!PurgeDeadLetters, Once, Holds
  <2>2. outcome' = [e \in Webhooks |-> IF Holds(dlq, e) THEN "purged" ELSE outcome[e]]
    BY <1>0, <1>9, CopiesHeld DEF W!PurgeDeadLetters
  <2>3. UNCHANGED <<registered, breaker, task, tries, rounds, received, late>>
    BY <1>9 DEF W!PurgeDeadLetters
  <2>4. W!TypeOK'
    BY <1>0, <2>1, <2>2, <2>3 DEF W!TypeOK
  <2>5. ASSUME NEW x \in Webhooks PROVE Retried(x)'
    BY <1>0, <2>1, <2>2, <2>3 DEF W!TypeOK, Retried
  <2> QED BY <2>1, <2>4, <2>5 DEF WInv
<1>10. ASSUME NEW p \in Endpoints, W!UnregisterEndpoint(p) PROVE WInv'
  BY <1>0, <1>10 DEF W!UnregisterEndpoint, W!TypeOK, WInv, Retried
<1>11. ASSUME NEW p \in Endpoints, W!ResetCircuit(p) PROVE WInv'
  <2>1. W!TypeOK'
    BY <1>0, <1>11 DEF W!ResetCircuit, W!TypeOK
  <2>2. ASSUME NEW x \in Webhooks PROVE Retried(x)'
    BY <1>0, <1>11 DEF W!ResetCircuit, W!TypeOK, Retried
  <2> QED BY <1>0, <1>11, <2>1, <2>2 DEF WInv, W!ResetCircuit
<1>12. CASE W!Tick
  <2>1. breaker' \in [Endpoints -> Breakers] /\ \A p \in Endpoints : breaker'[p].state = breaker[p].state
    <3> DEFINE b(p) == [breaker[p] EXCEPT !.since = IF @ < HookTimeout THEN @ + 1 ELSE @]
    <3>1. ASSUME NEW p \in Endpoints PROVE b(p) \in Breakers /\ b(p).state = breaker[p].state
      <4>1. breaker[p] \in Breakers
        BY <1>0
      <4> QED BY <4>1 DEF Breakers
    <3>2. breaker' = [p \in Endpoints |-> b(p)]
      BY <1>12 DEF W!Tick
    <3> HIDE DEF b
    <3> QED BY <3>1, <3>2
  <2>2. UNCHANGED <<registered, task, tries, dlq, outcome, rounds, received, late>>
    BY <1>12 DEF W!Tick
  <2> QED BY <1>0, <2>1, <2>2 DEF WInv, W!TypeOK, Breakers, Retried
<1>13. CASE UNCHANGED W!vars
  BY <1>0, <1>13 DEF W!vars, W!TypeOK, WInv, Retried
<1> QED BY <1>1, <1>2, <1>3, <1>4, <1>5, <1>6, <1>7, <1>8, <1>9, <1>10, <1>11, <1>12, <1>13
         DEF W!Next, W!Deliver

\* An event is in one place: being delivered, once in the dead-letter queue, or done with;
\* whatever endpoints are removed, circuits reset, and dead letters retried or purged.
THEOREM WebhookOnePlace == W!Spec => []OnePlace
<1>1. WInv => OnePlace
  <2>1. ASSUME WInv, NEW e \in Webhooks
        PROVE  W!Copies(e) = IF task[e] = "done" /\ outcome[e] = "dead_lettered" THEN 1 ELSE 0
    BY <2>1, CopiesHeld DEF WInv, Retried
  <2> QED BY <2>1 DEF WInv, W!TypeOK, OnePlace, W!OnePlace, W!InFlight
<1> QED BY <1>1, RetryInit, RetryStep, ResilienceAssumption, PTL DEF W!Spec

\* The receiver is asked as often as the retries, the rounds and the circuit allow: no
\* event arrives more often than the attempts its rounds may make, and an open circuit lets
\* through at most the one attempt of an event that was already waiting in its backoff.
THEOREM WebhookAttempts == W!Spec => []AttemptsBounded
<1>1. WInv => AttemptsBounded
  <2>1. ASSUME WInv, NEW e \in Webhooks
        PROVE  /\ received[e] <= Budget + MaxRetries + 1 /\ late[e] <= 1
               /\ outcome[e] = "delivered" => received[e] >= 1
    BY <2>1 DEF WInv, Retried
  <2>2. WInv => (MaxRetries + 1) * (rounds + 1) = Budget + MaxRetries + 1
    BY BudgetGrows, ResilienceAssumption DEF WInv
  <2> QED BY <2>1, <2>2 DEF AttemptsBounded, W!AttemptsBounded, W!DuplicateBound, W!OneLateAttempt
<1> QED BY <1>1, RetryInit, RetryStep, ResilienceAssumption, PTL DEF W!Spec
-----------------------------------------------------------------------------
(***************************************************************************)
(* Hot reload                                                              *)
(***************************************************************************)
\* Whoever holds the lock is not in its callbacks; what is announced and what is being
\* announced are together the steps from one version to the next.
Busy == {t \in H!Anyone : calling[t] # H!None}
Announcing ==
  /\ version \in Nat \ {0} /\ snapshot.version = version
  /\ calling \in [H!Anyone -> {H!None} \cup Nat \X Nat] /\ announced \in Seq(Nat \X Nat)
  /\ holder \in H!Anyone => calling[holder] = H!None
  /\ H!Range(announced) \cup {calling[t] : t \in Busy} = {<<v - 1, v>> : v \in 2..version}
  /\ Len(announced) + Cardinality(Busy) = version - 1

LEMMA Busyness ==
  ASSUME ReloadThreads
  PROVE  IsFiniteSet(Busy) /\ Cardinality(Busy) \in Nat
<1>1. IsFiniteSet(H!Anyone)
  BY FS_AddElement DEF ReloadThreads, H!Anyone
<1> QED BY <1>1, FS_Subset, FS_CardinalityType DEF Busy

LEMMA HotInit == ASSUME ReloadThreads PROVE H!Init => Announcing
<1> SUFFICES ASSUME H!Init PROVE Announcing
  OBVIOUS
<1>1. Busy = {}
  BY DEF H!Init, Busy
<1>2. H!Range(announced) = {}
  BY DEF H!Init, H!Range
<1> QED BY <1>1, <1>2, FS_EmptySet DEF H!Init, Announcing

LEMMA HotStep == ASSUME ReloadThreads PROVE Announcing /\ [H!Next]_(H!hrvars) => Announcing'
<1> SUFFICES ASSUME Announcing, [H!Next]_(H!hrvars) PROVE Announcing'
  OBVIOUS
<1>1. ASSUME UNCHANGED <<version, snapshot, holder, calling, announced>> PROVE Announcing'
  BY <1>1 DEF Announcing, Busy, H!Range
<1>2. ASSUME NEW t \in H!Anyone, calling[t] = H!None, holder' = t,
             UNCHANGED <<version, snapshot, calling, announced>>
      PROVE  Announcing'
  BY <1>2 DEF Announcing, Busy, H!Range
<1>3. ASSUME NEW t \in H!Anyone, H!Publish(t) PROVE Announcing'
  <2>0. t = holder /\ calling[t] = H!None /\ t \notin Busy /\ holder' = H!Nobody /\ UNCHANGED announced
        /\ H!Nobody \notin H!Anyone
    BY <1>3 DEF H!Publish, Announcing, Busy, ReloadThreads, H!Anyone, H!Nobody, H!Watcher
  <2>1. CASE ~H!Valid(read[1], file.override)
    <3>1. UNCHANGED <<version, snapshot, calling>>
      BY <1>3, <2>1 DEF H!Publish, H!Kept
    <3> QED BY <2>0, <3>1 DEF Announcing, Busy, H!Range
  <2>2. CASE H!Valid(read[1], file.override)
    <3> DEFINE new == <<version, version + 1>>
    <3>1. /\ version' = version + 1 /\ snapshot'.version = version'
          /\ calling' = [calling EXCEPT ![t] = new]
      BY <1>3, <2>2 DEF H!Publish, Announcing
    <3>2. version \in Nat \ {0} /\ new \in Nat \X Nat /\ new # H!None
          /\ calling \in [H!Anyone -> {H!None} \cup Nat \X Nat]
      BY DEF Announcing, H!None
    <3> HIDE DEF new
    <3>3. calling' \in [H!Anyone -> {H!None} \cup Nat \X Nat] /\ calling'[t] = new
          /\ \A u \in H!Anyone : u # t => calling'[u] = calling[u]
      BY <3>1, <3>2
    <3>4. Busy' = Busy \cup {t}
      BY <3>2, <3>3 DEF Busy
    <3>5. {calling'[u] : u \in Busy'} = {calling[u] : u \in Busy} \cup {new}
      BY <2>0, <3>3, <3>4 DEF Busy
    <3>6. {<<v - 1, v>> : v \in 2..version + 1} = {<<v - 1, v>> : v \in 2..version} \cup {new}
      <4>1. 2..version + 1 = 2..version \cup {version + 1}
        BY <3>2
      <4> QED BY <3>2, <4>1 DEF new
    <3>7. H!Range(announced)' \cup {calling'[u] : u \in Busy'} = {<<v - 1, v>> : v \in 2..version'}
      BY <2>0, <3>1, <3>5, <3>6 DEF Announcing, H!Range
    <3>8. Cardinality(Busy') = Cardinality(Busy) + 1
      BY <2>0, <3>4, Busyness, FS_AddElement
    <3>9. announced' \in Seq(Nat \X Nat) /\ Len(announced') + Cardinality(Busy') = version' - 1
      BY <2>0, <3>1, <3>2, <3>8, Busyness DEF Announcing
    <3>10. version' \in Nat \ {0} /\ snapshot'.version = version' /\ holder' \notin H!Anyone
      BY <2>0, <3>1, <3>2
    <3> QED BY <3>3, <3>7, <3>9, <3>10 DEF Announcing
  <2> QED BY <2>1, <2>2
<1>4. ASSUME NEW t \in H!Anyone, H!Announce(t) PROVE Announcing'
  <2>1. /\ t \in Busy /\ calling[t] \in Nat \X Nat /\ announced' = Append(announced, calling[t])
        /\ calling' = [calling EXCEPT ![t] = H!None] /\ UNCHANGED <<version, snapshot, holder>>
        /\ announced \in Seq(Nat \X Nat) /\ calling \in [H!Anyone -> {H!None} \cup Nat \X Nat]
    BY <1>4 DEF H!Announce, Announcing, Busy
  <2>2. /\ announced' \in Seq(Nat \X Nat) /\ Len(announced') = Len(announced) + 1
        /\ H!Range(announced') = H!Range(announced) \cup {calling[t]}
    <3> DEFINE x == calling[t]  a == Append(announced, x)
    <3> HIDE DEF x
    <3>1. /\ a \in Seq(Nat \X Nat) /\ Len(a) = Len(announced) + 1 /\ Len(announced) \in Nat
          /\ DOMAIN a = 1..Len(announced) + 1 /\ DOMAIN announced = 1..Len(announced)
          /\ a[Len(announced) + 1] = x /\ \A i \in 1..Len(announced) : a[i] = announced[i]
      BY <2>1 DEF x
    <3> HIDE DEF a
    <3>2. H!Range(a) = H!Range(announced) \cup {x}
      <4>1. DOMAIN a = DOMAIN announced \cup {Len(announced) + 1}
        BY <3>1
      <4>2. ASSUME NEW y \in H!Range(a) PROVE y \in H!Range(announced) \cup {x}
        BY <3>1, <4>1 DEF H!Range
      <4>3. ASSUME NEW y \in H!Range(announced) PROVE y \in H!Range(a)
        <5>1. PICK i \in DOMAIN announced : y = announced[i]
          BY DEF H!Range
        <5>2. i \in DOMAIN a /\ a[i] = y
          BY <3>1, <4>1, <5>1
        <5> QED BY <5>2 DEF H!Range
      <4>4. x \in H!Range(a)
        BY <3>1, <4>1 DEF H!Range
      <4> QED BY <4>2, <4>3, <4>4
    <3> QED BY <2>1, <3>1, <3>2 DEF a, x
  <2>3. calling' \in [H!Anyone -> {H!None} \cup Nat \X Nat] /\ calling'[t] = H!None
        /\ \A u \in H!Anyone : u # t => calling'[u] = calling[u]
    BY <2>1
  <2>4. Busy' = Busy \ {t} /\ Busy = Busy' \cup {t}
    BY <2>1, <2>3 DEF Busy
  <2>5. {calling[u] : u \in Busy} = {calling'[u] : u \in Busy'} \cup {calling[t]}
    BY <2>1, <2>3, <2>4 DEF Busy
  <2>6. Cardinality(Busy') = Cardinality(Busy) - 1
    BY <2>1, <2>4, Busyness, FS_RemoveElement
  <2>7. H!Range(announced') \cup {calling'[u] : u \in Busy'} = {<<v - 1, v>> : v \in 2..version}
    BY <2>2, <2>5 DEF Announcing
  <2>8. version \in Nat \ {0} /\ snapshot.version = version /\ Len(announced') + Cardinality(Busy') = version - 1
    BY <2>1, <2>2, <2>6, Busyness DEF Announcing
  <2>9. holder' \in H!Anyone => calling'[holder'] = H!None
    BY <2>1, <2>3 DEF Announcing
  <2> QED BY <2>1, <2>2, <2>3, <2>7, <2>8, <2>9 DEF Announcing
<1>5. ASSUME NEW t \in H!Anyone, H!Reload(t) PROVE Announcing'
  BY <1>2, <1>5 DEF H!Reload, H!ReadsBase
<1>6. CASE H!WatchLoop
  BY <1>2, <1>6 DEF H!WatchLoop, H!ReadsBase, H!Anyone
<1>7. CASE \/ \E f : \E v : H!EditFile(f, v)
           \/ H!StartWatching \/ H!StopWatching \/ UNCHANGED H!hrvars
  BY <1>1, <1>7 DEF H!EditFile, H!StartWatching, H!StopWatching, H!hrvars
<1> QED BY <1>3, <1>4, <1>5, <1>6, <1>7 DEF H!Next

\* Each version is announced once, with the version it replaced, whoever reloads, however
\* the reloads and the callbacks of threads overlap, and whatever the files hold.
THEOREM HotAnnouncedOnce == H!Spec => []AnnouncedOnce
<1>1. Announcing => AnnouncedOnce
  <2>1. \A S : H!Cardinality(S) = Cardinality(S)
    BY DEF H!Cardinality, Cardinality
  <2> QED BY <2>1 DEF Announcing, Busy, AnnouncedOnce, H!AnnouncedOnce
<1> QED BY <1>1, HotInit, HotStep, ResilienceAssumption, PTL DEF H!Spec
-----------------------------------------------------------------------------
(***************************************************************************)
(* The audit logger and the usage meter                                    *)
(***************************************************************************)
\* What a batch may hold: less than the buffer, and one more for each cancelled caller; the
\* buffer holds one more while a caller waits for the lock it holds.  Every batch that was
\* dropped took at most that many events along.
Size == BufferSize - 1 + Cardinality(L!Cancelled)
Buffering ==
  /\ buffer \in Seq(Entries) /\ taken \in [{"loop", "stop"} -> Seq(Entries)]
  /\ DOMAIN calls = Entries /\ lock \in Entries \cup {L!None} /\ logged \subseteq Entries /\ faults \in Nat
  /\ taken["loop"] # <<>> => loop = "writing"
  /\ taken["stop"] # <<>> => stopper = "writing"
  /\ Len(buffer) <= Size + (IF lock = L!None THEN 0 ELSE 1)
  /\ Len(taken["loop"]) <= Size /\ Len(taken["stop"]) <= Size
  /\ Cardinality(L!Lost) <= faults * Size

LEMMA RangeSize ==
  ASSUME NEW S, NEW s \in Seq(S)
  PROVE  IsFiniteSet(L!Range(s)) /\ Cardinality(L!Range(s)) <= Len(s)
<1>1. Len(s) \in Nat /\ DOMAIN s = 1..Len(s) /\ s \in [1..Len(s) -> L!Range(s)]
  BY DEF L!Range
<1>2. s \in Surjection(1..Len(s), L!Range(s))
  BY <1>1 DEF Surjection, L!Range
<1>3. IsFiniteSet(1..Len(s)) /\ Cardinality(1..Len(s)) = Len(s)
  BY <1>1, FS_Interval
<1> QED BY <1>2, <1>3, FS_Surjection

LEMMA RangeAppended ==
  ASSUME NEW S, NEW s \in Seq(S), NEW x \in S
  PROVE  Append(s, x) \in Seq(S) /\ Len(Append(s, x)) = Len(s) + 1
         /\ L!Range(Append(s, x)) = L!Range(s) \cup {x}
<1>1. \A y : y \in L!Range(s) <=> Holds(s, y)
  BY DEF L!Range, Holds
<1>2. \A y : y \in L!Range(Append(s, x)) <=> Holds(Append(s, x), y)
  BY DEF L!Range, Holds
<1> QED BY <1>1, <1>2, Appended

LEMMA Products ==
  \A f, c, d \in Nat : f * c \in Nat /\ f * (c + d) = f * c + f * d /\ f * d \in Nat /\ (f + 1) * c = f * c + c
  OBVIOUS

LEMMA Sizes ==
  ASSUME LogSettings, Buffering
  PROVE  /\ IsFiniteSet(L!Cancelled) /\ Size \in Nat /\ IsFiniteSet(L!Lost) /\ Cardinality(L!Lost) \in Nat
         /\ Cardinality(L!Cancelled) \in Nat
<1>1. L!Cancelled \subseteq Entries /\ L!Lost \subseteq Entries
  BY DEF L!Cancelled, L!Lost, Buffering
<1> QED BY <1>1, FS_Subset, FS_CardinalityType DEF LogSettings, Size

LEMMA LogInit == ASSUME LogSettings PROVE L!Init => Buffering
<1> SUFFICES ASSUME L!Init PROVE Buffering
  OBVIOUS
<1>1. L!Cancelled = {} /\ L!Lost = {}
  BY DEF L!Init, L!Cancelled, L!Lost
<1> QED BY <1>1, FS_EmptySet DEF L!Init, Buffering, Size, LogSettings, L!Loop, L!Stop

\* The caller that is cancelled enlarges what a batch may hold by one; nobody else changes it.
LEMMA SizeStep ==
  ASSUME LogSettings, Buffering
  PROVE  /\ \A e \in Entries : calls[e] # "cancelled" =>
              /\ calls' = [calls EXCEPT ![e] = "cancelled"] => Size' = Size + 1
              /\ \A c \in {"locking", "writing", "stuck", "returned"} :
                   calls' = [calls EXCEPT ![e] = c] => Size' = Size
         /\ UNCHANGED calls => Size' = Size
<1>1. ASSUME NEW e \in Entries, calls[e] # "cancelled", calls' = [calls EXCEPT ![e] = "cancelled"]
      PROVE  Size' = Size + 1
  <2>1. L!Cancelled' = L!Cancelled \cup {e} /\ e \notin L!Cancelled
    BY <1>1 DEF L!Cancelled, Buffering
  <2>2. Cardinality(L!Cancelled') = Cardinality(L!Cancelled) + 1
    BY <2>1, Sizes, FS_AddElement
  <2> QED BY <2>2, Sizes DEF Size, LogSettings
<1>2. ASSUME NEW e \in Entries, NEW c \in {"locking", "writing", "stuck", "returned"}, calls[e] # "cancelled",
             calls' = [calls EXCEPT ![e] = c]
      PROVE  Size' = Size
  <2>1. L!Cancelled' = L!Cancelled
    BY <1>2 DEF L!Cancelled, Buffering
  <2> QED BY <2>1 DEF Size
<1>3. UNCHANGED calls => Size' = Size
  BY DEF Size, L!Cancelled
<1> QED BY <1>1, <1>2, <1>3

\* The loss stays within its bound if nothing new is lost, or one batch with a fault.
LEMMA LossStep ==
  ASSUME LogSettings, Buffering, NEW n \in Nat, Size' = Size + n,
         \/ L!Lost' \subseteq L!Lost /\ UNCHANGED faults
         \/ /\ faults' = faults + 1 /\ n = 0
            /\ \E t \in {"loop", "stop"} : L!Lost' \subseteq L!Lost \cup L!Range(taken[t])
  PROVE  Cardinality(L!Lost') <= faults' * Size'
<1>1. Size \in Nat /\ faults \in Nat /\ Cardinality(L!Lost) <= faults * Size /\ IsFiniteSet(L!Lost)
      /\ Cardinality(L!Lost) \in Nat
  BY Sizes DEF Buffering
<1>2. CASE L!Lost' \subseteq L!Lost /\ UNCHANGED faults
  <2>1. Cardinality(L!Lost') \in Nat /\ Cardinality(L!Lost') <= Cardinality(L!Lost)
    BY <1>1, <1>2, FS_Subset, FS_CardinalityType
  <2>2. faults * Size' = faults * Size + faults * n /\ faults * n \in Nat /\ faults * Size \in Nat
    BY <1>1, Products
  <2> DEFINE a == faults * Size  b == faults * n
  <2>3. faults' * Size' = a + b /\ a \in Nat /\ b \in Nat /\ Cardinality(L!Lost) <= a
    BY <1>1, <1>2, <2>2
  <2> HIDE DEF a, b
  <2> QED BY <1>1, <2>1, <2>3
<1>3. ASSUME NEW t \in {"loop", "stop"}, faults' = faults + 1, n = 0, L!Lost' \subseteq L!Lost \cup L!Range(taken[t])
      PROVE  Cardinality(L!Lost') <= faults' * Size'
  <2> DEFINE R == L!Range(taken[t])
  <2>1. IsFiniteSet(R) /\ Cardinality(R) <= Size /\ Cardinality(R) \in Nat
    <3>1. taken[t] \in Seq(Entries) /\ Len(taken[t]) <= Size /\ Len(taken[t]) \in Nat
      BY DEF Buffering
    <3> QED BY <1>1, <3>1, RangeSize, FS_CardinalityType
  <2> HIDE DEF R
  <2>2. /\ Cardinality(L!Lost') \in Nat /\ Cardinality(L!Lost') <= Cardinality(L!Lost \cup R)
        /\ Cardinality(L!Lost \cup R) \in Nat
        /\ Cardinality(L!Lost \cup R) <= Cardinality(L!Lost) + Cardinality(R)
    <3>1. IsFiniteSet(L!Lost \cup R) /\ Cardinality(L!Lost \cup R) = Cardinality(L!Lost) + Cardinality(R) - Cardinality(L!Lost \cap R)
      BY <1>1, <2>1, FS_Union
    <3>2. Cardinality(L!Lost \cap R) \in Nat
      BY <1>1, FS_Subset, FS_CardinalityType
    <3>3. Cardinality(L!Lost \cup R) \in Nat /\ Cardinality(L!Lost') \in Nat /\ Cardinality(L!Lost') <= Cardinality(L!Lost \cup R)
      BY <1>3, <3>1, FS_Subset, FS_CardinalityType DEF R
    <3> QED BY <1>1, <2>1, <3>1, <3>2, <3>3
  <2> DEFINE a == faults * Size
  <2>3. faults' * Size' = a + Size /\ a \in Nat /\ Cardinality(L!Lost) <= a
    BY <1>1, <1>3, Products
  <2> HIDE DEF a
  <2> QED BY <1>1, <2>1, <2>2, <2>3
<1> QED BY <1>2, <1>3

LEMMA LogStep == ASSUME LogSettings PROVE Buffering /\ [L!Next]_(L!blvars) => Buffering'
<1> SUFFICES ASSUME Buffering, [L!Next]_(L!blvars) PROVE Buffering'
  OBVIOUS
<1>0. /\ buffer \in Seq(Entries) /\ taken \in [{"loop", "stop"} -> Seq(Entries)]
      /\ DOMAIN calls = Entries /\ lock \in Entries \cup {L!None} /\ logged \subseteq Entries /\ faults \in Nat
      /\ L!None \notin Entries /\ BufferSize \in Nat \ {0} /\ Size \in Nat /\ Len(buffer) \in Nat
      /\ L!Loop = "loop" /\ L!Stop = "stop" /\ BufferSize <= Size + 1
      /\ Len(taken["loop"]) <= Size /\ Len(taken["stop"]) <= Size
      /\ Len(buffer) <= Size + (IF lock = L!None THEN 0 ELSE 1)
      /\ taken["loop"] # <<>> => loop = "writing"
      /\ taken["stop"] # <<>> => stopper = "writing"
  BY Sizes DEF Buffering, LogSettings, Size, L!Loop, L!Stop
<1>1. ASSUME NEW e \in Entries, L!Log(e) PROVE Buffering'
  <2>1. Size' = Size + 0
    BY <1>0, <1>1, SizeStep DEF L!Log
  <2>2. L!Lost' \subseteq L!Lost
    BY <1>1 DEF L!Log, L!Lost, L!InHand
  <2>3. Cardinality(L!Lost') <= faults' * Size'
    BY <1>1, <2>1, <2>2, LossStep DEF L!Log
  <2> QED BY <1>0, <1>1, <2>1, <2>3 DEF L!Log, Buffering
<1>2. ASSUME NEW e \in Entries, NEW ok \in BOOLEAN, L!WriteSingle(e, ok) PROVE Buffering'
  <2>1. Size' = Size + 0
    <3>1. calls[e] = "writing" /\ calls' = [calls EXCEPT ![e] = "returned"]
      BY <1>2 DEF L!WriteSingle
    <3>2. \A c \in {"locking", "writing", "stuck", "returned"} :
            calls' = [calls EXCEPT ![e] = c] => Size' = Size
      BY <3>1, SizeStep
    <3>3. Size' = Size
      BY <3>1, <3>2
    <3> QED BY <1>0, <3>3
  <2>2. L!Lost' \subseteq L!Lost
    BY <1>2 DEF L!WriteSingle, L!Lost, L!InHand
  <2>3. Cardinality(L!Lost') <= faults' * Size'
    BY <1>2, <2>1, <2>2, LossStep DEF L!WriteSingle
  <2> QED BY <1>0, <1>2, <2>1, <2>3 DEF L!WriteSingle, Buffering
<1>3. ASSUME NEW e \in Entries, L!Add(e) PROVE Buffering'
  <2>1. /\ calls[e] = "locking" /\ lock = L!None /\ buffer' = Append(buffer, e) /\ logged' = logged \cup {e}
        /\ UNCHANGED <<loop, stopper, taken, stored, faults>>
        /\ IF Len(buffer') >= BufferSize
           THEN lock' = e /\ calls' = [calls EXCEPT ![e] = "stuck"]
           ELSE UNCHANGED lock /\ calls' = [calls EXCEPT ![e] = "returned"]
    BY <1>3 DEF L!Add, L!Acquires
  <2>2. Size' = Size + 0
    BY <1>0, <2>1, SizeStep
  <2>3. buffer' \in Seq(Entries) /\ Len(buffer') = Len(buffer) + 1 /\ L!Range(buffer') = L!Range(buffer) \cup {e}
    BY <1>0, <2>1, RangeAppended
  <2>4. L!Lost' \subseteq L!Lost
    BY <2>1, <2>3 DEF L!Lost, L!InHand
  <2>5. Cardinality(L!Lost') <= faults' * Size'
    BY <2>1, <2>2, <2>4, LossStep
  <2>6. DOMAIN calls' = Entries /\ lock' \in Entries \cup {L!None}
        /\ Len(buffer') <= Size' + (IF lock' = L!None THEN 0 ELSE 1)
    BY <1>0, <2>1, <2>2, <2>3
  <2> QED BY <1>0, <2>1, <2>2, <2>3, <2>5, <2>6 DEF Buffering
<1>4. ASSUME NEW e \in Entries, L!Cancel(e) PROVE Buffering'
  <2>1. Size' = Size + 1
    BY <1>0, <1>4, SizeStep DEF L!Cancel
  <2>2. L!Lost' \subseteq L!Lost
    BY <1>4 DEF L!Cancel, L!Lost, L!InHand
  <2>3. Cardinality(L!Lost') <= faults' * Size'
    BY <1>4, <2>1, <2>2, LossStep DEF L!Cancel
  <2> QED BY <1>0, <1>4, <2>1, <2>3 DEF L!Cancel, Buffering
<1>5. ASSUME NEW t \in {"loop", "stop"}, L!Take(t), taken[t] = <<>>,
             UNCHANGED <<calls, lock, stored, logged, faults>>
      PROVE  /\ Size' = Size /\ buffer' = <<>> /\ Len(buffer') = 0 /\ taken' = [taken EXCEPT ![t] = buffer]
             /\ Len(buffer) <= Size
             /\ Cardinality(L!Lost') <= faults' * Size'
  <2>1. Size' = Size + 0
    BY <1>0, <1>5, SizeStep
  <2>2. lock = L!None /\ taken' = [taken EXCEPT ![t] = buffer] /\ buffer' = <<>>
    BY <1>5 DEF L!Take, L!Acquires
  <2>3. L!InHand' = L!InHand
    <3>1. L!Range(buffer') = {} /\ L!Range(taken[t]) = {} /\ taken'[t] = buffer
          /\ \A u \in {"loop", "stop"} : u # t => taken'[u] = taken[u]
      BY <1>0, <1>5, <2>2 DEF L!Range
    <3> QED BY <1>0, <3>1 DEF L!InHand
  <2>4. Cardinality(L!Lost') <= faults' * Size'
    BY <1>5, <2>1, <2>3, LossStep DEF L!Lost
  <2> QED BY <1>0, <2>1, <2>2, <2>4
<1>6. CASE L!LoopTakes
  <2>1. /\ taken["loop"] = <<>> /\ L!Take("loop") /\ UNCHANGED <<calls, lock, stopper, stored, logged, faults>>
        /\ loop' = IF buffer = <<>> THEN "asleep" ELSE "writing"
    BY <1>0, <1>6 DEF L!LoopTakes
  <2> QED BY <1>0, <1>5, <2>1 DEF Buffering
<1>7. CASE L!StopTakes
  <2>1. /\ taken["stop"] = <<>> /\ L!Take("stop") /\ UNCHANGED <<calls, lock, loop, stored, logged, faults>>
        /\ stopper' = IF buffer = <<>> THEN "done" ELSE "writing"
    BY <1>0, <1>7 DEF L!StopTakes
  <2> QED BY <1>0, <1>5, <2>1 DEF Buffering
<1>8. CASE L!LoopWakes
  <2>1. Size' = Size + 0
    BY <1>0, <1>8, SizeStep DEF L!LoopWakes
  <2>2. L!Lost' \subseteq L!Lost
    BY <1>8 DEF L!LoopWakes, L!Lost, L!InHand
  <2>3. Cardinality(L!Lost') <= faults' * Size'
    BY <1>8, <2>1, <2>2, LossStep DEF L!LoopWakes
  <2> QED BY <1>0, <1>8, <2>1, <2>3 DEF L!LoopWakes, Buffering
<1>9. ASSUME NEW t \in {"loop", "stop"}, NEW ok \in BOOLEAN, UNCHANGED <<buffer, lock, calls, logged>>,
             taken' = [taken EXCEPT ![t] = <<>>],
             stored' = (IF ok THEN stored \cup L!Range(taken[t]) ELSE stored),
             ok => UNCHANGED faults,
             ~ok => faults' = faults + 1 \/ (taken[t] = <<>> /\ UNCHANGED faults)
      PROVE  Size' = Size /\ Cardinality(L!Lost') <= faults' * Size'
  <2>1. Size' = Size + 0
    BY <1>0, <1>9, SizeStep
  <2>2. taken'[t] = <<>> /\ \A u \in {"loop", "stop"} : u # t => taken'[u] = taken[u]
    BY <1>0, <1>9
  <2>3. L!Lost' \subseteq L!Lost \cup (IF ok THEN {} ELSE L!Range(taken[t]))
    BY <1>0, <1>9, <2>2 DEF L!Lost, L!InHand
  <2>4. taken[t] = <<>> => L!Range(taken[t]) = {}
    BY DEF L!Range
  <2> QED BY <1>0, <1>9, <2>1, <2>3, <2>4, LossStep
<1>10. ASSUME NEW ok \in BOOLEAN, L!LoopWrites(ok) PROVE Buffering'
  <2>1. /\ UNCHANGED <<lock, calls, logged, stopper, buffer>> /\ taken' = [taken EXCEPT !["loop"] = <<>>]
        /\ stored' = (IF ok THEN stored \cup L!Range(taken["loop"]) ELSE stored)
        /\ faults' = (IF ok THEN faults ELSE faults + 1)
    BY <1>0, <1>10 DEF L!LoopWrites, L!WriteBatch, L!AfterWrite
  <2>2. Size' = Size /\ Cardinality(L!Lost') <= faults' * Size'
    BY <1>9, <2>1
  <2>3. taken' \in [{"loop", "stop"} -> Seq(Entries)] /\ taken'["loop"] = <<>> /\ taken'["stop"] = taken["stop"]
    BY <1>0, <2>1
  <2> QED BY <1>0, <2>1, <2>2, <2>3 DEF Buffering
<1>11. ASSUME NEW ok \in BOOLEAN, L!StopWrites(ok) PROVE Buffering'
  <2>1. /\ UNCHANGED <<lock, calls, logged, loop, buffer>> /\ taken' = [taken EXCEPT !["stop"] = <<>>]
        /\ stored' = (IF ok THEN stored \cup L!Range(taken["stop"]) ELSE stored)
        /\ faults' = (IF ok THEN faults ELSE faults + 1)
    BY <1>0, <1>11 DEF L!StopWrites, L!WriteBatch, L!AfterWrite
  <2>2. Size' = Size /\ Cardinality(L!Lost') <= faults' * Size'
    BY <1>9, <2>1
  <2>3. taken' \in [{"loop", "stop"} -> Seq(Entries)] /\ taken'["stop"] = <<>> /\ taken'["loop"] = taken["loop"]
    BY <1>0, <2>1
  <2> QED BY <1>0, <2>1, <2>2, <2>3 DEF Buffering
<1>12. ASSUME NEW ok \in BOOLEAN, L!StopBegins(ok) PROVE Buffering'
  <2>1. /\ UNCHANGED <<lock, calls, logged, buffer>> /\ taken' = [taken EXCEPT !["loop"] = <<>>]
        /\ stored' = (IF ok THEN stored \cup L!Range(taken["loop"]) ELSE stored)
        /\ faults' = (IF loop = "writing" /\ ~ok THEN faults + 1 ELSE faults)
        /\ stopper = "no" /\ stopper' = "locking" /\ loop' = "ended"
    BY <1>0, <1>12 DEF L!StopBegins
  <2>2. Size' = Size /\ Cardinality(L!Lost') <= faults' * Size'
    BY <1>0, <1>9, <2>1
  <2>3. taken' \in [{"loop", "stop"} -> Seq(Entries)] /\ taken'["loop"] = <<>> /\ taken'["stop"] = taken["stop"]
    BY <1>0, <2>1
  <2> QED BY <1>0, <2>1, <2>2, <2>3 DEF Buffering
<1>13. CASE UNCHANGED L!blvars
  BY <1>13 DEF L!blvars, Buffering, Size, L!Cancelled, L!Lost, L!InHand
<1> QED BY <1>1, <1>2, <1>3, <1>4, <1>6, <1>7, <1>8, <1>10, <1>11, <1>12, <1>13 DEF L!Next

\* Buffered events are lost only with a dropped batch, which holds less than the buffer but
\* for the callers cancelled on the lock they hold: whatever writes fail, whoever is
\* cancelled, and wherever stop() interrupts the loop.
THEOREM LogLossBound == L!Spec => []LossBound
<1>1. Buffering => LossBound
  <2>1. \A S : L!Cardinality(S) = Cardinality(S)
    BY DEF L!Cardinality, Cardinality
  <2> QED BY <2>1 DEF Buffering, Size, LossBound, L!LossBound
<1> QED BY <1>1, LogInit, LogStep, ResilienceAssumption, PTL DEF L!Spec
=============================================================================
