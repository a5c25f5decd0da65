----------------------- MODULE ScoringConsumerProofs -----------------------
(***************************************************************************)
(* Theorems about ScoringConsumer for every number of messages, process    *)
(* starts and attempts per send, every set of scores and every threshold.  *)
(***************************************************************************)
EXTENDS ScoringConsumer, FiniteSetTheorems, TLAPS

\* The two topics as counts of records.
TopicsOK ==
  /\ scored \in [Offsets \X Scores \X BOOLEAN -> Nat]
  /\ alerts \in [Offsets \X Scores -> Nat]

\* A handler is at work only in a running task, on the message handed out last; one that
\* is sending has a score and an attempt left; one that is at its alert has written the
\* record before.
HandlerOK ==
  /\ hpc # "idle" => proc = "up" /\ task = "running" /\ msg = position
  /\ hpc \in Sending => score \in Scores /\ tries >= 1
  /\ hpc = "alert" => Alerted(score) /\ scored[<<msg, score, IsFlagged(score)>>] > 0

TInv == TypeOK /\ TopicsOK /\ HandlerOK

LEMMA TInvInit == Init => TInv
  BY ScoringConsumerAssumption
  DEF Init, TInv, TypeOK, TopicsOK, HandlerOK, Sending, Offsets

\* One more record under a key.
LEMMA Counting ==
  ASSUME NEW S, NEW f \in [S -> Nat], NEW k \in S
  PROVE  LET g == [f EXCEPT ![k] = @ + 1]
         IN  /\ g \in [S -> Nat] /\ g[k] = f[k] + 1
             /\ \A x \in S : x # k => g[x] = f[x]
  OBVIOUS

\* The keys of the record being sent.
ScoredKey == <<msg, score, IsFlagged(score)>>
AlertKey == <<msg, score>>

LEMMA KeysOK ==
  ASSUME TInv, hpc \in Sending
  PROVE  /\ msg \in Offsets /\ score \in Scores /\ tries \in 1..MaxSends
         /\ ScoredKey \in Offsets \X Scores \X BOOLEAN /\ AlertKey \in Offsets \X Scores
<1>1. msg \in Offsets /\ score \in Scores /\ tries \in 1..MaxSends
  BY ScoringConsumerAssumption DEF TInv, TypeOK, HandlerOK, Sending
<1>2. IsFlagged(score) \in BOOLEAN
  BY DEF IsFlagged
<1> QED BY <1>1, <1>2 DEF ScoredKey, AlertKey

\* One write, by an attempt or by a send that was cut off: at most the count of the
\* record being sent changes, by one.
Written ==
  /\ TopicsOK'
  /\ \/ UNCHANGED topics
     \/ /\ hpc = "scored" /\ alerts' = alerts /\ scored'[ScoredKey] = scored[ScoredKey] + 1
        /\ \A k \in Offsets \X Scores \X BOOLEAN : k # ScoredKey => scored'[k] = scored[k]
     \/ /\ hpc = "alert" /\ scored' = scored /\ alerts'[AlertKey] = alerts[AlertKey] + 1
        /\ \A k \in Offsets \X Scores : k # AlertKey => alerts'[k] = alerts[k]

LEMMA WritesScored ==
  ASSUME TInv, hpc = "scored", alerts' = alerts,
         scored' = [scored EXCEPT ![ScoredKey] = @ + 1]
  PROVE  Written
<1>1. ScoredKey \in Offsets \X Scores \X BOOLEAN
  BY KeysOK DEF Sending
<1> QED BY <1>1, Counting DEF Written, TInv, TopicsOK

LEMMA WritesAlert ==
  ASSUME TInv, hpc = "alert", scored' = scored,
         alerts' = [alerts EXCEPT ![AlertKey] = @ + 1]
  PROVE  Written
<1>1. AlertKey \in Offsets \X Scores
  BY KeysOK DEF Sending
<1> QED BY <1>1, Counting DEF Written, TInv, TopicsOK

LEMMA WritesNothing ==
  ASSUME TInv, UNCHANGED topics
  PROVE  Written
  BY DEF Written, TInv, TopicsOK, topics

LEMMA Landing ==
  ASSUME TInv, MayLand(msg, score, hpc)
  PROVE  Written
<1>1. CASE hpc = "scored"
  BY <1>1, WritesScored, WritesNothing DEF MayLand, ScoredKey, topics
<1>2. CASE hpc = "alert"
  BY <1>2, WritesAlert, WritesNothing DEF MayLand, AlertKey, topics
<1>3. CASE hpc \notin Sending
  BY <1>3, WritesNothing DEF MayLand, Sending
<1> QED BY <1>1, <1>2, <1>3 DEF Sending

\* A send that failed is tried again, or ends the handler with a counted error.
LEMMA Failing ==
  ASSUME TInv, hpc \in Sending, Failed
  PROVE  \/ /\ UNCHANGED <<hpc, msg, score, counted, unsent>>
            /\ tries > 1 /\ tries' = tries - 1
         \/ Idle /\ counted' = counted \cup {msg} /\ unsent' = unsent \cup {msg}
  BY KeysOK DEF Failed, AfterFailure, CountError, Idle

LEMMA TInvStep == TInv /\ [Next]_vars => TInv'
<1> USE ScoringConsumerAssumption
<1> SUFFICES ASSUME TInv, [Next]_vars PROVE TInv'
  OBVIOUS
<1> USE DEF TInv, TypeOK, TopicsOK, HandlerOK, Sending, Offsets
<1>1. CASE Start
  BY <1>1 DEF Start, handler, topics
<1>2. CASE Crash
  <2>1. TopicsOK'
    BY <1>2, Landing DEF Crash, Written
  <2> QED BY <1>2, <2>1 DEF Crash, Idle, kafka, history
<1>3. CASE CancelConsumer
  <2>1. TopicsOK'
    BY <1>3, Landing DEF CancelConsumer, Written
  <2> QED BY <1>3, <2>1 DEF CancelConsumer, Idle, kafka
<1>4. CASE CancelFailed \/ StopConsumer \/ StopProducer
  BY <1>4 DEF CancelFailed, StopConsumer, StopProducer, kafka, handler, topics, history
<1>5. CASE AutoCommit \/ ConsumerError
  BY <1>5 DEF AutoCommit, Commit, ConsumerError, kafka, life, handler, topics, history
<1>6. ASSUME NEW valid \in BOOLEAN, Produce(valid) PROVE TInv'
  BY <1>6 DEF Produce, life, handler, topics, history
<1>7. CASE ReceiveInvalid \/ Receive
  BY <1>7 DEF ReceiveInvalid, Receive, Working, life, handler, topics, history
<1>8. CASE ScoreTransaction
  BY <1>8 DEF ScoreTransaction, Working, kafka, life, topics, history
<1>9. CASE ScoreFails
  BY <1>9 DEF ScoreFails, Working, CountError, Idle, kafka, life, topics
<1>10. ASSUME NEW written \in BOOLEAN, NEW acked \in BOOLEAN,
              SendScored(written, acked) \/ SendAlert(written, acked)
       PROVE  TInv'
  <2>1. hpc \in Sending /\ UNCHANGED <<kafka, life, skipped>> /\ proc = "up" /\ task = "running"
    BY <1>10 DEF SendScored, SendAlert, Working
  <2>2. /\ msg \in Offsets /\ score \in Scores /\ tries \in 1..MaxSends
        /\ ScoredKey \in Offsets \X Scores \X BOOLEAN
    BY <2>1, KeysOK
  <2>3. Written
    BY <1>10, WritesScored, WritesAlert, WritesNothing
    DEF SendScored, SendAlert, ScoredKey, AlertKey, topics
  <2>4. scored'[ScoredKey] >= scored[ScoredKey] /\ TopicsOK'
    BY <2>2, <2>3 DEF Written, topics
  <2>5. CASE Idle /\ counted' = counted \cup {msg} /\ unsent' = unsent \cup {msg}
    BY <2>1, <2>2, <2>4, <2>5 DEF Idle, kafka, life
  <2>6. CASE Idle /\ UNCHANGED <<counted, unsent>>
    BY <2>1, <2>2, <2>4, <2>6 DEF Idle, kafka, life
  <2>7. CASE /\ UNCHANGED <<hpc, msg, score, counted, unsent>>
             /\ tries > 1 /\ tries' = tries - 1
    BY <2>1, <2>2, <2>4, <2>7 DEF kafka, life, ScoredKey
  <2>8. CASE /\ hpc' = "alert" /\ tries' = MaxSends /\ UNCHANGED <<msg, score, counted, unsent>>
             /\ Alerted(score) /\ scored'[ScoredKey] = scored[ScoredKey] + 1
    BY <2>1, <2>2, <2>4, <2>8 DEF kafka, life, ScoredKey
  <2>9. CASE ~acked
    BY <1>10, <2>1, <2>5, <2>7, <2>9, Failing DEF SendScored, SendAlert
  <2>10. CASE acked /\ SendScored(written, acked) /\ Alerted(score)
    <3>1. scored'[ScoredKey] = scored[ScoredKey] + 1
      BY <2>2, <2>10 DEF SendScored, TInv, TopicsOK, ScoredKey
    <3> QED BY <2>8, <2>10, <3>1 DEF SendScored
  <2>11. CASE acked /\ SendScored(written, acked) /\ ~Alerted(score)
    BY <2>6, <2>11 DEF SendScored
  <2>12. CASE acked /\ SendAlert(written, acked)
    BY <2>6, <2>12 DEF SendAlert
  <2> QED BY <1>10, <2>9, <2>10, <2>11, <2>12
<1>11. CASE UNCHANGED vars
  BY <1>11 DEF vars, kafka, life, handler, topics, history
<1> QED BY <1>1, <1>2, <1>3, <1>4, <1>5, <1>6, <1>7, <1>8, <1>9, <1>10, <1>11
         DEF Next, Shutdown, Handler, Send

\* The state keeps its types, for any number of messages, process starts and attempts.
THEOREM TypeCorrect == Spec => []TypeOK
<1>1. TInv => TypeOK
  BY DEF TInv
<1> QED BY <1>1, TInvInit, TInvStep, PTL DEF Spec

\* No step writes more than one record, and that is the one being sent.
LEMMA StepWrites == TInv /\ [Next]_vars => Written
<1> SUFFICES ASSUME TInv, [Next]_vars PROVE Written
  OBVIOUS
<1>1. CASE Crash \/ CancelConsumer
  BY <1>1, Landing DEF Crash, CancelConsumer
<1>2. ASSUME NEW written \in BOOLEAN, NEW acked \in BOOLEAN,
             SendScored(written, acked) \/ SendAlert(written, acked)
      PROVE  Written
  BY <1>2, WritesScored, WritesAlert, WritesNothing
  DEF SendScored, SendAlert, ScoredKey, AlertKey, topics
<1>3. CASE UNCHANGED topics
  BY <1>3, WritesNothing
<1> QED BY <1>1, <1>2, <1>3
         DEF Next, vars, Shutdown, Handler, Send, Start, CancelFailed, StopConsumer, StopProducer,
             AutoCommit, ConsumerError, Produce, ReceiveInvalid, Receive, ScoreTransaction, ScoreFails
-----------------------------------------------------------------------------
\* AlertBacked without the types.
Backed == \A o \in Offsets, s \in Scores :
  alerts[<<o, s>>] > 0 => Alerted(s) /\ \E f \in BOOLEAN : scored[<<o, s, f>>] > 0

LEMMA BackedStep == TInv /\ Backed /\ [Next]_vars => Backed'
<1> SUFFICES ASSUME TInv, Backed, [Next]_vars,
                    NEW o \in Offsets, NEW s \in Scores, alerts'[<<o, s>>] > 0
             PROVE  Alerted(s) /\ \E f \in BOOLEAN : scored'[<<o, s, f>>] > 0
  BY DEF Backed, Alerted
<1>1. Written /\ TopicsOK /\ TopicsOK'
  BY StepWrites DEF Written, TInv
<1>2. \A k \in Offsets \X Scores \X BOOLEAN : scored[k] > 0 => scored'[k] > 0
  BY <1>1 DEF Written, TopicsOK, topics
<1>3. CASE alerts[<<o, s>>] > 0
  BY <1>2, <1>3 DEF Backed
<1>4. CASE ~(alerts[<<o, s>>] > 0)
  <2>1. hpc = "alert" /\ <<o, s>> = AlertKey /\ scored' = scored
    BY <1>1, <1>4 DEF Written, topics
  <2>2. o = msg /\ s = score /\ IsFlagged(score) \in BOOLEAN
    BY <2>1 DEF AlertKey, IsFlagged
  <2> QED BY <2>1, <2>2 DEF TInv, HandlerOK
<1> QED BY <1>3, <1>4

\* No alert without the scored record it is about, whatever is cut off or sent again.
THEOREM AlertsBacked == Spec => []AlertBacked
<1>1. Init => Backed
  BY DEF Init, Backed, Offsets
<1>2. TInv /\ Backed => AlertBacked
  BY DEF TInv, Backed, AlertBacked
<1> QED BY <1>1, <1>2, TInvInit, TInvStep, BackedStep, PTL DEF Spec
-----------------------------------------------------------------------------
\* What LossBound counts, up to the position instead of the committed offset: the
\* position is never behind it, and falls back to it at a start.
Lost == {o \in 1..position : ~Completed(o) /\ o # msg /\ o \notin counted}
LossInv ==
  /\ committed # None => committed <= position
  /\ proc = "up" => runs >= 1
  /\ Cardinality(Lost) <= Ends + skipped

LEMMA LostFinite ==
  ASSUME TInv
  PROVE  /\ IsFiniteSet(Lost) /\ Cardinality(Lost) \in Nat /\ Cardinality(Lost) <= position
         /\ IsFiniteSet(Lost \cup {msg}) /\ Cardinality(Lost \cup {msg}) <= Cardinality(Lost) + 1
<1>1. position \in Nat
  BY DEF TInv, TypeOK
<1>2. IsFiniteSet(1..position) /\ Cardinality(1..position) = position
  BY <1>1, FS_Interval
<1>3. Lost \subseteq 1..position
  BY DEF Lost
<1>4. IsFiniteSet(Lost) /\ Cardinality(Lost) <= position
  BY <1>2, <1>3, FS_Subset
<1>5. Cardinality(Lost) \in Nat
  BY <1>4, FS_CardinalityType
<1>6. /\ IsFiniteSet(Lost \cup {msg})
      /\ Cardinality(Lost \cup {msg}) = IF msg \in Lost THEN Cardinality(Lost) ELSE Cardinality(Lost) + 1
  BY <1>4, FS_AddElement
<1> QED BY <1>4, <1>5, <1>6

LEMMA CompletedStays ==
  ASSUME TInv, Written, NEW o \in Offsets, Completed(o)
  PROVE  Completed(o)'
<1>1. PICK s \in Scores, f \in BOOLEAN : scored[<<o, s, f>>] > 0 /\ (Alerted(s) => alerts[<<o, s>>] > 0)
  BY DEF Completed
<1>2. scored'[<<o, s, f>>] >= scored[<<o, s, f>>] /\ alerts'[<<o, s>>] >= alerts[<<o, s>>]
  <2>1. <<o, s, f>> \in Offsets \X Scores \X BOOLEAN /\ <<o, s>> \in Offsets \X Scores
    OBVIOUS
  <2>2. scored[<<o, s, f>>] \in Nat /\ alerts[<<o, s>>] \in Nat
    BY <2>1 DEF TInv, TopicsOK
  <2>3. scored'[<<o, s, f>>] \in {scored[<<o, s, f>>], scored[<<o, s, f>>] + 1}
    BY <2>1 DEF Written, topics
  <2>4. alerts'[<<o, s>>] \in {alerts[<<o, s>>], alerts[<<o, s>>] + 1}
    BY <2>1 DEF Written, topics
  <2> QED BY <2>2, <2>3, <2>4
<1>3. scored[<<o, s, f>>] \in Nat /\ scored'[<<o, s, f>>] \in Nat /\ alerts[<<o, s>>] \in Nat /\ alerts'[<<o, s>>] \in Nat
  BY DEF TInv, TopicsOK, Written
<1> QED BY <1>1, <1>2, <1>3 DEF Completed

\* A process that goes on loses nothing; one that ends, its message at most.
LEMMA LosesNothing ==
  ASSUME TInv, LossInv, Lost' \subseteq Lost
  PROVE  Cardinality(Lost') \in Nat /\ Cardinality(Lost') <= Ends + skipped
<1>1. IsFiniteSet(Lost') /\ Cardinality(Lost') <= Cardinality(Lost)
  BY LostFinite, FS_Subset
<1>2. Cardinality(Lost') \in Nat
  BY <1>1, FS_CardinalityType
<1> QED BY <1>1, <1>2, LostFinite DEF LossInv, TInv, TypeOK, Ends

LEMMA LosesOne ==
  ASSUME TInv, LossInv, Lost' \subseteq Lost \cup {msg}
  PROVE  Cardinality(Lost') \in Nat /\ Cardinality(Lost') <= Ends + skipped + 1
<1>1. IsFiniteSet(Lost') /\ Cardinality(Lost') <= Cardinality(Lost \cup {msg})
  BY LostFinite, FS_Subset
<1>2. Cardinality(Lost') \in Nat /\ Cardinality(Lost \cup {msg}) \in Nat
  BY <1>1, LostFinite, FS_CardinalityType
<1> QED BY <1>1, <1>2, LostFinite DEF LossInv, TInv, TypeOK, Ends

LEMMA LossStep == TInv /\ LossInv /\ [Next]_vars => LossInv'
<1> USE ScoringConsumerAssumption
<1> SUFFICES ASSUME TInv, LossInv, [Next]_vars PROVE LossInv'
  OBVIOUS
<1>1. Written /\ TInv'
  BY StepWrites, TInvStep
<1>2. \A o \in Offsets : Completed(o) => Completed(o)'
  BY <1>1, CompletedStays
<1>3. Lost \subseteq Offsets /\ Lost' \subseteq Offsets
  BY <1>1 DEF Lost, TInv, TypeOK, Offsets
<1> USE DEF LossInv, Ends
<1>4. CASE Start
  <2>1. hpc = "idle" /\ msg = None /\ UNCHANGED <<msg, counted, log, committed>>
    BY <1>4 DEF Start, TInv, HandlerOK, TypeOK, handler
  <2>2. runs' = runs + 1 /\ runs \in Nat /\ Ends' = Ends
    BY <1>4 DEF Start, TInv, TypeOK
  <2>3. CASE consumer' = "open" /\ committed = None
    <3>1. position' = Len(log) /\ skipped' = Len(log)
      BY <1>4, <2>3 DEF Start
    <3>2. Cardinality(Lost') <= position' /\ Cardinality(Lost') \in Nat
      <4>1. position' \in Nat /\ Lost' \subseteq 1..position'
        BY <1>1 DEF TInv, TypeOK, Lost
      <4>2. IsFiniteSet(1..position') /\ Cardinality(1..position') = position'
        BY <4>1, FS_Interval
      <4> QED BY <4>1, <4>2, FS_Subset, FS_CardinalityType
    <3> QED BY <2>1, <2>2, <2>3, <3>1, <3>2, <1>4 DEF Start, TInv, TypeOK
  <2>4. CASE ~(consumer' = "open" /\ committed = None)
    <3>1. position' <= position /\ skipped' = skipped /\ (committed' # None => committed' <= position')
      BY <1>4, <2>4 DEF Start, TInv, TypeOK
    <3>2. Lost' \subseteq Lost
      BY <1>2, <1>3, <2>1, <3>1, <1>1 DEF Lost, TInv, TypeOK
    <3> QED BY <2>2, <3>1, <3>2, LosesNothing
  <2> QED BY <2>3, <2>4
<1>5. CASE Crash \/ CancelConsumer \/ CancelFailed
  <2>1. UNCHANGED <<kafka, runs, counted, skipped>> /\ proc' # "up"
    BY <1>5 DEF Crash, CancelConsumer, CancelFailed, history, kafka, topics, handler
  <2>2. Lost' \subseteq Lost \cup {msg}
    BY <1>2, <1>3, <2>1 DEF Lost, kafka
  <2>3. CASE proc = "up"
    BY <2>1, <2>2, <2>3, LosesOne DEF TInv, TypeOK, kafka
  <2>4. CASE proc # "up"
    <3>1. msg = None /\ None \notin Lost
      <4>1. hpc = "idle"
        BY <2>4 DEF TInv, HandlerOK
      <4>2. msg = None
        BY <4>1 DEF TInv, TypeOK
      <4>3. Lost \subseteq Int
        BY <1>3 DEF Offsets
      <4> QED BY <4>2, <4>3
    <3>2. Lost' \subseteq Lost
      BY <1>2, <1>3, <2>1, <3>1 DEF Lost, kafka, TInv, TypeOK, Offsets
    <3> QED BY <2>1, <2>4, <3>2, LosesNothing DEF kafka
  <2> QED BY <2>3, <2>4
<1>6. CASE Receive \/ ReceiveInvalid
  <2>1. /\ UNCHANGED <<committed, life, skipped>> /\ position' = position + 1
        /\ (position' = msg' \/ position' \in counted') /\ counted \subseteq counted'
        /\ hpc = "idle"
    BY <1>6 DEF Receive, ReceiveInvalid, history
  <2>2. msg = None
    BY <2>1 DEF TInv, TypeOK
  <2>3. Lost' \subseteq Lost
    BY <1>1, <1>2, <1>3, <2>1, <2>2 DEF Lost, TInv, TypeOK, Offsets
  <2> QED BY <2>1, <2>3, LosesNothing DEF life, TInv, TypeOK
<1>7. ASSUME UNCHANGED <<position, committed, proc, runs, skipped>>, counted \subseteq counted',
             msg' = msg \/ msg \in counted' \/ (\A o \in Offsets : o = msg => Completed(o)')
      PROVE  LossInv'
  <2>1. Lost' \subseteq Lost
    BY <1>2, <1>3, <1>7 DEF Lost, Offsets
  <2> QED BY <1>7, <2>1, LosesNothing
<1>8. ASSUME NEW written \in BOOLEAN, NEW acked \in BOOLEAN, SendScored(written, acked)
      PROVE  LossInv'
  <2>1. hpc = "scored" /\ UNCHANGED <<kafka, life, skipped>>
    BY <1>8 DEF SendScored
  <2>2. CASE acked
    <3>1. ScoredKey \in Offsets \X Scores \X BOOLEAN /\ scored' = [scored EXCEPT ![ScoredKey] = @ + 1]
      BY <1>8, <2>1, <2>2, KeysOK DEF SendScored, ScoredKey, Sending
    <3>2. scored'[ScoredKey] > 0
      BY <3>1, Counting DEF TInv, TopicsOK
    <3>3. ASSUME NEW o \in Offsets, o = msg, ~Alerted(score) PROVE Completed(o)'
      <4> DEFINE flag == IsFlagged(score)
      <4>1. score \in Scores /\ flag \in BOOLEAN
        BY <2>1, KeysOK DEF Sending, IsFlagged
      <4>2. scored'[<<o, score, flag>>] > 0
        BY <3>2, <3>3 DEF ScoredKey
      <4> HIDE DEF flag
      <4> QED BY <3>3, <4>1, <4>2 DEF Completed
    <3>4. CASE Alerted(score)
      BY <1>7, <1>8, <2>1, <2>2, <3>4 DEF SendScored, kafka, life
    <3>5. CASE ~Alerted(score)
      BY <1>7, <1>8, <2>1, <2>2, <3>3, <3>5 DEF SendScored, kafka, life
    <3> QED BY <3>4, <3>5
  <2>3. CASE ~acked
    BY <1>7, <1>8, <2>1, <2>3, Failing DEF SendScored, kafka, life, Sending
  <2> QED BY <2>2, <2>3
<1>9. ASSUME NEW written \in BOOLEAN, NEW acked \in BOOLEAN, SendAlert(written, acked)
      PROVE  LossInv'
  <2>1. hpc = "alert" /\ UNCHANGED <<kafka, life, skipped, scored>>
    BY <1>9 DEF SendAlert
  <2>2. CASE acked
    <3>0. AlertKey \in Offsets \X Scores /\ alerts' = [alerts EXCEPT ![AlertKey] = @ + 1]
      BY <1>9, <2>1, <2>2, KeysOK DEF SendAlert, AlertKey, Sending
    <3>1. ASSUME NEW o \in Offsets, o = msg PROVE Completed(o)'
      <4> DEFINE flag == IsFlagged(score)
      <4>1. score \in Scores /\ flag \in BOOLEAN
        BY <2>1, KeysOK DEF Sending, IsFlagged
      <4>2. scored'[<<o, score, flag>>] > 0
        BY <2>1, <3>1 DEF TInv, HandlerOK
      <4>3. alerts'[<<o, score>>] > 0
        BY <3>0, <3>1, Counting DEF TInv, TopicsOK, AlertKey
      <4> HIDE DEF flag
      <4> QED BY <4>1, <4>2, <4>3 DEF Completed
    <3> QED BY <1>7, <1>9, <2>1, <2>2, <3>1 DEF SendAlert, kafka, life
  <2>3. CASE ~acked
    BY <1>7, <1>9, <2>1, <2>3, Failing DEF SendAlert, kafka, life, Sending
  <2> QED BY <2>2, <2>3
<1>10. CASE ScoreTransaction \/ ScoreFails
  BY <1>7, <1>10 DEF ScoreTransaction, ScoreFails, CountError, kafka, life, history
<1>11. CASE StopConsumer \/ StopProducer \/ AutoCommit \/ ConsumerError \/ UNCHANGED vars
  <2>1. /\ UNCHANGED <<position, proc, runs, skipped, msg, counted>> \/ StopProducer
        /\ committed' \in {committed, position}
    BY <1>11 DEF StopConsumer, StopProducer, AutoCommit, Commit, ConsumerError, vars, kafka, life,
                 handler, history
  <2>2. UNCHANGED <<position, runs, skipped, msg, counted>> /\ Ends' = Ends /\ (proc' = "up" => proc = "up")
    BY <1>11, <2>1 DEF StopProducer, kafka, handler, history
  <2>3. Lost' \subseteq Lost
    BY <1>2, <1>3, <2>2 DEF Lost
  <2> QED BY <2>1, <2>2, <2>3, LosesNothing DEF TInv, TypeOK
<1>12. ASSUME NEW valid \in BOOLEAN, Produce(valid) PROVE LossInv'
  BY <1>7, <1>12 DEF Produce, life, handler, history
<1> QED BY <1>4, <1>5, <1>6, <1>8, <1>9, <1>10, <1>11, <1>12
         DEF Next, Shutdown, Handler, Send

LEMMA LossInit == Init => LossInv
<1> SUFFICES ASSUME Init PROVE LossInv
  OBVIOUS
<1>1. Lost = {}
  BY DEF Init, Lost
<1>2. Cardinality(Lost) = 0
  BY <1>1, FS_EmptySet
<1> QED BY <1>2 DEF Init, LossInv, Ends

LEMMA LossBounded == TInv /\ LossInv => LossBound
<1> SUFFICES ASSUME TInv, LossInv PROVE LossBound
  OBVIOUS
<1> DEFINE lost == {o \in 1..(IF committed = None THEN 0 ELSE committed) :
                      ~Completed(o) /\ o # msg /\ o \notin counted}
<1>1. lost \subseteq Lost
  BY ScoringConsumerAssumption DEF Lost, LossInv, TInv, TypeOK
<1>2. IsFiniteSet(lost) /\ Cardinality(lost) <= Cardinality(Lost)
  BY <1>1, LostFinite, FS_Subset
<1>3. Cardinality(lost) \in Nat
  BY <1>2, FS_CardinalityType
<1> HIDE DEF lost
<1>4. Cardinality(lost) <= Ends + skipped
  BY <1>2, <1>3, LostFinite DEF LossInv, TInv, TypeOK, Ends
<1> USE DEF lost
<1> QED BY <1>4 DEF LossBound
-----------------------------------------------------------------------------
\* How often a message can have been published so far: a process hands each out once,
\* so what is ahead of its position has been published by earlier processes only, and
\* the attempts left are still to come.
Before == MaxSends * (runs - 1)
Cap(o, unsentAt, sendingAt) ==
  IF proc # "up" THEN MaxSends * runs
  ELSE IF o > position \/ (o = msg /\ hpc \in unsentAt) THEN Before
  ELSE IF o = msg /\ hpc = sendingAt THEN Before + (MaxSends - tries)
  ELSE MaxSends * runs
ScoredCap(o) == Cap(o, {"features"}, "scored")
AlertCap(o) == Cap(o, {"features", "scored"}, "alert")
Capped == \A o \in Offsets, s \in Scores :
  /\ \A f \in BOOLEAN : scored[<<o, s, f>>] <= ScoredCap(o)
  /\ alerts[<<o, s>>] <= AlertCap(o)

LEMMA Products ==
  /\ \A r \in Nat : MaxSends * r \in Nat /\ MaxSends * (r + 1) = MaxSends * r + MaxSends
  /\ TInv => Before \in Int /\ MaxSends * runs = Before + MaxSends
  BY ScoringConsumerAssumption DEF TInv, TypeOK, Before

\* What a step can do to the process and its handler.
StartsUp == Start
Ended == proc' # "up" /\ UNCHANGED runs
Resting == UNCHANGED <<proc, runs, position, hpc, msg, tries, scored, alerts>>
Advances ==
  /\ UNCHANGED <<proc, runs, topics>> /\ hpc = "idle" /\ position' = position + 1
  /\ hpc' = "idle" \/ (hpc' = "features" /\ msg' = position')
Finishes == UNCHANGED <<proc, runs, position>> /\ hpc # "idle" /\ hpc' = "idle"
Attempts(at) == UNCHANGED <<proc, runs, position, msg>> /\ hpc' = at
Works ==
  \/ Attempts("scored") /\ hpc = "features" /\ tries' = MaxSends /\ UNCHANGED topics
  \/ Attempts("scored") /\ hpc = "scored" /\ tries' = tries - 1
  \/ Attempts("alert") /\ hpc = "scored" /\ tries' = MaxSends
  \/ Attempts("alert") /\ hpc = "alert" /\ tries' = tries - 1

LEMMA Shapes ==
  ASSUME TInv, [Next]_vars
  PROVE  StartsUp \/ Ended \/ Resting \/ Advances \/ Finishes \/ Works
<1> USE DEF StartsUp, Ended, Resting, Advances, Finishes, Works, Attempts
<1>1. CASE Crash \/ CancelConsumer \/ CancelFailed \/ StopConsumer \/ StopProducer
  BY <1>1 DEF Crash, CancelConsumer, CancelFailed, StopConsumer, StopProducer, life
<1>2. CASE AutoCommit \/ ConsumerError \/ UNCHANGED vars
  BY <1>2 DEF AutoCommit, ConsumerError, vars, kafka, life, handler, topics
<1>3. ASSUME NEW valid \in BOOLEAN, Produce(valid) PROVE Resting
  BY <1>3 DEF Produce, life, handler, topics
<1>4. CASE Receive \/ ReceiveInvalid
  BY <1>4 DEF Receive, ReceiveInvalid, life, handler
<1>5. CASE ScoreTransaction
  BY <1>5 DEF ScoreTransaction, life, kafka
<1>6. CASE ScoreFails
  BY <1>6 DEF ScoreFails, CountError, Idle, life, kafka
<1>7. ASSUME NEW written \in BOOLEAN, NEW acked \in BOOLEAN,
             SendScored(written, acked) \/ SendAlert(written, acked)
      PROVE  Finishes \/ Works
  <2>1. hpc \in Sending /\ UNCHANGED <<proc, runs, position>>
    BY <1>7 DEF SendScored, SendAlert, Sending, kafka, life
  <2>2. CASE acked
    BY <1>7, <2>1, <2>2 DEF SendScored, SendAlert, Idle, Sending
  <2>3. CASE ~acked
    <3>1. Failed
      BY <1>7, <2>3 DEF SendScored, SendAlert
    <3> QED BY <2>1, <3>1, Failing DEF Idle, Sending
  <2> QED BY <2>2, <2>3
<1> QED BY <1>1, <1>2, <1>3, <1>4, <1>5, <1>6, <1>7 DEF Next, Shutdown, Handler, Send

\* A step leaves room for the record it may write.
LEMMA CapStep ==
  ASSUME TInv, [Next]_vars, NEW o \in Offsets
  PROVE  /\ ScoredCap(o) \in Int /\ AlertCap(o) \in Int
         /\ ScoredCap(o)' \in Int /\ AlertCap(o)' \in Int
         /\ ScoredCap(o) <= ScoredCap(o)' /\ AlertCap(o) <= AlertCap(o)'
         /\ hpc = "scored" /\ o = msg /\ ~UNCHANGED topics => ScoredCap(o) + 1 <= ScoredCap(o)'
         /\ hpc = "alert" /\ o = msg /\ ~UNCHANGED topics => AlertCap(o) + 1 <= AlertCap(o)'
<1> USE ScoringConsumerAssumption
<1> DEFINE old == MaxSends * (runs - 1)
           new == MaxSends * runs
<1>1. old \in Int /\ new = old + MaxSends /\ MaxSends \in Nat /\ Before = old
  BY Products DEF Before
<1>2. /\ o \in Int /\ position \in Int /\ position' \in Int
      /\ hpc = "idle" => msg = None /\ o # msg
      /\ hpc' = "idle" => msg' = None /\ o # msg'
      /\ hpc # "idle" => proc = "up" /\ msg = position
      /\ tries \in 0..MaxSends /\ tries' \in 0..MaxSends
      /\ hpc \in Sending => tries >= 1
      /\ hpc' \in Sending => tries' >= 1
  BY TInvStep DEF Offsets, TInv, TypeOK, HandlerOK
<1>3. CASE StartsUp
  <2>1. /\ Before' = new /\ MaxSends * runs' = new + MaxSends /\ hpc = "idle"
        /\ MaxSends * runs = new
    BY <1>1, <1>2, <1>3, Products DEF StartsUp, Start, Before, TInv, TypeOK
  <2>2. proc # "up" /\ proc' = "up"
    BY <1>3 DEF StartsUp, Start
  <2> HIDE DEF old, new
  <2> QED BY <1>1, <1>2, <2>1, <2>2 DEF ScoredCap, AlertCap, Cap, Sending
<1>4. CASE runs' = runs
  <2>1. Before' = old /\ MaxSends * runs' = new
    BY <1>4 DEF Before
  <2> HIDE DEF old, new
  <2> USE DEF ScoredCap, AlertCap, Cap, Sending
  <2>2. /\ MaxSends * runs = new
    BY DEF new
  <2>3. CASE Ended
    BY <1>1, <1>2, <2>1, <2>2, <2>3 DEF Ended
  <2>4. CASE Resting
    BY <1>1, <1>2, <2>1, <2>2, <2>4 DEF Resting, topics
  <2>5. CASE Advances
    BY <1>1, <1>2, <2>1, <2>2, <2>5 DEF Advances
  <2>6. CASE Finishes
    BY <1>1, <1>2, <2>1, <2>2, <2>6 DEF Finishes
  <2>7. CASE Works
    BY <1>1, <1>2, <2>1, <2>2, <2>7 DEF Works, Attempts
  <2> QED BY <1>3, <2>3, <2>4, <2>5, <2>6, <2>7, Shapes
<1> QED BY <1>3, <1>4, Shapes DEF Ended, Resting, Advances, Finishes, Works, Attempts

LEMMA CappedStep == TInv /\ Capped /\ [Next]_vars => Capped'
<1> SUFFICES ASSUME TInv, Capped, [Next]_vars, NEW o \in Offsets, NEW s \in Scores
             PROVE  /\ \A f \in BOOLEAN : scored'[<<o, s, f>>] <= ScoredCap(o)'
                    /\ alerts'[<<o, s>>] <= AlertCap(o)'
  BY DEF Capped
<1>1. Written /\ TopicsOK /\ TopicsOK'
  BY StepWrites DEF Written, TInv
<1>2. ASSUME NEW f \in BOOLEAN PROVE scored'[<<o, s, f>>] <= ScoredCap(o)'
  <2>1. scored[<<o, s, f>>] \in Nat /\ scored'[<<o, s, f>>] \in Nat
    BY <1>1 DEF TopicsOK
  <2>4. scored[<<o, s, f>>] <= ScoredCap(o)
    BY DEF Capped
  <2>2. CASE scored'[<<o, s, f>>] = scored[<<o, s, f>>]
    BY <2>1, <2>2, <2>4, CapStep
  <2>3. CASE scored'[<<o, s, f>>] # scored[<<o, s, f>>]
    <3>1. /\ hpc = "scored" /\ <<o, s, f>> = ScoredKey /\ ~UNCHANGED topics
          /\ scored'[<<o, s, f>>] = scored[<<o, s, f>>] + 1
      BY <1>1, <2>3 DEF Written, topics
    <3>2. o = msg
      BY <3>1 DEF ScoredKey
    <3> QED BY <2>1, <2>4, <3>1, <3>2, CapStep
  <2> QED BY <2>2, <2>3
<1>3. alerts'[<<o, s>>] <= AlertCap(o)'
  <2>1. alerts[<<o, s>>] \in Nat /\ alerts'[<<o, s>>] \in Nat
    BY <1>1 DEF TopicsOK
  <2>4. alerts[<<o, s>>] <= AlertCap(o)
    BY DEF Capped
  <2>2. CASE alerts'[<<o, s>>] = alerts[<<o, s>>]
    BY <2>1, <2>2, <2>4, CapStep
  <2>3. CASE alerts'[<<o, s>>] # alerts[<<o, s>>]
    <3>1. /\ hpc = "alert" /\ <<o, s>> = AlertKey /\ ~UNCHANGED topics
          /\ alerts'[<<o, s>>] = alerts[<<o, s>>] + 1
      BY <1>1, <2>3 DEF Written, topics
    <3>2. o = msg
      BY <3>1 DEF AlertKey
    <3> QED BY <2>1, <2>4, <3>1, <3>2, CapStep
  <2> QED BY <2>2, <2>3
<1> QED BY <1>2, <1>3

LEMMA CapInit == Init => Capped
<1> SUFFICES ASSUME Init PROVE Capped
  OBVIOUS
<1>1. \A o \in Offsets : ScoredCap(o) = 0 /\ AlertCap(o) = 0
  BY Products, ScoringConsumerAssumption DEF Init, ScoredCap, AlertCap, Cap
<1> QED BY <1>1 DEF Init, Capped

LEMMA CapBounds == TInv /\ Capped => DuplicateBound
<1> SUFFICES ASSUME TInv, Capped, NEW o \in Offsets, NEW s \in Scores
             PROVE  /\ \A f \in BOOLEAN : scored[<<o, s, f>>] <= MaxSends * runs
                    /\ alerts[<<o, s>>] <= MaxSends * runs
  BY DEF DuplicateBound
<1> DEFINE new == MaxSends * runs
<1>1. Before \in Int /\ MaxSends \in Nat /\ new = Before + MaxSends /\ MaxSends * runs = new
  BY Products, ScoringConsumerAssumption
<1> HIDE DEF new
<1>2. /\ ScoredCap(o) \in Int /\ ScoredCap(o) <= new
      /\ AlertCap(o) \in Int /\ AlertCap(o) <= new
  BY <1>1 DEF ScoredCap, AlertCap, Cap, TInv, TypeOK
<1> QED BY <1>1, <1>2 DEF Capped, TInv, TopicsOK

\* Auto-commit, crashes, cancellation and failing sends cost at most one transaction per
\* end of a process, and publish one at most MaxSends times per process.
THEOREM DeliveredNearlyOnce == Spec => []NearlyOnce
<1>1. TInv /\ LossInv /\ Capped => NearlyOnce
  BY LossBounded, CapBounds DEF NearlyOnce
<1> QED BY <1>1, TInvInit, TInvStep, LossInit, LossStep, CapInit, CappedStep, PTL DEF Spec
=============================================================================
