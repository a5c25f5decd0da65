------------------------- MODULE AlertServiceProofs -------------------------
(***************************************************************************)
(* Theorems about AlertService for every number of messages, users,        *)
(* retries and process starts, every set of scores and any time to live.   *)
(***************************************************************************)
EXTENDS AlertService, FiniteSetTheorems, TLAPS

Working == {"running", "closing"}

\* The remote ends' counters, and the times at which alerts were let through.
HistoryOK ==
  /\ got \in [Channels -> [Offsets -> Nat]]
  /\ passed \in [Keys -> 0..MaxTime \cup {None}]

\* The handler has one valid message at a time, the one handed out last, in a process that
\* has not stopped consuming; it has attempts left only while it notifies.
HandlerOK ==
  /\ hpc = "idle" => msg = None
  /\ hpc # "idle" => /\ proc \in Working /\ msg = position /\ msg \in 1..Len(log)
                     /\ log[msg].valid /\ captured \in 0..now
  /\ hpc # "notifying" => \A c \in Pushers : tries[c] = 0
  /\ Up => runs >= 1

\* The group never commits what was not handed out.
PositionOK ==
  /\ position <= Len(log) /\ skipped <= Len(log)
  /\ committed # None => committed <= position

TInv == TypeOK /\ HistoryOK /\ HandlerOK /\ PositionOK

\* TypeOK in the groups of variables that steps change together.
KafkaOK == /\ log \in Seq(Messages) /\ Len(log) <= MaxMsgs
           /\ committed \in Offsets \cup {0, None} /\ position \in Offsets \cup {0}
LifeOK == /\ leaving \in BOOLEAN /\ proc \in {"down", "running", "closing", "stopping", "stopped"}
          /\ runs \in 0..MaxRuns /\ now \in 0..MaxTime /\ skipped \in 0..MaxMsgs
TasksOK == /\ seen \in [Keys -> 0..MaxTime \cup {None}] /\ locked \in BOOLEAN
           /\ tries \in [Pushers -> 0..MaxRetries]
MessageOK == /\ hpc \in {"idle", "received", "notifying"}
             /\ msg \in Offsets \cup {None} /\ captured \in 0..MaxTime \cup {None}
             /\ pending \subseteq Offsets /\ batch \subseteq Offsets /\ handled \subseteq Offsets

LEMMA Types == /\ TypeOK <=> KafkaOK /\ LifeOK /\ TasksOK /\ MessageOK
               /\ TypeOK' <=> KafkaOK' /\ LifeOK' /\ TasksOK' /\ MessageOK'
  BY DEF TypeOK, KafkaOK, LifeOK, TasksOK, MessageOK

LEMMA KeyOK == ASSUME NEW m \in Messages, m.valid PROVE Key(m) \in Keys /\ m.user \in Users /\ m.score \in Scores
<1>1. m \in [valid : {TRUE}, user : Users, score : Scores]
  BY DEF Messages
<1>2. m.user \in Users /\ m.score \in Scores
  BY <1>1
<1>3. AlertType(m.score) \in {"BLOCK", "REVIEW"}
  BY DEF AlertType
<1> QED BY <1>2, <1>3 DEF Key, Keys

\* What the two steps that reach a remote end do to its counters.
LEMMA Attempted ==
  ASSUME TInv, NEW c \in Pushers, Attempt(c)
  PROVE  /\ HistoryOK' /\ msg \in Offsets /\ c \in Channels
         /\ got' = got \/ got'[c][msg] = got[c][msg] + 1
         /\ \A d \in Channels, o \in Offsets : d # c \/ o # msg => got'[d][o] = got[d][o]
<1> DEFINE Counts == [Offsets -> Nat]
<1>1. /\ c \in Channels /\ msg \in Offsets /\ got \in [Channels -> Counts] /\ passed' = passed
      /\ passed \in [Keys -> 0..MaxTime \cup {None}]
  <2>1. c \in Channels
    BY AlertServiceAssumption DEF Channels
  <2>2. msg \in Offsets
    <3>1. hpc # "idle" /\ msg \in 1..Len(log) /\ Len(log) <= MaxMsgs /\ log \in Seq(Messages)
      BY DEF Attempt, TInv, TypeOK, HandlerOK
    <3> QED BY <3>1, AlertServiceAssumption DEF Offsets
  <2> QED BY <2>1, <2>2 DEF TInv, HistoryOK, Attempt, dedup
<1>2. got' = got \/ got' = [got EXCEPT ![c] = [got[c] EXCEPT ![msg] = got[c][msg] + 1]]
  BY DEF Attempt
<1>3. got[c] \in Counts /\ got[c][msg] \in Nat
  BY <1>1
<1>4. PICK new \in Counts : /\ new = [got[c] EXCEPT ![msg] = got[c][msg] + 1] /\ new[msg] = got[c][msg] + 1
                           /\ \A o \in Offsets : o # msg => new[o] = got[c][o]
  <2> DEFINE one == [got[c] EXCEPT ![msg] = got[c][msg] + 1]
  <2>1. one \in Counts /\ one[msg] = got[c][msg] + 1 /\ \A o \in Offsets : o # msg => one[o] = got[c][o]
    BY <1>1, <1>3
  <2> QED BY <2>1
<1> HIDE DEF Counts
<1>5. CASE got' = [got EXCEPT ![c] = new]
  <2>1. got' \in [Channels -> Counts] /\ got'[c] = new /\ \A d \in Channels : d # c => got'[d] = got[d]
    BY <1>1, <1>5
  <2> QED BY <1>1, <1>4, <2>1 DEF HistoryOK, Counts
<1> QED BY <1>1, <1>2, <1>4, <1>5 DEF HistoryOK, Counts

LEMMA Mailed ==
  ASSUME TInv, FlushEnd
  PROVE  HistoryOK' /\ \A c \in Channels \ {"email"} : got'[c] = got[c]
<1> DEFINE Counts == [Offsets -> Nat]
<1>1. got \in [Channels -> Counts] /\ passed' = passed /\ "email" \in Channels
      /\ passed \in [Keys -> 0..MaxTime \cup {None}]
  BY DEF TInv, HistoryOK, FlushEnd, dedup, Channels
<1>2. got' = got \/ got' = [got EXCEPT !["email"] =
                              [o \in Offsets |-> IF o \in batch THEN got["email"][o] + 1 ELSE got["email"][o]]]
  BY DEF FlushEnd
<1>3. PICK new \in Counts :
        new = [o \in Offsets |-> IF o \in batch THEN got["email"][o] + 1 ELSE got["email"][o]]
  <2>1. got["email"] \in Counts
    BY <1>1
  <2>2. \A o \in Offsets : (IF o \in batch THEN got["email"][o] + 1 ELSE got["email"][o]) \in Nat
    BY <2>1
  <2> QED BY <2>2
<1> HIDE DEF Counts
<1>4. got' = got \/ got' = [got EXCEPT !["email"] = new]
  BY <1>2, <1>3
<1> QED BY <1>1, <1>4 DEF HistoryOK, Counts

LEMMA TInvInit == Init => TInv
<1> USE AlertServiceAssumption
<1> SUFFICES ASSUME Init PROVE TInv
  OBVIOUS
<1>1. TypeOK
  <2>1. log \in Seq(Messages) /\ Len(log) <= MaxMsgs
    BY DEF Init
  <2>2. seen \in [Keys -> 0..MaxTime \cup {None}]
    BY DEF Init
  <2>3. tries \in [Pushers -> 0..MaxRetries]
    BY DEF Init
  <2>4. runs \in 0..MaxRuns /\ now \in 0..MaxTime /\ skipped \in 0..MaxMsgs
    BY DEF Init
  <2> QED BY <2>1, <2>2, <2>3, <2>4 DEF Init, TypeOK, Offsets
<1>2. HistoryOK /\ HandlerOK /\ PositionOK
  BY DEF Init, HistoryOK, HandlerOK, PositionOK, Up, Working
<1> QED BY <1>1, <1>2 DEF TInv

LEMMA TInvStep == TInv /\ [Next]_vars => TInv'
<1> USE AlertServiceAssumption
<1> SUFFICES ASSUME TInv, [Next]_vars PROVE TInv'
  OBVIOUS
<1>0. TypeOK /\ HistoryOK /\ HandlerOK /\ PositionOK
  BY DEF TInv
<1> USE <1>0 DEF TInv, TypeOK, KafkaOK, LifeOK, TasksOK, MessageOK, HistoryOK, HandlerOK, PositionOK, Up, Working, Offsets, kafka, dedup, handler, email
<1>1. CASE Start
  BY <1>1 DEF Start, Forget, ResumeAt
<1>2. CASE Crash
  <2>1. TypeOK'
    <3>1. KafkaOK'
      BY <1>2 DEF Crash, Forget
    <3>2. LifeOK'
      BY <1>2 DEF Crash, Forget
    <3>3. TasksOK'
      <4>1. seen' = [k \in Keys |-> None] /\ locked' = FALSE /\ tries' = [c \in Pushers |-> 0]
        BY <1>2 DEF Crash, Forget
      <4>2. seen' \in [Keys -> 0..MaxTime \cup {None}]
        BY <4>1
      <4>3. tries' \in [Pushers -> 0..MaxRetries]
        BY <4>1
      <4> QED BY <4>1, <4>2, <4>3
    <3>4. MessageOK'
      BY <1>2 DEF Crash, Forget
    <3> QED BY <3>1, <3>2, <3>3, <3>4, Types
  <2>2. HistoryOK'
    BY <1>2 DEF Crash, Forget
  <2>3. HandlerOK'
    BY <1>2 DEF Crash, Forget
  <2>4. PositionOK'
    BY <1>2 DEF Crash, Forget
  <2> QED BY <2>1, <2>2, <2>3, <2>4
<1>3. CASE Tick \/ AutoCommit
  <2>1. TypeOK'
    <3>1. KafkaOK'
      BY <1>3 DEF Tick, AutoCommit
    <3>2. LifeOK'
      BY <1>3 DEF Tick, AutoCommit
    <3>3. TasksOK'
      BY <1>3 DEF Tick, AutoCommit
    <3>4. MessageOK'
      BY <1>3 DEF Tick, AutoCommit
    <3> QED BY <3>1, <3>2, <3>3, <3>4, Types
  <2>2. HistoryOK'
    BY <1>3 DEF Tick, AutoCommit
  <2>3. HandlerOK'
    BY <1>3 DEF Tick, AutoCommit
  <2>4. PositionOK'
    BY <1>3 DEF Tick, AutoCommit
  <2> QED BY <2>1, <2>2, <2>3, <2>4
<1>4. ASSUME NEW m \in Messages, Produce(m) PROVE TInv'
  <2>1. /\ log' \in Seq(Messages) /\ Len(log') = Len(log) + 1 /\ Len(log) < MaxMsgs
        /\ \A i \in 1..Len(log) : log'[i] = log[i]
    <3> HIDE DEF Messages
    <3> QED BY <1>4 DEF Produce
  <2>2. /\ committed' = committed /\ position' = position
        /\ UNCHANGED <<proc, runs, now, dedup, handler, email, handled, skipped, got>>
    BY <1>4 DEF Produce
  <2>3. HandlerOK'
    <3>1. hpc # "idle" => log'[msg].valid
      BY <2>1
    <3> QED BY <2>1, <2>2, <3>1
  <2>4. KafkaOK' /\ PositionOK'
    BY <2>1, <2>2, <1>4 DEF Produce
  <2>5. LifeOK' /\ TasksOK' /\ MessageOK' /\ HistoryOK'
    BY <2>2, <1>4 DEF Produce
  <2> QED BY <2>3, <2>4, <2>5, Types
<1>5. CASE Receive
  BY <1>5 DEF Receive
<1>6. CASE Suppress \/ Gathered
  <2>1. TypeOK'
    <3>1. KafkaOK'
      BY <1>6 DEF Suppress, Gathered
    <3>2. LifeOK'
      BY <1>6 DEF Suppress, Gathered
    <3>3. TasksOK'
      BY <1>6 DEF Suppress, Gathered
    <3>4. MessageOK'
      <4>1. msg \in Offsets
        BY <1>6 DEF Suppress, Gathered
      <4> QED BY <1>6, <4>1 DEF Suppress, Gathered
    <3> QED BY <3>1, <3>2, <3>3, <3>4, Types
  <2>2. HistoryOK'
    BY <1>6 DEF Suppress, Gathered
  <2>3. HandlerOK'
    BY <1>6 DEF Suppress, Gathered
  <2>4. PositionOK'
    BY <1>6 DEF Suppress, Gathered
  <2> QED BY <2>1, <2>2, <2>3, <2>4
<1>7. CASE Route
  <2>1. TypeOK'
    <3>1. KafkaOK'
      BY <1>7 DEF Route
    <3>2. LifeOK'
      BY <1>7 DEF Route
    <3>3. TasksOK'
      <4>1. PICK k \in Keys : k = Key(log[msg])
        <5>1. log[msg] \in Messages /\ log[msg].valid
          <6> HIDE DEF Messages
          <6> QED BY <1>7 DEF Route
        <5> QED BY <5>1, KeyOK
      <4>2. /\ seen' = [seen EXCEPT ![k] = captured] /\ captured \in 0..MaxTime /\ locked' = locked
            /\ tries' = [c \in Pushers |-> IF Routed(c, log[msg]) THEN MaxRetries ELSE 0]
        BY <1>7, <4>1 DEF Route, MarkSeen, Attempts
      <4>3. \A c \in Pushers : (IF Routed(c, log[msg]) THEN MaxRetries ELSE 0) \in 0..MaxRetries
        OBVIOUS
      <4>4. tries' \in [Pushers -> 0..MaxRetries]
        BY <4>2, <4>3
      <4>5. seen' \in [Keys -> 0..MaxTime \cup {None}]
        BY <4>2
      <4> QED BY <4>2, <4>4, <4>5
    <3>4. MessageOK'
      BY <1>7 DEF Route
    <3> QED BY <3>1, <3>2, <3>3, <3>4, Types
  <2>2. HistoryOK'
    BY <1>7 DEF Route
  <2>3. HandlerOK'
    BY <1>7 DEF Route
  <2>4. PositionOK'
    BY <1>7 DEF Route
  <2> QED BY <2>1, <2>2, <2>3, <2>4
<1>8. ASSUME NEW c \in Pushers, Attempt(c) PROVE TInv'
  <2>1. TypeOK'
    <3>1. KafkaOK'
      BY <1>8 DEF Attempt
    <3>2. LifeOK'
      BY <1>8 DEF Attempt
    <3>3. TasksOK'
      <4>1. PICK left \in 0..MaxRetries : tries' = [tries EXCEPT ![c] = left]
        <5>1. PICK answered \in BOOLEAN : tries' = [tries EXCEPT ![c] = IF answered THEN 0 ELSE tries[c] - 1]
          BY <1>8 DEF Attempt, AfterFailure
        <5>2. tries[c] - 1 \in 0..MaxRetries /\ 0 \in 0..MaxRetries
          BY <1>8 DEF Attempt
        <5> QED BY <5>1, <5>2
      <4>2. UNCHANGED <<seen, locked>>
        BY <1>8 DEF Attempt
      <4> QED BY <4>1, <4>2
    <3>4. MessageOK'
      BY <1>8 DEF Attempt
    <3> QED BY <3>1, <3>2, <3>3, <3>4, Types
  <2>2. HistoryOK'
    BY <1>8, Attempted
  <2>3. HandlerOK'
    BY <1>8 DEF Attempt
  <2>4. PositionOK'
    BY <1>8 DEF Attempt
  <2> QED BY <2>1, <2>2, <2>3, <2>4
<1>9. CASE Cleanup \/ CleanupEnd
  BY <1>9 DEF Cleanup, CleanupEnd
<1>10. CASE FlushBegin
  BY <1>10 DEF FlushBegin, TakeBatch
<1>11. CASE FlushEnd
  <2>1. TypeOK'
    <3>1. KafkaOK'
      BY <1>11 DEF FlushEnd
    <3>2. LifeOK'
      BY <1>11 DEF FlushEnd
    <3>3. TasksOK'
      BY <1>11 DEF FlushEnd
    <3>4. MessageOK'
      BY <1>11 DEF FlushEnd
    <3> QED BY <3>1, <3>2, <3>3, <3>4, Types
  <2>2. HistoryOK'
    BY <1>11, Mailed
  <2>3. HandlerOK'
    BY <1>11 DEF FlushEnd
  <2>4. PositionOK'
    BY <1>11 DEF FlushEnd
  <2> QED BY <2>1, <2>2, <2>3, <2>4
<1>12. CASE Signal \/ CloseConsumer \/ Stopped
  <2>1. TypeOK'
    <3>1. KafkaOK'
      BY <1>12 DEF Signal, CloseConsumer, Stopped
    <3>2. LifeOK'
      BY <1>12 DEF Signal, CloseConsumer, Stopped
    <3>3. TasksOK'
      BY <1>12 DEF Signal, CloseConsumer, Stopped
    <3>4. MessageOK'
      BY <1>12 DEF Signal, CloseConsumer, Stopped
    <3> QED BY <3>1, <3>2, <3>3, <3>4, Types
  <2>2. HistoryOK'
    BY <1>12 DEF Signal, CloseConsumer, Stopped
  <2>3. HandlerOK'
    BY <1>12 DEF Signal, CloseConsumer, Stopped
  <2>4. PositionOK'
    BY <1>12 DEF Signal, CloseConsumer, Stopped
  <2> QED BY <2>1, <2>2, <2>3, <2>4
<1>13. CASE LoopEnd \/ ConsumerError
  BY <1>13 DEF LoopEnd, ConsumerError, LoopMayEnd, BeginStop, TakeBatch
<1>14. CASE UNCHANGED vars
  BY <1>14 DEF vars
<1> QED BY <1>1, <1>2, <1>3, <1>4, <1>5, <1>6, <1>7, <1>8, <1>9, <1>10, <1>11, <1>12, <1>13, <1>14
         DEF Next, Handler, Mailer, Shutdown

\* The state keeps its types, for any number of messages, process starts and attempts.
THEOREM TypeCorrect == Spec => []TypeOK
<1>1. TInv => TypeOK
  BY DEF TInv
<1> QED BY <1>1, TInvInit, TInvStep, PTL DEF Spec
-----------------------------------------------------------------------------
\* What LossBound counts, up to the position instead of the committed offset: the
\* position is never behind it, and falls back to it at a start.
LostSoFar == {o \in 1..position : o \notin handled /\ o # msg}
LossInv == Cardinality(LostSoFar) <= Ends + skipped

LEMMA LostFinite ==
  ASSUME TInv
  PROVE  /\ IsFiniteSet(LostSoFar) /\ Cardinality(LostSoFar) \in Nat /\ Cardinality(LostSoFar) <= position
         /\ \A o : /\ IsFiniteSet(LostSoFar \cup {o})
                   /\ Cardinality(LostSoFar \cup {o}) <= Cardinality(LostSoFar) + 1
<1>1. position \in Nat
  BY AlertServiceAssumption DEF TInv, TypeOK, Offsets
<1>2. IsFiniteSet(1..position) /\ Cardinality(1..position) = position
  BY <1>1, FS_Interval
<1>3. LostSoFar \subseteq 1..position
  BY DEF LostSoFar
<1>4. IsFiniteSet(LostSoFar) /\ Cardinality(LostSoFar) <= position
  BY <1>2, <1>3, FS_Subset
<1>5. Cardinality(LostSoFar) \in Nat
  BY <1>4, FS_CardinalityType
<1>6. \A o : /\ IsFiniteSet(LostSoFar \cup {o})
            /\ Cardinality(LostSoFar \cup {o}) =
                 IF o \in LostSoFar THEN Cardinality(LostSoFar) ELSE Cardinality(LostSoFar) + 1
  BY <1>4, FS_AddElement
<1>7. ASSUME NEW o PROVE Cardinality(LostSoFar \cup {o}) <= Cardinality(LostSoFar) + 1
  <2>1. \/ Cardinality(LostSoFar \cup {o}) = Cardinality(LostSoFar)
        \/ Cardinality(LostSoFar \cup {o}) = Cardinality(LostSoFar) + 1
    BY <1>6
  <2> QED BY <1>5, <2>1
<1> QED BY <1>4, <1>5, <1>6, <1>7

LEMMA EndsOK == ASSUME TInv PROVE Ends \in Nat /\ skipped \in Nat /\ runs \in Nat /\ position \in Nat
<1>1. runs \in Nat /\ skipped \in Nat /\ position \in Nat
  BY AlertServiceAssumption DEF TInv, TypeOK, Offsets
<1>2. proc \in Working => runs >= 1
  BY DEF TInv, HandlerOK, Up, Working
<1> QED BY <1>1, <1>2 DEF Ends, Working

\* A process that goes on loses nothing; one that ends, one message at most.
LEMMA LosesNothing ==
  ASSUME TInv, TInv', LossInv, LostSoFar' \subseteq LostSoFar, Ends' = Ends, skipped' = skipped
  PROVE  LossInv'
<1>1. IsFiniteSet(LostSoFar') /\ Cardinality(LostSoFar') <= Cardinality(LostSoFar)
  BY LostFinite, FS_Subset
<1>2. Cardinality(LostSoFar') \in Nat
  BY <1>1, FS_CardinalityType
<1> QED BY <1>1, <1>2, LostFinite, EndsOK DEF LossInv

LEMMA LosesOne ==
  ASSUME TInv, TInv', LossInv, NEW o, LostSoFar' \subseteq LostSoFar \cup {o}, Ends' = Ends + 1, skipped' = skipped
  PROVE  LossInv'
<1>1. IsFiniteSet(LostSoFar') /\ Cardinality(LostSoFar') <= Cardinality(LostSoFar \cup {o})
  BY LostFinite, FS_Subset
<1>2. Cardinality(LostSoFar') \in Nat /\ Cardinality(LostSoFar \cup {o}) \in Nat
  BY <1>1, LostFinite, FS_CardinalityType
<1>3. Cardinality(LostSoFar \cup {o}) <= Cardinality(LostSoFar) + 1 /\ Cardinality(LostSoFar) \in Nat
  BY LostFinite
<1>4. Ends \in Nat /\ skipped \in Nat
  BY EndsOK
<1> QED BY <1>1, <1>2, <1>3, <1>4 DEF LossInv

LEMMA LossStep == TInv /\ LossInv /\ [Next]_vars => LossInv'
<1> USE AlertServiceAssumption
<1> SUFFICES ASSUME TInv, LossInv, [Next]_vars PROVE LossInv'
  OBVIOUS
<1>1. TInv'
  BY TInvStep
<1>2. /\ position \in Nat /\ position' \in Nat /\ runs \in Nat /\ skipped \in Nat
      /\ hpc = "idle" => msg = None
  BY <1>1, EndsOK DEF TInv, TypeOK, Offsets, HandlerOK
<1>3. None \notin 1..position /\ None \notin 1..position'
  BY <1>2
\* Steps of a process that goes on.
<1>4. ASSUME UNCHANGED <<position, skipped>>, handled \subseteq handled', msg' = msg \/ msg \in handled',
             proc' = proc /\ runs' = runs
      PROVE  LossInv'
  <2>1. LostSoFar' \subseteq LostSoFar /\ Ends' = Ends
    BY <1>4 DEF LostSoFar, Ends
  <2> QED BY <1>1, <1>4, <2>1, LosesNothing, EndsOK
<1>5. CASE Start
  <2>1. hpc = "idle" /\ msg = None /\ msg' = None /\ handled' = handled /\ Ends' = Ends
    BY <1>2, <1>5 DEF Start, Forget, TInv, TypeOK, HandlerOK, Working, Ends
  <2>2. CASE committed = None
    <3>1. position' = skipped' /\ LostSoFar' \subseteq 1..position'
      BY <1>5, <2>2 DEF Start, ResumeAt, LostSoFar
    <3>2. IsFiniteSet(1..position') /\ Cardinality(1..position') = position'
      BY <1>2, FS_Interval
    <3>3. Cardinality(LostSoFar') <= position' /\ Cardinality(LostSoFar') \in Nat
      BY <3>1, <3>2, FS_Subset, FS_CardinalityType
    <3> QED BY <1>2, <2>1, <3>1, <3>3, EndsOK DEF LossInv
  <2>3. CASE committed # None
    <3>1. position' = committed /\ skipped' = skipped /\ committed <= position
      BY <1>5, <2>3 DEF Start, ResumeAt, TInv, PositionOK
    <3>2. LostSoFar' \subseteq LostSoFar
      BY <1>2, <2>1, <3>1 DEF LostSoFar
    <3> QED BY <1>1, <2>1, <3>1, <3>2, LosesNothing, EndsOK
  <2> QED BY <2>2, <2>3
<1>6. CASE Crash
  <2>1. /\ UNCHANGED <<position, runs, handled, skipped>> /\ proc' = "down" /\ msg' = None /\ Up
    BY <1>6 DEF Crash, Forget, kafka
  <2>2. LostSoFar' \subseteq LostSoFar \cup {msg}
    BY <2>1 DEF LostSoFar
  <2>3. CASE proc \in Working
    BY <1>1, <1>2, <2>1, <2>2, <2>3, LosesOne DEF Ends, Working
  <2>4. CASE proc \notin Working
    <3>1. msg = None /\ Ends' = Ends
      BY <2>1, <2>4, <1>2 DEF TInv, HandlerOK, Ends, Working
    <3>2. LostSoFar' \subseteq LostSoFar
      BY <1>3, <2>1, <2>2, <3>1 DEF LostSoFar
    <3> QED BY <1>1, <2>1, <3>1, <3>2, LosesNothing, EndsOK
  <2> QED BY <2>3, <2>4
<1>7. CASE Receive
  <2>1. /\ position' = position + 1 /\ handled \subseteq handled' /\ UNCHANGED <<proc, runs, skipped>>
        /\ msg' = position' \/ position' \in handled'
        /\ msg = None
    BY <1>2, <1>7 DEF Receive, handler
  <2>2. LostSoFar' \subseteq LostSoFar
    BY <1>2, <1>3, <2>1 DEF LostSoFar
  <2> QED BY <1>1, <2>1, <2>2, LosesNothing, EndsOK DEF Ends
<1>8. CASE Suppress \/ Route \/ Gathered
  BY <1>4, <1>8 DEF Suppress, Route, Gathered, kafka
<1>9. ASSUME NEW c \in Pushers, Attempt(c) PROVE LossInv'
  BY <1>4, <1>9 DEF Attempt, kafka
<1>10. CASE Tick \/ AutoCommit \/ Cleanup \/ CleanupEnd \/ FlushBegin \/ FlushEnd
  BY <1>4, <1>10 DEF Tick, AutoCommit, Cleanup, CleanupEnd, FlushBegin, FlushEnd, kafka, handler
<1>11. ASSUME NEW m \in Messages, Produce(m) PROVE LossInv'
  BY <1>4, <1>11 DEF Produce, handler
<1>12. CASE Signal \/ CloseConsumer \/ Stopped
  <2>1. /\ UNCHANGED <<position, skipped, handled, msg>> /\ Ends' = Ends
    BY <1>12 DEF Signal, CloseConsumer, Stopped, kafka, handler, Ends
  <2>2. LostSoFar' \subseteq LostSoFar
    BY <2>1 DEF LostSoFar
  <2> QED BY <1>1, <2>1, <2>2, LosesNothing, EndsOK
<1>13. CASE LoopEnd \/ ConsumerError
  <2>1. /\ position' \in {position, position + 1} /\ UNCHANGED <<skipped, handled, msg, runs>>
        /\ proc \in Working /\ proc' = "stopping" /\ msg = None
    BY <1>2, <1>13 DEF LoopEnd, ConsumerError, LoopMayEnd, BeginStop, handler, Working
  <2>2. PICK o : o = position + 1
    OBVIOUS
  <2>3. LostSoFar' \subseteq LostSoFar \cup {o}
    BY <1>2, <2>1, <2>2 DEF LostSoFar
  <2>4. Ends' = Ends + 1
    BY <1>2, <2>1 DEF Ends, Working
  <2> QED BY <1>1, <2>1, <2>3, <2>4, LosesOne
<1>14. CASE UNCHANGED vars
  BY <1>4, <1>14 DEF vars, kafka, handler
<1> QED BY <1>5, <1>6, <1>7, <1>8, <1>9, <1>10, <1>11, <1>12, <1>13, <1>14
         DEF Next, Handler, Mailer, Shutdown

LEMMA LossInit == Init => LossInv
<1> SUFFICES ASSUME Init PROVE LossInv
  OBVIOUS
<1>1. LostSoFar = {}
  BY DEF Init, LostSoFar
<1> QED BY <1>1, FS_EmptySet DEF Init, LossInv, Ends

LEMMA LossBounded == TInv /\ LossInv => LossBound
<1> SUFFICES ASSUME TInv, LossInv PROVE LossBound
  OBVIOUS
<1>1. Lost \subseteq LostSoFar
  BY AlertServiceAssumption DEF Lost, LostSoFar, TInv, TypeOK, PositionOK, Offsets
<1>2. IsFiniteSet(Lost) /\ Cardinality(Lost) <= Cardinality(LostSoFar)
  BY <1>1, LostFinite, FS_Subset
<1>3. Cardinality(Lost) \in Nat
  BY <1>2, FS_CardinalityType
<1> QED BY <1>2, <1>3, LostFinite, EndsOK DEF LossInv, LossBound
-----------------------------------------------------------------------------
\* The requests for a message that the running process may still send: it hands each out
\* once, and the attempts left to its task are to come.
Due(c, o) ==
  IF ~Up THEN 0
  ELSE IF o > position \/ (o = msg /\ hpc = "received") THEN MaxRetries
  ELSE IF o = msg THEN tries[c] ELSE 0
Capped == \A c \in Pushers, o \in Offsets : got[c][o] + Due(c, o) <= MaxRetries * runs

LEMMA Products ==
  \A r \in Nat : MaxRetries * r \in Nat /\ MaxRetries * (r + 1) = MaxRetries * r + MaxRetries
  BY AlertServiceAssumption

LEMMA DueOK ==
  ASSUME TInv, NEW c \in Pushers, NEW o \in Offsets
  PROVE  Due(c, o) \in 0..MaxRetries /\ got[c][o] \in Nat
<1>1. tries[c] \in 0..MaxRetries /\ MaxRetries \in Nat
  BY AlertServiceAssumption DEF TInv, TypeOK
<1>2. c \in Channels
  BY AlertServiceAssumption DEF Channels
<1>3. got[c] \in [Offsets -> Nat]
  BY <1>2 DEF TInv, HistoryOK
<1> QED BY <1>1, <1>3 DEF Due

\* A request uses up an attempt, and no other step makes more of them due.
Spends(c, o) ==
  /\ runs' = runs
  /\ \/ got'[c][o] = got[c][o] /\ Due(c, o)' <= Due(c, o)
     \/ got'[c][o] = got[c][o] + 1 /\ Due(c, o)' + 1 <= Due(c, o)

LEMMA DueStep ==
  ASSUME TInv, TInv', [Next]_vars, ~Start, NEW c \in Pushers, NEW o \in Offsets
  PROVE  Spends(c, o)
<1> USE AlertServiceAssumption
<1>0. /\ o \in Nat /\ position \in Nat /\ tries \in [Pushers -> 0..MaxRetries] /\ MaxRetries \in Nat \ {0}
      /\ tries[c] \in 0..MaxRetries
      /\ (hpc = "idle" => o # msg)
      /\ (hpc # "idle" => Up /\ msg = position)
      /\ (hpc # "notifying" => tries[c] = 0)
      /\ (hpc' = "idle" => o # msg')
  BY DEF TInv, TypeOK, HandlerOK, Offsets, Up, Working
<1>1. Due(c, o) \in 0..MaxRetries /\ c \in Channels
  BY DueOK DEF Channels
\* Steps that leave the handler where it is.
<1>2. ASSUME UNCHANGED <<runs, position, hpc, msg, tries>>, got'[c][o] = got[c][o], Up' => Up
      PROVE  Spends(c, o)
  BY <1>0, <1>1, <1>2 DEF Spends, Due
<1>3. CASE Crash
  <2>1. /\ UNCHANGED <<runs, position, got>> /\ ~Up'
    BY <1>3 DEF Crash, kafka, Up
  <2> QED BY <1>0, <1>1, <2>1 DEF Spends, Due
<1>4. CASE Receive
  <2>1. /\ position' = position + 1 /\ UNCHANGED <<runs, proc, got, tries>> /\ hpc = "idle"
        /\ hpc' = "idle" \/ (hpc' = "received" /\ msg' = position')
    BY <1>4 DEF Receive, handler
  <2> QED BY <1>0, <1>1, <2>1 DEF Spends, Due, Up
<1>5. CASE Suppress \/ Gathered
  <2>1. /\ UNCHANGED <<runs, proc, got, position, tries>> /\ hpc' = "idle" /\ msg' = None
        /\ hpc = "received" \/ tries[c] = 0
    BY <1>5 DEF Suppress, Gathered, kafka
  <2> QED BY <1>0, <1>1, <2>1 DEF Spends, Due, Up
<1>6. CASE Route
  <2>1. /\ UNCHANGED <<runs, proc, got, position, msg>> /\ hpc = "received" /\ hpc' = "notifying"
    BY <1>6 DEF Route, kafka
  <2>2. tries'[c] \in 0..MaxRetries
    BY DEF TInv, TypeOK
  <2> QED BY <1>0, <1>1, <2>1, <2>2 DEF Spends, Due, Up
<1>7. ASSUME NEW d \in Pushers, Attempt(d) PROVE Spends(c, o)
  <2>1. /\ UNCHANGED <<runs, proc, position, msg, hpc>> /\ hpc = "notifying" /\ tries[d] > 0 /\ Up
    BY <1>7 DEF Attempt, kafka
  <2>2. PICK left \in 0..MaxRetries : tries' = [tries EXCEPT ![d] = left] /\ left < tries[d]
    <3>1. PICK answered \in BOOLEAN : tries' = [tries EXCEPT ![d] = IF answered THEN 0 ELSE tries[d] - 1]
      BY <1>7 DEF Attempt, AfterFailure
    <3>2. tries[d] \in 0..MaxRetries /\ tries[d] - 1 \in 0..MaxRetries /\ 0 \in 0..MaxRetries
      BY <1>0, <2>1
    <3>3. (IF answered THEN 0 ELSE tries[d] - 1) < tries[d]
      BY <2>1, <3>2
    <3> QED BY <3>1, <3>2, <3>3
  <2>3. /\ got' = got \/ got'[d][msg] = got[d][msg] + 1
        /\ \A e \in Channels, u \in Offsets : e # d \/ u # msg => got'[e][u] = got[e][u]
    BY <1>7, Attempted
  <2>4. CASE d = c /\ o = msg
    <3>1. tries'[c] = left /\ Due(c, o) = tries[c] /\ Due(c, o)' = left
      BY <1>0, <2>1, <2>2, <2>4 DEF Due, Up
    <3>2. left + 1 <= tries[c] /\ left <= tries[c]
      BY <1>0, <2>2, <2>4
    <3> QED BY <2>1, <2>3, <2>4, <3>1, <3>2 DEF Spends
  <2>5. CASE d # c \/ o # msg
    <3>1. got'[c][o] = got[c][o]
      BY <1>1, <2>3, <2>5
    <3>2. tries'[c] = tries[c] \/ o # msg
      BY <1>0, <2>2, <2>5
    <3>3. Due(c, o)' = Due(c, o)
      BY <1>0, <2>1, <3>2 DEF Due, Up
    <3> QED BY <1>1, <2>1, <3>1, <3>3 DEF Spends
  <2> QED BY <2>4, <2>5
<1>8. CASE Tick \/ AutoCommit \/ Cleanup \/ CleanupEnd \/ FlushBegin
  BY <1>2, <1>8 DEF Tick, AutoCommit, Cleanup, CleanupEnd, FlushBegin, kafka, handler, Up
<1>9. CASE FlushEnd
  <2>1. got'[c] = got[c]
    BY <1>1, <1>9, Mailed
  <2> QED BY <1>2, <1>9, <2>1 DEF FlushEnd, kafka, handler, Up
<1>10. ASSUME NEW m \in Messages, Produce(m) PROVE Spends(c, o)
  BY <1>2, <1>10 DEF Produce, handler, Up
<1>11. CASE Signal \/ CloseConsumer \/ Stopped
  BY <1>2, <1>11 DEF Signal, CloseConsumer, Stopped, kafka, handler, Up
<1>12. CASE LoopEnd \/ ConsumerError
  <2>1. /\ position' \in {position, position + 1} /\ UNCHANGED <<runs, got, hpc, msg, tries>>
        /\ Up /\ Up' /\ hpc = "idle"
    BY <1>12 DEF LoopEnd, ConsumerError, LoopMayEnd, BeginStop, handler, Up
  <2> QED BY <1>0, <1>1, <2>1 DEF Spends, Due
<1>13. CASE UNCHANGED vars
  BY <1>2, <1>13 DEF vars, kafka, handler, Up
<1> QED BY <1>3, <1>4, <1>5, <1>6, <1>7, <1>8, <1>9, <1>10, <1>11, <1>12, <1>13
         DEF Next, Handler, Mailer, Shutdown

LEMMA CappedStep == TInv /\ Capped /\ [Next]_vars => Capped'
<1> USE AlertServiceAssumption
<1> SUFFICES ASSUME TInv, Capped, [Next]_vars, NEW c \in Pushers, NEW o \in Offsets
             PROVE  got'[c][o] + Due(c, o)' <= MaxRetries * runs'
  BY DEF Capped
<1>1. TInv' /\ MaxRetries \in Nat /\ runs \in Nat
  BY TInvStep, EndsOK
<1>2. got[c][o] \in Nat /\ Due(c, o) \in 0..MaxRetries /\ got[c][o] + Due(c, o) <= MaxRetries * runs
  BY DueOK DEF Capped
<1>3. PICK bound \in Nat : bound = MaxRetries * runs /\ MaxRetries * (runs + 1) = bound + MaxRetries
  BY <1>1, Products
<1>4. CASE Start
  <2>1. runs' = runs + 1 /\ got' = got
    BY <1>4 DEF Start
  <2>2. tries' = [d \in Pushers |-> 0]
    BY <1>4 DEF Start, Forget
  <2>3. Due(c, o)' \in 0..MaxRetries
    BY <1>1, <2>2 DEF Due
  <2>4. MaxRetries * runs' = bound + MaxRetries
    BY <1>3, <2>1
  <2> QED BY <1>1, <1>2, <1>3, <2>1, <2>3, <2>4
<1>5. CASE ~Start
  <2>1. Spends(c, o)
    BY <1>1, <1>5, DueStep
  <2>2. PICK due \in Nat : due = Due(c, o)'
    <3>1. tries' \in [Pushers -> 0..MaxRetries]
      BY <1>1 DEF TInv, TypeOK
    <3> QED BY <1>1, <3>1 DEF Due
  <2>3. MaxRetries * runs' = bound
    BY <1>3, <2>1 DEF Spends
  <2> QED BY <1>1, <1>2, <1>3, <2>1, <2>2, <2>3 DEF Spends
<1> QED BY <1>4, <1>5

LEMMA CappedInit == Init => Capped
<1> SUFFICES ASSUME Init, NEW c \in Pushers, NEW o \in Offsets
             PROVE  got[c][o] + Due(c, o) <= MaxRetries * runs
  BY DEF Capped
<1>1. c \in Channels
  BY AlertServiceAssumption DEF Channels
<1>2. got[c][o] = 0 /\ Due(c, o) = 0 /\ runs = 0
  BY <1>1 DEF Init, Due, Up
<1> QED BY <1>2, AlertServiceAssumption

LEMMA CapBounds == TInv /\ Capped => DeliveryBound
<1> SUFFICES ASSUME TInv, Capped, NEW c \in Pushers, NEW o \in Offsets
             PROVE  got[c][o] <= MaxRetries * runs
  BY DEF DeliveryBound
<1>1. MaxRetries * runs \in Nat
  BY EndsOK, Products
<1> QED BY <1>1, DueOK DEF Capped

\* Whatever auto-commit, crashes, the signal and failing requests interleave, a process
\* loses at most one message at its end, and a notifier sends a message at most
\* MaxRetries times per process.
THEOREM HandledNearlyOnce == Spec => []NearlyOnce
<1>1. TInv /\ LossInv /\ Capped => NearlyOnce
  BY LossBounded, CapBounds DEF NearlyOnce, TInv
<1> QED BY <1>1, TInvInit, TInvStep, LossInit, LossStep, CappedInit, CappedStep, PTL DEF Spec
-----------------------------------------------------------------------------
\* The deduplicator remembers when it last let an alert through, or the cleanup has
\* forgotten one that is the TTL old, for the waiting handler's reading of the clock too.
Forgotten(k) ==
  /\ seen[k] = None /\ now >= passed[k] + Ttl
  /\ hpc = "received" => captured >= passed[k] + Ttl
Apart == \A k \in Keys : passed[k] # None => seen[k] = passed[k] \/ Forgotten(k)

LEMMA ApartStep == TInv /\ Apart /\ [Next]_vars => Apart'
<1> USE AlertServiceAssumption
<1> SUFFICES ASSUME TInv, Apart, [Next]_vars, NEW k \in Keys, passed'[k] # None
             PROVE  seen'[k] = passed'[k] \/ Forgotten(k)'
  BY DEF Apart
<1>0. /\ seen \in [Keys -> 0..MaxTime \cup {None}] /\ passed \in [Keys -> 0..MaxTime \cup {None}]
      /\ now \in Nat /\ now' \in Nat /\ Ttl \in Nat
      /\ (hpc = "received" => captured \in 0..now)
  BY TInvStep DEF TInv, TypeOK, HistoryOK, HandlerOK
\* Steps that leave the deduplicator alone.
<1>1. ASSUME UNCHANGED <<seen, passed>>, now' >= now,
             hpc' = "received" => hpc = "received" /\ captured' = captured
      PROVE  seen'[k] = passed'[k] \/ Forgotten(k)'
  BY <1>0, <1>1 DEF Apart, Forgotten
<1>2. CASE Start \/ Crash
  BY <1>2 DEF Start, Crash, Forget
<1>3. CASE Receive
  <2>1. UNCHANGED <<seen, passed, now>> /\ (hpc' = "received" => captured' = now)
    BY <1>3 DEF Receive, dedup, handler, TInv, HandlerOK
  <2> QED BY <1>0, <2>1 DEF Apart, Forgotten
<1>4. CASE Route
  <2>1. PICK u \in Keys : u = Key(log[msg])
    <3>1. log[msg] \in Messages /\ log[msg].valid
      BY <1>4 DEF Route, TInv, TypeOK, HandlerOK
    <3> QED BY <3>1, KeyOK
  <2>2. /\ seen' = [seen EXCEPT ![u] = captured] /\ passed' = [passed EXCEPT ![u] = captured]
        /\ now' = now /\ hpc' = "notifying"
    BY <1>4, <2>1 DEF Route, MarkSeen
  <2>3. CASE k = u
    BY <1>0, <2>2, <2>3
  <2>4. CASE k # u
    BY <1>0, <2>2, <2>4 DEF Apart, Forgotten
  <2> QED BY <2>3, <2>4
<1>5. CASE Cleanup
  <2>1. /\ seen' = [u \in Keys |-> IF Expired(seen[u], now) THEN None ELSE seen[u]]
        /\ UNCHANGED <<passed, now, hpc, captured>> /\ hpc # "received"
    BY <1>5 DEF Cleanup, handler
  <2>2. seen'[k] = IF Expired(seen[k], now) THEN None ELSE seen[k]
    BY <2>1
  <2>3. CASE Expired(seen[k], now) /\ seen[k] = passed[k]
    <3>1. now >= passed[k] + Ttl
      BY <1>0, <2>1, <2>3 DEF Expired
    <3> QED BY <2>1, <2>2, <2>3, <3>1 DEF Forgotten
  <2>4. CASE ~(Expired(seen[k], now) /\ seen[k] = passed[k])
    BY <1>0, <2>1, <2>2, <2>4 DEF Apart, Forgotten, Expired
  <2> QED BY <2>3, <2>4
<1>6. CASE Suppress \/ Gathered
  BY <1>0, <1>1, <1>6 DEF Suppress, Gathered, dedup
<1>7. ASSUME NEW c \in Pushers, Attempt(c) PROVE seen'[k] = passed'[k] \/ Forgotten(k)'
  BY <1>0, <1>1, <1>7 DEF Attempt, dedup
<1>8. CASE Tick \/ AutoCommit \/ CleanupEnd \/ FlushBegin \/ FlushEnd
  BY <1>0, <1>1, <1>8 DEF Tick, AutoCommit, CleanupEnd, FlushBegin, FlushEnd, dedup, handler
<1>9. ASSUME NEW m \in Messages, Produce(m) PROVE seen'[k] = passed'[k] \/ Forgotten(k)'
  BY <1>0, <1>1, <1>9 DEF Produce, dedup, handler
<1>10. CASE Signal \/ CloseConsumer \/ LoopEnd \/ ConsumerError \/ Stopped
  BY <1>0, <1>1, <1>10 DEF Signal, CloseConsumer, LoopEnd, ConsumerError, Stopped, BeginStop, dedup, handler
<1>11. CASE UNCHANGED vars
  BY <1>0, <1>1, <1>11 DEF vars, dedup, handler
<1> QED BY <1>2, <1>3, <1>4, <1>5, <1>6, <1>7, <1>8, <1>9, <1>10, <1>11 DEF Next, Handler, Mailer, Shutdown

LEMMA RouteApart ==
  ASSUME TInv, Apart, [Next]_vars, Routing
  PROVE  LET last == passed[Key(log[msg])] IN last = None \/ captured - last >= Ttl
<1> USE AlertServiceAssumption
<1>1. hpc = "received" /\ hpc' = "notifying"
  BY DEF Routing
<1>2. Route
  BY <1>1 DEF Next, Handler, Mailer, Shutdown, Start, Crash, Forget, Tick, AutoCommit, Produce, Receive, Suppress,
             Attempt, Gathered, Cleanup, CleanupEnd, FlushBegin, FlushEnd, Signal, CloseConsumer, LoopEnd,
             ConsumerError, Stopped, BeginStop, handler, vars
<1>3. PICK k \in Keys : k = Key(log[msg])
  <2>1. log[msg] \in Messages /\ log[msg].valid
    BY <1>1 DEF TInv, TypeOK, HandlerOK
  <2> QED BY <2>1, KeyOK
<1>4. /\ seen \in [Keys -> 0..MaxTime \cup {None}] /\ passed \in [Keys -> 0..MaxTime \cup {None}]
      /\ captured \in Nat /\ Ttl \in Nat
  BY <1>1 DEF TInv, TypeOK, HistoryOK, HandlerOK
<1>5. ~(seen[k] # None /\ captured - seen[k] < Ttl)
  BY <1>2, <1>3 DEF Route, SeenWithinTtl
<1>6. passed[k] = None \/ captured - passed[k] >= Ttl
  BY <1>1, <1>4, <1>5 DEF Apart, Forgotten
<1> QED BY <1>3, <1>6

\* However the cleanup task, waiting on the lock and the clock interleave with the handler,
\* two alerts of one user and type that a process lets through are at least the TTL apart.
THEOREM AlertsApart == Spec => DedupWindow
<1>1. Init => Apart
  BY DEF Init, Apart
<1>2. TInv /\ Apart /\ [Next]_vars =>
        [Routing => LET last == passed[Key(log[msg])] IN last = None \/ captured - last >= Ttl]_vars
  BY RouteApart
<1> QED BY <1>1, <1>2, TInvInit, TInvStep, ApartStep, PTL DEF Spec, DedupWindow
=============================================================================
