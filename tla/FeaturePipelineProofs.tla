------------------------ MODULE FeaturePipelineProofs ------------------------
(***************************************************************************)
(* Theorems about FeaturePipeline for every set of transactions and        *)
(* replicas, every sequence of windows and number of rebalances.           *)
(***************************************************************************)
EXTENDS FeaturePipeline, FiniteSetTheorems, TLAPS

Jobs == [phase : Phases, window : DOMAIN Windows, txn : Txns \cup {None},
         aggs : {<<>>} \cup [DOMAIN Windows -> SUBSET Entries]]
Stats == [sum : Nat, count : Nat, max : Nat, avg : Nat \X Nat]

JobsOK ==
  /\ job \in [Replicas -> Jobs]
  /\ \A r \in Replicas : (job[r].phase = "idle") <=> (job[r].txn = None)
KafkaOK ==
  /\ log \in Seq(Txns \cup {None}) /\ Len(log) <= MaxMsgs
  /\ committed \in Nat /\ position \in Nat /\ committed <= position /\ position <= Len(log)
  /\ owner \in Replicas /\ moves \in 0..MaxMoves /\ replays \in Nat
StoreOK ==
  /\ wnd \in [DOMAIN Windows -> SUBSET Entries] /\ recorded \in [DOMAIN Windows -> SUBSET Txns]
  /\ stats \in Stats /\ stored \subseteq Txns /\ torn \in BOOLEAN
  /\ last_txn_ts \in {t.ts : t \in Txns} \cup {None}
TInv == JobsOK /\ KafkaOK /\ StoreOK

LEMMA TypesFollow == TInv => TypeOK
<1> SUFFICES ASSUME TInv PROVE TypeOK
  OBVIOUS
<1>1. \A r \in Replicas : /\ job[r].phase \in Phases /\ job[r].txn \in Txns \cup {None}
                          /\ job[r].window \in DOMAIN Windows
  BY DEF TInv, JobsOK, Jobs
<1>2. stats.sum \in Nat /\ stats.count \in Nat /\ stats.max \in Nat
  BY DEF TInv, StoreOK, Stats
<1>3. committed \in 0..Len(log) /\ position \in 0..Len(log)
  BY DEF TInv, KafkaOK
<1> QED BY <1>1, <1>2, <1>3 DEF TInv, JobsOK, KafkaOK, StoreOK, TypeOK

\* A step of a replica's handler: where it is afterwards and with which transaction.
Moved(r, phase, txn) ==
  /\ job' \in [Replicas -> Jobs]
  /\ job'[r].phase = phase /\ job'[r].txn = txn
  /\ \A q \in Replicas : q # r => job'[q] = job[q]

LEMMA MovedBy ==
  ASSUME TInv, NEW r \in Replicas, NEW new \in Jobs, job' = [job EXCEPT ![r] = new]
  PROVE  Moved(r, new.phase, new.txn)
<1> HIDE DEF Jobs
<1> QED BY DEF TInv, JobsOK, Moved

LEMMA IdleJob == Idle \in Jobs /\ Idle.phase = "idle" /\ Idle.txn = None
<1>1. 1 \in DOMAIN Windows
  BY FeaturePipelineAssumption
<1> QED BY <1>1 DEF Idle, Jobs, Phases

LEMMA JobFields ==
  ASSUME TInv, NEW r \in Replicas
  PROVE  /\ job[r] \in Jobs /\ job[r].phase \in Phases /\ job[r].window \in DOMAIN Windows
         /\ job[r].txn \in Txns \cup {None}
         /\ (job[r].phase # "idle" => job[r].txn \in Txns)
         /\ job[r].aggs \in {<<>>} \cup [DOMAIN Windows -> SUBSET Entries]
<1>1. job[r] \in Jobs
  BY DEF TInv, JobsOK
<1> QED BY <1>1 DEF TInv, JobsOK, Jobs

LEMMA Going ==
  ASSUME TInv, NEW r \in Replicas, NEW phase \in Phases, GoTo(r, phase)
  PROVE  Moved(r, phase, job[r].txn)
<1> DEFINE new == [job[r] EXCEPT !.phase = phase]
<1>1. new \in Jobs /\ new.phase = phase /\ new.txn = job[r].txn
  BY JobFields DEF Jobs
<1>2. job' = [job EXCEPT ![r] = new]
  BY DEF GoTo
<1> HIDE DEF new
<1> QED BY <1>1, <1>2, MovedBy

LEMMA Dropping ==
  ASSUME TInv, NEW r \in Replicas, job' = [job EXCEPT ![r] = Idle]
  PROVE  Moved(r, "idle", None)
  BY IdleJob, MovedBy

LEMMA Taking ==
  ASSUME TInv, NEW r \in Replicas, Take(r)
  PROVE  \/ job' = job
         \/ \E m \in Txns : Moved(r, "record", m)
<1>1. log[position + 1] \in Txns \cup {None}
  BY DEF Take, TInv, KafkaOK
<1>2. CASE log[position + 1] = None
  BY <1>2 DEF Take
<1>3. CASE log[position + 1] # None
  <2>1. PICK m \in Txns : m = log[position + 1]
    BY <1>1, <1>3
  <2> DEFINE new == [job[r] EXCEPT !.phase = "record", !.txn = m]
  <2>2. new \in Jobs /\ new.phase = "record" /\ new.txn = m
    BY JobFields DEF Jobs, Phases
  <2>3. job' = [job EXCEPT ![r] = new]
    BY <1>3, <2>1 DEF Take
  <2> HIDE DEF new
  <2> QED BY <2>2, <2>3, MovedBy
<1> QED BY <1>2, <1>3

LEMMA Recording ==
  ASSUME TInv, NEW r \in Replicas, RecordWindow(r)
  PROVE  Moved(r, "record", job[r].txn) \/ Moved(r, "aggregate", job[r].txn)
<1>1. job[r].window \in DOMAIN Windows /\ DOMAIN Windows = 1..Len(Windows) /\ Len(Windows) \in Nat /\ job[r].phase = "record"
  BY JobFields, FeaturePipelineAssumption DEF RecordWindow, At
<1>2. CASE job[r].window < Len(Windows)
  <2> DEFINE new == [job[r] EXCEPT !.window = job[r].window + 1]
  <2>1. job[r].window + 1 \in DOMAIN Windows
    BY <1>1, <1>2
  <2>2. new \in Jobs /\ new.phase = "record" /\ new.txn = job[r].txn
    BY <1>1, <2>1, JobFields DEF Jobs
  <2>3. job' = [job EXCEPT ![r] = new]
    BY <1>2 DEF RecordWindow
  <2> HIDE DEF new
  <2> QED BY <2>2, <2>3, MovedBy
<1>3. CASE ~(job[r].window < Len(Windows))
  <2> DEFINE new == [job[r] EXCEPT !.phase = "aggregate"]
  <2>1. new \in Jobs /\ new.phase = "aggregate" /\ new.txn = job[r].txn
    BY JobFields DEF Jobs, Phases
  <2>2. job' = [job EXCEPT ![r] = new]
    BY <1>3 DEF RecordWindow
  <2> HIDE DEF new
  <2> QED BY <2>1, <2>2, MovedBy
<1> QED BY <1>2, <1>3

LEMMA Aggregating ==
  ASSUME TInv, NEW r \in Replicas, Aggregate(r)
  PROVE  /\ Moved(r, "velocity", job[r].txn)
         /\ job'[r].aggs = [w \in DOMAIN Windows |->
                              InRange(wnd[w], job[r].txn.ts - Windows[w], job[r].txn.ts)]
<1> DEFINE read == [w \in DOMAIN Windows |-> InRange(wnd[w], job[r].txn.ts - Windows[w], job[r].txn.ts)]
           new == [job[r] EXCEPT !.aggs = read, !.phase = "velocity"]
<1>1. read \in [DOMAIN Windows -> SUBSET Entries]
  BY DEF InRange, TInv, StoreOK
<1>2. job' = [job EXCEPT ![r] = new]
  BY DEF Aggregate
<1> HIDE DEF read
<1>3. new \in Jobs /\ new.phase = "velocity" /\ new.txn = job[r].txn /\ new.aggs = read
  BY <1>1, JobFields DEF Jobs, Phases
<1> HIDE DEF new
<1>4. job'[r] = new
  BY <1>2 DEF TInv, JobsOK
<1> QED BY <1>2, <1>3, <1>4, MovedBy DEF read

LEMMA Failing == ASSUME TInv, NEW r \in Replicas, Fail(r) \/ Crash(r) \/ Send(r) PROVE Moved(r, "idle", None)
  BY Dropping DEF Fail, AfterError, Crash, Send

LEMMA JobsStay ==
  ASSUME TInv, NEW r \in Replicas, NEW phase \in Phases, NEW txn \in Txns \cup {None}, Moved(r, phase, txn),
         phase = "idle" <=> txn = None
  PROVE  JobsOK'
<1>1. \A q \in Replicas : (job'[q].phase = "idle") <=> (job'[q].txn = None)
  <2> TAKE q \in Replicas
  <2>1. CASE q = r
    BY <2>1 DEF Moved
  <2>2. CASE q # r
    BY <2>2 DEF Moved, TInv, JobsOK
  <2> QED BY <2>1, <2>2
<1> QED BY <1>1 DEF Moved, JobsOK

\* Where a replica's step leads.
LEMMA Shapes ==
  ASSUME TInv, NEW r \in Replicas, Handle(r) \/ Crash(r)
  PROVE  \/ job' = job
         \/ \E phase \in Phases, txn \in Txns \cup {None} :
              Moved(r, phase, txn) /\ (phase = "idle" <=> txn = None)
<1> DEFINE Goal == \E phase \in Phases, txn \in Txns \cup {None} :
                     Moved(r, phase, txn) /\ (phase = "idle" <=> txn = None)
<1>0. None \notin Txns
  BY FeaturePipelineAssumption
<1>1. ASSUME NEW phase \in Phases \ {"idle"}, Moved(r, phase, job[r].txn), job[r].phase # "idle" PROVE Goal
  <2>1. job[r].txn \in Txns
    BY <1>1, JobFields
  <2> QED BY <1>0, <1>1, <2>1
<1>2. CASE Take(r)
  <2>1. CASE job' = job
    BY <2>1
  <2>2. ASSUME NEW m \in Txns, Moved(r, "record", m) PROVE Goal
    BY <1>0, <2>2 DEF Phases
  <2> QED BY <1>2, <2>1, <2>2, Taking
<1>3. CASE RecordWindow(r)
  BY <1>1, <1>3, Recording DEF Phases, RecordWindow, At
<1>4. CASE Aggregate(r)
  BY <1>1, <1>4, Aggregating DEF Phases, Aggregate, At
<1>5. CASE UpdateVelocity(r)
  BY <1>1, <1>5, Going DEF Phases, UpdateVelocity, At
<1>6. CASE AddAmounts(r)
  BY <1>1, <1>6, Going DEF Phases, AddAmounts, At
<1>7. CASE AddCount(r)
  BY <1>1, <1>7, Going DEF Phases, AddCount, At
<1>8. CASE UpdateAverage(r)
  BY <1>1, <1>8, Going DEF Phases, UpdateAverage, At
<1>9. CASE SetMeta(r)
  BY <1>1, <1>9, Going DEF Phases, SetMeta, At
<1>10. CASE Send(r) \/ Fail(r) \/ Crash(r)
  <2>1. Moved(r, "idle", None) /\ "idle" \in Phases
    BY <1>10, Failing DEF Phases
  <2> QED BY <2>1
<1> QED BY <1>2, <1>3, <1>4, <1>5, <1>6, <1>7, <1>8, <1>9, <1>10 DEF Handle

LEMMA JobsStep == ASSUME TInv, NEW r \in Replicas, Handle(r) \/ Crash(r) PROVE JobsOK'
<1>1. CASE job' = job
  BY <1>1 DEF TInv, JobsOK
<1> QED BY <1>1, Shapes, JobsStay

LEMMA TInvInit == Init => TInv
<1> USE FeaturePipelineAssumption
<1> SUFFICES ASSUME Init PROVE TInv
  OBVIOUS
<1>1. JobsOK
  BY IdleJob DEF Init, JobsOK
<1>2. KafkaOK
  BY DEF Init, KafkaOK
<1>3. StoreOK
  <2>1. stats \in Stats
    BY DEF Init, Stats
  <2>2. wnd \in [DOMAIN Windows -> SUBSET Entries] /\ recorded \in [DOMAIN Windows -> SUBSET Txns]
    BY DEF Init
  <2> QED BY <2>1, <2>2 DEF Init, StoreOK
<1> QED BY <1>1, <1>2, <1>3 DEF TInv

\* What an update of the running statistics leaves alone.
StatsStep(sum, count) ==
  stats' \in Stats /\ stats'.sum = sum /\ stats'.count = count /\ stats'.avg = stats.avg

LEMMA Adding ==
  ASSUME TInv, NEW r \in Replicas
  PROVE  /\ AddAmounts(r) => \E a \in Nat : StatsStep(stats.sum + a, stats.count)
         /\ AddCount(r) => StatsStep(stats.sum, stats.count + 1)
<1>1. stats \in Stats
  BY DEF TInv, StoreOK
<1>2. ASSUME AddAmounts(r) PROVE \E a \in Nat : StatsStep(stats.sum + a, stats.count)
  <2>1. PICK a \in Nat : a = job[r].txn.amount
    BY <1>2, JobFields, FeaturePipelineAssumption DEF AddAmounts, At
  <2>2. stats' = [stats EXCEPT !.sum = stats.sum + a]
    BY <1>2, <2>1 DEF AddAmounts
  <2>3. StatsStep(stats.sum + a, stats.count)
    BY <1>1, <2>2 DEF StatsStep, Stats
  <2> QED BY <2>3
<1>3. ASSUME AddCount(r) PROVE StatsStep(stats.sum, stats.count + 1)
  BY <1>1, <1>3 DEF AddCount, StatsStep, Stats
<1> QED BY <1>2, <1>3

LEMMA Averaging ==
  ASSUME TInv, NEW r \in Replicas, UpdateAverage(r)
  PROVE  /\ stats' \in Stats /\ stats'.sum = stats.sum /\ stats'.count = stats.count
         /\ stats.count > 0 => stats'.avg = <<stats.sum, stats.count>>
<1>1. stats \in Stats
  BY DEF TInv, StoreOK
<1>2. PICK a \in Nat : a = job[r].txn.amount
  BY JobFields, FeaturePipelineAssumption DEF UpdateAverage, At
<1>3. PICK max \in Nat : max = IF a > stats.max THEN a ELSE stats.max
  BY <1>1, <1>2 DEF Stats
<1>4. PICK avg \in Nat \X Nat : avg = IF stats.count > 0 THEN <<stats.sum, stats.count>> ELSE stats.avg
  BY <1>1 DEF Stats
<1>5. stats' = [[stats EXCEPT !.max = max] EXCEPT !.avg = avg]
  BY <1>2, <1>3, <1>4, <1>1 DEF UpdateAverage, AfterScript, Stats
<1> QED BY <1>1, <1>4, <1>5 DEF Stats

LEMMA Windowing ==
  ASSUME TInv, NEW r \in Replicas, RecordWindow(r)
  PROVE  \E w \in DOMAIN Windows, t \in Txns :
           /\ w = job[r].window /\ t = job[r].txn
           /\ wnd' \in [DOMAIN Windows -> SUBSET Entries] /\ recorded' \in [DOMAIN Windows -> SUBSET Txns]
           /\ wnd'[w] = Pruned(wnd[w] \cup {Entry(t)}, t.ts - Windows[w])
           /\ recorded'[w] = recorded[w] \cup {t}
           /\ \A v \in DOMAIN Windows : v # w => wnd'[v] = wnd[v] /\ recorded'[v] = recorded[v]
<1>1. PICK w \in DOMAIN Windows, t \in Txns : w = job[r].window /\ t = job[r].txn
  BY JobFields DEF RecordWindow, At
<1>2. /\ wnd \in [DOMAIN Windows -> SUBSET Entries] /\ recorded \in [DOMAIN Windows -> SUBSET Txns]
      /\ wnd' = [wnd EXCEPT ![w] = Pruned(wnd[w] \cup {Entry(t)}, t.ts - Windows[w])]
      /\ recorded' = [recorded EXCEPT ![w] = recorded[w] \cup {t}]
  BY <1>1 DEF TInv, StoreOK, RecordWindow
<1>3. PICK kept \in SUBSET Entries : kept = Pruned(wnd[w] \cup {Entry(t)}, t.ts - Windows[w])
  <2>1. Pruned(wnd[w] \cup {Entry(t)}, t.ts - Windows[w]) \subseteq wnd[w] \cup {Entry(t)}
    BY DEF Pruned
  <2>2. wnd[w] \subseteq Entries /\ Entry(t) \in Entries
    BY <1>2 DEF Entries
  <2> QED BY <2>1, <2>2
<1>4. PICK more \in SUBSET Txns : more = recorded[w] \cup {t}
  BY <1>1, <1>2
<1>5. wnd' = [wnd EXCEPT ![w] = kept] /\ recorded' = [recorded EXCEPT ![w] = more]
  BY <1>2, <1>3, <1>4
<1>6. /\ wnd' \in [DOMAIN Windows -> SUBSET Entries] /\ recorded' \in [DOMAIN Windows -> SUBSET Txns]
      /\ wnd'[w] = kept /\ recorded'[w] = more
      /\ \A v \in DOMAIN Windows : v # w => wnd'[v] = wnd[v] /\ recorded'[v] = recorded[v]
  BY <1>2, <1>5
<1> QED BY <1>1, <1>3, <1>4, <1>6

LEMMA HandedOutAgain == \A n, p, c \in Nat : c <= p => n + (p - c) \in Nat
  OBVIOUS

LEMMA KafkaStep ==
  ASSUME TInv, [Next]_vars PROVE KafkaOK'
<1> USE FeaturePipelineAssumption DEF TInv, KafkaOK
<1>1. ASSUME UNCHANGED <<kafka, replays>> PROVE KafkaOK'
  BY <1>1 DEF kafka
<1>2. ASSUME NEW m \in Txns \cup {None}, Produce(m) PROVE KafkaOK'
  BY <1>2 DEF Produce, history
<1>3. CASE AutoCommit
  BY <1>3 DEF AutoCommit, history
<1>4. ASSUME NEW r \in Replicas, Rebalance(r) PROVE KafkaOK'
  <2>1. PICK c \in Nat : c = committed' /\ c <= position
    BY <1>4 DEF Rebalance
  <2>2. /\ UNCHANGED log /\ owner' = r /\ moves < MaxMoves /\ moves' = moves + 1 /\ position' = c
        /\ replays' = replays + (position - c)
    BY <1>4, <2>1 DEF Rebalance, ResumeAtCommit
  <2>3. replays' \in Nat
    BY <2>1, <2>2, HandedOutAgain
  <2>4. moves' \in 0..MaxMoves
    BY <2>2
  <2>5. committed' \in Nat /\ position' \in Nat /\ committed' <= position' /\ position' <= Len(log')
    <3>1. c <= Len(log)
      BY <2>1
    <3> QED BY <2>1, <2>2, <3>1
  <2> QED BY <2>2, <2>3, <2>4, <2>5
<1>5. ASSUME NEW r \in Replicas, Crash(r) PROVE KafkaOK'
  BY <1>5 DEF Crash, ResumeAtCommit
<1>6. ASSUME NEW r \in Replicas, Take(r) PROVE KafkaOK'
  BY <1>6 DEF Take, history
<1>7. ASSUME NEW r \in Replicas, Handle(r), ~Take(r) PROVE UNCHANGED <<kafka, replays>>
  BY <1>7 DEF Handle, RecordWindow, Aggregate, UpdateVelocity, AddAmounts, AddCount, UpdateAverage, SetMeta, Send,
              Fail, history
<1> QED BY <1>1, <1>2, <1>3, <1>4, <1>5, <1>6, <1>7 DEF Next, vars, history

LEMMA StoreStep ==
  ASSUME TInv, [Next]_vars PROVE StoreOK'
<1> USE FeaturePipelineAssumption DEF TInv, StoreOK
<1>1. ASSUME UNCHANGED <<wnd, recorded, stats, stored, last_txn_ts>>, torn' \in BOOLEAN PROVE StoreOK'
  BY <1>1
<1>2. ASSUME NEW m \in Txns \cup {None}, Produce(m) PROVE StoreOK'
  BY <1>1, <1>2 DEF Produce, history, features
<1>3. CASE AutoCommit
  BY <1>1, <1>3 DEF AutoCommit, history, features
<1>4. ASSUME NEW r \in Replicas, Rebalance(r) \/ Crash(r) PROVE StoreOK'
  BY <1>1, <1>4 DEF Rebalance, Crash, features
<1>5. ASSUME NEW r \in Replicas, Take(r) \/ Aggregate(r) \/ UpdateVelocity(r) \/ Send(r) \/ Fail(r) PROVE StoreOK'
  BY <1>1, <1>5 DEF Take, Aggregate, UpdateVelocity, Send, Fail, history, features
<1>6. ASSUME NEW r \in Replicas, RecordWindow(r) PROVE StoreOK'
  BY <1>6, Windowing DEF RecordWindow, features
<1>7. ASSUME NEW r \in Replicas, AddAmounts(r) \/ AddCount(r) PROVE StoreOK'
  BY <1>7, Adding DEF AddAmounts, AddCount, history, StatsStep
<1>8. ASSUME NEW r \in Replicas, UpdateAverage(r) PROVE StoreOK'
  BY <1>8, Averaging DEF UpdateAverage
<1>9. ASSUME NEW r \in Replicas, SetMeta(r) PROVE StoreOK'
  <2>1. job[r].txn \in Txns
    BY <1>9, JobFields DEF SetMeta, At
  <2> QED BY <1>9, <2>1 DEF SetMeta
<1>10. CASE UNCHANGED vars
  BY <1>1, <1>10 DEF vars, history, features
<1> QED BY <1>2, <1>3, <1>4, <1>5, <1>6, <1>7, <1>8, <1>9, <1>10 DEF Next, Handle

LEMMA TInvStep == TInv /\ [Next]_vars => TInv'
<1> SUFFICES ASSUME TInv, [Next]_vars PROVE TInv'
  OBVIOUS
<1>1. JobsOK'
  <2>1. ASSUME job' = job PROVE JobsOK'
    BY <2>1 DEF TInv, JobsOK
  <2> QED BY <2>1, JobsStep DEF Next, Produce, AutoCommit, Rebalance, vars
<1> QED BY <1>1, KafkaStep, StoreStep DEF TInv

\* The state keeps its types, for any number of messages, rebalances and replicas.
THEOREM TypeCorrect == Spec => []TypeOK
<1> QED BY TypesFollow, TInvInit, TInvStep, PTL DEF Spec
-----------------------------------------------------------------------------
\* A handler that is about to publish has stored its transaction.
Sending == \A r \in Replicas : job[r].phase = "send" => job[r].txn \in stored

LEMMA BackedStep == TInv /\ Sending /\ EnrichedBacked /\ [Next]_vars => Sending' /\ EnrichedBacked'
<1> SUFFICES ASSUME TInv, Sending, EnrichedBacked, [Next]_vars PROVE Sending' /\ EnrichedBacked'
  OBVIOUS
\* Steps after which no other handler is about to publish.
<1>1. ASSUME stored \subseteq stored', enriched' = enriched,
             \A r \in Replicas : job'[r].phase = "send" => job'[r] = job[r] \/ job'[r].txn \in stored'
      PROVE  Sending' /\ EnrichedBacked'
  BY <1>1 DEF Sending, EnrichedBacked
<1>2. ASSUME NEW r \in Replicas, NEW phase, NEW txn, Moved(r, phase, txn), phase # "send" \/ txn \in stored'
      PROVE  \A q \in Replicas : job'[q].phase = "send" => job'[q] = job[q] \/ job'[q].txn \in stored'
  BY <1>2 DEF Moved
<1>3. ASSUME NEW r \in Replicas, Send(r) PROVE Sending' /\ EnrichedBacked'
  <2>1. Moved(r, "idle", None) /\ stored' = stored
    BY <1>3, Failing DEF Send, history
  <2>2. job[r].txn \in stored
    BY <1>3 DEF Send, At, Sending
  <2>3. \A e \in enriched' : e.txn \in stored
    BY <1>3, <2>2 DEF Send, EnrichedBacked
  <2> QED BY <1>2, <2>1, <2>3 DEF Sending, EnrichedBacked
<1>4. ASSUME NEW r \in Replicas, SetMeta(r) PROVE Sending' /\ EnrichedBacked'
  <2>1. Moved(r, "send", job[r].txn)
    BY <1>4, Going DEF SetMeta, Phases
  <2>2. stored \subseteq stored' /\ job[r].txn \in stored' /\ enriched' = enriched
    BY <1>4 DEF SetMeta
  <2> QED BY <1>1, <1>2, <2>1, <2>2
<1>5. ASSUME NEW r \in Replicas, Fail(r) \/ Crash(r) PROVE Sending' /\ EnrichedBacked'
  <2>1. Moved(r, "idle", None)
    BY <1>5, Failing
  <2>2. stored' = stored /\ enriched' = enriched
    BY <1>5 DEF Fail, Crash
  <2> QED BY <1>1, <1>2, <2>1, <2>2
<1>6. ASSUME NEW r \in Replicas, Take(r) PROVE Sending' /\ EnrichedBacked'
  <2>1. stored' = stored /\ enriched' = enriched
    BY <1>6 DEF Take, history
  <2> QED BY <1>1, <1>2, <1>6, <2>1, Taking
<1>7. ASSUME NEW r \in Replicas, RecordWindow(r) \/ Aggregate(r) PROVE Sending' /\ EnrichedBacked'
  <2>1. stored' = stored /\ enriched' = enriched
    BY <1>7 DEF RecordWindow, Aggregate, history
  <2> QED BY <1>1, <1>2, <1>7, <2>1, Recording, Aggregating
<1>8. ASSUME NEW r \in Replicas, UpdateVelocity(r) \/ AddAmounts(r) \/ AddCount(r) \/ UpdateAverage(r)
      PROVE  Sending' /\ EnrichedBacked'
  <2>1. stored' = stored /\ enriched' = enriched
    BY <1>8 DEF UpdateVelocity, AddAmounts, AddCount, UpdateAverage, history
  <2>2. \E phase \in Phases \ {"send"} : Moved(r, phase, job[r].txn)
    BY <1>8, Going DEF UpdateVelocity, AddAmounts, AddCount, UpdateAverage, Phases
  <2> QED BY <1>1, <1>2, <2>1, <2>2
<1>9. ASSUME job' = job, stored' = stored, enriched' = enriched PROVE Sending' /\ EnrichedBacked'
  BY <1>1, <1>9
<1> QED BY <1>3, <1>4, <1>5, <1>6, <1>7, <1>8, <1>9
         DEF Next, Handle, Produce, AutoCommit, Rebalance, vars, history

\* Whatever replicas overlap, crash or lose a command, whoever reads an enriched event finds
\* its transaction in the stored features.
THEOREM EventsBacked == Spec => []EnrichedBacked
<1>1. Init => Sending /\ EnrichedBacked
  BY IdleJob DEF Init, Sending, EnrichedBacked
<1> QED BY <1>1, TInvInit, TInvStep, BackedStep, PTL DEF Spec
-----------------------------------------------------------------------------
\* An update has counted its transaction before it works out the average, so that the
\* script always finds a count.
Counted == \A r \in Replicas : job[r].phase = "average" => stats.count > 0

LEMMA SettlesStep == TInv /\ Counted /\ AverageSettles /\ [Next]_vars => Counted' /\ AverageSettles'
<1> SUFFICES ASSUME TInv, Counted, AverageSettles, [Next]_vars PROVE Counted' /\ AverageSettles'
  OBVIOUS
<1>0. stats \in Stats /\ stats.count \in Nat
  BY DEF TInv, StoreOK, Stats
\* Steps that leave the statistics alone, and tear no update without saying so.
<1>1. ASSUME NEW r \in Replicas, NEW phase, NEW txn, Moved(r, phase, txn), stats' = stats,
             phase \notin {"count", "average"}, torn' = (torn \/ Tearing(r))
      PROVE  Counted' /\ AverageSettles'
  <2>1. \A q \in Replicas : q # r => (Tearing(q)' <=> Tearing(q))
    BY <1>1 DEF Moved, Tearing
  <2>2. Counted'
    BY <1>1 DEF Counted, Moved
  <2> QED BY <1>1, <2>1, <2>2 DEF AverageSettles
<1>2. ASSUME job' = job, stats' = stats, torn' = torn PROVE Counted' /\ AverageSettles'
  BY <1>2 DEF Counted, AverageSettles, Tearing
<1>3. ASSUME NEW r \in Replicas, Fail(r) \/ Crash(r) PROVE Counted' /\ AverageSettles'
  <2>1. Moved(r, "idle", None) /\ stats' = stats /\ torn' = (torn \/ Tearing(r))
    BY <1>3, Failing DEF Fail, Crash, features
  <2> QED BY <1>1, <2>1
<1>4. ASSUME NEW r \in Replicas, NEW phase \in {"record", "aggregate", "velocity", "amounts", "send", "idle"},
             NEW txn, Moved(r, phase, txn), ~Tearing(r), stats' = stats, torn' = torn
      PROVE  Counted' /\ AverageSettles'
  <2>1. torn' = (torn \/ Tearing(r))
    BY <1>4 DEF TInv, StoreOK
  <2> QED BY <1>1, <1>4, <2>1
<1>5. ASSUME NEW r \in Replicas, Take(r) PROVE Counted' /\ AverageSettles'
  <2>1. stats' = stats /\ torn' = torn /\ ~Tearing(r)
    BY <1>5 DEF Take, features, history, Tearing, Idle
  <2> QED BY <1>2, <1>4, <1>5, <2>1, Taking
<1>6. ASSUME NEW r \in Replicas, RecordWindow(r) \/ Aggregate(r) \/ UpdateVelocity(r) \/ SetMeta(r) \/ Send(r)
      PROVE  Counted' /\ AverageSettles'
  <2>1. stats' = stats /\ torn' = torn /\ ~Tearing(r)
    BY <1>6 DEF RecordWindow, Aggregate, UpdateVelocity, SetMeta, Send, At, features, history, Tearing
  <2>2. \E phase \in {"record", "aggregate", "velocity", "amounts", "send", "idle"}, txn \in Txns \cup {None} :
          Moved(r, phase, txn)
    BY <1>6, Recording, Aggregating, Going, Failing, JobFields DEF UpdateVelocity, SetMeta, Phases
  <2> QED BY <1>4, <2>1, <2>2
\* A step after which an update is on its way.
<1>7. ASSUME NEW r \in Replicas, NEW txn, Moved(r, "count", txn) \/ Moved(r, "average", txn),
             Moved(r, "average", txn) => stats'.count > 0, stats.count > 0 => stats'.count > 0
      PROVE  Counted' /\ AverageSettles'
  <2>1. Tearing(r)'
    BY <1>7 DEF Moved, Tearing
  <2>2. Counted'
    BY <1>7 DEF Counted, Moved
  <2> QED BY <2>1, <2>2 DEF AverageSettles
<1>8. ASSUME NEW r \in Replicas, AddAmounts(r) PROVE Counted' /\ AverageSettles'
  <2>1. Moved(r, "count", job[r].txn) /\ stats'.count = stats.count
    BY <1>8, Going, Adding DEF AddAmounts, Phases, StatsStep
  <2>2. ~Moved(r, "average", job[r].txn)
    BY <2>1 DEF Moved
  <2> QED BY <1>7, <2>1, <2>2
<1>9. ASSUME NEW r \in Replicas, AddCount(r) PROVE Counted' /\ AverageSettles'
  <2>1. Moved(r, "average", job[r].txn) /\ stats'.count = stats.count + 1
    BY <1>9, Going, Adding DEF AddCount, Phases, StatsStep
  <2> QED BY <1>0, <1>7, <2>1
<1>10. ASSUME NEW r \in Replicas, UpdateAverage(r) PROVE Counted' /\ AverageSettles'
  <2>1. Moved(r, "meta", job[r].txn)
    BY <1>10, Going DEF UpdateAverage, Phases
  <2>2. stats.count > 0
    BY <1>10 DEF UpdateAverage, At, Counted
  <2>3. stats'.count = stats.count /\ stats'.avg = <<stats'.sum, stats'.count>>
    BY <1>10, <2>2, Averaging
  <2>4. Counted'
    BY <2>1, <2>3 DEF Counted, Moved
  <2> QED BY <2>3, <2>4 DEF AverageSettles
<1> QED BY <1>2, <1>3, <1>5, <1>6, <1>8, <1>9, <1>10
         DEF Next, Handle, Produce, AutoCommit, Rebalance, vars, features, history

\* However the increments and the scripts of updates overlap, once none is under way or has
\* been torn off the stored average is that of the stored sum and count.
THEOREM AverageHolds == Spec => []AverageSettles
<1>1. Init => Counted /\ AverageSettles
  BY IdleJob DEF Init, Counted, AverageSettles
<1> QED BY <1>1, TInvInit, TInvStep, SettlesStep, PTL DEF Spec
-----------------------------------------------------------------------------
\* The transactions stored or counted to be stored, and the replicas with a message that is
\* not counted yet.  A handler counts its message once, and every message it is given is
\* one the position has passed or one that was handed out again.
Known == stored \cup {job[r].txn : r \in {q \in Replicas : job[q].phase \in {"average", "meta"}}}
Uncounted == {"record", "aggregate", "velocity", "amounts", "count"}
Ahead == {r \in Replicas : job[r].phase \in Uncounted}

Counting ==
  /\ IsFiniteSet(Known) /\ Cardinality(Known) <= stats.count
  /\ IsFiniteSet(Ahead) /\ stats.count + Cardinality(Ahead) <= position + replays

LEMMA CountsOK ==
  ASSUME TInv, Counting
  PROVE  /\ stats.count \in Nat /\ position \in Nat /\ replays \in Nat /\ Len(log) \in Nat
         /\ Cardinality(Known) \in Nat /\ Cardinality(Ahead) \in Nat
  BY FS_CardinalityType DEF TInv, KafkaOK, StoreOK, Stats, Counting

\* Steps that count nothing.
LEMMA CountingKept ==
  ASSUME TInv, Counting, Known' \subseteq Known, Ahead' \subseteq Ahead, stats'.count = stats.count,
         position' + replays' = position + replays
  PROVE  Counting'
<1>1. /\ IsFiniteSet(Known') /\ Cardinality(Known') <= Cardinality(Known)
      /\ IsFiniteSet(Ahead') /\ Cardinality(Ahead') <= Cardinality(Ahead)
  BY FS_Subset DEF Counting
<1>2. Cardinality(Known') \in Nat /\ Cardinality(Ahead') \in Nat
  BY <1>1, FS_CardinalityType
<1>3. PICK handed \in Nat : handed = position + replays
  BY CountsOK
<1>4. stats'.count + Cardinality(Ahead') <= handed
  BY <1>1, <1>2, <1>3, CountsOK DEF Counting
<1> QED BY <1>1, <1>2, <1>3, <1>4, CountsOK DEF Counting

\* A handler that moves on takes its replica and its transaction along.
LEMMA Following ==
  ASSUME NEW r \in Replicas, NEW phase, NEW txn, Moved(r, phase, txn)
  PROVE  /\ phase \in Uncounted => Ahead' = Ahead \cup {r}
         /\ phase \notin Uncounted => Ahead' = Ahead \ {r}
         /\ phase \notin {"average", "meta"} /\ stored' = stored => Known' \subseteq Known
         /\ Known' \subseteq stored' \cup Known \cup {txn}
  BY DEF Moved, Ahead, Known

LEMMA CountingTaken ==
  ASSUME TInv, Counting, NEW r \in Replicas, Take(r)
  PROVE  Counting'
<1>1. position' = position + 1 /\ replays' = replays /\ stats' = stats /\ stored' = stored /\ r \notin Ahead
  BY DEF Take, history, features, Idle, Ahead, Uncounted
<1>2. Known' \subseteq Known /\ Ahead' \subseteq Ahead \cup {r}
  <2>1. CASE job' = job
    BY <1>1, <2>1 DEF Known, Ahead
  <2>2. ASSUME NEW m \in Txns, Moved(r, "record", m) PROVE Known' \subseteq Known /\ Ahead' \subseteq Ahead \cup {r}
    BY <1>1, <2>2, Following DEF Uncounted
  <2> QED BY <2>1, <2>2, Taking
<1>3. IsFiniteSet(Ahead \cup {r}) /\ Cardinality(Ahead \cup {r}) = Cardinality(Ahead) + 1
  BY <1>1, FS_AddElement DEF Counting
<1>4. /\ IsFiniteSet(Known') /\ Cardinality(Known') <= Cardinality(Known)
      /\ IsFiniteSet(Ahead') /\ Cardinality(Ahead') <= Cardinality(Ahead) + 1
  BY <1>2, <1>3, FS_Subset DEF Counting
<1>5. Cardinality(Known') \in Nat /\ Cardinality(Ahead') \in Nat
  BY <1>4, FS_CardinalityType
<1>6. stats'.count + Cardinality(Ahead') <= (position + 1) + replays
  BY <1>1, <1>4, <1>5, CountsOK DEF Counting
<1> QED BY <1>1, <1>4, <1>5, <1>6, CountsOK DEF Counting

LEMMA CountingAdded ==
  ASSUME TInv, Counting, NEW r \in Replicas, AddCount(r)
  PROVE  Counting'
<1> DEFINE txn == job[r].txn
<1>1. /\ position' = position /\ replays' = replays /\ stats'.count = stats.count + 1 /\ stored' = stored
      /\ r \in Ahead /\ Moved(r, "average", txn)
  BY Adding, Going DEF AddCount, kafka, history, StatsStep, Ahead, Uncounted, At, Phases
<1>2. Known' \subseteq Known \cup {txn} /\ Ahead' = Ahead \ {r}
  <2>1. stored \subseteq Known
    BY DEF Known
  <2> QED BY <1>1, <2>1, Following DEF Uncounted
<1>3. IsFiniteSet(Ahead') /\ Cardinality(Ahead') = Cardinality(Ahead) - 1
  BY <1>1, <1>2, FS_RemoveElement DEF Counting
<1> HIDE DEF txn
<1>4. /\ IsFiniteSet(Known \cup {txn})
      /\ Cardinality(Known \cup {txn}) \in {Cardinality(Known), Cardinality(Known) + 1}
  BY FS_AddElement DEF Counting
<1>5. IsFiniteSet(Known') /\ Cardinality(Known') <= Cardinality(Known) + 1
  <2>1. IsFiniteSet(Known') /\ Cardinality(Known') <= Cardinality(Known \cup {txn})
    BY <1>2, <1>4, FS_Subset
  <2>2. Cardinality(Known') \in Nat
    BY <2>1, FS_CardinalityType
  <2> QED BY <1>4, <2>1, <2>2, CountsOK
<1>6. Cardinality(Known') \in Nat /\ Cardinality(Ahead') \in Nat
  BY <1>3, <1>5, FS_CardinalityType
<1>7. Cardinality(Known') <= stats.count + 1
  BY <1>5, <1>6, CountsOK DEF Counting
<1>8. (stats.count + 1) + Cardinality(Ahead') <= position + replays
  BY <1>3, CountsOK DEF Counting
<1> QED BY <1>1, <1>3, <1>5, <1>7, <1>8 DEF Counting

LEMMA CountingStep == TInv /\ Counting /\ [Next]_vars => Counting'
<1> SUFFICES ASSUME TInv, Counting, [Next]_vars PROVE Counting'
  OBVIOUS
<1>1. ASSUME job' = job, UNCHANGED <<stats, stored>>, position' + replays' = position + replays PROVE Counting'
  BY <1>1, CountingKept DEF Known, Ahead
<1>2. ASSUME NEW m \in Txns \cup {None}, Produce(m) PROVE Counting'
  BY <1>1, <1>2 DEF Produce, features, history
<1>3. CASE AutoCommit
  BY <1>1, <1>3 DEF AutoCommit, features, history
<1>4. ASSUME ResumeAtCommit, committed' \in {committed, position} PROVE position' + replays' = position + replays
  <2>1. PICK c \in Nat : c = committed' /\ c <= position
    BY <1>4 DEF TInv, KafkaOK
  <2>2. position' = c /\ replays' = replays + (position - c)
    BY <1>4, <2>1 DEF ResumeAtCommit
  <2>3. \A n, p, d \in Nat : d + (n + (p - d)) = p + n
    OBVIOUS
  <2> QED BY <2>1, <2>2, <2>3, CountsOK
<1>5. ASSUME NEW r \in Replicas, Rebalance(r) PROVE Counting'
  BY <1>1, <1>4, <1>5 DEF Rebalance, features
<1>6. ASSUME NEW r \in Replicas, NEW phase, NEW txn, Moved(r, phase, txn), stats'.count = stats.count,
             position' + replays' = position + replays, phase \in Uncounted => job[r].phase \in Uncounted,
             Known' \subseteq Known
      PROVE  Counting'
  <2>1. Ahead' \subseteq Ahead
    BY <1>6, Following DEF Ahead
  <2> QED BY <1>6, <2>1, CountingKept
<1>7. ASSUME NEW r \in Replicas, Fail(r) \/ Crash(r) \/ Send(r) PROVE Counting'
  <2>1. Moved(r, "idle", None) /\ stats' = stats /\ stored' = stored
    BY <1>7, Failing DEF Fail, Crash, Send, features, history
  <2>2. position' + replays' = position + replays
    BY <1>4, <1>7 DEF Fail, Crash, Send, kafka, history
  <2>3. Known' \subseteq Known
    BY <2>1, Following
  <2> QED BY <1>6, <2>1, <2>2, <2>3 DEF Uncounted
<1>8. ASSUME NEW r \in Replicas, RecordWindow(r) \/ Aggregate(r) \/ UpdateVelocity(r) \/ AddAmounts(r) PROVE Counting'
  <2>1. \E phase \in Uncounted : Moved(r, phase, job[r].txn)
    BY <1>8, Recording, Aggregating, Going DEF UpdateVelocity, AddAmounts, Uncounted, Phases
  <2>2. stats'.count = stats.count /\ stored' = stored /\ UNCHANGED <<position, replays>>
    BY <1>8, Adding DEF RecordWindow, Aggregate, UpdateVelocity, AddAmounts, features, history, kafka, StatsStep
  <2>3. job[r].phase \in Uncounted
    BY <1>8 DEF RecordWindow, Aggregate, UpdateVelocity, AddAmounts, At, Uncounted
  <2>4. Known' \subseteq Known
    BY <2>1, <2>2, Following DEF Uncounted
  <2> QED BY <1>6, <2>1, <2>2, <2>3, <2>4
<1>9. ASSUME NEW r \in Replicas, UpdateAverage(r) \/ SetMeta(r) PROVE Counting'
  <2>1. job[r].phase \in {"average", "meta"} /\ job[r].txn \in Known
    BY <1>9 DEF UpdateAverage, SetMeta, At, Known
  <2>2. /\ stats'.count = stats.count /\ UNCHANGED <<position, replays>>
        /\ stored' \subseteq stored \cup {job[r].txn}
    BY <1>9, Averaging DEF UpdateAverage, SetMeta, kafka
  <2>3. PICK phase \in {"meta", "send"} : Moved(r, phase, job[r].txn)
    BY <1>9, Going DEF UpdateAverage, SetMeta, Phases
  <2>4. Known' \subseteq Known
    <3>1. stored \subseteq Known
      BY DEF Known
    <3> QED BY <2>1, <2>2, <2>3, <3>1, Following
  <2> QED BY <1>6, <2>2, <2>3, <2>4 DEF Uncounted
<1>10. CASE UNCHANGED vars
  BY <1>1, <1>10 DEF vars, kafka, features, history
<1> QED BY <1>2, <1>3, <1>5, <1>7, <1>8, <1>9, <1>10, CountingTaken, CountingAdded DEF Next, Handle

LEMMA CountingInit == Init => Counting
<1> SUFFICES ASSUME Init PROVE Counting
  OBVIOUS
<1>1. Known = {} /\ Ahead = {} /\ stats.count = 0 /\ position = 0 /\ replays = 0
  BY IdleJob DEF Init, Known, Ahead, Uncounted
<1> QED BY <1>1, FS_EmptySet DEF Counting

\* The running count misses no stored transaction, and counts one again only when its
\* message was handed out again.
THEOREM CountHolds == Spec => []CountBound
<1>1. TInv /\ Counting => CountBound
  <2> SUFFICES ASSUME TInv, Counting PROVE CountBound
    OBVIOUS
  <2>1. IsFiniteSet(stored) /\ Cardinality(stored) <= Cardinality(Known)
    BY FS_Subset DEF Counting, Known
  <2>2. Cardinality(stored) \in Nat
    BY <2>1, FS_CardinalityType
  <2>3. position <= Len(log)
    BY DEF TInv, KafkaOK
  <2> QED BY <2>1, <2>2, <2>3, CountsOK, TypesFollow DEF Counting, CountBound
<1> QED BY <1>1, TInvInit, TInvStep, CountingInit, CountingStep, PTL DEF Spec
-----------------------------------------------------------------------------
\* A window holds recorded transactions only, and what it has dropped is a whole window
\* older than some recorded transaction.
Dropped(w, x) == \E y \in recorded[w] : x.ts <= y.ts - Windows[w]
Windowed ==
  \A w \in DOMAIN Windows :
    /\ wnd[w] \subseteq {Entry(x) : x \in recorded[w]}
    /\ \A x \in recorded[w] : Entry(x) \in wnd[w] \/ Dropped(w, x)

LEMMA WindowedStep == TInv /\ Windowed /\ [Next]_vars => Windowed'
<1> SUFFICES ASSUME TInv, Windowed, [Next]_vars PROVE Windowed'
  OBVIOUS
<1>1. ASSUME UNCHANGED <<wnd, recorded>> PROVE Windowed'
  BY <1>1 DEF Windowed, Dropped
<1>2. ASSUME NEW r \in Replicas, RecordWindow(r) PROVE Windowed'
  <2>1. PICK w \in DOMAIN Windows, t \in Txns :
           /\ wnd'[w] = Pruned(wnd[w] \cup {Entry(t)}, t.ts - Windows[w])
           /\ recorded'[w] = recorded[w] \cup {t}
           /\ \A v \in DOMAIN Windows : v # w => wnd'[v] = wnd[v] /\ recorded'[v] = recorded[v]
    BY <1>2, Windowing
  <2>2. wnd'[w] \subseteq {Entry(x) : x \in recorded'[w]}
    <3>1. wnd'[w] \subseteq wnd[w] \cup {Entry(t)}
      BY <2>1 DEF Pruned
    <3> QED BY <2>1, <3>1 DEF Windowed
  <2>3. ASSUME NEW x \in recorded'[w] PROVE Entry(x) \in wnd'[w] \/ Dropped(w, x)'
    <3>1. CASE Entry(x).ts > t.ts - Windows[w] /\ Entry(x) \in wnd[w] \cup {Entry(t)}
      BY <2>1, <3>1 DEF Pruned
    <3>2. CASE ~(Entry(x).ts > t.ts - Windows[w])
      <4>1. x \in Txns /\ Entry(x).ts = x.ts /\ x.ts \in Nat /\ t.ts - Windows[w] \in Int
        BY <2>1, <2>3, FeaturePipelineAssumption DEF TInv, StoreOK, Entry
      <4>2. x.ts <= t.ts - Windows[w] /\ t \in recorded'[w]
        BY <2>1, <3>2, <4>1
      <4> QED BY <4>2 DEF Dropped
    <3>3. CASE Entry(x) \notin wnd[w] \cup {Entry(t)}
      <4>1. x \in recorded[w] /\ Dropped(w, x)
        BY <2>1, <2>3, <3>3 DEF Windowed
      <4> QED BY <2>1, <4>1 DEF Dropped
    <3> QED BY <3>1, <3>2, <3>3
  <2>4. ASSUME NEW v \in DOMAIN Windows, v # w
        PROVE  /\ wnd'[v] \subseteq {Entry(x) : x \in recorded'[v]}
               /\ \A x \in recorded'[v] : Entry(x) \in wnd'[v] \/ Dropped(v, x)'
    BY <2>1, <2>4 DEF Windowed, Dropped
  <2> QED BY <2>2, <2>3, <2>4 DEF Windowed
<1>3. CASE UNCHANGED vars
  BY <1>1, <1>3 DEF vars, history
<1> QED
  BY <1>1, <1>2, <1>3 DEF Next, Handle, Produce, AutoCommit, Rebalance, Crash, Take, Aggregate,
     UpdateVelocity, AddAmounts, AddCount, UpdateAverage, SetMeta, Send, Fail, features, history

\* What a handler reads back from the windows is right, for every order of the timestamps.
LEMMA ReadsExactly ==
  ASSUME TInv, Windowed, NEW r \in Replicas, Aggregate(r), NEW w \in DOMAIN Windows
  PROVE  LET t == job[r].txn  from == t.ts - Windows[w]
             read == job'[r].aggs[w]
             within == {x \in recorded[w] : from < x.ts /\ x.ts <= t.ts}
             newest == \A x \in recorded[w] : x.ts <= t.ts
         IN  /\ read \subseteq {Entry(x) : x \in {y \in recorded[w] : from <= y.ts /\ y.ts <= t.ts}}
             /\ newest => {Entry(x) : x \in within} \subseteq read
<1>1. PICK t \in Txns : t = job[r].txn
  BY JobFields DEF Aggregate, At
<1>2. PICK from \in Int : from = t.ts - Windows[w]
  BY FeaturePipelineAssumption
<1>3. job'[r].aggs[w] = InRange(wnd[w], from, t.ts)
  BY <1>1, <1>2, Aggregating
<1>4. recorded[w] \subseteq Txns /\ (\A x \in Txns : Entry(x).ts = x.ts) /\ Windows[w] \in Nat
  BY FeaturePipelineAssumption DEF TInv, StoreOK, Entry
<1>5. InRange(wnd[w], from, t.ts)
        \subseteq {Entry(x) : x \in {y \in recorded[w] : from <= y.ts /\ y.ts <= t.ts}}
  <2> SUFFICES ASSUME NEW m \in wnd[w], from <= m.ts, m.ts <= t.ts
               PROVE  \E x \in recorded[w] : m = Entry(x) /\ from <= x.ts /\ x.ts <= t.ts
    BY DEF InRange
  <2>1. PICK x \in recorded[w] : m = Entry(x)
    BY DEF Windowed
  <2> QED BY <1>4, <2>1
<1>6. ASSUME \A x \in recorded[w] : x.ts <= t.ts,
             NEW x \in recorded[w], from < x.ts, x.ts <= t.ts
      PROVE  Entry(x) \in InRange(wnd[w], from, t.ts)
  <2>1. \A y \in recorded[w] : ~(x.ts <= y.ts - Windows[w])
    <3> TAKE y \in recorded[w]
    <3>1. x.ts \in Nat /\ y.ts \in Nat /\ t.ts \in Nat /\ y.ts <= t.ts
      BY <1>4, <1>6, FeaturePipelineAssumption
    <3> QED BY <1>2, <1>4, <1>6, <3>1
  <2>2. Entry(x) \in wnd[w]
    BY <2>1 DEF Windowed, Dropped
  <2>3. from <= x.ts
    BY <1>4, <1>6, FeaturePipelineAssumption
  <2> QED BY <1>4, <1>6, <2>2, <2>3 DEF InRange
<1>7. (\A x \in recorded[w] : x.ts <= t.ts)
        => {Entry(x) : x \in {y \in recorded[w] : from < y.ts /\ y.ts <= t.ts}}
             \subseteq InRange(wnd[w], from, t.ts)
  BY <1>6
<1> QED BY <1>1, <1>2, <1>3, <1>5, <1>7

\* A handler reads nothing outside its window and nothing twice, and misses a transaction
\* of the window only when a newer one has pruned it: for every order of the timestamps.
THEOREM AggregatesHold == Spec => AggregatesExact
<1>1. Init => Windowed
  BY DEF Init, Windowed, Dropped
<1>2. TInv /\ Windowed /\ [Next]_vars
        => [\A r \in Replicas : Aggregate(r) =>
              \A w \in DOMAIN Windows :
                LET t == job[r].txn  from == t.ts - Windows[w]
                    read == job'[r].aggs[w]
                    within == {x \in recorded[w] : from < x.ts /\ x.ts <= t.ts}
                    newest == \A x \in recorded[w] : x.ts <= t.ts
                IN  /\ read \subseteq {Entry(x) : x \in {y \in recorded[w] : from <= y.ts /\ y.ts <= t.ts}}
                    /\ newest => {Entry(x) : x \in within} \subseteq read]_vars
  BY ReadsExactly
<1> QED BY <1>1, <1>2, TInvInit, TInvStep, WindowedStep, PTL DEF Spec, AggregatesExact
=============================================================================
