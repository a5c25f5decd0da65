-------------------------- MODULE AlertPathProofs --------------------------
(***************************************************************************)
(* Theorems about AlertPath for any keys, partitions, replicas, window and *)
(* length of the topic, whatever sends reach nobody and whatever crashes,  *)
(* shutdowns and rebalances happen.                                        *)
(***************************************************************************)
EXTENDS AlertPath, TLAPS

Times == 0..now \cup {Nil}

\* What the memory of a replica rests on: a notification of the key, an alert of the same
\* process whose send reached nobody, or a send that is still under way.
Backed(r, k) ==
  \/ notified[k] # Nil /\ seen[r][k] <= notified[k]
  \/ silent[r][k] # Nil /\ seen[r][k] <= silent[r][k]
  \/ \E j \in sending : j.by = r /\ KeyOf(j) = k
SeenIsBacked == \A r \in Replicas, k \in Keys : seen[r][k] # Nil => Backed(r, k)

\* A replica waits for one send at a time, which is about the key it marked last.
OneSend == \A i, j \in sending : i.by = j.by => i = j
SendIsMarked == \A j \in sending :
  /\ seen[j.by][KeyOf(j)] # Nil
  /\ j.told => notified[KeyOf(j)] # Nil /\ seen[j.by][KeyOf(j)] <= notified[KeyOf(j)]

SilentIsUnheard == \A r \in Replicas, k \in Keys : silent[r][k] # Nil => k \in unheard

IInv == PathTypeOK /\ OneSend /\ SendIsMarked /\ SeenIsBacked /\ SilentIsUnheard /\ AlertsAccountedFor

LEMMA FreshType == Fresh \in [Keys -> Times] /\ \A k \in Keys : Fresh[k] = Nil
  BY DEF Fresh, Times

LEMMA TimesOrder == PathTypeOK => now \in Nat /\ Nil \notin Nat /\ \A t \in Times : t # Nil => t \in Nat /\ t <= now
  BY AlertPathAssumption DEF PathTypeOK, Times

\* A send is about a message of the topic.
LEMMA SendKey ==
  ASSUME PathTypeOK, NEW j \in sending
  PROVE  /\ j.by \in Replicas /\ j.part \in Partitions /\ j.offset \in 1..Len(topic[j.part])
         /\ topic[j.part][j.offset] \in Messages /\ KeyOf(j) \in Keys
<1>1. j \in Jobs /\ j.offset \in 1..Len(topic[j.part])
  BY DEF PathTypeOK
<1>2. j.by \in Replicas /\ j.part \in Partitions
  BY <1>1 DEF Jobs
<1>3. topic[j.part] \in Seq(Messages)
  BY <1>2 DEF PathTypeOK
<1>4. topic[j.part][j.offset] \in Messages
  BY <1>1, <1>3
<1> QED BY <1>1, <1>2, <1>4 DEF KeyOf, Messages

\* The next message of a partition is a message; taking it moves that partition on by one.
LEMMA NextMessage ==
  ASSUME PathTypeOK, NEW p \in Partitions, Take(p)
  PROVE  /\ Message(p) \in Messages /\ Message(p).key \in Keys /\ owner[p] \in Replicas
         /\ Message(p) = topic[p][read[p] + 1] /\ read[p] + 1 \in 1..Len(topic[p])
         /\ UNCHANGED <<topic, stored, owner, moves, now, notified, silent, unheard>>
         /\ read' \in [Partitions -> Nat] /\ \A q \in Partitions : read'[q] <= Len(topic[q])
         /\ \A q \in Partitions : \A i \in 1..read'[q] :
              i \in 1..read[q] \/ (q = p /\ i = read[p] + 1)
         /\ excused' = excused \ {<<p, read[p] + 1>>}
<1>1. read[p] + 1 \in 1..Len(topic[p])
  BY DEF Take, PathTypeOK
<1>2. topic[p] \in Seq(Messages) /\ owner[p] \in Replicas
  BY DEF PathTypeOK
<1>3. Message(p) \in Messages
  BY <1>1, <1>2 DEF Message
<1>4. \A q \in Partitions : read'[q] = IF q = p THEN read[p] + 1 ELSE read[q]
  BY DEF Take, PathTypeOK
<1>5. read' \in [Partitions -> Nat] /\ \A q \in Partitions : read'[q] <= Len(topic[q])
  BY <1>1, <1>4 DEF Take, PathTypeOK
<1>6. \A q \in Partitions : \A i \in 1..read'[q] :
        i \in 1..read[q] \/ (q = p /\ i = read[p] + 1)
  BY <1>4, <1>5 DEF PathTypeOK
<1>7. /\ UNCHANGED <<topic, stored, owner, moves, now, notified, silent, unheard>>
      /\ excused' = excused \ {<<p, read[p] + 1>>}
  BY DEF Take, outcomes
<1>8. Message(p).key \in Keys
  BY <1>3 DEF Messages
<1> QED BY <1>1, <1>2, <1>3, <1>5, <1>6, <1>7, <1>8 DEF Message
-----------------------------------------------------------------------------
LEMMA IInvInit == PathInit => IInv
<1> SUFFICES ASSUME PathInit PROVE IInv
  OBVIOUS
<1>1. PathTypeOK
  BY AlertPathAssumption, FreshType DEF PathInit, PathTypeOK, Times
<1>2. OneSend /\ SendIsMarked
  BY DEF PathInit, OneSend, SendIsMarked
<1>3. SeenIsBacked /\ SilentIsUnheard
  BY FreshType DEF PathInit, SeenIsBacked, SilentIsUnheard
<1>4. AlertsAccountedFor
  BY DEF PathInit, AlertsAccountedFor
<1> QED BY <1>1, <1>2, <1>3, <1>4 DEF IInv

LEMMA PublishStep ==
  ASSUME IInv, NEW m \in Messages, NEW p \in Partitions, Publish(m, p)
  PROVE  IInv'
<1> USE DEF IInv
<1>1. /\ topic' = [topic EXCEPT ![p] = Append(topic[p], m)] /\ topic[p] \in Seq(Messages)
      /\ UNCHANGED <<read, stored, owner, moves, seen, sending, now, notified, silent,
                     unheard, excused>>
  BY DEF Publish, PathTypeOK, group, outcomes
<1>2. /\ Append(topic[p], m) \in Seq(Messages)
      /\ Len(Append(topic[p], m)) = Len(topic[p]) + 1
      /\ \A i \in 1..Len(topic[p]) : Append(topic[p], m)[i] = topic[p][i]
  BY <1>1
<1>3. /\ topic' \in [Partitions -> Seq(Messages)]
      /\ \A q \in Partitions : /\ Len(topic[q]) \in Nat /\ Len(topic'[q]) \in Nat
                               /\ Len(topic[q]) <= Len(topic'[q])
                               /\ \A i \in 1..Len(topic[q]) : topic'[q][i] = topic[q][i]
  BY <1>1, <1>2 DEF PathTypeOK
<1>4. PathTypeOK'
  <2>1. \A j \in sending : j.offset \in 1..Len(topic'[j.part])
    BY <1>3, SendKey
  <2> QED BY <1>1, <1>3, <2>1 DEF PathTypeOK, Jobs
<1>5. \A j \in sending : KeyOf(j)' = KeyOf(j)
  BY <1>1, <1>3, SendKey DEF KeyOf
<1>6. OneSend' /\ SendIsMarked' /\ SeenIsBacked' /\ SilentIsUnheard'
  BY <1>1, <1>5 DEF OneSend, SendIsMarked, SeenIsBacked, Backed, SilentIsUnheard
<1>7. AlertsAccountedFor'
  <2> SUFFICES ASSUME NEW q \in Partitions, NEW i \in 1..read[q], Alerting(topic'[q][i])
               PROVE  Accounted(q, i)'
    BY <1>1 DEF AlertsAccountedFor
  <2>1. topic'[q][i] = topic[q][i]
    BY <1>3 DEF PathTypeOK
  <2>2. InFlight' = InFlight /\ UNCHANGED <<notified, unheard, excused>>
    BY <1>1 DEF InFlight
  <2>3. Accounted(q, i)
    BY <2>1 DEF AlertsAccountedFor
  <2> QED BY <2>1, <2>2, <2>3 DEF Accounted
<1> QED BY <1>4, <1>6, <1>7

\* A message that is handled without a mark and without a send.
LEMMA QuietStep ==
  ASSUME IInv, NEW p \in Partitions, Take(p), UNCHANGED <<seen, sending>>,
         Alerting(Message(p)) => notified[Message(p).key] # Nil \/ Message(p).key \in unheard
                                 \/ \E j \in sending : KeyOf(j) = Message(p).key /\ j.by = owner[p]
  PROVE  IInv'
<1> USE DEF IInv
<1>1. PathTypeOK'
  BY NextMessage DEF PathTypeOK
<1>2. OneSend' /\ SendIsMarked' /\ SeenIsBacked' /\ SilentIsUnheard'
  BY NextMessage DEF OneSend, SendIsMarked, SeenIsBacked, Backed, SilentIsUnheard, KeyOf
<1>3. AlertsAccountedFor'
  <2> SUFFICES ASSUME NEW q \in Partitions, NEW i \in 1..read'[q], Alerting(topic[q][i])
               PROVE  Accounted(q, i)'
    BY NextMessage DEF AlertsAccountedFor
  <2>1. CASE q = p /\ i = read[p] + 1
    <3>1. ~\E j \in sending : j.by = owner[p]
      BY DEF Take, Busy
    <3> QED BY <2>1, <3>1, NextMessage DEF Accounted
  <2>2. CASE ~(q = p /\ i = read[p] + 1)
    <3>1. Accounted(q, i)
      BY <2>2, NextMessage DEF AlertsAccountedFor
    <3> QED BY <2>2, <3>1, NextMessage DEF Accounted, InFlight
  <2> QED BY <2>1, <2>2
<1> QED BY <1>1, <1>2, <1>3

LEMMA AlertStep ==
  ASSUME IInv, NEW p \in Partitions, HandleAlert(p)
  PROVE  IInv'
<1> USE DEF IInv
<1> DEFINE r == owner[p]  k == Message(p).key
<1>0. PICK new \in Jobs : new = [by |-> r, part |-> p, offset |-> read[p] + 1, told |-> FALSE]
  <2>1. owner[p] \in Replicas /\ read[p] + 1 \in Nat
    BY NextMessage DEF HandleAlert, PathTypeOK
  <2> QED BY <2>1 DEF Jobs
<1>1. /\ Take(p) /\ seen' = [seen EXCEPT ![r][k] = now] /\ sending' = sending \cup {new}
      /\ r \in Replicas /\ k \in Keys
  BY <1>0, NextMessage DEF HandleAlert, MarkSeen
<1>a. /\ new \in Jobs /\ new.by = r /\ ~new.told
      /\ new.part = p /\ new.offset = read[p] + 1 /\ new.offset \in 1..Len(topic[p])
  BY <1>0, <1>1, NextMessage
<1>2. /\ \A j \in sending : j.by # r
      /\ \A j \in sending : KeyOf(j)' = KeyOf(j)
      /\ KeyOf(new)' = k
  <2>1. \A j \in sending : j.by # r
    BY <1>1 DEF Take, Busy
  <2>2. topic' = topic /\ Message(p) = topic[p][read[p] + 1]
    BY <1>1, NextMessage
  <2> QED BY <2>1, <2>2, <1>a DEF KeyOf
<1>3. /\ now \in Times /\ now # Nil
      /\ \A s \in Replicas, q \in Keys : seen'[s][q] = IF s = r /\ q = k THEN now ELSE seen[s][q]
  BY <1>1, TimesOrder DEF PathTypeOK, Times
<1>4. PathTypeOK'
  <2>2. seen' \in [Replicas -> [Keys -> Times]]
    BY <1>1, <1>3 DEF PathTypeOK, Times
  <2>3. sending' \subseteq Jobs /\ \A j \in sending' : j.offset \in 1..Len(topic[j.part])
    BY <1>1, <1>a DEF PathTypeOK
  <2> QED BY <1>1, <2>2, <2>3, NextMessage DEF PathTypeOK, Times
<1>5. OneSend'
  BY <1>1, <1>a, <1>2 DEF OneSend
<1>6. SendIsMarked'
  <2> SUFFICES ASSUME NEW j \in sending'
               PROVE  /\ seen'[j.by][KeyOf(j)'] # Nil
                      /\ j.told => /\ notified[KeyOf(j)'] # Nil
                                   /\ seen'[j.by][KeyOf(j)'] <= notified[KeyOf(j)']
    BY <1>1, NextMessage DEF SendIsMarked
  <2>1. CASE j = new
    BY <1>1, <1>a, <1>2, <1>3, <2>1
  <2>2. CASE j \in sending
    BY <1>2, <1>3, <2>2, SendKey DEF SendIsMarked
  <2> QED BY <1>1, <2>1, <2>2
<1>7. SeenIsBacked'
  <2> SUFFICES ASSUME NEW s \in Replicas, NEW q \in Keys, seen'[s][q] # Nil
               PROVE  Backed(s, q)'
    BY DEF SeenIsBacked
  <2>1. CASE s = r /\ q = k
    BY <1>1, <1>a, <1>2, <2>1 DEF Backed
  <2>2. CASE ~(s = r /\ q = k)
    <3>1. seen'[s][q] = seen[s][q] /\ Backed(s, q)
      BY <1>3, <2>2 DEF SeenIsBacked
    <3> QED BY <1>1, <1>2, <3>1, NextMessage DEF Backed
  <2> QED BY <2>1, <2>2
<1>8. SilentIsUnheard'
  BY <1>1, NextMessage DEF SilentIsUnheard
<1>9. AlertsAccountedFor'
  <2> SUFFICES ASSUME NEW q \in Partitions, NEW i \in 1..read'[q], Alerting(topic[q][i])
               PROVE  Accounted(q, i)'
    BY <1>1, NextMessage DEF AlertsAccountedFor
  <2>1. CASE q = p /\ i = read[p] + 1
    BY <1>1, <1>a, <2>1 DEF Accounted, InFlight
  <2>2. CASE ~(q = p /\ i = read[p] + 1)
    <3>1. Accounted(q, i)
      BY <1>1, <2>2, NextMessage DEF AlertsAccountedFor
    <3> QED BY <1>1, <2>2, <3>1, NextMessage DEF Accounted, InFlight
  <2> QED BY <2>1, <2>2
<1> QED BY <1>4, <1>5, <1>6, <1>7, <1>8, <1>9

\* A send that is told keeps its partition and offset.
LEMMA DeliverStep ==
  ASSUME IInv, NEW j \in sending, Deliver(j)
  PROVE  IInv'
<1> USE DEF IInv
<1>0. PICK new \in Jobs : new = [j EXCEPT !.told = TRUE]
  BY DEF PathTypeOK, Jobs
<1>1. PICK k \in Keys : k = KeyOf(j)
  BY SendKey
<1>2. /\ sending' = (sending \ {j}) \cup {new} /\ notified' = [notified EXCEPT ![k] = now]
      /\ UNCHANGED <<topic, read, stored, owner, moves, seen, now, silent, unheard, excused>>
  BY <1>0, <1>1 DEF Deliver, group
<1>3. /\ new \in Jobs /\ new.by = j.by /\ new.part = j.part /\ new.offset = j.offset /\ j \in Jobs
      /\ j.by \in Replicas /\ new.offset \in 1..Len(topic[new.part])
  BY <1>0, SendKey DEF PathTypeOK, Jobs
<1>4. KeyOf(new)' = k /\ \A i \in sending : KeyOf(i)' = KeyOf(i)
  BY <1>1, <1>2, <1>3 DEF KeyOf
<1>5. /\ now \in Times /\ now # Nil
      /\ \A q \in Keys : notified'[q] = IF q = k THEN now ELSE notified[q]
      /\ \A s \in Replicas, q \in Keys : seen[s][q] # Nil => seen[s][q] <= now
  BY <1>1, <1>2, TimesOrder DEF PathTypeOK, Times
<1>6. PathTypeOK'
  <2>1. notified' \in [Keys -> Times]
    BY <1>2, <1>5 DEF PathTypeOK, Times
  <2>2. sending' \subseteq Jobs /\ \A i \in sending' : i.offset \in 1..Len(topic[i.part])
    BY <1>2, <1>3 DEF PathTypeOK
  <2> QED BY <1>2, <2>1, <2>2 DEF PathTypeOK, Times
<1>7. OneSend'
  BY <1>2, <1>3 DEF OneSend
<1>8. SendIsMarked'
  <2> SUFFICES ASSUME NEW i \in sending'
               PROVE  /\ seen[i.by][KeyOf(i)'] # Nil
                      /\ i.told => /\ notified'[KeyOf(i)'] # Nil
                                   /\ seen[i.by][KeyOf(i)'] <= notified'[KeyOf(i)']
    BY <1>2 DEF SendIsMarked
  <2>1. CASE i = new
    BY <1>1, <1>3, <1>4, <1>5, <2>1 DEF SendIsMarked
  <2>2. CASE i \in sending
    BY <1>4, <1>5, <2>2, SendKey DEF SendIsMarked
  <2> QED BY <1>2, <2>1, <2>2
<1>9. SeenIsBacked'
  <2> SUFFICES ASSUME NEW s \in Replicas, NEW q \in Keys, seen[s][q] # Nil
               PROVE  Backed(s, q)'
    BY <1>2 DEF SeenIsBacked
  <2>1. CASE q = k
    BY <1>2, <1>5, <2>1 DEF Backed
  <2>2. CASE q # k
    <3>1. Backed(s, q) /\ notified'[q] = notified[q]
      BY <1>5, <2>2 DEF SeenIsBacked
    <3> QED BY <1>1, <1>2, <1>4, <2>2, <3>1 DEF Backed
  <2> QED BY <2>1, <2>2
<1>10. SilentIsUnheard'
  BY <1>2 DEF SilentIsUnheard
<1>11. AlertsAccountedFor'
  <2> SUFFICES ASSUME NEW q \in Partitions, NEW i \in 1..read[q], Alerting(topic[q][i])
               PROVE  Accounted(q, i)'
    BY <1>2 DEF AlertsAccountedFor
  <2>1. Accounted(q, i)
    BY DEF AlertsAccountedFor
  <2>2. InFlight \subseteq InFlight'
    BY <1>2, <1>3 DEF InFlight
  <2>3. notified[topic[q][i].key] # Nil => notified'[topic[q][i].key] # Nil
    <3>1. topic[q] \in Seq(Messages) /\ i \in 1..Len(topic[q])
      BY DEF PathTypeOK
    <3>2. topic[q][i].key \in Keys
      BY <3>1 DEF Messages
    <3> QED BY <1>5, <3>2
  <2> QED BY <1>2, <2>1, <2>2, <2>3 DEF Accounted
<1> QED BY <1>6, <1>7, <1>8, <1>9, <1>10, <1>11

LEMMA EndSendStep ==
  ASSUME IInv, NEW j \in sending, EndSend(j)
  PROVE  IInv'
<1> USE DEF IInv
<1>1. /\ sending' = sending \ {j} /\ unheard \subseteq unheard'
      /\ UNCHANGED <<topic, read, stored, owner, moves, seen, now, notified, excused>>
      /\ j.by \in Replicas /\ KeyOf(j) \in Keys
  BY SendKey DEF EndSend, group
<1>2. \A i \in sending : KeyOf(i)' = KeyOf(i)
  BY <1>1 DEF KeyOf
<1> DEFINE mark == seen[j.by][KeyOf(j)]
<1>3. mark \in Times /\ mark # Nil
  BY <1>1 DEF SendIsMarked, PathTypeOK, Times
<1>4. \/ j.told /\ UNCHANGED <<silent, unheard>>
      \/ /\ ~j.told /\ silent' = [silent EXCEPT ![j.by][KeyOf(j)] = mark]
         /\ unheard' = unheard \cup {KeyOf(j)}
  BY DEF EndSend
<1>5. \A s \in Replicas, q \in Keys :
        silent'[s][q] = IF ~j.told /\ s = j.by /\ q = KeyOf(j) THEN mark ELSE silent[s][q]
  BY <1>1, <1>4 DEF PathTypeOK
<1>6. PathTypeOK'
  <2>1. silent' \in [Replicas -> [Keys -> Times]] /\ unheard' \subseteq Keys
    <3> HIDE DEF mark
    <3>1. silent \in [Replicas -> [Keys -> Times]] /\ unheard \subseteq Keys
      BY DEF PathTypeOK, Times
    <3> QED BY <1>1, <1>3, <1>4, <3>1
  <2> QED BY <1>1, <2>1 DEF PathTypeOK, Times
<1>7. OneSend' /\ SendIsMarked'
  BY <1>1, <1>2 DEF OneSend, SendIsMarked
<1>8. SeenIsBacked'
  <2> SUFFICES ASSUME NEW s \in Replicas, NEW q \in Keys, seen[s][q] # Nil
               PROVE  Backed(s, q)'
    BY <1>1 DEF SeenIsBacked
  <2>0. Backed(s, q)
    BY DEF SeenIsBacked
  <2>1. CASE s = j.by /\ q = KeyOf(j)
    <3>1. CASE j.told
      BY <1>1, <2>1, <3>1 DEF SendIsMarked, Backed
    <3>2. CASE ~j.told
      BY <1>1, <1>3, <1>5, <2>1, <3>2 DEF Backed, Times, PathTypeOK
    <3> QED BY <3>1, <3>2
  <2>2. CASE ~(s = j.by /\ q = KeyOf(j))
    <3>1. silent'[s][q] = silent[s][q]
      BY <1>5, <2>2
    <3> QED BY <1>1, <1>2, <2>0, <2>2, <3>1 DEF Backed
  <2> QED BY <2>1, <2>2
<1>9. SilentIsUnheard'
  BY <1>1, <1>4, <1>5 DEF SilentIsUnheard
<1>10. AlertsAccountedFor'
  <2> SUFFICES ASSUME NEW q \in Partitions, NEW i \in 1..read[q], Alerting(topic[q][i])
               PROVE  Accounted(q, i)'
    BY <1>1 DEF AlertsAccountedFor
  <2>1. Accounted(q, i)
    BY DEF AlertsAccountedFor
  <2>2. CASE <<q, i>> = <<j.part, j.offset>>
    <3>1. topic[q][i].key = KeyOf(j)
      BY <2>2 DEF KeyOf
    <3> QED BY <1>1, <1>4, <3>1 DEF Accounted, SendIsMarked
  <2>3. CASE <<q, i>> # <<j.part, j.offset>>
    BY <1>1, <2>1, <2>3 DEF Accounted, InFlight
  <2> QED BY <2>2, <2>3
<1> QED BY <1>6, <1>7, <1>8, <1>9, <1>10
-----------------------------------------------------------------------------
LEMMA ResumeType ==
  ASSUME PathTypeOK, NEW p \in Partitions, NEW offset, offset = Nil \/ offset \in 0..Len(topic[p])
  PROVE  ResumeAt(offset, Len(topic[p])) \in 0..Len(topic[p])
<1>1. Len(topic[p]) \in Nat
  BY DEF PathTypeOK
<1> QED BY <1>1 DEF ResumeAt

\* When positions jump, what they pass over is excused.
LEMMA JumpAccounted ==
  ASSUME PathTypeOK, AlertsAccountedFor, UNCHANGED <<topic, notified, unheard>>,
         read' \in [Partitions -> Nat],
         excused \cup PassedOver \subseteq excused', InFlight \subseteq InFlight' \cup excused'
  PROVE  AlertsAccountedFor'
<1> SUFFICES ASSUME NEW p \in Partitions, NEW i \in 1..read'[p], Alerting(topic[p][i])
             PROVE  Accounted(p, i)'
  BY DEF AlertsAccountedFor
<1>1. CASE i \in 1..read[p]
  BY <1>1 DEF AlertsAccountedFor, Accounted
<1>2. CASE i \notin 1..read[p]
  <2>1. i \in read[p] + 1..read'[p]
    BY <1>2 DEF PathTypeOK
  <2>2. <<p, i>> \in PassedOver
    BY <2>1 DEF PassedOver
  <2> QED BY <2>2 DEF Accounted
<1> QED BY <1>1, <1>2

\* The new process of a replica remembers nothing, so there is nothing to back.
LEMMA RebornStep ==
  ASSUME IInv, NEW r \in Replicas, Reborn(r),
         stored' \in [Partitions -> Nat \cup {Nil}],
         \A p \in Partitions : stored'[p] # Nil => stored'[p] <= Len(topic[p]),
         excused \cup PassedOver \subseteq excused', InFlight \subseteq InFlight' \cup excused'
  PROVE  IInv'
<1> USE DEF IInv
<1>1. /\ seen' = [seen EXCEPT ![r] = Fresh] /\ silent' = [silent EXCEPT ![r] = Fresh]
      /\ sending' = {j \in sending : j.by # r} /\ moves' = moves + 1
      /\ UNCHANGED <<topic, owner, now, notified, unheard>>
  BY DEF Reborn, Move
<1>2. /\ read' \in [Partitions -> Nat]
      /\ \A p \in Partitions : read'[p] <= Len(topic[p])
  <2>1. \A p \in Partitions : ResumeAt(stored'[p], Len(topic[p])) \in 0..Len(topic[p])
    <3> TAKE p \in Partitions
    <3>1. Len(topic[p]) \in Nat
      BY DEF PathTypeOK
    <3>2. stored'[p] = Nil \/ stored'[p] \in 0..Len(topic[p])
      BY <3>1, AlertPathAssumption
    <3> QED BY <3>2, ResumeType
  <2>2. read' = [p \in Partitions |->
           IF owner[p] = r THEN ResumeAt(stored'[p], Len(topic[p])) ELSE read[p]]
    BY DEF Reborn
  <2> QED BY <2>1, <2>2 DEF PathTypeOK
<1>3. \A s \in Replicas, k \in Keys :
        /\ seen'[s][k] = IF s = r THEN Nil ELSE seen[s][k]
        /\ silent'[s][k] = IF s = r THEN Nil ELSE silent[s][k]
  BY <1>1, FreshType DEF PathTypeOK
<1>4. PathTypeOK'
  <2>1. seen' \in [Replicas -> [Keys -> Times]] /\ silent' \in [Replicas -> [Keys -> Times]]
    BY <1>1, FreshType DEF PathTypeOK, Times
  <2> QED BY <1>1, <1>2, <2>1 DEF PathTypeOK, Times
<1>5. \A j \in sending : KeyOf(j)' = KeyOf(j)
  BY <1>1 DEF KeyOf
<1>6. OneSend' /\ SendIsMarked'
  BY <1>1, <1>3, <1>5, SendKey DEF OneSend, SendIsMarked
<1>7. SeenIsBacked' /\ SilentIsUnheard'
  BY <1>1, <1>3, <1>5 DEF SeenIsBacked, Backed, SilentIsUnheard
<1>8. AlertsAccountedFor'
  BY <1>1, <1>2, JumpAccounted
<1> QED BY <1>4, <1>6, <1>7, <1>8

LEMMA CrashStep ==
  ASSUME IInv, NEW r \in Replicas, CrashReplica(r)
  PROVE  IInv'
<1> USE DEF IInv
<1>1. stored' = stored /\ Reborn(r)
  BY DEF CrashReplica
<1>2. /\ excused \cup PassedOver \subseteq excused'
      /\ {<<j.part, j.offset>> : j \in {i \in sending : i.by = r}} \subseteq excused'
  BY DEF CrashReplica
<1>3. InFlight \subseteq InFlight' \cup excused'
  <2> SUFFICES ASSUME NEW j \in sending PROVE <<j.part, j.offset>> \in InFlight' \cup excused'
    BY DEF InFlight
  <2> QED BY <1>1, <1>2 DEF InFlight, Reborn
<1> QED BY <1>1, <1>2, <1>3, RebornStep DEF PathTypeOK

LEMMA StopStep ==
  ASSUME IInv, NEW r \in Replicas, NEW dropped \in SUBSET Partitions, StopReplica(r, dropped)
  PROVE  IInv'
<1> USE DEF IInv
<1>1. /\ Reborn(r) /\ excused' = excused \cup PassedOver /\ \A j \in sending : j.by # r
  BY DEF StopReplica, Busy
<1>2. /\ stored' \in [Partitions -> Nat \cup {Nil}]
      /\ \A p \in Partitions : stored'[p] # Nil => stored'[p] <= Len(topic[p])
  <2>1. \A p \in Partitions : Len(topic[p]) \in Nat
    BY DEF PathTypeOK
  <2>2. \A p \in dropped : read[p] + 1 <= Len(topic[p])
    BY <2>1 DEF StopReplica, PathTypeOK
  <2> QED BY <2>1, <2>2 DEF StopReplica, PathTypeOK
<1>3. InFlight \subseteq InFlight'
  BY <1>1 DEF InFlight, Reborn
<1> QED BY <1>1, <1>2, <1>3, RebornStep

LEMMA RebalanceStep ==
  ASSUME IInv, NEW p \in Partitions, NEW r \in Replicas, Rebalance(p, r)
  PROVE  IInv'
<1> USE DEF IInv
<1>1. PICK offset \in {stored[p], read[p]} :
        /\ stored' = [stored EXCEPT ![p] = offset]
        /\ read' = [read EXCEPT ![p] = ResumeAt(offset, Len(topic[p]))]
  BY DEF Rebalance
<1>2. /\ owner' = [owner EXCEPT ![p] = r] /\ moves' = moves + 1 /\ excused' = excused \cup PassedOver
      /\ UNCHANGED <<topic, seen, sending, now, notified, silent, unheard>>
  BY DEF Rebalance, Move, outcomes
<1>3. offset = Nil \/ offset \in 0..Len(topic[p])
  <2>1. Len(topic[p]) \in Nat
    BY DEF PathTypeOK
  <2> QED BY <2>1, AlertPathAssumption DEF PathTypeOK
<1>4. ResumeAt(offset, Len(topic[p])) \in 0..Len(topic[p]) /\ Len(topic[p]) \in Nat
  BY <1>3, ResumeType DEF PathTypeOK
<1>5. PathTypeOK'
  BY <1>1, <1>2, <1>3, <1>4 DEF PathTypeOK
<1>6. OneSend' /\ SendIsMarked' /\ SeenIsBacked' /\ SilentIsUnheard'
  BY <1>2 DEF OneSend, SendIsMarked, SeenIsBacked, Backed, SilentIsUnheard, KeyOf
<1>7. AlertsAccountedFor'
  <2>1. InFlight' = InFlight
    BY <1>2 DEF InFlight
  <2> QED BY <1>2, <1>5, <2>1, JumpAccounted DEF PathTypeOK
<1> QED BY <1>5, <1>6, <1>7

\* A step that only commits or lets time pass.
LEMMA OtherStep ==
  ASSUME IInv, UNCHANGED <<topic, read, owner, moves, seen, sending, notified, silent, unheard, excused>>,
         now' \in now..MaxTime, stored' \in [Partitions -> Nat \cup {Nil}],
         \A p \in Partitions : stored'[p] # Nil => stored'[p] <= Len(topic[p])
  PROVE  IInv'
<1> USE DEF IInv
<1>1. Times \subseteq Times'
  BY TimesOrder DEF Times
<1>2. PathTypeOK'
  <2>1. now' \in 0..MaxTime
    BY TimesOrder, AlertPathAssumption
  <2>2. /\ seen \in [Replicas -> [Keys -> Times]] /\ silent \in [Replicas -> [Keys -> Times]]
        /\ notified \in [Keys -> Times]
    BY DEF PathTypeOK, Times
  <2>3. /\ seen \in [Replicas -> [Keys -> Times']] /\ silent \in [Replicas -> [Keys -> Times']]
        /\ notified \in [Keys -> Times']
    BY <1>1, <2>2
  <2> QED BY <2>1, <2>3 DEF PathTypeOK, Times
<1>3. OneSend' /\ SendIsMarked' /\ SeenIsBacked' /\ SilentIsUnheard'
  BY DEF OneSend, SendIsMarked, SeenIsBacked, Backed, SilentIsUnheard, KeyOf
<1>4. AlertsAccountedFor'
  BY DEF AlertsAccountedFor, Accounted, InFlight
<1> QED BY <1>2, <1>3, <1>4

LEMMA IInvStep == IInv /\ [PathNext]_pathvars => IInv'
<1> SUFFICES ASSUME IInv, [PathNext]_pathvars PROVE IInv'
  OBVIOUS
<1>1. ASSUME NEW m \in Messages, NEW p \in Partitions, Publish(m, p) PROVE IInv'
  BY <1>1, PublishStep
<1>2. ASSUME NEW p \in Partitions, HandleInvalid(p) PROVE IInv'
  BY <1>2, QuietStep DEF HandleInvalid, Alerting
<1>3. ASSUME NEW p \in Partitions, HandleUnflagged(p) PROVE IInv'
  BY <1>3, QuietStep DEF HandleUnflagged, Alerting
<1>4. ASSUME NEW p \in Partitions, HandleSuppressed(p) PROVE IInv'
  <2>1. seen[owner[p]][Message(p).key] # Nil /\ Take(p) /\ UNCHANGED <<seen, sending>>
    BY <1>4 DEF HandleSuppressed, SeenWithinTtl
  <2>2. Backed(owner[p], Message(p).key)
    BY <2>1, NextMessage DEF IInv, SeenIsBacked
  <2>3. \/ notified[Message(p).key] # Nil \/ Message(p).key \in unheard
        \/ \E j \in sending : KeyOf(j) = Message(p).key /\ j.by = owner[p]
    BY <2>1, <2>2, NextMessage DEF Backed, IInv, SilentIsUnheard
  <2> QED BY <2>1, <2>3, QuietStep
<1>5. ASSUME NEW p \in Partitions, HandleAlert(p) PROVE IInv'
  BY <1>5, AlertStep
<1>6. ASSUME NEW j \in sending, Deliver(j) PROVE IInv'
  BY <1>6, DeliverStep
<1>7. ASSUME NEW j \in sending, EndSend(j) PROVE IInv'
  BY <1>7, EndSendStep
<1>8. ASSUME NEW r \in Replicas, CrashReplica(r) PROVE IInv'
  BY <1>8, CrashStep
<1>9. ASSUME NEW r \in Replicas, NEW dropped \in {{}} \cup {{p} : p \in Partitions}, StopReplica(r, dropped)
      PROVE  IInv'
  BY <1>9, StopStep
<1>10. ASSUME NEW p \in Partitions, NEW r \in Replicas, Rebalance(p, r) PROVE IInv'
  BY <1>10, RebalanceStep
<1>11. ASSUME NEW p \in Partitions, CommitRead(p) PROVE IInv'
  <2>1. /\ stored' = [stored EXCEPT ![p] = read[p]]
        /\ UNCHANGED <<topic, read, owner, moves, seen, sending, now, notified, silent, unheard, excused>>
    BY <1>11 DEF CommitRead, outcomes
  <2>2. now' \in now..MaxTime
    BY <2>1, AlertPathAssumption DEF IInv, PathTypeOK
  <2>3. /\ stored' \in [Partitions -> Nat \cup {Nil}]
        /\ \A q \in Partitions : stored'[q] # Nil => stored'[q] <= Len(topic[q])
    BY <2>1 DEF IInv, PathTypeOK
  <2> QED BY <2>1, <2>2, <2>3, OtherStep
<1>12. CASE Tick
  <2>1. /\ now < MaxTime /\ now' = now + 1
        /\ UNCHANGED <<topic, read, stored, owner, moves, seen, sending, notified, silent, unheard, excused>>
    BY <1>12 DEF Tick, group, outcomes
  <2>2. now' \in now..MaxTime
    BY <2>1, AlertPathAssumption DEF IInv, PathTypeOK
  <2> QED BY <2>1, <2>2, OtherStep DEF IInv, PathTypeOK
<1>13. CASE UNCHANGED pathvars
  <2>1. UNCHANGED <<topic, read, stored, owner, moves, seen, sending, now, notified, silent, unheard, excused>>
    BY <1>13 DEF pathvars, group, outcomes
  <2>2. now' \in now..MaxTime
    BY <2>1, AlertPathAssumption DEF IInv, PathTypeOK
  <2> QED BY <2>1, <2>2, OtherStep DEF IInv, PathTypeOK
<1> QED BY <1>1, <1>2, <1>3, <1>4, <1>5, <1>6, <1>7, <1>8, <1>9, <1>10, <1>11, <1>12, <1>13
     DEF PathNext, Handle

\* The topic, the consumer group, every replica's memory and the sends under way keep
\* their types.
THEOREM TypeCorrect == PathSpec => []PathTypeOK
<1>1. IInv => PathTypeOK
  BY DEF IInv
<1> QED BY <1>1, IInvInit, IInvStep, PTL DEF PathSpec

\* An alert behind the position has been notified of under its key or is a loss of one of
\* the four kinds that Accounted names: deduplication, the marking that precedes
\* the sends, lagging commits and rebalances lose none in any other way.
THEOREM HandledNotified == PathSpec => []HandledIsNotified
<1>1. IInv => HandledIsNotified
  BY DEF IInv, HandledIsNotified
<1> QED BY <1>1, IInvInit, IInvStep, PTL DEF PathSpec

\* A suppression follows, by less than Ttl, a notification of the key by whichever replica,
\* or an alert the same process let through in vain.
THEOREM SuppressionIsRecent == PathSpec => SuppressedIsRecent
<1> DEFINE A(p) == LET k == Message(p).key IN Recent(notified[k]) \/ Recent(silent[owner[p]][k])
<1>1. IInv /\ [PathNext]_pathvars => [\A p \in Partitions : HandleSuppressed(p) => A(p)]_pathvars
  <2> SUFFICES ASSUME IInv, NEW p \in Partitions, HandleSuppressed(p) PROVE A(p)
    OBVIOUS
  <2> DEFINE k == Message(p).key  r == owner[p]  last == seen[r][k]
  <2>1. Take(p) /\ k \in Keys /\ r \in Replicas
    BY NextMessage DEF HandleSuppressed, IInv
  <2>2. last # Nil /\ now - last < Ttl
    BY DEF HandleSuppressed, SeenWithinTtl
  <2>3. ~\E j \in sending : j.by = r
    BY <2>1 DEF Take, Busy
  <2>4. \/ notified[k] # Nil /\ last <= notified[k]
        \/ silent[r][k] # Nil /\ last <= silent[r][k]
    BY <2>1, <2>2, <2>3 DEF IInv, SeenIsBacked, Backed
  <2>5. /\ last \in Times /\ notified[k] \in Times /\ silent[r][k] \in Times
        /\ now \in Nat /\ Ttl \in Nat
    BY <2>1, TimesOrder, AlertPathAssumption DEF IInv, PathTypeOK, Times
  <2>6. Recent(notified[k]) \/ Recent(silent[r][k])
    BY <2>2, <2>4, <2>5, TimesOrder DEF IInv, Recent
  <2> QED BY <2>6
<1> QED BY <1>1, IInvInit, IInvStep, PTL DEF PathSpec, SuppressedIsRecent
=============================================================================
