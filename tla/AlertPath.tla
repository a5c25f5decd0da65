----------------------------- MODULE AlertPath ------------------------------
(***************************************************************************)
(* From the scoring service to a notified analyst: scoring/consumer.py     *)
(* publishes to the "alerts" topic and the replicas of the alert service   *)
(* share its partitions, each with a deduplicator in its own memory.       *)
(* ScoringConsumer and AlertService model the two ends in detail; here a   *)
(* publication is one step, and a handler run two or more: the key is      *)
(* marked as seen, and only then do the notifiers send.  What matters is   *)
(* what crosses the topic: which fields, and to which replica.  Names that *)
(* ScoringConsumer also has are prefixed, so that a run can extend both.   *)
(***************************************************************************)
EXTENDS Integers, Sequences

CONSTANTS
  Keys,        \* dedup keys: a user and an alert type
  Partitions, Replicas,
  Kinds,       \* schemas published to the topic: "AlertEvent", "ScoredTransaction"
  Pushers,     \* the enabled notifiers that send at once: "telegram", "webhook"
  Ttl,
  MaxAlerts,   \* bound: messages published
  MaxTime,     \* bound: clock
  MaxMoves,    \* bound: restarts and rebalances
  Nil

ASSUME AlertPathAssumption ==
  /\ Kinds \subseteq {"AlertEvent", "ScoredTransaction"}
  /\ Pushers \subseteq {"telegram", "webhook"}
  /\ Ttl \in Nat \ {0} /\ MaxAlerts \in Nat /\ MaxTime \in Nat /\ MaxMoves \in Nat
  /\ Nil \notin Int

VARIABLES
  topic,     \* per partition: the messages published to it
  read,      \* per partition: its position, how many of them its owner was handed out
  stored,    \* per partition: the offset the consumer group has committed, or Nil
  owner,     \* the replica each partition is assigned to
  moves,     \* restarts and rebalances so far
  seen,      \* AlertDeduplicator._seen of each replica
  sending,   \* the handlers that wait for their notifiers, one per replica at most
  now,
  \* history, read by the properties only
  published, \* messages published so far
  notified,  \* when a notification about a key was last received
  silent,    \* per replica: when it marked a key of which its send then reached nobody
  unheard,   \* keys of which some send reached nobody
  excused    \* messages cut off by a crash or never given to the handler, and not since

group    == <<read, stored, owner, moves>>
outcomes == <<notified, silent, unheard>>
pathvars == <<topic, group, seen, sending, now, published, outcomes, excused>>

\* Required fields of the two schemas, and what each message carries.
RequiredOfScored ==
  {"transaction_id", "user_id", "amount", "transaction_type", "timestamp", "fraud_score",
   "model_version", "scoring_latency_ms"}
FieldsOf(kind) ==
  IF kind = "AlertEvent"
  THEN {"alert_id", "transaction_id", "user_id", "fraud_score", "severity", "status", "reason",
        "amount", "currency", "created_at", "updated_at", "assigned_to", "notes"}
  ELSE RequiredOfScored \cup {"currency", "scored_at", "features", "is_flagged", "flag_reason"}
Validates(m) == RequiredOfScored \subseteq FieldsOf(m.kind)

\* Scoring publishes an alert for a flagged transaction only.
Messages == {m \in [key : Keys, kind : Kinds, flagged : BOOLEAN] : m.kind = "AlertEvent" => m.flagged}

Fresh == [k \in Keys |-> Nil]

PathInit ==
  /\ topic = [p \in Partitions |-> <<>>] /\ read = [p \in Partitions |-> 0]
  /\ stored = [p \in Partitions |-> Nil] /\ owner \in [Partitions -> Replicas] /\ moves = 0
  /\ seen = [r \in Replicas |-> Fresh] /\ sending = {} /\ now = 0 /\ published = 0
  /\ notified = Fresh /\ silent = seen /\ unheard = {} /\ excused = {}

\* The message key is the transaction id, so any partition can get any user's alert.
Publish(m, p) ==
  /\ published < MaxAlerts
  /\ topic' = [topic EXCEPT ![p] = Append(@, m)]
  /\ published' = published + 1
  /\ UNCHANGED <<group, seen, sending, now, outcomes, excused>>

Tick ==
  /\ now < MaxTime
  /\ now' = now + 1
  /\ UNCHANGED <<topic, group, seen, sending, published, outcomes, excused>>
-----------------------------------------------------------------------------
(***************************************************************************)
(* The handler: AlertService._handle_message.                              *)
(***************************************************************************)
SeenWithinTtl_Closed(last, t) == last # Nil /\ t - last <= Ttl
SeenWithinTtl_NoneIsZero(last, t) == t - (IF last = Nil THEN 0 ELSE last) < Ttl
SeenWithinTtl(last, t) == last # Nil /\ t - last < Ttl

MarkSeen(r, k) == [seen EXCEPT ![r][k] = now]

Busy(r) == \E j \in sending : j.by = r
KeyOf(j) == topic[j.part][j.offset].key

\* The message the owner of p reads next.
Message(p) == topic[p][read[p] + 1]
Take(p) ==
  /\ read[p] < Len(topic[p]) /\ ~Busy(owner[p])
  /\ read' = [read EXCEPT ![p] = @ + 1]
  /\ excused' = excused \ {<<p, read[p] + 1>>}
  /\ UNCHANGED <<topic, stored, owner, moves, now, published, outcomes>>

\* A validation error is logged and the handler returns; Retried reads the message again.
HandleInvalid_Retried(p) ==
  read[p] < Len(topic[p]) /\ ~Validates(Message(p)) /\ UNCHANGED pathvars
HandleInvalid(p) ==
  /\ Take(p) /\ ~Validates(Message(p))
  /\ UNCHANGED <<seen, sending>>

HandleUnflagged(p) ==
  /\ Take(p) /\ Validates(Message(p)) /\ ~Message(p).flagged
  /\ UNCHANGED <<seen, sending>>

Alerting(m) == Validates(m) /\ m.flagged

HandleSuppressed(p) ==
  /\ Take(p) /\ Alerting(Message(p))
  /\ SeenWithinTtl(seen[owner[p]][Message(p).key], now)
  /\ UNCHANGED <<seen, sending>>

\* is_duplicate marks the key; the notifiers are asked after that.
HandleAlert(p) ==
  LET r == owner[p]  k == Message(p).key IN
  /\ Take(p) /\ Alerting(Message(p))
  /\ ~SeenWithinTtl(seen[r][k], now)
  /\ seen' = MarkSeen(r, k)
  /\ sending' = sending \cup {[by |-> r, part |-> p, offset |-> read[p] + 1, told |-> FALSE]}

\* A notifier's request is received.
Deliver(j) ==
  /\ j \in sending /\ Pushers # {}
  /\ sending' = (sending \ {j}) \cup {[j EXCEPT !.told = TRUE]}
  /\ notified' = [notified EXCEPT ![KeyOf(j)] = now]
  /\ UNCHANGED <<topic, group, seen, now, published, silent, unheard, excused>>

\* gather ends whatever the results were.  Nobody was told when every attempt failed, when
\* the alert is LOW and telegram the only notifier, or when no notifier is enabled.
EndSend(j) ==
  /\ j \in sending
  /\ sending' = sending \ {j}
  /\ IF j.told THEN UNCHANGED <<silent, unheard>>
     ELSE /\ silent' = [silent EXCEPT ![j.by][KeyOf(j)] = seen[j.by][KeyOf(j)]]
          /\ unheard' = unheard \cup {KeyOf(j)}
  /\ UNCHANGED <<topic, group, seen, now, published, notified, excused>>
-----------------------------------------------------------------------------
(***************************************************************************)
(* The consumer group: auto-commit of the position, the process of a       *)
(* replica that ends and starts again, partitions that change hands.       *)
(***************************************************************************)
CommitRead(p) ==
  /\ stored[p] # read[p]
  /\ stored' = [stored EXCEPT ![p] = read[p]]
  /\ UNCHANGED <<topic, read, owner, moves, seen, sending, now, published, outcomes, excused>>

\* auto_offset_reset = "latest".
ResumeAt(offset, end) == IF offset = Nil THEN end ELSE offset

\* Messages the positions go past although no handler was given them.
PassedOver == UNION {{<<p, i>> : i \in read[p] + 1..read'[p]} : p \in Partitions}

Move == moves < MaxMoves /\ moves' = moves + 1

\* The new process of replica r: its memory is empty, it reads on from what is committed.
Reborn(r) ==
  /\ Move
  /\ read' = [p \in Partitions |->
       IF owner[p] = r THEN ResumeAt(stored'[p], Len(topic[p])) ELSE read[p]]
  /\ seen' = [seen EXCEPT ![r] = Fresh] /\ silent' = [silent EXCEPT ![r] = Fresh]
  /\ sending' = {j \in sending : j.by # r}
  /\ UNCHANGED <<topic, owner, now, published, notified, unheard>>

\* A crash cuts the handler off.
CrashReplica(r) ==
  /\ UNCHANGED stored /\ Reborn(r)
  /\ excused' = excused \cup PassedOver \cup {<<j.part, j.offset>> : j \in {i \in sending : i.by = r}}

\* A shutdown lets the handler finish and commits; the iterator may have handed out one
\* message of some partition (dropped) that consume() no longer gives to the handler.
StopReplica(r, dropped) ==
  /\ ~Busy(r)
  /\ \A p \in dropped : owner[p] = r /\ read[p] < Len(topic[p])
  /\ stored' = [p \in Partitions |->
       IF owner[p] # r THEN stored[p] ELSE IF p \in dropped THEN read[p] + 1 ELSE read[p]]
  /\ Reborn(r)
  /\ excused' = excused \cup PassedOver

\* The old owner commits before it gives p up, or was taken for dead; its handler goes on.
Rebalance(p, r) ==
  /\ owner[p] # r /\ owner' = [owner EXCEPT ![p] = r] /\ Move
  /\ \E offset \in {stored[p], read[p]} :
       /\ stored' = [stored EXCEPT ![p] = offset]
       /\ read' = [read EXCEPT ![p] = ResumeAt(offset, Len(topic[p]))]
  /\ excused' = excused \cup PassedOver
  /\ UNCHANGED <<topic, seen, sending, now, published, outcomes>>
-----------------------------------------------------------------------------
Handle(p) ==
  HandleInvalid(p) \/ HandleUnflagged(p) \/ HandleSuppressed(p) \/ HandleAlert(p)

PathNext ==
  \/ Tick
  \/ \E m \in Messages, p \in Partitions : Publish(m, p)
  \/ \E p \in Partitions : Handle(p) \/ CommitRead(p) \/ \E r \in Replicas : Rebalance(p, r)
  \/ \E j \in sending : Deliver(j) \/ EndSend(j)
  \/ \E r \in Replicas : CrashReplica(r) \/ \E dropped \in {{}} \cup {{p} : p \in Partitions} : StopReplica(r, dropped)

PathSpec == PathInit /\ [][PathNext]_pathvars

\* Each replica's consume loop runs, and the attempts of a send come to an end.
PathFairness ==
  /\ \A p \in Partitions : WF_pathvars(Handle(p))
  /\ WF_pathvars(\E j \in sending : EndSend(j))
PathFairSpec == PathSpec /\ PathFairness
-----------------------------------------------------------------------------
Jobs == [by : Replicas, part : Partitions, offset : Nat, told : BOOLEAN]
PathTypeOK ==
  /\ topic \in [Partitions -> Seq(Messages)] /\ owner \in [Partitions -> Replicas]
  /\ read \in [Partitions -> Nat] /\ \A p \in Partitions : read[p] <= Len(topic[p])
  /\ stored \in [Partitions -> Nat \cup {Nil}]
  /\ \A p \in Partitions : stored[p] # Nil => stored[p] <= Len(topic[p])
  /\ moves \in Nat /\ now \in 0..MaxTime
  /\ seen \in [Replicas -> [Keys -> 0..now \cup {Nil}]]
  /\ sending \subseteq Jobs /\ \A j \in sending : j.offset \in 1..Len(topic[j.part])
  /\ notified \in [Keys -> 0..now \cup {Nil}] /\ unheard \subseteq Keys
  /\ silent \in [Replicas -> [Keys -> 0..now \cup {Nil}]]

\* An alert is kept from the analysts as a duplicate only within Ttl of a notification of
\* its key, or of an alert that the same process let through and whose send has ended
\* without reaching anybody: the deduplicator marks a key before the notifiers are asked.
Recent(last) == last # Nil /\ now - last < Ttl
SuppressedIsRecent ==
  [][\A p \in Partitions : HandleSuppressed(p) =>
       LET k == Message(p).key IN Recent(notified[k]) \/ Recent(silent[owner[p]][k])]_pathvars

\* What a message behind the position can have come to: its key was notified of, or its
\* send is under way, or it is a loss of one of four kinds: a send for its key reached
\* nobody, its own was cut off by a crash, it was dropped by a shutdown, or jumped over.
InFlight == {<<j.part, j.offset>> : j \in sending}
Accounted(p, i) ==
  LET k == topic[p][i].key
  IN  notified[k] # Nil \/ k \in unheard \/ <<p, i>> \in InFlight \cup excused

\* No alert behind the position is lost in any other way, whatever deduplication,
\* auto-commit, restarts and rebalances do.
AlertsAccountedFor ==
  \A p \in Partitions : \A i \in 1..read[p] : Alerting(topic[p][i]) => Accounted(p, i)

\* Every state is well-formed besides (PathTypeOK).
HandledIsNotified == PathTypeOK /\ AlertsAccountedFor

\* Every message on the topic is handled: neither one that does not validate nor a send
\* that fails holds up the partition.
AllHandled == \A p \in Partitions :
  (read[p] < Len(topic[p])) ~> (read[p] = Len(topic[p]))
-----------------------------------------------------------------------------
\* alert_service/main.py: the service "consumes scored transactions, deduplicates
\* alerts, and routes notifications".  So what scoring published there and the service
\* handled has been notified of, but for the losses above.
AlertsAreNotified == \A p \in Partitions : \A i \in 1..read[p] : Accounted(p, i)
=============================================================================
