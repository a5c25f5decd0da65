-------------------------- MODULE FeaturePipeline ---------------------------
(***************************************************************************)
(* The streaming service: replicas of streaming/main.py read raw           *)
(* transactions and, for each, record it in the sliding windows of         *)
(* streaming/windowed_aggregates.py, read the aggregates back, update the  *)
(* user's online features (feature_store/online_store.py) and publish the  *)
(* enriched event.  Windows and features live in Redis, and both pipelines *)
(* are sent with transaction=False: their commands execute one by one,     *)
(* between those of other replicas, and a broken connection leaves a       *)
(* prefix executed.  All keys are per user, so one user is modelled; its   *)
(* messages share a partition, which one replica owns at a time although a *)
(* former owner may still be busy with a message.                          *)
(***************************************************************************)
EXTENDS Integers, Sequences, FiniteSets

CONSTANTS
  Replicas,
  Txns,      \* transactions of the user: records with fields ts, amount and shop
  Windows,   \* lengths of the sliding windows, the longest last
  MaxMsgs,   \* bound: messages in the partition
  MaxMoves,  \* bound: rebalances and crashes
  None

ASSUME FeaturePipelineAssumption ==
  /\ \A t \in Txns : t.ts \in Nat /\ t.amount \in Nat
  /\ Windows \in Seq(Nat \ {0}) /\ Len(Windows) > 0
  /\ MaxMsgs \in Nat /\ MaxMoves \in Nat /\ None \notin Txns

VARIABLES
  log,       \* the partition of raw_txn; None is a message that does not validate
  committed, \* offset committed by the consumer group
  position,  \* offset of the last message its owner took
  owner,     \* the replica the partition is assigned to
  moves,     \* rebalances and crashes so far
  job,       \* per replica: where its handler is, with which transaction
  wnd,       \* per window: its sorted set, entries carrying their score
  velocity,  \* user:<id>:velocity, members "ts:amount"
  stats,     \* user:<id>:stats: sum, count, max, and the values avg was computed from
  last_txn_ts,
  enriched,  \* the enriched topic
  \* history, read by the properties only
  recorded,  \* per window: transactions added to it
  stored,    \* transactions whose feature update was executed completely
  replays,   \* messages handed out again after a rebalance or a crash
  torn       \* an update was cut off between its increments and its average

kafka    == <<log, committed, position, owner, moves>>
features == <<velocity, stats, last_txn_ts>>
history  == <<recorded, stored, replays, torn>>
vars     == <<kafka, job, wnd, features, enriched, history>>

Phases == {"idle", "record", "aggregate", "velocity", "amounts", "count", "average", "meta", "send"}
Idle   == [phase |-> "idle", window |-> 1, txn |-> None, aggs |-> <<>>]

Init ==
  /\ log = <<>> /\ committed = 0 /\ position = 0 /\ owner \in Replicas /\ moves = 0
  /\ job = [r \in Replicas |-> Idle]
  /\ wnd = [w \in DOMAIN Windows |-> {}] /\ velocity = {} /\ last_txn_ts = None
  /\ stats = [sum |-> 0, count |-> 0, max |-> 0, avg |-> <<0, 0>>]
  /\ enriched = {}
  /\ recorded = wnd /\ stored = {} /\ replays = 0 /\ torn = FALSE
-----------------------------------------------------------------------------
(***************************************************************************)
(* Kafka                                                                   *)
(***************************************************************************)
\* Transactions come in any order of their timestamps.
Produce(m) ==
  /\ Len(log) < MaxMsgs
  /\ m \in Txns => \A i \in DOMAIN log : log[i] # m
  /\ log' = Append(log, m)
  /\ UNCHANGED <<committed, position, owner, moves, job, wnd, features, enriched, history>>

AutoCommit ==
  /\ committed # position
  /\ committed' = position
  /\ UNCHANGED <<log, position, owner, moves, job, wnd, features, enriched, history>>

\* The owner to come resumes at the committed offset.
ResumeAtCommit ==
  /\ moves < MaxMoves
  /\ moves' = moves + 1
  /\ position' = committed'
  /\ replays' = replays + (position - committed')

\* A rebalance may or may not commit first; the former owner goes on with its message.
Rebalance(r) ==
  /\ owner # r
  /\ owner' = r
  /\ committed' \in {committed, position}
  /\ ResumeAtCommit
  /\ UNCHANGED <<log, job, wnd, features, enriched, recorded, stored, torn>>

Tearing(r) == job[r].phase \in {"count", "average"}
Crash(r) ==
  /\ job[r] # Idle
  /\ job' = [job EXCEPT ![r] = Idle]
  /\ torn' = (torn \/ Tearing(r))
  /\ UNCHANGED committed
  /\ IF owner = r THEN ResumeAtCommit
     ELSE moves < MaxMoves /\ moves' = moves + 1 /\ UNCHANGED <<position, replays>>
  /\ UNCHANGED <<log, owner, wnd, features, enriched, recorded, stored>>
-----------------------------------------------------------------------------
(***************************************************************************)
(* StreamingPipeline._handle_message, one Redis command at a time.  An     *)
(* exception at any await is counted and logged, and the loop goes on.     *)
(***************************************************************************)
Take(r) ==
  LET m == log[position + 1] IN
  /\ owner = r /\ job[r] = Idle /\ position < Len(log)
  /\ position' = position + 1
  /\ job' = IF m = None THEN job ELSE [job EXCEPT ![r].phase = "record", ![r].txn = m]
  /\ UNCHANGED <<log, committed, owner, moves, wnd, features, enriched, history>>

At(r, phase) == job[r].phase = phase
GoTo(r, phase) == job' = [job EXCEPT ![r].phase = phase]

\* ZADD, then ZREMRANGEBYSCORE -inf (ts - window): the boundary goes as well.
Pruned_Early(s, bound) == {m \in s : m.ts > bound + 1}
Pruned(s, bound) == {m \in s : m.ts > bound}
Entry(t) == [ts |-> t.ts, amount |-> t.amount, shop |-> t.shop]

RecordWindow(r) ==
  LET t == job[r].txn  w == job[r].window IN
  /\ At(r, "record")
  /\ wnd' = [wnd EXCEPT ![w] = Pruned(@ \cup {Entry(t)}, t.ts - Windows[w])]
  /\ recorded' = [recorded EXCEPT ![w] = @ \cup {t}]
  /\ job' = [job EXCEPT ![r] = IF w < Len(Windows) THEN [@ EXCEPT !.window = w + 1]
                                                   ELSE [@ EXCEPT !.phase = "aggregate"]]
  /\ UNCHANGED <<kafka, features, enriched, stored, replays, torn>>

\* ZRANGEBYSCORE (ts - window) ts, of every window
InRange(s, from, to) == {m \in s : from <= m.ts /\ m.ts <= to}
Aggregate(r) ==
  LET t == job[r].txn IN
  /\ At(r, "aggregate")
  /\ job' = [job EXCEPT
       ![r].aggs = [w \in DOMAIN Windows |-> InRange(wnd[w], t.ts - Windows[w], t.ts)],
       ![r].phase = "velocity"]
  /\ UNCHANGED <<kafka, wnd, features, enriched, history>>

\* update_features.  Geo, device and merchant keys behave like the ones modelled.
UpdateVelocity(r) ==
  LET t == job[r].txn IN
  /\ At(r, "velocity") /\ GoTo(r, "amounts")
  /\ velocity' = Pruned(velocity \cup {[ts |-> t.ts, amount |-> t.amount]},
                        t.ts - Windows[Len(Windows)])
  /\ UNCHANGED <<kafka, wnd, stats, last_txn_ts, enriched, history>>

AddAmounts(r) ==
  /\ At(r, "amounts") /\ GoTo(r, "count")
  /\ stats' = [stats EXCEPT !.sum = @ + job[r].txn.amount]
  /\ UNCHANGED <<kafka, wnd, velocity, last_txn_ts, enriched, history>>

AddCount(r) ==
  /\ At(r, "count") /\ GoTo(r, "average")
  /\ stats' = [stats EXCEPT !.count = @ + 1]
  /\ UNCHANGED <<kafka, wnd, velocity, last_txn_ts, enriched, history>>

\* The Lua script reads sum and count as they are by then.
AfterScript_AtMaxOnly(s, a) ==
  IF a > s.max THEN [s EXCEPT !.max = a, !.avg = <<s.sum, s.count>>] ELSE s
AfterScript(s, a) ==
  [s EXCEPT !.max = IF a > @ THEN a ELSE @,
            !.avg = IF s.count > 0 THEN <<s.sum, s.count>> ELSE @]
UpdateAverage(r) ==
  /\ At(r, "average") /\ GoTo(r, "meta")
  /\ stats' = AfterScript(stats, job[r].txn.amount)
  /\ torn' = FALSE
  /\ UNCHANGED <<kafka, wnd, velocity, last_txn_ts, enriched, recorded, stored, replays>>

SetMeta(r) ==
  /\ At(r, "meta") /\ GoTo(r, "send")
  /\ last_txn_ts' = job[r].txn.ts
  /\ stored' = stored \cup {job[r].txn}
  /\ UNCHANGED <<kafka, wnd, velocity, stats, enriched, recorded, replays, torn>>

\* The send is acknowledged, or runs out of retries with or without a record written.
Send(r) ==
  /\ At(r, "send")
  /\ enriched' \in {enriched, enriched \cup {[txn |-> job[r].txn, aggs |-> job[r].aggs]}}
  /\ job' = [job EXCEPT ![r] = Idle]
  /\ UNCHANGED <<kafka, wnd, features, history>>

\* A Redis command or the connection fails.
AfterError_Continues(r) == IF At(r, "average") THEN [job EXCEPT ![r].phase = "send"]
                                               ELSE [job EXCEPT ![r] = Idle]
AfterError_Retries(r) == [job EXCEPT ![r] = [Idle EXCEPT !.phase = "record", !.txn = job[r].txn]]
AfterError(r) == [job EXCEPT ![r] = Idle]
Fail(r) ==
  /\ job[r] # Idle /\ ~At(r, "send")
  /\ job' = AfterError(r)
  /\ torn' = (torn \/ Tearing(r))
  /\ UNCHANGED <<kafka, wnd, features, enriched, recorded, stored, replays>>

Handle(r) ==
  \/ Take(r) \/ RecordWindow(r) \/ Aggregate(r)
  \/ UpdateVelocity(r) \/ AddAmounts(r) \/ AddCount(r) \/ UpdateAverage(r) \/ SetMeta(r)
  \/ Send(r) \/ Fail(r)

Next ==
  \/ \E m \in Txns \cup {None} : Produce(m)
  \/ AutoCommit
  \/ \E r \in Replicas : Rebalance(r) \/ Crash(r) \/ Handle(r)

Spec == Init /\ [][Next]_vars
-----------------------------------------------------------------------------
Entries == {Entry(t) : t \in Txns}
TypeOK ==
  /\ log \in Seq(Txns \cup {None}) /\ Len(log) <= MaxMsgs
  /\ committed \in 0..Len(log) /\ position \in 0..Len(log)
  /\ owner \in Replicas /\ moves \in 0..MaxMoves /\ replays \in Nat /\ torn \in BOOLEAN
  /\ \A r \in Replicas :
       /\ job[r].phase \in Phases
       /\ job[r].txn \in Txns \cup {None} /\ job[r].window \in DOMAIN Windows
       /\ (job[r].phase = "idle") <=> (job[r].txn = None)
  /\ wnd \in [DOMAIN Windows -> SUBSET Entries]
  /\ stats.sum \in Nat /\ stats.count \in Nat /\ stats.max \in Nat
  /\ last_txn_ts \in {t.ts : t \in Txns} \cup {None}

\* What a handler reads back for its transaction is right: nothing outside the window,
\* nothing twice although messages are handled again, and, unless a newer transaction
\* has been recorded and pruned the window, every transaction recorded within it.
AggregatesExact ==
  [][\A r \in Replicas : Aggregate(r) =>
       \A w \in DOMAIN Windows :
         LET t == job[r].txn  from == t.ts - Windows[w]
             read == job'[r].aggs[w]
             within == {x \in recorded[w] : from < x.ts /\ x.ts <= t.ts}
             newest == \A x \in recorded[w] : x.ts <= t.ts
         IN  /\ read \subseteq {Entry(x) : x \in {y \in recorded[w] : from <= y.ts /\ y.ts <= t.ts}}
             /\ newest => {Entry(x) : x \in within} \subseteq read]_vars

\* The running count misses no stored transaction and counts one again only when its
\* message was handed out again, whatever was cut off or overlapped.  Every state is
\* well-formed (TypeOK).
CountBound ==
  TypeOK /\ Cardinality(stored) <= stats.count /\ stats.count <= Len(log) + replays

\* With no update between its increments and its average, the average is that of the
\* stored sum and count: overlapping updates of two replicas cannot leave a stale one.
AverageSettles ==
  (\A r \in Replicas : ~Tearing(r)) /\ ~torn => stats.avg = <<stats.sum, stats.count>>

\* Whoever reads an enriched event finds its transaction in the stored features.
EnrichedBacked == \A e \in enriched : e.txn \in stored
=============================================================================
