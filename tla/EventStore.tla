----------------------------- MODULE EventStore -----------------------------
(***************************************************************************)
(* scoring/services/event_store.py: EventStore and an EventProjection that *)
(* follows it.  Everything runs in one event loop; appends and compaction  *)
(* hold the store's lock, fan-out follows the release without an await,    *)
(* and the dispatch tasks it creates run in the order of their creation.   *)
(* So an append with its fan-out is one action, a dispatch is one action,  *)
(* and rebuild is split where it lets go of the lock.                      *)
(* An event is its aggregate, version and timestamp.                       *)
(***************************************************************************)
EXTENDS Integers, Sequences, FiniteSets, SequencesExt

CONSTANTS
  Aggregates, Writers,
  Times,       \* timestamps, set by whoever creates the event
  QueryLimit,  \* limit of get_aggregate_events (10,000)
  MaxVersion   \* bound: events per aggregate

VARIABLES
  version,     \* _aggregate_versions
  events,      \* _events
  archive,     \* _archive
  writers,     \* per writer the aggregate and version it last read, or None
  subscribed,  \* the projection is registered
  inbox,       \* dispatch tasks that have not run
  phase,       \* rebuild(): "idle", "cleared", "replaying"
  replay,      \* events rebuild() still has to apply
  handled,     \* history: events the projection went through since it was cleared
  order,       \* history: every event in the order of insertion
  missed,      \* history: events stored without a dispatch and not replayed since
  forgotten,   \* history: events archived before the latest replay
  rebuilt      \* history: rebuild() was called

svars == <<version, events, archive, order>>
pvars == <<inbox, phase, replay, handled, missed, forgotten, rebuilt>>
esvars == <<svars, writers, subscribed, pvars>>

None == [none |-> TRUE]
EventOf(a, v, t) == [agg |-> a, ver |-> v, ts |-> t]

\* the elements of s that are in S, in their order
Kept(s, S) ==
  LET f[n \in 0..Len(s)] ==
        IF n = 0 THEN <<>> ELSE IF s[n] \in S THEN Append(f[n - 1], s[n]) ELSE f[n - 1]
  IN  f[Len(s)]

Init ==
  /\ version = [a \in Aggregates |-> 0] /\ events = <<>> /\ archive = <<>> /\ order = <<>>
  /\ writers = [w \in Writers |-> None]
  /\ subscribed = FALSE /\ inbox = <<>> /\ phase = "idle" /\ replay = <<>>
  /\ handled = <<>> /\ missed = {} /\ forgotten = {} /\ rebuilt = FALSE
-----------------------------------------------------------------------------
(***************************************************************************)
(* Appending                                                               *)
(***************************************************************************)
\* get_aggregate_events, live events only, and of these the first QueryLimit
Visible(a) == LET s == Kept(events, {e \in Range(events) : e.agg = a})
              IN  SubSeq(s, 1, IF Len(s) < QueryLimit THEN Len(s) ELSE QueryLimit)
Versions(s) == {s[i].ver : i \in DOMAIN s}
LatestVersion(a) == Max({0} \cup Versions(Visible(a)))

\* A writer learns the version from get_latest_event.
ReadLatest(w, a) ==
  /\ writers' = [writers EXCEPT ![w] =
       [agg |-> a, base |-> LatestVersion(a)]]
  /\ UNCHANGED <<svars, subscribed, pvars>>

\* the events of a batch that pass the version check, up to the first that does not
Accepted(batch) == batch[1].ver = version[batch[1].agg] + 1
Prefix(batch) ==
  IF ~Accepted(batch) THEN <<>>
  ELSE IF Len(batch) = 2 /\ batch[2].ver # batch[1].ver + 1 THEN <<batch[1]>> ELSE batch

\* _fanout, after the lock is released
FanOut(stored, reached) ==
  IF subscribed /\ reached
  THEN inbox' = inbox \o stored /\ UNCHANGED missed
  ELSE missed' = missed \cup Range(stored) /\ UNCHANGED inbox

\* append or append_batch.  A conflict in the batch, or the cancellation of the
\* caller at the await after a store, leaves what is stored without fan-out.
Store(w, batch, n, cancelled) ==
  LET stored == SubSeq(batch, 1, n)
      a == batch[1].agg
  IN  /\ n <= Len(Prefix(batch)) /\ (n < Len(Prefix(batch)) => cancelled)
      /\ version' = [version EXCEPT ![a] = stored[n].ver]
      /\ events' = events \o stored /\ order' = order \o stored
      /\ FanOut(stored, stored = batch /\ ~cancelled)
      /\ writers' = [writers EXCEPT ![w] = None]
      /\ UNCHANGED <<archive, subscribed, phase, replay, handled, forgotten, rebuilt>>

Conflict(w, batch) ==
  /\ Prefix(batch) = <<>>
  /\ writers' = [writers EXCEPT ![w] = None]
  /\ UNCHANGED <<svars, subscribed, pvars>>

\* The second event of a batch is numbered by the caller: rightly, or as the first.
Batches(w) ==
  LET first(t) == EventOf(writers[w].agg, writers[w].base + 1, t)
  IN  {<<first(t)>> : t \in Times} \cup
      {<<first(t), [first(t) EXCEPT !.ver = v]>> :
         t \in Times, v \in {writers[w].base + 1, writers[w].base + 2}}

AppendBatch(w) ==
  /\ writers[w] # None
  /\ \E batch \in Batches(w) :
       /\ batch[Len(batch)].ver <= MaxVersion
       /\ \/ \E n \in DOMAIN batch, cancelled \in BOOLEAN : Store(w, batch, n, cancelled)
          \/ Conflict(w, batch)

\* compact()
IsLive_UpTo(e, t) == TRUE
IsLive(e, t) == e.ts >= t
Compact(t) ==
  /\ \E i \in DOMAIN events : events[i].ts < t
  /\ archive' = archive \o Kept(events, {e \in Range(events) : e.ts < t})
  /\ events' = Kept(events, {e \in Range(events) : IsLive(e, t)})
  /\ UNCHANGED <<version, order, writers, subscribed, pvars>>
-----------------------------------------------------------------------------
(***************************************************************************)
(* The projection                                                          *)
(***************************************************************************)
Register == /\ ~subscribed /\ subscribed' = TRUE
            /\ UNCHANGED <<svars, writers, pvars>>
\* Dispatch tasks created before still run.
Unsubscribe == /\ subscribed /\ subscribed' = FALSE
               /\ UNCHANGED <<svars, writers, pvars>>

\* apply(): whether project() raises or not, the event is done with.
Next1_Newest(s) == s[Len(s)]
Next1(s) == s[1]
Apply ==
  /\ inbox # <<>>
  /\ handled' = Append(handled, Next1(inbox)) /\ inbox' = Tail(inbox)
  /\ UNCHANGED <<svars, writers, subscribed, phase, replay, missed, forgotten, rebuilt>>

RebuildBegin ==
  /\ phase = "idle" /\ phase' = "cleared" /\ handled' = <<>> /\ rebuilt' = TRUE
  /\ UNCHANGED <<svars, writers, subscribed, inbox, replay, missed, forgotten>>

Replayed == events
ReplayBegin ==
  /\ phase = "cleared" /\ phase' = "replaying" /\ replay' = Replayed
  /\ missed' = missed \ Range(events) /\ forgotten' = Range(archive)
  /\ UNCHANGED <<svars, writers, subscribed, inbox, handled, rebuilt>>

ReplayOne ==
  /\ replay # <<>> /\ handled' = Append(handled, replay[1]) /\ replay' = Tail(replay)
  /\ UNCHANGED <<svars, writers, subscribed, inbox, phase, missed, forgotten, rebuilt>>

RebuildEnd ==
  /\ phase = "replaying" /\ replay = <<>> /\ phase' = "idle"
  /\ UNCHANGED <<svars, writers, subscribed, inbox, replay, handled, missed, forgotten, rebuilt>>

Next ==
  \/ \E w \in Writers : AppendBatch(w) \/ \E a \in Aggregates : ReadLatest(w, a)
  \/ \E t \in Times : Compact(t)
  \/ Register \/ Unsubscribe \/ Apply
  \/ RebuildBegin \/ ReplayBegin \/ ReplayOne \/ RebuildEnd

Spec == Init /\ [][Next]_esvars
-----------------------------------------------------------------------------
Stored == Range(order)

\* Until rebuild() is called the projection goes through exactly the events that were
\* dispatched, once each and in the order of the store, whatever is pending.  After a
\* rebuild no event is left out, except those compaction had moved to the archive,
\* which replay() does not read, and those never dispatched.
ProjectionFollows ==
  /\ ~rebuilt => handled \o inbox = Kept(order, Stored \ missed)
  /\ phase # "cleared" =>
       Stored \subseteq Range(handled) \cup Range(inbox) \cup Range(replay) \cup missed \cup forgotten

\* The store implements one append-only log per aggregate: whatever writers race and
\* compaction moves, each version is kept once and none is taken away or replaced.
Copies(a, v) == LET s == Kept(archive \o events, [agg : {a}, ver : {v}, ts : Times])
                IN   [i \in DOMAIN s |-> s[i].ts]
Entries == [a \in Aggregates |-> [v \in 1..version[a] |-> Copies(a, v)]]
Log == INSTANCE EventLog WITH Payloads <- Times, log <- Entries
LogSpec == Log!Spec
=============================================================================
