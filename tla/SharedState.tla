---------------------------- MODULE SharedState -----------------------------
(***************************************************************************)
(* What the services promise that keep state shared by threads, tasks or   *)
(* replicas.  They are independent of each other; each is an instance with *)
(* its constants.                                                          *)
(***************************************************************************)
EXTENDS Integers, Sequences, FiniteSets

CONSTANTS
  Threads,                                                   \* of the threaded services
  Aggregates, Writers, Times, QueryLimit, MaxVersion,        \* EventStore
  Alerts, CustomRules, Readings, MaxStall, MaxRouted,        \* AlertRouting
  Laddered, MaxCalls,                                        \* Escalation
  BufferMax, MaxMsgs, MaxRuns, MaxFaults,                    \* Archiver
  Cases, Analysts, Limits, Expertise, MaxUnusual,            \* CaseWorkflow
  Txns, Analyses,                                            \* GraphCache
  Replicas, Tasks, Home, L1Ttl, L2Ttl, Stall, MaxSets, MaxTime, \* FeatureCache
  Clients, Limit, Window, Draws, Delay, MaxChecks, MaxClock, \* SlidingWindow
  Hubs, Conns, Events, HubOf, MaxErrors,                     \* WebSocketHub
  Deployers, CanarySamples, MaxStarts, MaxScored,            \* Canary
  Control, Treatments, MinSamples, MaxOutcomes               \* Experiments

VARIABLES
  version, events, archive, writers, subscribed, inbox, phase, replay, handled, order,
    missed, forgotten, rebuilt,
  rules, seen, now, routing, routed,
  index, step, era, fired,
  produced, committed, position, consumer, proc, starts, buffer, flusher, thread, delta, files,
    deltaLog, failures, skipped, excused, dropped, entered,
  cases, limit, roof, manual, reopened,
  graph, cache, dirty, task, added, raced,
  clock, l1, l2, op, sets, gone,
  time, members, expires, asking, admitted, newest,
  client, conns, hub, channel, call, cast, relayed, received, faults,
  shadow, canary, samples, tester, launches, scored, straddled, mixed,
  status, winner, metrics, results, recorder, late

E == INSTANCE EventStore
R == INSTANCE AlertRouting WITH Times <- Readings, task <- routing
X == INSTANCE Escalation WITH Alerts <- Laddered
A == INSTANCE Archiver
C == INSTANCE CaseWorkflow
G == INSTANCE GraphCache WITH Callers <- Analyses
F == INSTANCE FeatureCache WITH now <- clock
S == INSTANCE SlidingWindow WITH
       Callers <- Clients, Stall <- Delay, MaxTime <- MaxClock, now <- time
H == INSTANCE WebSocketHub WITH
       Replicas <- Hubs, Home <- HubOf, MaxFaults <- MaxErrors, order <- relayed
N == INSTANCE Canary WITH
       Threads <- Deployers, MinSamples <- CanarySamples, task <- tester, starts <- launches
M == INSTANCE Experiments WITH task <- recorder

\* The clock goes from 0 up; a rule has one of the five priorities.
RouteSettings ==
  /\ Readings \subseteq Nat /\ MaxStall \in Nat
  /\ \A r \in CustomRules : r.prio \in 1..5 /\ r.window \in Int
\* Timestamps are numbers.
EventSettings == Times \subseteq Int
LadderThreads == IsFiniteSet(Threads)
CaseSettings == IsFiniteSet(Cases) /\ C!Nobody \notin Analysts /\ Limits \subseteq Nat
CacheSettings ==
  /\ Home \in [Tasks -> Replicas] /\ L1Ttl \in Nat /\ L2Ttl \in Nat /\ Stall \in Nat
  /\ MaxSets \in Nat
WindowSettings == Limit \in Nat /\ Window \in Nat /\ Delay \in Nat
HubSettings ==
  /\ HubOf \in [Conns \cup Events -> Hubs] /\ Hubs \cap Events = {} /\ "none" \notin Events
CanarySettings == /\ IsFiniteSet(Deployers) /\ MaxStarts \in Nat /\ MaxScored \in Nat
                  /\ CanarySamples \in Nat \ {0}
ASSUME SharedStateAssumption ==
  /\ RouteSettings /\ LadderThreads /\ CaseSettings /\ CacheSettings /\ WindowSettings
  /\ HubSettings /\ CanarySettings /\ EventSettings
-----------------------------------------------------------------------------
\* event store: the projection follows the log, the log is append-only
ProjectionFollows == E!ProjectionFollows
LogSpec == E!LogSpec

\* alert routing: suppression is exact; racing escalations repeat and skip few levels
SuppressionExact == R!SuppressionExact
LadderFollowed == X!LadderFollowed

\* archiver: what the group has passed is in the bucket but for named losses
NothingElseLost == A!NothingElseLost

\* case workflow: only manual and reopened cases go over the limit
LoadBound == C!LoadBound

\* graph analysis: a cached PageRank misses only what raced with a computation
PagerankCovers == G!PagerankCovers

\* feature cache: what Redis has let go of is served for a short while only
ServedBriefly == F!ServedBriefly

\* rate limiter: a window holds max_requests, twice that where calls were overtaken
WindowBound == S!WindowBound

\* dashboard sockets: a client gets a segment of the channel, without gaps or repeats
NoGaps == H!NoGaps

\* canary: measured by its own scorer; experiment: concluded once it is conclusive
MeasuredByItsOwn == N!MeasuredByItsOwn
ConcludedInTime == M!ConcludedInTime
=============================================================================
