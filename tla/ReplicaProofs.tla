--------------------------- MODULE ReplicaProofs ----------------------------
(***************************************************************************)
(* Theorems about services whose replicas share their state through Redis, *)
(* Kafka or a bucket, for every set of callers and every setting: the      *)
(* breaker of the Redis pool, the feature cache, the rate limiter, the     *)
(* data lake archiver and the dashboard sockets.                           *)
(***************************************************************************)
EXTENDS RedisBreaker, SharedState, FiniteSetTheorems, SequenceTheorems, TLAPS

-----------------------------------------------------------------------------
(***************************************************************************)
(* The breaker of the Redis pool                                           *)
(***************************************************************************)
\* What the three invariants have in common is one inductive argument: the count
\* decides the state, and the clocks move together except at a failure.
IInv == TypeOK /\ CountTellsState /\ OpenAtLeastTimeout

LEMMA IInvInit == Init => IInv
  BY RedisBreakerAssumption DEF Init, IInv, TypeOK, CountTellsState, OpenAtLeastTimeout

LEMMA IInvStep == IInv /\ [Next]_vars => IInv'
<1> USE RedisBreakerAssumption
<1> SUFFICES ASSUME IInv, [Next]_vars PROVE IInv'
  OBVIOUS
<1> USE DEF IInv, TypeOK, CountTellsState, OpenAtLeastTimeout
<1>1. CASE Tick
  BY <1>1 DEF Tick
<1>2. ASSUME NEW c \in Callers, Admit(c) PROVE IInv'
  <2>1. CASE state # "open" /\ UNCHANGED <<state, success_count>>
    BY <1>2, <2>1 DEF Admit
  <2>2. CASE Due /\ state' = "half_open" /\ success_count' = 0
    BY <1>2, <2>2 DEF Admit, Due
  <2> QED BY <1>2, <2>1, <2>2 DEF Admit
<1>3. ASSUME NEW c \in Callers, SucceedHalfOpen(c) PROVE IInv'
  <2>1. running' \subseteq Callers
    BY <1>3 DEF SucceedHalfOpen, Done
  <2>2. CASE success_count + 1 >= SuccessThreshold
    BY <1>3, <2>1, <2>2 DEF SucceedHalfOpen, AfterClosing
  <2>3. CASE ~(success_count + 1 >= SuccessThreshold)
    BY <1>3, <2>1, <2>3 DEF SucceedHalfOpen
  <2> QED BY <2>2, <2>3
<1>4. ASSUME NEW c \in Callers, SucceedElse(c) PROVE IInv'
  BY <1>4 DEF SucceedElse, Done
<1>5. ASSUME NEW c \in Callers, FailCall(c) PROVE IInv'
  <2>1. running' \subseteq Callers /\ since_failure' = 0
    BY <1>5 DEF FailCall, Done, SinceFailure
  <2>2. failure_count' \in 0..FailureThreshold
    BY <1>5 DEF FailCall, CountFailure
  <2>3. CASE failure_count' >= FailureThreshold /\ state # "open"
    BY <1>5, <2>1, <2>2, <2>3 DEF FailCall
  <2>4. CASE ~(failure_count' >= FailureThreshold /\ state # "open")
    BY <1>5, <2>1, <2>2, <2>4 DEF FailCall, CountFailure
  <2> QED BY <2>3, <2>4
<1>6. ASSUME NEW c \in Callers, Abandon(c) PROVE IInv'
  BY <1>6 DEF Abandon, Done
<1>7. ASSUME NEW c \in Callers, Reject(c) PROVE IInv'
  BY <1>7 DEF Reject, vars
<1>8. CASE UNCHANGED vars
  BY <1>8 DEF vars
<1> QED BY <1>1, <1>2, <1>3, <1>4, <1>5, <1>6, <1>7, <1>8 DEF Next, Finish

\* The values keep their types, and HALF_OPEN its missing successes.
THEOREM TypeCorrect == Spec => []TypeOK
<1>1. IInv => TypeOK
  BY DEF IInv
<1> QED BY <1>1, IInvInit, IInvStep, PTL DEF Spec

\* _failure_count is at the threshold exactly while the circuit is not closed, so a
\* single failed command in HALF_OPEN reopens it.
THEOREM CountDecides == Spec => []CountTellsState
<1>1. IInv => CountTellsState
  BY DEF IInv
<1> QED BY <1>1, IInvInit, IInvStep, PTL DEF Spec

\* An open period lasts at least recovery_timeout.
THEOREM OpenTimeoutRespected == Spec => []OpenAtLeastTimeout
<1>1. IInv => OpenAtLeastTimeout
  BY DEF IInv
<1> QED BY <1>1, IInvInit, IInvStep, PTL DEF Spec
-----------------------------------------------------------------------------
\* The Redis breaker implements BreakerSpec: nothing is admitted while the gate is
\* open and not yet recovered, only failures open it, only half-open successes close it.
THEOREM Implements == Spec => AbstractSpec
<1> USE RedisBreakerAssumption
<1>1. Init => Abstract!Init
  BY DEF Init, Abstract!Init
<1>2. IInv /\ [Next]_vars => [Abstract!Next]_(Abstract!vars)
  <2> SUFFICES ASSUME IInv, [Next]_vars PROVE [Abstract!Next]_(Abstract!vars)
    OBVIOUS
  <2>1. Due => Abstract!Recovered
    BY DEF Due, Abstract!Recovered, IInv, OpenAtLeastTimeout, TypeOK
  <2>2. CASE Tick
    BY <2>2 DEF Tick, IInv, TypeOK, Abstract!Tick, Abstract!Next, Abstract!vars
  <2>3. ASSUME NEW c \in Callers, Admit(c) PROVE Abstract!Admit(c)
    BY <2>1, <2>3 DEF Admit, Abstract!Admit
  <2>4. ASSUME NEW c \in Callers, SucceedHalfOpen(c) \/ SucceedElse(c)
        PROVE  Abstract!Succeed(c)
    BY <2>4 DEF SucceedHalfOpen, SucceedElse, Done, Abstract!Succeed
  <2>5. ASSUME NEW c \in Callers, FailCall(c) PROVE Abstract!Fail(c)
    BY <2>5 DEF FailCall, Done, Abstract!Fail
  <2>6. ASSUME NEW c \in Callers, Abandon(c) PROVE Abstract!Abandon(c)
    BY <2>6 DEF Abandon, Done, Abstract!Abandon
  <2>7. ASSUME NEW c \in Callers, Reject(c) PROVE UNCHANGED Abstract!vars
    BY <2>7 DEF Reject, vars, Abstract!vars
  <2>8. CASE UNCHANGED vars
    BY <2>8 DEF vars, Abstract!vars
  <2> QED BY <2>2, <2>3, <2>4, <2>5, <2>6, <2>7, <2>8 DEF Next, Finish, Abstract!Next
<1> QED BY <1>1, <1>2, IInvInit, IInvStep, PTL DEF Spec, AbstractSpec, Abstract!Spec

-----------------------------------------------------------------------------
(***************************************************************************)
(* The feature cache                                                       *)
(***************************************************************************)
Values == 1..MaxSets
Steps == {"idle", "set", "get", "fill", "scan", "found", "delete"}
Entries == {F!None} \cup [val : Values, until : Int]

\* What an L1 holds was set, or seen in Redis, at most as long before its entry was written
\* as a call may take.
Fresh ==
  /\ clock \in Nat /\ sets \in Nat /\ l2 \in Entries /\ l1 \in [Replicas -> Entries]
  /\ op \in [Tasks -> [at : Steps, val : Nat, since : Nat]]
  /\ gone \in [Values -> Nat] /\ \A v \in Values : gone[v] <= clock
  /\ \A t \in Tasks : op[t].at # "idle" => op[t].since <= clock /\ clock <= op[t].since + Stall
  /\ \A t \in Tasks : op[t].at \in {"set", "fill"} => op[t].val \in Values
  /\ \A t \in Tasks : op[t].at = "fill" => op[t].since <= gone[op[t].val]
  /\ \A r \in Replicas : l1[r] # F!None => l1[r].until <= gone[l1[r].val] + Stall + L1Ttl

LEMMA FreshInit == ASSUME CacheSettings PROVE F!Init => Fresh
<1> SUFFICES ASSUME F!Init PROVE Fresh
  OBVIOUS
<1>1. F!Idle \in [at : Steps, val : Nat, since : Nat] /\ F!Idle.at = "idle" /\ F!None \in Entries
  BY DEF F!Idle, Steps, Entries
<1>2. gone \in [Values -> Nat] /\ \A v \in Values : gone[v] = 0
  BY DEF F!Init, Values
<1>3. \A t \in Tasks : op[t] = F!Idle
  BY DEF F!Init
<1>4. op \in [Tasks -> [at : Steps, val : Nat, since : Nat]]
  BY <1>1 DEF F!Init
<1>5. \A r \in Replicas : l1[r] = F!None
  BY DEF F!Init
<1>6. l1 \in [Replicas -> Entries] /\ l2 \in Entries /\ clock = 0 /\ sets = 0
  BY <1>1 DEF F!Init
<1> QED BY <1>1, <1>2, <1>3, <1>4, <1>5, <1>6 DEF Fresh

\* Every step but Tick leaves the clock alone; none takes back when a value was seen.
LEMMA FreshStep == ASSUME CacheSettings PROVE Fresh /\ [F!Next]_(F!fcvars) => Fresh'
<1> SUFFICES ASSUME Fresh, [F!Next]_(F!fcvars) PROVE Fresh'
  OBVIOUS
<1> DEFINE Call == [at : Steps, val : Nat, since : Nat]
           InTime(c) == c.at # "idle" => c.since <= clock /\ clock <= c.since + Stall
           Sound(c) == /\ c.at \in {"set", "fill"} => c.val \in Values
                       /\ c.at = "fill" => c.since <= gone[c.val]
           Short(e) == e # F!None => e.until <= gone[e.val] + Stall + L1Ttl
<1>0. /\ clock \in Nat /\ sets \in Nat /\ l2 \in Entries /\ l1 \in [Replicas -> Entries]
      /\ op \in [Tasks -> Call] /\ gone \in [Values -> Nat] /\ \A v \in Values : gone[v] <= clock
      /\ \A t \in Tasks : InTime(op[t]) /\ Sound(op[t])
      /\ \A r \in Replicas : Short(l1[r])
      /\ L1Ttl \in Nat /\ L2Ttl \in Nat /\ Stall \in Nat /\ MaxSets \in Nat
  BY DEF Fresh, CacheSettings
<1>A. ASSUME NEW t \in Tasks, NEW c \in Call, op' = [op EXCEPT ![t] = c] \/ op' = op,
             c.at # "idle" => c.since <= clock /\ clock <= c.since + Stall,
             c.at \in {"set", "fill"} => c.val \in Values,
             c.at = "fill" => c.since <= gone'[c.val],
             gone' \in [Values -> Nat], \A v \in Values : gone[v] <= gone'[v] /\ gone'[v] <= clock,
             clock' = clock, sets' \in Nat, l2' \in Entries, l1' \in [Replicas -> Entries],
             \A r \in Replicas : l1'[r] = l1[r] \/ Short(l1[r])'
      PROVE  Fresh'
  <2>1. op' \in [Tasks -> Call] /\ \A d \in Tasks : op'[d] = op[d] \/ op'[d] = c
    BY <1>0, <1>A
  <2>2. \A d \in Tasks : Sound(op[d])' /\ InTime(op[d])'
    <3> SUFFICES ASSUME NEW d \in Tasks PROVE Sound(op[d])' /\ InTime(op[d])'
      OBVIOUS
    <3>1. CASE op'[d] = c
      BY <1>A, <3>1
    <3>2. CASE op'[d] = op[d]
      <4>1. op[d].at = "fill" => gone[op[d].val] <= gone'[op[d].val]
        BY <1>0, <1>A
      <4>2. op[d].since \in Nat /\ (op[d].at = "fill" => gone[op[d].val] \in Nat /\ gone'[op[d].val] \in Nat)
        BY <1>0, <1>A
      <4> QED BY <1>0, <1>A, <3>2, <4>1, <4>2
    <3> QED BY <2>1, <3>1, <3>2
  <2>3. \A r \in Replicas : Short(l1[r])'
    <3> SUFFICES ASSUME NEW r \in Replicas, l1'[r] = l1[r], l1[r] # F!None
                 PROVE  l1[r].until <= gone'[l1[r].val] + Stall + L1Ttl
      BY <1>A
    <3>1. l1[r] \in [val : Values, until : Int]
      BY <1>0 DEF Entries
    <3>2. /\ gone[l1[r].val] <= gone'[l1[r].val] /\ gone[l1[r].val] \in Nat /\ gone'[l1[r].val] \in Nat
          /\ l1[r].until \in Int /\ l1[r].until <= gone[l1[r].val] + Stall + L1Ttl
      BY <1>0, <1>A, <3>1
    <3> QED BY <1>0, <3>2
  <2> QED BY <1>0, <1>A, <2>1, <2>2, <2>3 DEF Fresh
<1>I. F!Idle \in Call /\ F!Idle.at = "idle" /\ F!None \in Entries
  BY DEF F!Idle, Steps, Entries
<1>S. F!Seen => /\ gone' \in [Values -> Nat]
                /\ \A v \in Values : gone[v] <= gone'[v] /\ gone'[v] <= clock
                /\ l2 # F!None => gone'[l2.val] = clock
  <2>1. l2 # F!None => l2.val \in Values
    BY <1>0 DEF Entries
  <2> QED BY <1>0, <2>1 DEF F!Seen
<1>G. gone' = gone => /\ gone' \in [Values -> Nat]
                      /\ \A v \in Values : gone[v] <= gone'[v] /\ gone'[v] <= clock
  BY <1>0
<1>N. ASSUME NEW c \in Call, c.since = clock PROVE c.since <= clock /\ clock <= c.since + Stall
  BY <1>0, <1>N
<1>1. ASSUME NEW t \in Tasks, F!Set(t) PROVE Fresh'
  <2> DEFINE c == F!InOp("set", sets + 1)
             e == F!Entry(sets + 1, L1Ttl)
  <2>1. /\ sets' = sets + 1 /\ gone' = [gone EXCEPT ![sets + 1] = clock] /\ l1' = [l1 EXCEPT ![Home[t]] = e]
        /\ op' = [op EXCEPT ![t] = c] /\ UNCHANGED <<clock, l2>> /\ sets + 1 \in Values
    BY <1>0, <1>1 DEF F!Set, Values
  <2>2. c \in Call /\ c.at = "set" /\ c.val = sets + 1 /\ c.since = clock
    BY <1>0 DEF F!InOp, Steps
  <2>3. e \in Entries /\ e.val = sets + 1 /\ e.until = clock + L1Ttl
    BY <1>0, <2>1 DEF F!Entry, Entries
  <2> HIDE DEF c, e, Call
  <2>4. gone' \in [Values -> Nat] /\ \A v \in Values : gone[v] <= gone'[v] /\ gone'[v] <= clock
    BY <1>0, <2>1
  <2>5. gone'[sets + 1] = clock
    BY <1>0, <2>1
  <2>6. l1' \in [Replicas -> Entries] /\ \A r \in Replicas : l1'[r] = l1[r] \/ l1'[r] = e
    BY <1>0, <2>1, <2>3
  <2>7. e.until <= gone'[e.val] + Stall + L1Ttl
    BY <1>0, <2>3, <2>5
  <2>8. \A r \in Replicas : l1'[r] = l1[r] \/ Short(l1[r])'
    BY <2>6, <2>7
  <2>9. sets' \in Nat /\ c.at # "idle" /\ c.at # "fill" /\ c.val \in Values
    BY <1>0, <2>1, <2>2
  <2>10. c.since <= clock /\ clock <= c.since + Stall
    BY <1>N, <2>2
  <2> HIDE DEF Short
  <2> QED BY <1>0, <1>A, <2>1, <2>2, <2>4, <2>6, <2>8, <2>9, <2>10
<1>2. ASSUME NEW t \in Tasks, NEW ok \in BOOLEAN, F!SetL2(t, ok) PROVE Fresh'
  <2>1. /\ op' = [op EXCEPT ![t] = F!Idle] /\ UNCHANGED <<clock, l1, sets>> /\ op[t].val \in Values
        /\ gone' = [v \in Values |-> IF v = op[t].val \/ (l2 # F!None /\ v = l2.val) THEN clock ELSE gone[v]]
        /\ l2' = IF ok THEN F!Entry(op[t].val, L2Ttl) ELSE l2
    BY <1>0, <1>2 DEF F!SetL2, F!At, F!Ends, Values
  <2>2. l2' \in Entries
    BY <1>0, <2>1 DEF F!Entry, Entries
  <2>3. gone' \in [Values -> Nat] /\ \A v \in Values : gone[v] <= gone'[v] /\ gone'[v] <= clock
    BY <1>0, <2>1
  <2> HIDE DEF Call
  <2> QED BY <1>0, <1>A, <1>I, <2>1, <2>2, <2>3
<1>3. ASSUME NEW t \in Tasks, F!Get(t) PROVE Fresh'
  <2> DEFINE c == F!InOp("get", 0)
  <2>1. /\ l1' = [l1 EXCEPT ![Home[t]] = F!None] /\ op' = [op EXCEPT ![t] = c]
        /\ UNCHANGED <<clock, l2, sets, gone>>
    BY <1>3 DEF F!Get
  <2>2. c \in Call /\ c.at = "get" /\ c.since = clock
    BY <1>0 DEF F!InOp, Steps
  <2> HIDE DEF c, Call
  <2>3. l1' \in [Replicas -> Entries] /\ \A r \in Replicas : l1'[r] = l1[r] \/ l1'[r] = F!None
    BY <1>0, <1>I, <2>1
  <2> QED BY <1>0, <1>A, <1>G, <1>N, <2>1, <2>2, <2>3
<1>4. ASSUME NEW t \in Tasks, NEW ok \in BOOLEAN, F!GetL2(t, ok) PROVE Fresh'
  <2>1. op[t] \in Call /\ op[t].at = "get" /\ UNCHANGED <<clock, l1, l2, sets>> /\ F!Seen
    BY <1>0, <1>4 DEF F!GetL2, F!At
  <2>2. CASE op' = [op EXCEPT ![t] = F!Idle]
    <3> HIDE DEF Call
    <3> QED BY <1>0, <1>A, <1>I, <1>S, <2>1, <2>2
  <2>3. CASE F!Live(l2) /\ op' = [op EXCEPT ![t].at = "fill", ![t].val = l2.val]
    <3> DEFINE c == [op[t] EXCEPT !.at = "fill", !.val = l2.val]
    <3>1. l2 # F!None /\ l2.val \in Values /\ l2.val \in Nat
      BY <1>0, <2>3 DEF F!Live, Entries, Values
    <3>2. c \in Call /\ c.at = "fill" /\ c.val = l2.val /\ c.since = op[t].since /\ op[t].since \in Nat
      BY <2>1, <3>1 DEF Steps
    <3>3. op' = [op EXCEPT ![t] = c]
      BY <1>0, <2>3
    <3> HIDE DEF c, Call
    <3>4. c.since <= clock /\ clock <= c.since + Stall /\ gone'[c.val] = clock
      BY <1>0, <1>S, <2>1, <3>1, <3>2
    <3> QED BY <1>0, <1>A, <1>S, <2>1, <3>1, <3>2, <3>3, <3>4
  <2> QED BY <1>4, <2>2, <2>3 DEF F!GetL2, F!Goes, F!Ends
<1>5. ASSUME NEW t \in Tasks, F!Fill(t) PROVE Fresh'
  <2> DEFINE e == F!Entry(op[t].val, L1Ttl)
  <2>1. /\ op' = [op EXCEPT ![t] = F!Idle] /\ l1' = [l1 EXCEPT ![Home[t]] = e] /\ op[t] \in Call
        /\ op[t].at = "fill" /\ UNCHANGED <<clock, l2, sets, gone>>
    BY <1>0, <1>5 DEF F!Fill, F!At, F!Ends, F!Filled
  <2>2. op[t].val \in Values /\ op[t].since <= gone[op[t].val] /\ clock <= op[t].since + Stall
    BY <1>0, <2>1
  <2>3. e \in Entries /\ e.val = op[t].val /\ e.until = clock + L1Ttl
    BY <1>0, <2>2 DEF F!Entry, Entries
  <2>4. op[t].since \in Nat /\ gone[op[t].val] \in Nat
    BY <1>0, <2>1, <2>2
  <2> HIDE DEF e, Call
  <2>5. e.until <= gone'[e.val] + Stall + L1Ttl
    BY <1>0, <2>1, <2>2, <2>3, <2>4
  <2>6. l1' \in [Replicas -> Entries] /\ \A r \in Replicas : l1'[r] = l1[r] \/ l1'[r] = e
    BY <1>0, <2>1, <2>3
  <2>7. \A r \in Replicas : l1'[r] = l1[r] \/ Short(l1[r])'
    BY <2>5, <2>6
  <2> QED BY <1>0, <1>A, <1>G, <1>N, <1>I, <2>1, <2>6, <2>7
<1>6. ASSUME NEW t \in Tasks, F!Invalidate(t) PROVE Fresh'
  <2> DEFINE c == F!InOp("scan", 0)
  <2>1. op' = [op EXCEPT ![t] = c] /\ UNCHANGED <<clock, l1, l2, sets, gone>>
    BY <1>6 DEF F!Invalidate
  <2>2. c \in Call /\ c.at = "scan" /\ c.since = clock
    BY <1>0 DEF F!InOp, Steps
  <2> HIDE DEF c, Call
  <2> QED BY <1>0, <1>A, <1>G, <1>N, <2>1, <2>2
<1>7. ASSUME NEW t \in Tasks, NEW p \in {"found", "delete"}, op[t].at \in {"scan", "found"},
             F!Goes(t, p, 0), UNCHANGED <<clock, l2, sets, gone>>,
             l1' = l1 \/ l1' = [l1 EXCEPT ![Home[t]] = F!None]
      PROVE  Fresh'
  <2> DEFINE c == [op[t] EXCEPT !.at = p, !.val = 0]
  <2>1. op[t] \in Call /\ op' = [op EXCEPT ![t] = c]
    BY <1>0, <1>7 DEF F!Goes
  <2>2. c \in Call /\ c.at = p /\ c.since = op[t].since
    BY <2>1 DEF Steps
  <2> HIDE DEF c, Call
  <2>3. c.since <= clock /\ clock <= c.since + Stall
    BY <1>0, <1>7, <2>2
  <2>4. l1' \in [Replicas -> Entries] /\ \A r \in Replicas : l1'[r] = l1[r] \/ l1'[r] = F!None
    BY <1>0, <1>I, <1>7
  <2> QED BY <1>0, <1>A, <1>G, <1>N, <1>7, <2>1, <2>2, <2>3, <2>4
<1>8. ASSUME NEW t \in Tasks, NEW ok \in BOOLEAN, F!Scan(t, ok) PROVE Fresh'
  <2>1. CASE F!Ends(t)
    <3>1. op' = [op EXCEPT ![t] = F!Idle] /\ UNCHANGED <<clock, l1, l2, sets, gone>>
      BY <1>8, <2>1 DEF F!Ends, F!Scan
    <3> HIDE DEF Call
    <3> QED BY <1>0, <1>A, <1>G, <1>N, <1>I, <3>1
  <2> QED BY <1>7, <1>8, <2>1 DEF F!Scan, F!At
<1>9. ASSUME NEW t \in Tasks, F!DropL1(t) PROVE Fresh'
  BY <1>7, <1>9 DEF F!DropL1, F!At
<1>10. ASSUME NEW t \in Tasks, NEW ok \in BOOLEAN, F!DeleteL2(t, ok) PROVE Fresh'
  <2>1. /\ op' = [op EXCEPT ![t] = F!Idle] /\ UNCHANGED <<clock, l1, sets>> /\ F!Seen
        /\ l2' = IF ok THEN F!None ELSE l2
    BY <1>10 DEF F!DeleteL2, F!Ends
  <2>2. l2' \in Entries
    BY <1>0, <1>I, <2>1
  <2> HIDE DEF Call
  <2> QED BY <1>0, <1>A, <1>I, <1>S, <2>1, <2>2
<1>11. ASSUME NEW r \in Replicas, F!Evict(r) PROVE Fresh'
  <2>1. l1' = [l1 EXCEPT ![r] = F!None] /\ UNCHANGED <<clock, l2, op, sets, gone>>
    BY <1>11 DEF F!Evict
  <2>2. l1' \in [Replicas -> Entries] /\ \A q \in Replicas : l1'[q] = l1[q] \/ l1'[q] = F!None
    BY <1>0, <1>I, <2>1
  <2> QED BY <1>0, <2>1, <2>2 DEF Fresh
<1>12. CASE F!Tick
  <2>1. /\ clock' = clock + 1 /\ \A t \in Tasks : op[t].at # "idle" => clock - op[t].since < Stall
        /\ UNCHANGED <<l1, op, sets>> /\ (F!Seen \/ gone' = gone) /\ (l2' = l2 \/ l2' = F!None)
    BY <1>12 DEF F!Tick, F!At
  <2>2. gone' \in [Values -> Nat] /\ \A v \in Values : gone[v] <= gone'[v] /\ gone'[v] <= clock
    BY <1>0, <1>S, <2>1
  <2>3. clock' \in Nat /\ l2' \in Entries /\ \A v \in Values : gone'[v] <= clock'
    BY <1>0, <1>I, <2>1, <2>2
  <2>4. \A t \in Tasks : InTime(op[t])'
    <3> SUFFICES ASSUME NEW t \in Tasks, op[t].at # "idle"
                 PROVE  op[t].since <= clock' /\ clock' <= op[t].since + Stall
      BY <2>1
    <3>1. op[t].since \in Nat /\ op[t].since <= clock /\ clock - op[t].since < Stall
      BY <1>0, <2>1
    <3> QED BY <1>0, <2>1, <3>1
  <2>5. \A t \in Tasks : Sound(op[t])'
    <3> SUFFICES ASSUME NEW t \in Tasks PROVE Sound(op[t])'
      OBVIOUS
    <3>1. op[t].at = "fill" => /\ gone[op[t].val] <= gone'[op[t].val] /\ op[t].since <= gone[op[t].val]
                               /\ gone[op[t].val] \in Nat /\ gone'[op[t].val] \in Nat /\ op[t].since \in Nat
      BY <1>0, <2>2
    <3> QED BY <1>0, <2>1, <3>1
  <2>6. \A r \in Replicas : Short(l1[r])'
    <3> SUFFICES ASSUME NEW r \in Replicas, l1[r] # F!None
                 PROVE  l1[r].until <= gone'[l1[r].val] + Stall + L1Ttl
      BY <2>1
    <3>1. l1[r] \in [val : Values, until : Int]
      BY <1>0 DEF Entries
    <3>2. /\ gone[l1[r].val] <= gone'[l1[r].val] /\ gone[l1[r].val] \in Nat /\ gone'[l1[r].val] \in Nat
          /\ l1[r].until \in Int /\ l1[r].until <= gone[l1[r].val] + Stall + L1Ttl
      BY <1>0, <2>2, <3>1
    <3> QED BY <1>0, <3>2
  <2> QED BY <1>0, <2>1, <2>2, <2>3, <2>4, <2>5, <2>6 DEF Fresh
<1>13. CASE UNCHANGED F!fcvars
  BY <1>0, <1>13 DEF F!fcvars, Fresh
<1> QED BY <1>1, <1>2, <1>3, <1>4, <1>5, <1>6, <1>8, <1>9, <1>10, <1>11, <1>12, <1>13 DEF F!Next

\* No replica serves a value from its L1 for longer than l1_ttl, and the time of a read that
\* was under way, after Redis has let go of it.
THEOREM CacheServedBriefly == F!Spec => []ServedBriefly
<1>1. F!Init => Fresh
  BY FreshInit, SharedStateAssumption
<1>2. Fresh /\ [F!Next]_(F!fcvars) => Fresh'
  BY FreshStep, SharedStateAssumption
<1>3. Fresh => ServedBriefly
  <2> SUFFICES ASSUME Fresh, NEW r \in Replicas, l1[r] # F!None, clock <= l1[r].until
               PROVE  clock <= gone[l1[r].val] + Stall + L1Ttl
    BY DEF ServedBriefly, F!ServedBriefly, F!Live
  <2>1. l1[r] \in [val : Values, until : Int] /\ l1[r].until <= gone[l1[r].val] + Stall + L1Ttl
    BY DEF Fresh, Entries
  <2>2. clock \in Nat /\ gone[l1[r].val] \in Nat /\ l1[r].until \in Int /\ Stall \in Nat /\ L1Ttl \in Nat
    BY <2>1, SharedStateAssumption DEF Fresh, CacheSettings
  <2> QED BY <2>1, <2>2
<1> QED BY <1>1, <1>2, <1>3, PTL DEF F!Spec

-----------------------------------------------------------------------------
(***************************************************************************)
(* The rate limiter                                                        *)
(***************************************************************************)
Asked == [at : Nat, draw : Draws]
Admitted == {[at |-> admitted[k].at, draw |-> admitted[k].draw] : k \in DOMAIN admitted}
Burst(q) == {m \in Admitted : q < m.at /\ m.at <= q + Delay}
Prompt == 2 * Delay <= Window
Bounded(cut, w) ==
  /\ ~cut => Cardinality(w) <= Limit
  /\ cut /\ Prompt => Cardinality(w) <= 2 * Limit

\* An admitted request is in the set, or out of the window of the newest time; what was
\* admitted within the time a request may take to arrive was once in the set together.
Windowed ==
  /\ time \in Nat /\ expires \in Int /\ asking \in [Clients -> {S!None} \cup Nat]
  /\ newest \in Int /\ newest <= time
  /\ members \subseteq Asked /\ IsFiniteSet(members) /\ Cardinality(members) <= Limit
  /\ admitted \in Seq([at : Nat, draw : Draws, late : BOOLEAN])
  /\ \A m \in members : m.at <= time /\ m.at + Window <= expires
  /\ \A c \in Clients : asking[c] # S!None => asking[c] <= time /\ time <= asking[c] + Delay
  /\ \A m \in Admitted : m \in members \/ m.at <= newest - Window
  /\ Prompt => \A q \in Int : IsFiniteSet(Burst(q)) /\ Cardinality(Burst(q)) <= Limit
  /\ \A i \in DOMAIN admitted : Bounded(admitted[i].late, S!InWindow(i))

LEMMA WindowedInit == ASSUME WindowSettings PROVE S!Init => Windowed
<1> SUFFICES ASSUME S!Init PROVE Windowed
  OBVIOUS
<1>1. /\ time = 0 /\ members = {} /\ expires = 0 /\ asking = [c \in Clients |-> S!None]
      /\ admitted = << >> /\ newest = -1
  BY DEF S!Init, S!None
<1>2. DOMAIN admitted = {} /\ Admitted = {}
  BY <1>1 DEF Admitted
<1>3. \A q : Burst(q) = {}
  BY <1>2 DEF Burst
<1>4. IsFiniteSet({}) /\ Cardinality({}) = 0
  BY FS_EmptySet
<1>5. admitted \in Seq([at : Nat, draw : Draws, late : BOOLEAN]) /\ 0 <= Limit
  BY <1>1 DEF WindowSettings
<1>6. \A q : IsFiniteSet(Burst(q)) /\ Cardinality(Burst(q)) <= Limit
  BY <1>3, <1>4, <1>5
<1>7. \A i \in DOMAIN admitted : Bounded(admitted[i].late, S!InWindow(i))
  BY <1>2
<1>8. /\ time \in Nat /\ expires \in Int /\ newest \in Int /\ newest <= time
      /\ asking \in [Clients -> {S!None} \cup Nat]
      /\ \A c \in Clients : asking[c] = S!None
  BY <1>1, SMT DEF S!Init
<1>9. members \subseteq Asked /\ IsFiniteSet(members) /\ Cardinality(members) <= Limit /\ members = {}
  BY <1>1, <1>4, <1>5
<1> QED BY <1>2, <1>5, <1>6, <1>7, <1>8, <1>9 DEF Windowed

LEMMA AdmittedAreAsked ==
  ASSUME admitted \in Seq([at : Nat, draw : Draws, late : BOOLEAN]) PROVE Admitted \subseteq Asked
<1> SUFFICES ASSUME NEW k \in DOMAIN admitted
             PROVE  [at |-> admitted[k].at, draw |-> admitted[k].draw] \in Asked
  BY DEF Admitted
<1> DEFINE Requests == [at : Nat, draw : Draws, late : BOOLEAN]
<1>2. admitted \in Seq(Requests)
  OBVIOUS
<1> HIDE DEF Requests
<1>3. admitted[k] \in Requests
  BY <1>2
<1>1. admitted[k] \in [at : Nat, draw : Draws, late : BOOLEAN]
  BY <1>3 DEF Requests
<1> QED BY <1>1 DEF Asked

\* What an admission does to the history.
LEMMA Appended ==
  ASSUME NEW q \in [at : Nat, draw : Draws, late : BOOLEAN],
         admitted \in Seq([at : Nat, draw : Draws, late : BOOLEAN]), admitted' = Append(admitted, q)
  PROVE  /\ admitted' \in Seq([at : Nat, draw : Draws, late : BOOLEAN])
         /\ Admitted' = Admitted \cup {[at |-> q.at, draw |-> q.draw]}
         /\ DOMAIN admitted' = DOMAIN admitted \cup {Len(admitted) + 1} /\ admitted'[Len(admitted) + 1] = q
         /\ \A i \in DOMAIN admitted : admitted'[i] = admitted[i] /\ S!InWindow(i)' = S!InWindow(i)
         /\ \A n \in Nat : n = Len(admitted) + 1 =>
              \A m \in S!InWindow(n)' : m \in Admitted' /\ q.at - Window < m.at /\ m.at <= q.at
<1>1. /\ admitted' \in Seq([at : Nat, draw : Draws, late : BOOLEAN])
      /\ DOMAIN admitted = 1..Len(admitted) /\ Len(admitted) \in Nat
      /\ DOMAIN admitted' = 1..(Len(admitted) + 1)
      /\ \A i \in 1..Len(admitted) : admitted'[i] = admitted[i]
      /\ admitted'[Len(admitted) + 1] = q
  OBVIOUS
<1>2. DOMAIN admitted' = DOMAIN admitted \cup {Len(admitted) + 1}
  BY <1>1
<1>3. Admitted' = Admitted \cup {[at |-> q.at, draw |-> q.draw]}
  BY <1>1, <1>2 DEF Admitted
<1>4. ASSUME NEW i \in DOMAIN admitted PROVE S!InWindow(i)' = S!InWindow(i)
  <2>1. \A j \in 1..i : admitted'[j] = admitted[j]
    BY <1>1
  <2>2. admitted'[i] = admitted[i]
    BY <1>1
  <2> QED BY <2>1, <2>2 DEF S!InWindow
<1>5. ASSUME NEW n \in Nat, n = Len(admitted) + 1, NEW m \in S!InWindow(n)'
      PROVE  m \in Admitted' /\ q.at - Window < m.at /\ m.at <= q.at
  <2>1. PICK j \in 1..n : /\ m = [at |-> admitted'[j].at, draw |-> admitted'[j].draw]
                         /\ admitted'[j].at > admitted'[n].at - Window /\ admitted'[j].at <= admitted'[n].at
    BY <1>5 DEF S!InWindow
  <2>2. j \in 1..(Len(admitted) + 1) /\ j \in DOMAIN admitted' /\ admitted'[n] = q /\ m.at = admitted'[j].at
    BY <1>1, <1>5, <2>1
  <2>4. admitted'[j] \in [at : Nat, draw : Draws, late : BOOLEAN]
    <3> DEFINE Requests == [at : Nat, draw : Draws, late : BOOLEAN]
    <3>1. admitted' \in Seq(Requests) /\ j \in DOMAIN admitted'
      BY <1>1, <2>2
    <3> HIDE DEF Requests
    <3>2. admitted'[j] \in Requests
      BY <3>1
    <3> QED BY <3>2 DEF Requests
  <2>5. admitted'[j].at \in Nat /\ q.at \in Nat
    BY <2>4
  <2>3. m \in Admitted'
    BY <2>1, <2>2 DEF Admitted
  <2> QED BY <2>1, <2>2, <2>3, <2>5
<1> QED BY <1>1, <1>2, <1>3, <1>4, <1>5

LEMMA UnionBound ==
  ASSUME NEW a, NEW b, IsFiniteSet(a), IsFiniteSet(b)
  PROVE  /\ IsFiniteSet(a \cup b) /\ Cardinality(a \cup b) \in Nat
         /\ Cardinality(a \cup b) <= Cardinality(a) + Cardinality(b)
<1>1. IsFiniteSet(a \cup b) /\ IsFiniteSet(a \cap b)
  BY FS_Union, FS_Subset
<1>2. Cardinality(a \cup b) = Cardinality(a) + Cardinality(b) - Cardinality(a \cap b)
  BY FS_Union
<1> QED BY <1>1, <1>2, FS_CardinalityType

LEMMA Beyond ==
  ASSUME NEW w \in Int, NEW d \in Nat, NEW q \in Int, NEW u \in Nat, q < u, w - d <= q
  PROVE  ~(u <= w - d)
  OBVIOUS

LEMMA Shifted ==
  ASSUME NEW w \in Int, NEW d \in Nat, NEW e \in Nat, NEW u \in Nat, NEW q \in Int, w <= u + e, q = u - d
  PROVE  w - d <= q + e
  OBVIOUS

LEMMA WindowedStep == ASSUME WindowSettings PROVE Windowed /\ [S!Next]_(S!swvars) => Windowed'
<1> SUFFICES ASSUME Windowed, [S!Next]_(S!swvars) PROVE Windowed'
  OBVIOUS
<1> DEFINE Requests == [at : Nat, draw : Draws, late : BOOLEAN]
<1>0. /\ time \in Nat /\ expires \in Int /\ asking \in [Clients -> {S!None} \cup Nat]
      /\ newest \in Int /\ newest <= time
      /\ members \subseteq Asked /\ IsFiniteSet(members) /\ Cardinality(members) <= Limit
      /\ admitted \in Seq(Requests)
      /\ \A m \in members : m.at <= time /\ m.at + Window <= expires
      /\ \A c \in Clients : asking[c] # S!None => asking[c] <= time /\ time <= asking[c] + Delay
      /\ \A m \in Admitted : m \in members \/ m.at <= newest - Window
      /\ Prompt => \A q \in Int : IsFiniteSet(Burst(q)) /\ Cardinality(Burst(q)) <= Limit
      /\ \A i \in DOMAIN admitted : Bounded(admitted[i].late, S!InWindow(i))
  BY DEF Windowed
<1>W. Limit \in Nat /\ Window \in Nat /\ Delay \in Nat /\ (Prompt <=> 2 * Delay <= Window)
  BY DEF WindowSettings, Prompt
<1>N. S!None \notin Nat
  BY DEF S!None
<1>H. admitted' = admitted =>
        /\ Admitted' = Admitted /\ \A q : Burst(q)' = Burst(q) /\ \A i : S!InWindow(i)' = S!InWindow(i)
  BY DEF Admitted, Burst, S!InWindow
<1>1. ASSUME NEW c \in Clients, NEW at \in {S!None, time}, asking' = [asking EXCEPT ![c] = at],
             UNCHANGED <<time, members, expires, admitted, newest>>
      PROVE  Windowed'
  <2>1. asking' \in [Clients -> {S!None} \cup Nat] /\ \A d \in Clients : asking'[d] = asking[d] \/ asking'[d] = at
    BY <1>0, <1>1
  <2>2. \A d \in Clients : asking'[d] # S!None => asking'[d] <= time /\ time <= asking'[d] + Delay
    BY <1>0, <1>1, <1>W, <2>1
  <2> QED BY <1>0, <1>1, <1>H, <2>1, <2>2 DEF Windowed
<1>2. ASSUME NEW c \in Clients, NEW d \in Draws, S!Script(c, d) PROVE Windowed'
  <2> DEFINE at == asking[c]
             kept == S!Kept(members, at)
             m0 == [at |-> at, draw |-> d]
  <2>1. /\ at \in Nat /\ at <= time /\ time <= at + Delay /\ asking' = [asking EXCEPT ![c] = S!None] /\ time' = time
        /\ newest' = IF at > newest THEN at ELSE newest
    BY <1>0, <1>2 DEF S!Script
  <2>2. kept \subseteq members /\ \A m \in members : m \in kept <=> m.at > at - Window
    BY DEF S!Kept
  <2>3. \/ members' = kept /\ UNCHANGED <<expires, admitted>>
        \/ /\ Cardinality(kept) < Limit /\ members' = kept \cup {m0} /\ expires' = time + Window
           /\ admitted' = Append(admitted, [at |-> at, draw |-> d, late |-> at < newest])
    <3>1. \A set : S!Cardinality(set) = Cardinality(set)
      BY DEF S!Cardinality, Cardinality
    <3> QED BY <1>2, <3>1 DEF S!Script, S!HasRoom
  <2>4. IsFiniteSet(kept) /\ Cardinality(kept) <= Cardinality(members) /\ Cardinality(kept) \in Nat /\ Cardinality(members) \in Nat
    BY <1>0, <2>2, FS_Subset, FS_CardinalityType
  <2>5. m0 \in Asked /\ m0.at = at
    BY <2>1 DEF Asked
  <2>T. at \in Nat
    BY <2>1
  <2> HIDE DEF at, kept, m0
  <2>6. newest' \in Int /\ newest' <= time /\ newest <= newest' /\ at <= newest' /\ newest' <= at + Delay
    BY <1>0, <1>W, <2>1
  <2>V. newest' \in Int /\ newest' <= at + Delay
    BY <2>6
  <2>7. asking' \in [Clients -> {S!None} \cup Nat]
        /\ \A e \in Clients : asking'[e] # S!None => asking'[e] <= time' /\ time' <= asking'[e] + Delay
    BY <1>0, <2>1
  <2>8. \A m \in members : m \in members' \/ m.at <= newest' - Window
    <3> SUFFICES ASSUME NEW m \in members, m \notin kept PROVE m.at <= newest' - Window
      BY <2>3
    <3> QED BY <1>0, <1>W, <2>1, <2>2, <2>6 DEF Asked
  <2>9. CASE members' = kept /\ UNCHANGED <<expires, admitted>>
    <3>1. members' \subseteq Asked /\ IsFiniteSet(members') /\ Cardinality(members') <= Limit
      BY <1>0, <1>W, <2>2, <2>4, <2>9
    <3>2. \A m \in members' : m.at <= time' /\ m.at + Window <= expires'
      BY <1>0, <2>1, <2>2, <2>9
    <3>3. \A m \in Admitted' : m \in members' \/ m.at <= newest' - Window
      <4>1. \A m \in Admitted : m.at \in Nat
        BY <1>0, AdmittedAreAsked DEF Asked
      <4> QED BY <1>0, <1>H, <1>W, <2>6, <2>8, <2>9, <4>1
    <3> QED BY <1>0, <1>H, <2>1, <2>6, <2>7, <2>9, <3>1, <3>2, <3>3 DEF Windowed
  <2>10. CASE /\ Cardinality(kept) < Limit /\ members' = kept \cup {m0} /\ expires' = time + Window
              /\ admitted' = Append(admitted, [at |-> at, draw |-> d, late |-> at < newest])
    <3> DEFINE q0 == [at |-> at, draw |-> d, late |-> at < newest]
               n == Len(admitted) + 1
    <3>0. (at < newest) \in BOOLEAN
      OBVIOUS
    <3>1. q0 \in Requests /\ q0.at = at /\ q0.draw = d /\ (q0.late <=> at < newest)
      BY <2>T, <3>0
    <3>2. admitted' = Append(admitted, q0) /\ n \in Nat
      BY <1>0, <2>10
    <3> HIDE DEF q0
    <3>3. /\ admitted' \in Seq(Requests) /\ Admitted' = Admitted \cup {m0}
          /\ DOMAIN admitted' = DOMAIN admitted \cup {n} /\ admitted'[n] = q0
          /\ \A i \in DOMAIN admitted : admitted'[i] = admitted[i] /\ S!InWindow(i)' = S!InWindow(i)
          /\ \A k \in Nat : k = n =>
               \A m \in S!InWindow(k)' : m \in Admitted' /\ at - Window < m.at /\ m.at <= at
      BY <1>0, <3>1, <3>2, Appended DEF m0
    <3>4. members' \subseteq Asked /\ IsFiniteSet(members') /\ Cardinality(members') <= Limit /\ Cardinality(members') \in Nat
      <4>1. IsFiniteSet(members') /\ (Cardinality(members') = Cardinality(kept) \/ Cardinality(members') = Cardinality(kept) + 1)
        BY <2>4, <2>10, FS_AddElement
      <4> QED BY <1>0, <1>W, <2>2, <2>4, <2>5, <2>10, <4>1
    <3>5. \A m \in members' : m.at <= time' /\ m.at + Window <= expires'
      <4>1. \A m \in members' : m.at \in Nat /\ m.at <= time
        BY <1>0, <2>1, <2>2, <2>5, <2>10 DEF Asked
      <4> QED BY <1>0, <1>W, <2>1, <2>10, <4>1
    <3>6. \A m \in Admitted' : m.at \in Nat /\ (m \in members' \/ m.at <= newest' - Window)
      <4>1. \A m \in Admitted : m.at \in Nat
        BY <1>0, AdmittedAreAsked DEF Asked
      <4> QED BY <1>0, <1>W, <2>1, <2>5, <2>6, <2>8, <2>10, <3>3, <4>1
    <3>7. Prompt => \A q \in Int : IsFiniteSet(Burst(q)') /\ Cardinality(Burst(q)') <= Limit
      <4> SUFFICES ASSUME Prompt, NEW q \in Int PROVE IsFiniteSet(Burst(q)') /\ Cardinality(Burst(q)') <= Limit
        OBVIOUS
      <4>1. CASE q < at /\ at <= q + Delay
        <5>1. newest - Window <= q /\ newest' - Window <= q
          BY <1>0, <1>W, <2>1, <2>6, <4>1
        <5>2. ASSUME NEW m \in Burst(q)' PROVE m \in members'
          <6>1. m \in Admitted' /\ m.at \in Nat /\ q < m.at
            BY <3>6, <5>2 DEF Burst
          <6>2. ~(m.at <= newest' - Window)
            BY <1>W, <2>V, <5>1, <6>1, Beyond
          <6> QED BY <3>6, <6>1, <6>2
        <5>3. IsFiniteSet(Burst(q)') /\ Cardinality(Burst(q)') <= Cardinality(members') /\ Cardinality(Burst(q)') \in Nat
          BY <3>4, <5>2, FS_Subset, FS_CardinalityType
        <5> QED BY <1>W, <3>4, <5>3
      <4>2. CASE ~(q < at /\ at <= q + Delay)
        <5>1. Burst(q)' = Burst(q)
          BY <2>5, <3>3, <4>2 DEF Burst
        <5> QED BY <1>0, <5>1
      <4> QED BY <4>1, <4>2
    <3>8. ASSUME NEW k \in Nat, k = n
          PROVE  Bounded(q0.late, S!InWindow(k)')
      <4>1. \A m \in S!InWindow(k)' : m \in Admitted' /\ at - Window < m.at /\ m.at <= at
        BY <3>3, <3>8
      <4>2. CASE ~q0.late
        <5>1. newest' = at
          BY <1>0, <2>1, <3>1, <4>2
        <5>2. S!InWindow(k)' \subseteq members'
          BY <1>W, <2>1, <3>6, <4>1, <5>1
        <5>3. Cardinality(S!InWindow(k)') <= Cardinality(members') /\ Cardinality(S!InWindow(k)') \in Nat
          BY <3>4, <5>2, FS_Subset, FS_CardinalityType
        <5> QED BY <1>W, <3>4, <4>2, <5>3 DEF Bounded
      <4>3. CASE q0.late /\ Prompt
        <5>0. PICK p \in Int : p \in Int /\ p = at - Window
          BY <1>W, <2>1
        <5>1. newest' - Window <= p + Delay
          BY <1>W, <2>V, <2>T, <5>0, Shifted
        <5>2. \A m \in S!InWindow(k)' : m \in members' \/ m \in Burst(p)'
          <6> SUFFICES ASSUME NEW m \in S!InWindow(k)', m \notin members' PROVE m \in Burst(p)'
            OBVIOUS
          <6>1. m \in Admitted' /\ m.at \in Nat /\ p < m.at /\ m.at <= newest' - Window
            BY <3>6, <4>1, <5>0
          <6>2. m.at <= p + Delay
            BY <1>W, <2>V, <2>T, <5>0, <5>1, <6>1
          <6> QED BY <6>1, <6>2 DEF Burst
        <5>3. IsFiniteSet(Burst(p)') /\ Cardinality(Burst(p)') <= Limit /\ Cardinality(Burst(p)') \in Nat
          BY <3>7, <4>3, FS_CardinalityType
        <5>4. /\ IsFiniteSet(members' \cup Burst(p)') /\ Cardinality(members' \cup Burst(p)') \in Nat
              /\ Cardinality(members' \cup Burst(p)') <= Cardinality(members') + Cardinality(Burst(p)')
          BY <3>4, <5>3, UnionBound
        <5>5. S!InWindow(k)' \subseteq members' \cup Burst(p)'
          BY <5>2
        <5>6. /\ Cardinality(S!InWindow(k)') <= Cardinality(members' \cup Burst(p)')
              /\ Cardinality(S!InWindow(k)') \in Nat
          BY <5>4, <5>5, FS_Subset, FS_CardinalityType
        <5>7. Cardinality(S!InWindow(k)') <= 2 * Limit
          <6> DEFINE x == Cardinality(S!InWindow(k)')
                     y == Cardinality(members' \cup Burst(p)')
                     u == Cardinality(members')
                     v == Cardinality(Burst(p)')
          <6>1. x \in Nat /\ y \in Nat /\ u \in Nat /\ v \in Nat /\ x <= y /\ y <= u + v /\ u <= Limit /\ v <= Limit
            BY <3>4, <5>3, <5>4, <5>6
          <6> HIDE DEF x, y, u, v
          <6>2. x <= 2 * Limit
            BY <1>W, <6>1
          <6> QED BY <6>2 DEF x
        <5> QED BY <4>3, <5>7 DEF Bounded
      <4> QED BY <4>2, <4>3 DEF Bounded
    <3>9. \A i \in DOMAIN admitted' : Bounded(admitted'[i].late, S!InWindow(i)')
      <4> SUFFICES ASSUME NEW i \in DOMAIN admitted' PROVE Bounded(admitted'[i].late, S!InWindow(i)')
        OBVIOUS
      <4>1. CASE i \in DOMAIN admitted
        BY <1>0, <3>3, <4>1
      <4>2. CASE i = n
        BY <3>2, <3>3, <3>8, <4>2
      <4> QED BY <3>3, <4>1, <4>2
    <3>10. expires' \in Int /\ time' \in Nat
      BY <1>0, <1>W, <2>1, <2>10
    <3> HIDE DEF n
    <3> QED BY <2>1, <2>6, <2>7, <3>10, <3>3, <3>4, <3>5, <3>6, <3>7, <3>9 DEF Windowed
  <2> QED BY <2>3, <2>9, <2>10
<1>3. CASE S!Tick
  <2>1. /\ time' = time + 1 /\ \A c \in Clients : asking[c] # S!None => time - asking[c] < Delay
        /\ UNCHANGED <<expires, asking, admitted>>
        /\ \/ members # {} /\ time + 1 > expires /\ members' = {} /\ newest' = time + 1
           \/ UNCHANGED <<members, newest>>
    BY <1>3 DEF S!Tick
  <2>2. time' \in Nat /\ newest' \in Int /\ newest' <= time' /\ newest <= newest'
    BY <1>0, <2>1
  <2>3. \A c \in Clients : asking'[c] # S!None => asking'[c] <= time' /\ time' <= asking'[c] + Delay
    BY <1>0, <1>W, <2>1
  <2>4. members' \subseteq members /\ IsFiniteSet(members') /\ Cardinality(members') <= Limit
    <3>1. IsFiniteSet({}) /\ Cardinality({}) = 0 /\ 0 <= Limit
      BY <1>W, FS_EmptySet
    <3> QED BY <1>0, <2>1, <3>1
  <2>5. \A m \in members' : m.at <= time' /\ m.at + Window <= expires'
    BY <1>0, <2>1, <2>4 DEF Asked
  <2>6. \A m \in Admitted' : m \in members' \/ m.at <= newest' - Window
    <3> SUFFICES ASSUME NEW m \in Admitted PROVE m \in members' \/ m.at <= newest' - Window
      BY <1>H, <2>1
    <3>1. m.at \in Nat
      BY <1>0, AdmittedAreAsked DEF Asked
    <3>2. CASE UNCHANGED <<members, newest>>
      BY <1>0, <3>2
    <3>3. CASE time + 1 > expires /\ newest' = time + 1
      BY <1>0, <1>W, <3>1, <3>3
    <3> QED BY <2>1, <3>2, <3>3
  <2> QED BY <1>0, <1>H, <2>1, <2>2, <2>3, <2>4, <2>5, <2>6 DEF Windowed
<1>4. ASSUME NEW c \in Clients, S!Check(c) PROVE Windowed'
  BY <1>1, <1>4 DEF S!Check
<1>5. ASSUME NEW c \in Clients, S!FailOpen(c) PROVE Windowed'
  BY <1>1, <1>5 DEF S!FailOpen
<1>6. CASE UNCHANGED S!swvars
  <2>1. UNCHANGED <<time, members, expires, asking, admitted, newest>>
    BY <1>6 DEF S!swvars
  <2> QED BY <1>0, <1>H, <2>1 DEF Windowed
<1> QED BY <1>2, <1>3, <1>4, <1>5, <1>6 DEF S!Next

\* The window that ends with an admitted request holds at most max_requests, or twice as
\* many where a later request has overtaken it and delays take half a window at most.
THEOREM LimiterWindowBound == S!Spec => []WindowBound
<1>1. S!Init => Windowed
  BY WindowedInit, SharedStateAssumption
<1>2. Windowed /\ [S!Next]_(S!swvars) => Windowed'
  BY WindowedStep, SharedStateAssumption
<1>3. Windowed => WindowBound
  <2>1. \A set : S!Cardinality(set) = Cardinality(set)
    BY DEF S!Cardinality, Cardinality
  <2>2. ASSUME Windowed, NEW i \in DOMAIN admitted
        PROVE  /\ ~admitted[i].late => S!Cardinality(S!InWindow(i)) <= Limit
               /\ admitted[i].late /\ 2 * Delay <= Window => S!Cardinality(S!InWindow(i)) <= 2 * Limit
    <3>1. /\ ~admitted[i].late => Cardinality(S!InWindow(i)) <= Limit
          /\ admitted[i].late /\ 2 * Delay <= Window => Cardinality(S!InWindow(i)) <= 2 * Limit
      <4>1. Bounded(admitted[i].late, S!InWindow(i))
        BY <2>2 DEF Windowed
      <4> QED BY <4>1 DEF Bounded, Prompt
    <3>2. S!Cardinality(S!InWindow(i)) = Cardinality(S!InWindow(i))
      BY <2>1
    <3> QED BY <3>1, <3>2, Zenon
  <2> QED BY <2>2 DEF WindowBound, S!WindowBound
<1> QED BY <1>1, <1>2, <1>3, PTL DEF S!Spec

-----------------------------------------------------------------------------
(***************************************************************************)
(* The data lake archiver                                                  *)
(***************************************************************************)
Stages == {"idle", "upload", "log", "count"}
Alive == proc \notin {"down", "stopped"}
Safe == A!Archived \cup excused \cup dropped \cup (IF proc \in {"down", "stopped"} THEN {} ELSE A!InMemory)

\* Where the threads of the archiver can be: what has left the upload is in the bucket, the
\* thread of stop() works only once everything else has been handed over, and the periodic
\* task dies without a thread.
Placed ==
  /\ buffer \in Seq(Int) /\ thread \in [A!ThreadOf -> [stage : Stages, msgs : Seq(Int)]]
  /\ \A w \in A!ThreadOf : thread[w].stage \in {"log", "count"} => thread[w].msgs \in files
  /\ proc = "stopping" => buffer = <<>>
  /\ proc # "stopping" => thread["stop"] = A!Idle
  /\ flusher = "dead" => thread["loop"] = A!Idle

\* What was handed out or committed is safe.
Kept ==
  /\ position \in Int /\ committed \in Int /\ produced \in Int /\ skipped \in Int
  /\ Alive => \A m \in Int : skipped < m /\ m <= position => m \in Safe
  /\ committed # A!None => \A m \in Int : skipped < m /\ m <= committed => m \in Safe

LEMMA RangeOf ==
  /\ A!Range(<<>>) = {}
  /\ \A q \in Seq(Int), m \in Int : A!Range(Append(q, m)) = A!Range(q) \cup {m}
<1>1. A!Range(<<>>) = {}
  BY DEF A!Range
<1>2. ASSUME NEW q \in Seq(Int), NEW m \in Int PROVE A!Range(Append(q, m)) = A!Range(q) \cup {m}
  <2>1. /\ DOMAIN q = 1..Len(q) /\ Len(q) \in Nat /\ DOMAIN Append(q, m) = 1..(Len(q) + 1)
        /\ \A i \in 1..Len(q) : Append(q, m)[i] = q[i]
        /\ Append(q, m)[Len(q) + 1] = m
    OBVIOUS
  <2>2. 1..(Len(q) + 1) = (1..Len(q)) \cup {Len(q) + 1}
    BY <2>1
  <2> QED BY <2>1, <2>2 DEF A!Range
<1> QED BY <1>1, <1>2

LEMMA Remembered ==
  \A m : m \in A!InMemory <=> m \in A!Range(buffer) \/ \E w \in A!ThreadOf : m \in A!Range(thread[w].msgs)
  BY DEF A!InMemory

LEMMA IdleThread == A!Idle \in [stage : Stages, msgs : Seq(Int)] /\ A!Idle.stage = "idle" /\ A!Range(A!Idle.msgs) = {}
<1>1. A!Idle.msgs = <<>> /\ A!Idle.stage = "idle" /\ <<>> \in Seq(Int) /\ "idle" \in Stages
  BY DEF A!Idle, Stages
<1> QED BY <1>1, RangeOf DEF A!Idle

LEMMA KeptFrame ==
  ASSUME Kept, UNCHANGED <<committed, skipped>>, produced' \in Int, Alive' => Alive, Safe \subseteq Safe',
         position' = position \/ (position' = position + 1 /\ position + 1 \in Safe')
  PROVE  Kept'
<1>1. position \in Int /\ position' \in Int
  BY DEF Kept
<1>2. \A m \in Int : m <= position' => m <= position \/ (m = position + 1 /\ m \in Safe')
  BY <1>1
<1> QED BY <1>1, <1>2 DEF Kept

LEMMA ArchiverInit == A!Init => Placed /\ Kept
<1> SUFFICES ASSUME A!Init PROVE Placed /\ Kept
  OBVIOUS
<1>1. /\ buffer = <<>> /\ thread = [w \in A!ThreadOf |-> A!Idle] /\ proc = "down" /\ flusher = "asleep"
      /\ produced = 0 /\ committed = A!None /\ position = 0 /\ skipped = 0 /\ A!None \in Int
  BY DEF A!Init, A!None
<1>2. <<>> \in Seq(Int) /\ \A w \in A!ThreadOf : thread[w] = A!Idle
  BY <1>1
<1>3. "stop" \in A!ThreadOf
  BY DEF A!ThreadOf
<1> QED BY <1>1, <1>2, <1>3, IdleThread DEF Placed, Kept, Alive

LEMMA ArchiverStep == Placed /\ Kept /\ [A!Next]_(A!acvars) => Placed' /\ Kept'
<1> SUFFICES ASSUME Placed, Kept, [A!Next]_(A!acvars) PROVE Placed' /\ Kept'
  OBVIOUS
<1> DEFINE Thread == [stage : Stages, msgs : Seq(Int)]
<1>0. /\ buffer \in Seq(Int) /\ thread \in [A!ThreadOf -> Thread]
      /\ \A w \in A!ThreadOf : thread[w].stage \in {"log", "count"} => thread[w].msgs \in files
      /\ proc = "stopping" => buffer = <<>>
      /\ proc # "stopping" => thread["stop"] = A!Idle
      /\ flusher = "dead" => thread["loop"] = A!Idle
  BY DEF Placed
<1>K. /\ position \in Int /\ committed \in Int /\ produced \in Int /\ skipped \in Int
      /\ Alive => \A m \in Int : skipped < m /\ m <= position => m \in Safe
      /\ committed # A!None => \A m \in Int : skipped < m /\ m <= committed => m \in Safe
  BY DEF Kept
<1>T. "handler" \in A!ThreadOf /\ "loop" \in A!ThreadOf /\ "stop" \in A!ThreadOf
  BY DEF A!ThreadOf
<1>S. ASSUME UNCHANGED <<files, excused, dropped, proc, buffer, thread>> PROVE Safe' = Safe
  BY <1>S DEF Safe, A!Archived, A!InMemory
<1>1. CASE A!Produce
  <2>1. produced' = produced + 1 /\ UNCHANGED <<committed, position, proc, buffer, flusher, thread, files, skipped, excused, dropped>>
    BY <1>1 DEF A!Produce, A!lake, A!history
  <2>2. Placed'
    BY <1>0, <2>1 DEF Placed
  <2>3. Kept'
    BY <1>K, <1>S, <2>1, KeptFrame DEF Alive
  <2> QED BY <2>2, <2>3
<1>2. CASE A!Start
  <2>1. /\ ~Alive /\ proc' = "running" /\ buffer' = buffer /\ flusher' = flusher /\ thread' = thread
        /\ position' = (IF committed = A!None THEN produced ELSE committed)
        /\ skipped' = (IF committed = A!None THEN produced ELSE skipped)
        /\ UNCHANGED <<produced, committed, files, excused, dropped>>
    BY <1>2 DEF A!Start, A!lake, Alive
  <2>2. Placed'
    BY <1>0, <2>1 DEF Placed, Alive
  <2>3. Safe \subseteq Safe'
    BY <2>1 DEF Safe, Alive, A!Archived
  <2>4. Kept'
    <3>1. CASE committed = A!None
      <4>1. position' = produced /\ skipped' = produced /\ committed' = A!None
        BY <2>1, <3>1
      <4>2. \A m \in Int : ~(skipped' < m /\ m <= position')
        BY <1>K, <4>1
      <4> QED BY <1>K, <2>1, <4>1, <4>2 DEF Kept
    <3>2. CASE committed # A!None
      BY <1>K, <2>1, <2>3, <3>2 DEF Kept
    <3> QED BY <3>1, <3>2
  <2> QED BY <2>2, <2>4
\* What a process had in memory ends with it.
<1>F. ASSUME A!Forget PROVE /\ buffer' = <<>> /\ flusher' = "asleep" /\ \A w \in A!ThreadOf : thread'[w] = A!Idle
                            /\ buffer' \in Seq(Int) /\ thread' \in [A!ThreadOf -> Thread]
  <2>1. buffer' = <<>> /\ flusher' = "asleep" /\ thread' = [w \in A!ThreadOf |-> A!Idle]
    BY <1>F DEF A!Forget
  <2> QED BY <2>1, IdleThread
<1>3. CASE A!Crash
  <2>1. /\ Alive /\ proc' = "down" /\ excused' = excused \cup A!InMemory /\ A!Forget
        /\ UNCHANGED <<produced, committed, position, files, skipped, dropped>>
    BY <1>3 DEF A!Crash, A!Up, Alive, A!kafka
  <2>2. Placed'
    BY <1>F, <1>T, <2>1, IdleThread DEF Placed
  <2>3. Safe \subseteq Safe' /\ ~Alive'
    BY <2>1 DEF Safe, Alive, A!Archived
  <2>4. Kept'
    BY <1>K, <2>1, <2>3, KeptFrame
  <2> QED BY <2>2, <2>4
<1>4. ASSUME UNCHANGED <<produced, position, buffer, flusher, thread, files, skipped, excused, dropped>>, Alive, Alive',
             committed' = position, proc' = "stopping" <=> proc = "stopping"
      PROVE  Placed' /\ Kept'
  <2>1. Safe' = Safe
    BY <1>4 DEF Safe, Alive, A!Archived, A!InMemory
  <2>2. Placed'
    BY <1>0, <1>4 DEF Placed
  <2>3. Kept'
    BY <1>K, <1>4, <2>1 DEF Kept
  <2> QED BY <2>2, <2>3
<1>5. CASE A!AutoCommit \/ A!LastCommit
  BY <1>4, <1>5 DEF A!AutoCommit, A!LastCommit, A!Up, A!lake, A!history, Alive
<1>7. CASE A!Handle
  <2> DEFINE filled == Append(buffer, position + 1)
             new == [stage |-> "upload", msgs |-> filled]
  <2>1. /\ proc = "running" /\ proc' = proc /\ thread["handler"] = A!Idle /\ position' = position + 1
        /\ \/ thread' = [thread EXCEPT !["handler"] = new] /\ buffer' = <<>>
           \/ buffer' = filled /\ thread' = thread
        /\ UNCHANGED <<produced, committed, flusher, files, skipped, excused>> /\ dropped' = dropped \ {position + 1}
    BY <1>7 DEF A!Handle, A!lake
  <2>2. filled \in Seq(Int) /\ A!Range(filled) = A!Range(buffer) \cup {position + 1}
    BY <1>0, <1>K, RangeOf
  <2>3. new \in Thread /\ new.stage = "upload" /\ new.msgs = filled
    BY <2>2 DEF Stages
  <2> HIDE DEF filled, new
  <2>4. A!InMemory \cup {position + 1} \subseteq A!InMemory'
    <3>1. CASE buffer' = filled /\ thread' = thread
      BY <2>2, <3>1 DEF A!InMemory
    <3>2. CASE thread' = [thread EXCEPT !["handler"] = new] /\ buffer' = <<>>
      <4>1. thread'["handler"] = new /\ \A w \in A!ThreadOf : w # "handler" => thread'[w] = thread[w]
        BY <1>0, <1>T, <3>2
      <4>2. A!Range(thread["handler"].msgs) = {}
        BY <2>1, IdleThread
      <4>3. A!Range(filled) \subseteq A!InMemory'
        BY <1>T, <2>3, <4>1 DEF A!InMemory
      <4>4. \A w \in A!ThreadOf : A!Range(thread[w].msgs) \subseteq A!InMemory'
        BY <4>1, <4>2 DEF A!InMemory
      <4> QED BY <2>2, <4>3, <4>4, Remembered
    <3> QED BY <2>1, <3>1, <3>2
  <2>5. Safe \cup {position + 1} \subseteq Safe'
    BY <2>1, <2>4 DEF Safe, A!Archived
  <2>6. Kept'
    <3>1. \A m \in Int : m <= position + 1 => m <= position \/ m = position + 1
      BY <1>K
    <3>2. Alive /\ position' \in Int
      BY <1>K, <2>1 DEF Alive
    <3> QED BY <1>K, <2>1, <2>5, <3>1, <3>2 DEF Kept
  <2>7. Placed'
    <3>0. <<>> \in Seq(Int)
      OBVIOUS
    <3>1. buffer' \in Seq(Int) /\ thread' \in [A!ThreadOf -> Thread]
      <4> HIDE DEF Thread
      <4> QED BY <1>0, <2>1, <2>2, <2>3, <3>0
    <3>2. \A w \in A!ThreadOf : thread'[w] = thread[w] \/ thread'[w] = new
      BY <1>0, <2>1
    <3>3. thread'["stop"] = thread["stop"] /\ thread'["loop"] = thread["loop"]
      BY <1>0, <1>T, <2>1
    <3> QED BY <1>0, <2>1, <2>3, <3>1, <3>2, <3>3 DEF Placed
  <2> QED BY <2>6, <2>7
\* A caller of _flush hands the buffer to its idle thread.
<1>8. ASSUME NEW w \in {"loop", "stop"}, A!Flush(w), thread[w] = A!Idle, Alive, Alive',
             UNCHANGED <<produced, committed, files, skipped, excused>>, dropped \subseteq dropped',
             position' = position \/ (position' = position + 1 /\ position + 1 \in dropped'),
             proc # "stopping", w = "stop" <=> proc' = "stopping", w = "loop" => flusher' # "dead",
             flusher' = "dead" => flusher = "dead"
      PROVE  Placed' /\ Kept'
  <2> DEFINE new == [stage |-> "upload", msgs |-> buffer]
  <2>1. thread' = [thread EXCEPT ![w] = new] /\ buffer' = <<>> /\ w \in A!ThreadOf
    BY <1>8, <1>T DEF A!Flush
  <2>2. new \in Thread /\ new.stage = "upload" /\ new.msgs = buffer
    BY <1>0 DEF Stages
  <2> HIDE DEF new
  <2>3. thread'[w] = new /\ \A v \in A!ThreadOf : v # w => thread'[v] = thread[v]
    BY <1>0, <2>1
  <2>4. A!InMemory \subseteq A!InMemory'
    <3>1. A!Range(buffer) \subseteq A!InMemory'
      BY <2>1, <2>2, <2>3 DEF A!InMemory
    <3>2. A!Range(thread[w].msgs) = {}
      BY <1>8, IdleThread
    <3>3. \A v \in A!ThreadOf : A!Range(thread[v].msgs) \subseteq A!InMemory'
      BY <2>3, <3>2 DEF A!InMemory
    <3> QED BY <3>1, <3>3, Remembered
  <2>5. Safe \subseteq Safe'
    BY <1>8, <2>4 DEF Safe, Alive, A!Archived
  <2>6. Kept'
    <3>1. dropped' \subseteq Safe'
      BY DEF Safe
    <3> QED BY <1>8, <1>K, <2>5, <3>1, KeptFrame
  <2>7. Placed'
    <3>1. buffer' \in Seq(Int) /\ thread' \in [A!ThreadOf -> Thread]
      BY <1>0, <2>1, <2>2
    <3>2. \A v \in A!ThreadOf : thread'[v].stage \in {"log", "count"} => thread'[v].msgs \in files'
      BY <1>0, <1>8, <2>2, <2>3
    <3>3. proc' # "stopping" => thread'["stop"] = A!Idle
      BY <1>0, <1>8, <1>T, <2>3
    <3>4. flusher' = "dead" => thread'["loop"] = A!Idle
      BY <1>0, <1>8, <1>T, <2>3
    <3> QED BY <2>1, <3>1, <3>2, <3>3, <3>4 DEF Placed
  <2> QED BY <2>6, <2>7
<1>9. CASE A!PeriodicFlush
  <2>1. /\ Alive /\ Alive' /\ proc # "stopping" /\ proc' # "stopping" /\ thread["loop"] = A!Idle
        /\ flusher' = "flushing" /\ A!Flush("loop")
        /\ UNCHANGED <<produced, position, committed, files, skipped, excused, dropped>>
    BY <1>9 DEF A!PeriodicFlush, A!kafka, A!lake, A!history, Alive
  <2> QED BY <1>8, <2>1
<1>10. CASE A!Stop
  <2>0. /\ proc = "closing" /\ thread["handler"] = A!Idle /\ thread["stop"] = A!Idle
        /\ UNCHANGED <<produced, committed, files, skipped>> /\ dropped \subseteq dropped'
        /\ position' = position \/ (position' = position + 1 /\ position + 1 \in Safe' /\ position + 1 \in dropped')
    BY <1>0, <1>10 DEF A!Stop, A!LoopEnd, Safe
  <2>1. CASE flusher = "dead"
    <3>1. /\ proc' = "stopped" /\ excused' = excused \cup A!Range(buffer) /\ buffer' = <<>>
          /\ A!Forget /\ thread["loop"] = A!Idle
      BY <1>0, <1>10, <2>1 DEF A!Stop, A!Forget
    <3>2. \A w \in A!ThreadOf : A!Range(thread[w].msgs) = {}
      BY <2>0, <3>1, IdleThread DEF A!ThreadOf
    <3>3. A!InMemory \subseteq A!Range(buffer)
      BY <3>2, Remembered
    <3>4. Safe \subseteq Safe' /\ ~Alive'
      BY <2>0, <3>1, <3>3 DEF Safe, Alive, A!Archived
    <3>5. Kept'
      BY <1>K, <2>0, <3>4, KeptFrame
    <3>6. Placed'
      BY <1>F, <1>T, <3>1, IdleThread DEF Placed
    <3> QED BY <3>5, <3>6
  <2>2. CASE flusher # "dead"
    <3>1. /\ proc' = "stopping" /\ flusher' = "cancelled" /\ excused' = excused /\ Alive /\ Alive'
          /\ IF buffer = <<>> THEN UNCHANGED <<thread, buffer>> ELSE A!Flush("stop")
      BY <1>10, <2>0, <2>2 DEF A!Stop, Alive
    <3>2. CASE buffer = <<>>
      <4>1. Safe \subseteq Safe'
        BY <2>0, <3>1, <3>2 DEF Safe, Alive, A!Archived, A!InMemory
      <4>2. Kept'
        BY <1>K, <2>0, <3>1, <4>1, KeptFrame
      <4>3. Placed'
        BY <1>0, <2>0, <3>1, <3>2 DEF Placed
      <4> QED BY <4>2, <4>3
    <3>3. CASE buffer # <<>>
      BY <1>8, <2>0, <3>1, <3>3
    <3> QED BY <3>2, <3>3
  <2> QED BY <2>1, <2>2
<1>11. CASE A!Exit
  <2>1. /\ proc = "stopping" /\ proc' = "stopped" /\ committed' \in {position, committed} /\ A!Forget
        /\ \A w \in A!ThreadOf : thread[w] = A!Idle
        /\ UNCHANGED <<produced, position, files, skipped, excused, dropped>> /\ buffer = <<>>
    BY <1>0, <1>11 DEF A!Exit, A!history
  <2>2. A!InMemory = {}
    BY <2>1, RangeOf, IdleThread, Remembered
  <2>3. Safe \subseteq Safe' /\ Alive /\ ~Alive'
    BY <2>1, <2>2 DEF Safe, Alive, A!Archived
  <2>4. Kept'
    BY <1>K, <2>1, <2>3 DEF Kept
  <2>5. Placed'
    BY <1>F, <1>T, <2>1, IdleThread DEF Placed
  <2> QED BY <2>4, <2>5
<1>12. CASE A!ConsumerFails \/ A!Signal
  <2>1. /\ proc = "running" /\ proc' = "closing"
        /\ UNCHANGED <<produced, position, committed, buffer, flusher, thread, files, skipped, excused, dropped>>
    BY <1>12 DEF A!ConsumerFails, A!Signal, A!kafka, A!lake, A!history
  <2>2. Safe' = Safe /\ Alive
    BY <2>1 DEF Safe, Alive, A!Archived, A!InMemory
  <2>3. Kept'
    BY <1>K, <2>1, <2>2, KeptFrame
  <2>4. Placed'
    BY <1>0, <2>1 DEF Placed
  <2> QED BY <2>3, <2>4
\* A thread goes on, or ends with its messages in the bucket or excused.
<1>13. ASSUME NEW w \in A!ThreadOf, NEW new \in Thread, thread' = [thread EXCEPT ![w] = new],
              UNCHANGED <<produced, position, committed, proc, buffer, skipped, dropped>>,
              files \subseteq files', excused \subseteq excused', thread[w].stage # "idle",
              new.stage \in {"log", "count"} => new.msgs \in files',
              \/ new.msgs = thread[w].msgs
              \/ new = A!Idle /\ (thread[w].msgs \in files' \/ A!Range(thread[w].msgs) \subseteq excused'),
              flusher' = "dead" => flusher = "dead" \/ (w = "loop" /\ new = A!Idle)
       PROVE  Placed' /\ Kept'
  <2>1. thread'[w] = new /\ \A v \in A!ThreadOf : v # w => thread'[v] = thread[v]
    BY <1>0, <1>13
  <2>2. A!Range(thread[w].msgs) \subseteq A!Range(new.msgs) \cup A!Archived' \cup excused'
    BY <1>13 DEF A!Archived
  <2>3. A!InMemory \subseteq A!InMemory' \cup A!Archived' \cup excused'
    <3> SUFFICES ASSUME NEW m \in A!InMemory PROVE m \in A!InMemory' \cup A!Archived' \cup excused'
      OBVIOUS
    <3>1. CASE m \in A!Range(buffer)
      BY <1>13, <3>1 DEF A!InMemory
    <3>2. ASSUME NEW v \in A!ThreadOf, m \in A!Range(thread[v].msgs) PROVE m \in A!InMemory' \cup A!Archived' \cup excused'
      BY <2>1, <2>2, <3>2 DEF A!InMemory
    <3> QED BY <3>1, <3>2, Remembered
  <2>4. A!Archived \subseteq A!Archived'
    BY <1>13 DEF A!Archived
  <2>5. Safe \subseteq Safe' /\ (Alive' <=> Alive)
    BY <1>13, <2>3, <2>4 DEF Safe, Alive
  <2>6. Kept'
    BY <1>13, <1>K, <2>5, KeptFrame
  <2>7. Placed'
    <3>1. buffer' \in Seq(Int) /\ thread' \in [A!ThreadOf -> Thread]
      BY <1>0, <1>13
    <3>2. \A v \in A!ThreadOf : thread'[v].stage \in {"log", "count"} => thread'[v].msgs \in files'
      BY <1>0, <1>13, <2>1
    <3>3. A!Idle.stage = "idle"
      BY IdleThread
    <3>4. proc' # "stopping" => thread'["stop"] = A!Idle
      BY <1>0, <1>13, <1>T, <2>1, <3>3
    <3>5. flusher' = "dead" => thread'["loop"] = A!Idle
      BY <1>0, <1>13, <1>T, <2>1, <3>3
    <3> QED BY <1>0, <1>13, <3>1, <3>2, <3>4, <3>5 DEF Placed
  <2> QED BY <2>6, <2>7
<1>14. ASSUME NEW w \in A!ThreadOf, NEW ok \in BOOLEAN, A!Upload(w, ok) PROVE Placed' /\ Kept'
  <2>1. /\ thread[w].stage = "upload" /\ UNCHANGED <<produced, position, committed, proc, buffer, skipped, dropped>>
        /\ thread[w] \in Thread
    BY <1>0, <1>14 DEF A!Upload, A!kafka, A!AfterUpload
  <2>2. CASE ok
    <3> DEFINE new == [thread[w] EXCEPT !.stage = "log"]
    <3>1. /\ thread' = [thread EXCEPT ![w].stage = "log"] /\ files' = files \cup {thread[w].msgs}
          /\ UNCHANGED <<flusher, excused>>
      BY <1>14, <2>2 DEF A!Upload
    <3>2. new \in Thread /\ new.stage = "log" /\ new.msgs = thread[w].msgs
      BY <2>1 DEF Stages
    <3>3. thread' = [thread EXCEPT ![w] = new]
      BY <1>0, <3>1
    <3> HIDE DEF new, Thread
    <3>4. /\ files \subseteq files' /\ excused \subseteq excused' /\ thread[w].stage # "idle"
          /\ new.msgs \in files' /\ (flusher' = "dead" => flusher = "dead") /\ new \in Thread
          /\ UNCHANGED <<produced, position, committed, proc, buffer, skipped, dropped>>
      BY <2>1, <3>1, <3>2
    <3>5. new.msgs = thread[w].msgs
      BY <3>2
    <3> QED BY <1>13, <3>3, <3>4, <3>5
  <2>3. CASE ~ok
    <3>1. /\ thread' = [thread EXCEPT ![w] = A!Idle] /\ excused' = excused \cup A!Range(thread[w].msgs) /\ files' = files
          /\ flusher' = IF w = "loop" /\ flusher = "flushing" THEN "dead" ELSE flusher
      BY <1>14, <2>3 DEF A!Upload
    <3> HIDE DEF Thread
    <3>2. A!Idle \in Thread /\ A!Idle.stage = "idle"
      BY IdleThread DEF Thread
    <3> QED BY <1>13, <2>1, <3>1, <3>2
  <2> QED BY <2>2, <2>3
<1>15. ASSUME NEW w \in A!ThreadOf, A!WriteEntry(w) PROVE Placed' /\ Kept'
  <2> DEFINE new == [thread[w] EXCEPT !.stage = "count"]
  <2>1. /\ thread[w].stage = "log" /\ thread[w] \in Thread /\ thread' = [thread EXCEPT ![w].stage = "count"]
        /\ UNCHANGED <<produced, position, committed, proc, buffer, flusher, files, skipped, excused, dropped>>
    BY <1>0, <1>15 DEF A!WriteEntry, A!kafka, A!history
  <2>2. new \in Thread /\ new.stage = "count" /\ new.msgs = thread[w].msgs /\ thread[w].msgs \in files
    BY <1>0, <2>1 DEF Stages
  <2>3. thread' = [thread EXCEPT ![w] = new]
    BY <1>0, <2>1
  <2> HIDE DEF new, Thread
  <2>4. /\ files \subseteq files' /\ excused \subseteq excused' /\ thread[w].stage # "idle"
        /\ new.msgs \in files' /\ (flusher' = "dead" => flusher = "dead") /\ new \in Thread
        /\ UNCHANGED <<produced, position, committed, proc, buffer, skipped, dropped>>
    BY <2>1, <2>2
  <2>5. new.msgs = thread[w].msgs
    BY <2>2
  <2> QED BY <1>13, <2>3, <2>4, <2>5
<1>16. ASSUME NEW w \in A!ThreadOf, A!EntryFails(w) \/ A!CountVersion(w) PROVE Placed' /\ Kept'
  <2>1. /\ thread[w].stage \in {"log", "count"} /\ thread' = [thread EXCEPT ![w] = A!Idle]
        /\ flusher' = (IF w = "loop" /\ flusher = "flushing" THEN "asleep" ELSE flusher)
        /\ UNCHANGED <<produced, position, committed, proc, buffer, files, skipped, excused, dropped>>
    BY <1>16 DEF A!EntryFails, A!CountVersion, A!Ended, A!kafka, A!lake, A!history
  <2> HIDE DEF Thread
  <2>2. A!Idle \in Thread /\ A!Idle.stage = "idle" /\ thread[w].msgs \in files
    BY <1>0, <2>1, IdleThread DEF Thread
  <2> QED BY <1>13, <2>1, <2>2
<1>17. CASE UNCHANGED A!acvars
  <2>1. UNCHANGED <<produced, position, committed, proc, buffer, flusher, thread, files, skipped, excused, dropped>>
    BY <1>17 DEF A!acvars, A!kafka, A!lake, A!history
  <2>2. Placed'
    BY <1>0, <2>1 DEF Placed
  <2>3. Kept'
    BY <1>K, <1>S, <2>1, KeptFrame DEF Alive
  <2> QED BY <2>2, <2>3
<1> QED BY <1>1, <1>2, <1>3, <1>5, <1>7, <1>9, <1>10, <1>11, <1>12, <1>14, <1>15, <1>16, <1>17 DEF A!Next

\* The consume loop of a process drops a message once, when it ends.
Drops ==
  /\ starts \in Nat /\ IsFiniteSet(dropped) /\ Cardinality(dropped) <= A!DroppedBy
  /\ Alive => starts >= 1

LEMMA DropsStep == Drops /\ [A!Next]_(A!acvars) => Drops'
<1> SUFFICES ASSUME Drops, [A!Next]_(A!acvars) PROVE Drops'
  OBVIOUS
<1>0. /\ starts \in Nat /\ IsFiniteSet(dropped) /\ Cardinality(dropped) \in Nat
      /\ Cardinality(dropped) <= (IF proc \in {"running", "closing"} THEN starts - 1 ELSE starts)
      /\ (Alive => starts >= 1)
  BY FS_CardinalityType DEF Drops, A!DroppedBy
\* Most steps drop nothing and start nothing.
<1>1. ASSUME dropped' = dropped, starts' = starts, Alive' => Alive,
             proc' \in {"running", "closing"} => proc \in {"running", "closing"}
      PROVE  Drops'
  BY <1>0, <1>1 DEF Drops, A!DroppedBy
<1>2. CASE A!Start
  <2>1. dropped' = dropped /\ starts' = starts + 1 /\ proc' = "running" /\ proc \in {"down", "stopped"}
    BY <1>2 DEF A!Start
  <2> QED BY <1>0, <2>1 DEF Drops, A!DroppedBy
<1>3. CASE A!Handle
  <2>1. dropped' = dropped \ {position + 1} /\ starts' = starts /\ proc' = proc
    BY <1>3 DEF A!Handle
  <2>2. IsFiniteSet(dropped') /\ Cardinality(dropped') <= Cardinality(dropped)
    BY <1>0, <2>1, FS_Subset
  <2>3. Cardinality(dropped') \in Nat
    BY <2>2, FS_CardinalityType
  <2> QED BY <1>0, <2>1, <2>2, <2>3 DEF Drops, A!DroppedBy, Alive
<1>4. CASE A!Stop
  <2>1. /\ dropped' \in {dropped, dropped \cup {position + 1}} /\ starts' = starts
        /\ proc = "closing" /\ proc' \in {"stopping", "stopped"}
    BY <1>4 DEF A!Stop, A!LoopEnd
  <2>2. IsFiniteSet(dropped') /\ Cardinality(dropped') \in {Cardinality(dropped), Cardinality(dropped) + 1}
    BY <1>0, <2>1, FS_AddElement
  <2> QED BY <1>0, <2>1, <2>2 DEF Drops, A!DroppedBy, Alive
<1>5. CASE A!Produce \/ A!Crash \/ A!AutoCommit \/ A!PeriodicFlush \/ A!Signal \/ A!LastCommit \/ A!ConsumerFails \/ A!Exit
  BY <1>1, <1>5 DEF A!Produce, A!Crash, A!AutoCommit, A!PeriodicFlush, A!Signal, A!LastCommit, A!ConsumerFails,
       A!Exit, A!Up, A!history, Alive
<1>6. ASSUME NEW w \in A!ThreadOf, A!WriteEntry(w) \/ A!EntryFails(w) \/ A!CountVersion(w) PROVE Drops'
  BY <1>1, <1>6 DEF A!WriteEntry, A!EntryFails, A!CountVersion, A!history, Alive
<1>7. ASSUME NEW w \in A!ThreadOf, NEW ok \in BOOLEAN, A!Upload(w, ok) PROVE Drops'
  BY <1>1, <1>7 DEF A!Upload, Alive
<1>8. CASE UNCHANGED A!acvars
  BY <1>1, <1>8 DEF A!acvars, A!history, Alive
<1> QED BY <1>2, <1>3, <1>4, <1>5, <1>6, <1>7, <1>8 DEF A!Next

\* Whatever crashes, restarts, signals, failing uploads and cancelled tasks interleave, a
\* message the consumer group is done with is in the bucket or is one of the four named
\* losses, and no more messages are dropped after a signal than processes have ended.
THEOREM ArchiverNothingElseLost == A!Spec => []NothingElseLost
<1>1. Kept /\ Drops => NothingElseLost
  <2>1. ASSUME Kept, NEW m \in A!Passed PROVE m \in Safe
    <3>1. m \in Int /\ skipped < m /\ m <= committed /\ committed # A!None
      BY <2>1 DEF A!Passed, Kept
    <3> QED BY <2>1, <3>1 DEF Kept
  <2>2. Kept => A!Passed \subseteq Safe
    BY <2>1
  <2>3. Drops => Cardinality(dropped) <= A!DroppedBy
    BY DEF Drops
  <2>4. A!Cardinality(dropped) = Cardinality(dropped)
    BY DEF A!Cardinality, Cardinality
  <2> QED BY <2>2, <2>3, <2>4 DEF NothingElseLost, A!NothingElseLost, Safe
<1>2. A!Init => Drops
  BY FS_EmptySet DEF A!Init, Drops, A!DroppedBy, Alive
<1> QED BY <1>1, <1>2, ArchiverInit, ArchiverStep, DropsStep, PTL DEF A!Spec

-----------------------------------------------------------------------------
(***************************************************************************)
(* The dashboard sockets                                                   *)
(***************************************************************************)
Cast == [event : Events \cup {"none"}, to : SUBSET Conns, dead : SUBSET Conns]
Broadcasting(s) == cast[s] # H!Idle

HubTypes ==
  /\ client \in [Conns -> {"new", "open", "closed", "left"}] /\ conns \in [Hubs -> SUBSET Conns]
  /\ hub \in [Hubs -> {"listening", "ended"}] /\ channel \in [Hubs -> Seq(Events)]
  /\ call \in [Events -> {"none", "executed", "failed", "done"}] /\ cast \in [H!Senders -> Cast]
  /\ relayed \in Seq(Events) /\ received \in [Conns -> [H!Senders -> Seq(Events)]]

\* A hub knows its open connections, and gives up only those that are not open any more.
Attached ==
  /\ \A h \in Hubs : \A c \in conns[h] : HubOf[c] = h /\ client[c] # "new"
  /\ \A s \in H!Senders : \A c \in cast[s].to : HubOf[c] = H!Place(s) /\ client[c] # "new"
  /\ \A s \in H!Senders : \A c \in cast[s].dead : client[c] \notin {"new", "open"}
  /\ \A c \in Conns : client[c] = "open" => c \in conns[HubOf[c]]
  /\ \A c \in Conns : client[c] = "new" => \A s \in H!Senders : received[c][s] = <<>>

\* Sequence s is the segment of r that ends at position j.
Segment(s, r, j) ==
  \E i \in 0..j : i + Len(s) = j /\ \A n \in 1..Len(s) : s[n] = r[i + n]
\* A listener has taken k messages of the channel; its open connections have been sent
\* what it took since they were connected, up to the one it is broadcasting.
Taken(h, k) ==
  /\ k + Len(channel[h]) = Len(relayed)
  /\ \A n \in 1..Len(channel[h]) : channel[h][n] = relayed[k + n]
  /\ Broadcasting(h) => k > 0 /\ cast[h].event = relayed[k]
  /\ \A c \in Conns : client[c] = "open" /\ HubOf[c] = h =>
       Segment(received[c][h], relayed, IF c \in cast[h].to THEN k - 1 ELSE k)
Segmented ==
  /\ \A h \in Hubs : IF hub[h] = "listening" THEN \E k \in 0..Len(relayed) : Taken(h, k)
                                             ELSE ~Broadcasting(h)
  /\ \A c \in Conns : \E j \in 0..Len(relayed) : Segment(received[c][HubOf[c]], relayed, j)

\* A publisher broadcasts once, and only after an error.
Erred == {e \in Events : call[e] \in {"failed", "done"}}
FellBack ==
  /\ \A e \in Events : Broadcasting(e) => call[e] = "done" /\ cast[e].event = e
  /\ \A c \in Conns, e \in Events :
       /\ received[c][e] \in {<<>>, <<e>>}
       /\ received[c][e] # <<>> => call[e] = "done" /\ c \notin cast[e].to
  /\ IsFiniteSet(Erred) /\ Cardinality(Erred) = faults

LEMMA SegmentEmpty == ASSUME NEW r, NEW j \in Nat PROVE Segment(<<>>, r, j)
  BY DEF Segment

LEMMA SegmentSent ==
  ASSUME NEW V, NEW s \in Seq(V), NEW r \in Seq(V), NEW k \in 1..Len(r), Segment(s, r, k - 1)
  PROVE  Segment(Append(s, r[k]), r, k)
<1>1. PICK i \in 0..(k - 1) : i + Len(s) = k - 1 /\ \A n \in 1..Len(s) : s[n] = r[i + n]
  BY DEF Segment
<1>2. /\ Len(s) \in Nat /\ k \in Nat /\ r[k] \in V
      /\ Len(Append(s, r[k])) = Len(s) + 1 /\ Append(s, r[k])[Len(s) + 1] = r[k]
      /\ \A n \in 1..Len(s) : Append(s, r[k])[n] = s[n]
  OBVIOUS
<1>3. i \in 0..k /\ i + Len(Append(s, r[k])) = k /\ i + (Len(s) + 1) = k
  BY <1>1, <1>2
<1>4. \A n \in 1..(Len(s) + 1) : Append(s, r[k])[n] = r[i + n]
  <2> TAKE n \in 1..(Len(s) + 1)
  <2>1. CASE n = Len(s) + 1
    BY <1>2, <1>3, <2>1
  <2>2. CASE n # Len(s) + 1
    <3>1. n \in 1..Len(s)
      BY <1>2, <2>2
    <3> QED BY <1>1, <1>2, <3>1
  <2> QED BY <2>1, <2>2
<1> QED BY <1>2, <1>3, <1>4 DEF Segment

LEMMA SegmentKept ==
  ASSUME NEW V, NEW s \in Seq(V), NEW r \in Seq(V), NEW e \in V, NEW j \in 0..Len(r), Segment(s, r, j)
  PROVE  Segment(s, Append(r, e), j)
<1>1. PICK i \in 0..j : i + Len(s) = j /\ \A n \in 1..Len(s) : s[n] = r[i + n]
  BY DEF Segment
<1>2. Len(s) \in Nat /\ Len(r) \in Nat /\ \A n \in 1..Len(r) : Append(r, e)[n] = r[n]
  OBVIOUS
<1>3. \A n \in 1..Len(s) : i + n \in 1..Len(r)
  BY <1>1, <1>2
<1> QED BY <1>1, <1>2, <1>3 DEF Segment

LEMMA SegmentIsSubSeq ==
  ASSUME NEW V, NEW s \in Seq(V), NEW r \in Seq(V), NEW j \in 0..Len(r), Segment(s, r, j)
  PROVE  \E i \in 0..Len(r), l \in 0..Len(r) : s = SubSeq(r, i + 1, l)
<1>1. PICK i \in 0..j : i + Len(s) = j /\ \A n \in 1..Len(s) : s[n] = r[i + n]
  BY DEF Segment
<1>2. i \in 0..Len(r) /\ Len(s) \in Nat /\ Len(r) \in Nat
  BY <1>1
<1> DEFINE t == SubSeq(r, i + 1, j)
<1>3. /\ t \in Seq(V) /\ Len(t) = Len(s)
      /\ \A n \in 1..Len(s) : t[n] = r[i + n]
  <2>1. \A n \in (i + 1)..j : r[n] \in V
    BY <1>1, <1>2
  <2>2. Len(t) = IF i + 1 <= j THEN j - (i + 1) + 1 ELSE 0
    BY <1>1, <1>2, <2>1, SubSeqProperties
  <2>3. Len(t) = Len(s)
    BY <1>1, <1>2, <2>2
  <2>4. ASSUME NEW n \in 1..Len(s) PROVE t[n] = r[i + n]
    <3>1. t[n] = r[(i + 1) + n - 1] /\ (i + 1) + n - 1 = i + n
      BY <1>1, <1>2, <2>1, <2>3, SubSeqProperties
    <3> QED BY <3>1
  <2> QED BY <1>1, <1>2, <2>1, <2>3, <2>4, SubSeqProperties
<1> HIDE DEF t
<1>4. s = t
  BY <1>1, <1>3, SeqEqual
<1> QED BY <1>2, <1>4 DEF t

\* A sender's broadcast changes, and no other.
CastTo(s, new) ==
  cast' \in [H!Senders -> Cast] /\ cast'[s] = new /\ \A t \in H!Senders : t # s => cast'[t] = cast[t]

LEMMA Casting ==
  ASSUME HubTypes, NEW s \in H!Senders, NEW new \in Cast, cast' = [cast EXCEPT ![s] = new]
  PROVE  CastTo(s, new)
<1> HIDE DEF Cast
<1> QED BY DEF HubTypes, CastTo

LEMMA IdleCast ==
  H!Idle \in Cast /\ H!Idle.event = "none" /\ H!Idle.to = {} /\ H!Idle.dead = {}
  BY DEF H!Idle, Cast

LEMMA PlaceOf ==
  ASSUME HubSettings
  PROVE  /\ \A h \in Hubs : h \in H!Senders /\ H!Place(h) = h /\ h \notin Events
         /\ \A e \in Events : e \in H!Senders /\ H!Place(e) = HubOf[e] /\ HubOf[e] \in Hubs
         /\ \A c \in Conns : HubOf[c] \in Hubs
         /\ \A s \in H!Senders : H!Place(s) \in Hubs
  BY DEF HubSettings, H!Senders, H!Place

LEMMA StartingCast ==
  ASSUME HubSettings, HubTypes, NEW s \in H!Senders, NEW e \in Events, H!Broadcast(s, e)
  PROVE  \E new \in Cast : CastTo(s, new) /\ new.event = e /\ new.to = conns[H!Place(s)] /\ new.dead = {}
                           /\ new # H!Idle /\ ~Broadcasting(s)
<1> DEFINE new == [event |-> e, to |-> conns[H!Place(s)], dead |-> {}]
<1>1. new \in Cast /\ new.event = e /\ new.to = conns[H!Place(s)] /\ new.dead = {}
  BY PlaceOf DEF HubTypes, Cast
<1>2. cast' = [cast EXCEPT ![s] = new] /\ cast[s] = H!Idle
  BY DEF H!Broadcast
<1>3. new # H!Idle
  BY <1>1, IdleCast DEF HubSettings
<1> HIDE DEF new
<1> QED BY <1>1, <1>2, <1>3, Casting DEF Broadcasting

LEMMA SendingCast ==
  ASSUME HubTypes, NEW s \in H!Senders, NEW c \in Conns, H!Send(s, c)
  PROVE  \E new \in Cast : /\ CastTo(s, new) /\ new.event = cast[s].event /\ new.to = cast[s].to \ {c}
                           /\ c \in cast[s].to
                           /\ new.dead = IF client[c] = "open" THEN cast[s].dead ELSE cast[s].dead \cup {c}
<1> DEFINE new == [event |-> cast[s].event, to |-> cast[s].to \ {c},
                   dead |-> IF client[c] = "open" THEN cast[s].dead ELSE cast[s].dead \cup {c}]
<1>1. cast[s] \in Cast
  BY DEF HubTypes
<1>2. cast[s] = [event |-> cast[s].event, to |-> cast[s].to, dead |-> cast[s].dead]
  BY <1>1 DEF Cast
<1>3. new \in Cast
  BY <1>1 DEF Cast
<1>4. cast' = [cast EXCEPT ![s] = new]
  <2>1. CASE client[c] = "open"
    <3>1. cast' = [cast EXCEPT ![s] = [cast[s] EXCEPT !.to = cast[s].to \ {c}]]
      BY <2>1 DEF H!Send
    <3>2. [cast[s] EXCEPT !.to = cast[s].to \ {c}] = new
      BY <1>1, <2>1 DEF Cast
    <3> QED BY <3>1, <3>2
  <2>2. CASE client[c] # "open"
    <3> DEFINE less == [cast[s] EXCEPT !.to = cast[s].to \ {c}]
    <3>1. cast' = [cast EXCEPT ![s] = [less EXCEPT !.dead = cast[s].dead \cup {c}]]
      BY <1>1, <2>2 DEF H!Send, HubTypes
    <3>2. less = [event |-> cast[s].event, to |-> cast[s].to \ {c}, dead |-> cast[s].dead]
      BY <1>1 DEF Cast
    <3>3. less \in Cast
      BY <1>1, <3>2 DEF Cast
    <3> HIDE DEF less
    <3>4. [less EXCEPT !.dead = cast[s].dead \cup {c}] = new
      BY <2>2, <3>2, <3>3 DEF Cast
    <3> QED BY <3>1, <3>4
  <2> QED BY <2>1, <2>2
<1>5. c \in cast[s].to
  BY DEF H!Send
<1>6. /\ new.event = cast[s].event /\ new.to = cast[s].to \ {c}
      /\ new.dead = IF client[c] = "open" THEN cast[s].dead ELSE cast[s].dead \cup {c}
  OBVIOUS
<1> HIDE DEF new
<1> QED BY <1>3, <1>4, <1>5, <1>6, Casting

\* What a send appends, and where.
LEMMA Receiving ==
  ASSUME HubTypes, NEW s \in H!Senders, NEW c \in Conns, cast[s].event \in Events, H!Send(s, c)
  PROVE  /\ received' \in [Conns -> [H!Senders -> Seq(Events)]]
         /\ received'[c][s] = IF client[c] = "open" THEN Append(received[c][s], cast[s].event) ELSE received[c][s]
         /\ \A d \in Conns, t \in H!Senders : d # c \/ t # s => received'[d][t] = received[d][t]
<1>1. received \in [Conns -> [H!Senders -> Seq(Events)]]
  BY DEF HubTypes
<1>2. CASE client[c] = "open"
  <2>1. PICK q \in Seq(Events) : q = Append(received[c][s], cast[s].event)
    <3>1. received[c][s] \in Seq(Events)
      BY <1>1
    <3> QED BY <3>1, AppendProperties
  <2> DEFINE row == [received[c] EXCEPT ![s] = q]
  <2>2. received[c] \in [H!Senders -> Seq(Events)]
    BY <1>1
  <2>3. received' = [received EXCEPT ![c] = row]
    BY <1>2, <2>1, <2>2 DEF H!Send
  <2>4. /\ row \in [H!Senders -> Seq(Events)]
        /\ row[s] = q /\ \A t \in H!Senders : t # s => row[t] = received[c][t]
    BY <2>2
  <2> HIDE DEF row
  <2> QED BY <1>1, <1>2, <2>1, <2>3, <2>4
<1>3. CASE client[c] # "open"
  BY <1>1, <1>3 DEF H!Send
<1> QED BY <1>2, <1>3

\* Whoever is sending has an event to send.
LEMMA SendsEvent ==
  ASSUME HubSettings, HubTypes, Segmented, FellBack, NEW s \in H!Senders, Broadcasting(s)
  PROVE  cast[s].event \in Events
<1>1. CASE s \in Events
  BY <1>1 DEF FellBack
<1>2. CASE s \in Hubs
  <2>1. hub[s] = "listening"
    BY <1>2 DEF Segmented
  <2>2. PICK k \in 0..Len(relayed) : Taken(s, k)
    BY <1>2, <2>1 DEF Segmented
  <2>3. k > 0 /\ cast[s].event = relayed[k]
    BY <2>2 DEF Taken
  <2> QED BY <2>3 DEF HubTypes
<1> QED BY <1>1, <1>2 DEF H!Senders

LEMMA SegmentedFrame ==
  ASSUME Segmented, UNCHANGED <<hub, channel, relayed, received>>, \A h \in Hubs : cast'[h] = cast[h],
         \A c \in Conns : client'[c] = "open" => client[c] = "open"
  PROVE  Segmented'
<1>1. \A h \in Hubs, k \in 0..Len(relayed) : Taken(h, k) => Taken(h, k)'
  BY DEF Taken, Broadcasting
<1> QED BY <1>1 DEF Segmented, Broadcasting

LEMMA FellBackFrame ==
  ASSUME FellBack, UNCHANGED <<received, faults>>, \A e \in Events : cast'[e] = cast[e],
         \A e \in Events : call'[e] = call[e] \/ {call[e], call'[e]} \subseteq {"none", "executed"}
  PROVE  FellBack'
<1>1. Erred' = Erred
  BY DEF Erred
<1>2. \A e \in Events : call[e] = "done" => call'[e] = "done"
  OBVIOUS
<1> QED BY <1>1, <1>2 DEF FellBack, Broadcasting

HubInv == HubTypes /\ Attached /\ Segmented /\ FellBack

LEMMA ClientStep ==
  ASSUME HubSettings, HubInv, NEW c \in Conns, H!Connect(c) \/ H!Close(c) \/ H!Disconnect(c)
  PROVE  HubInv'
<1>0. HubTypes /\ Attached /\ Segmented /\ FellBack /\ HubOf[c] \in Hubs
  BY PlaceOf DEF HubInv
<1>1. FellBack'
  BY <1>0, FellBackFrame DEF H!Connect, H!Close, H!Disconnect
<1>2. UNCHANGED <<hub, channel, call, cast, relayed, received, faults>>
  BY DEF H!Connect, H!Close, H!Disconnect
<1>3. HubTypes'
  <2>1. client \in [Conns -> {"new", "open", "closed", "left"}] /\ conns \in [Hubs -> SUBSET Conns]
    BY <1>0 DEF HubTypes
  <2>2. \E x \in {"open", "closed", "left"} : client' = [client EXCEPT ![c] = x]
    BY DEF H!Connect, H!Close, H!Disconnect
  <2>3. conns' = conns \/ \E x \in SUBSET Conns : conns' = [conns EXCEPT ![HubOf[c]] = x]
    <3>1. conns[HubOf[c]] \cup {c} \in SUBSET Conns /\ conns[HubOf[c]] \ {c} \in SUBSET Conns
      BY <1>0, <2>1
    <3> QED BY <3>1 DEF H!Connect, H!Close, H!Disconnect
  <2>4. client' \in [Conns -> {"new", "open", "closed", "left"}] /\ conns' \in [Hubs -> SUBSET Conns]
    BY <1>0, <2>1, <2>2, <2>3
  <2> QED BY <1>0, <1>2, <2>4 DEF HubTypes
<1>4. CASE H!Connect(c)
  <2>1. /\ client[c] = "new" /\ client'[c] = "open" /\ conns'[HubOf[c]] = conns[HubOf[c]] \cup {c}
        /\ \A d \in Conns : d # c => client'[d] = client[d]
        /\ \A h \in Hubs : h # HubOf[c] => conns'[h] = conns[h]
    BY <1>0, <1>4 DEF HubTypes, H!Connect
  <2>2. Attached'
    <3>1. \A d \in Conns : client[d] # "new" => client'[d] = client[d]
      BY <2>1
    <3>2. \A h \in Hubs : \A d \in conns'[h] : HubOf[d] = h /\ client'[d] # "new"
      <4> SUFFICES ASSUME NEW h \in Hubs, NEW d \in conns'[h] PROVE HubOf[d] = h /\ client'[d] # "new"
        OBVIOUS
      <4>1. conns[h] \subseteq Conns /\ conns'[h] \subseteq Conns
        BY <1>0, <1>3 DEF HubTypes
      <4>2. CASE d = c
        BY <1>0, <2>1, <4>2 DEF Attached
      <4>3. CASE d # c
        BY <1>0, <2>1, <4>1, <4>3 DEF Attached
      <4> QED BY <4>2, <4>3
    <3>3. \A d \in Conns : client'[d] = "open" => d \in conns'[HubOf[d]]
      BY <1>0, <2>1, PlaceOf DEF Attached, HubTypes
    <3>4. \A s \in H!Senders : cast[s].to \subseteq Conns /\ cast[s].dead \subseteq Conns
      BY <1>0 DEF HubTypes, Cast
    <3> QED BY <1>0, <1>2, <2>1, <3>1, <3>2, <3>3, <3>4 DEF Attached
  <2>3. \A s \in H!Senders : received[c][s] = <<>> /\ c \notin cast[s].to
    BY <1>0, <2>1 DEF Attached
  <2>4. Segmented'
    <3>1. ASSUME NEW h \in Hubs, NEW k \in 0..Len(relayed), Taken(h, k) PROVE Taken(h, k)'
      <4>1. k \in Nat /\ h \in H!Senders
        BY <1>0, PlaceOf DEF HubTypes
      <4>2. \A d \in Conns : client'[d] = "open" /\ HubOf[d] = h =>
              Segment(received[d][h], relayed, IF d \in cast[h].to THEN k - 1 ELSE k)
        BY <2>1, <2>3, <3>1, <4>1, SegmentEmpty DEF Taken
      <4> QED BY <1>2, <3>1, <4>2 DEF Taken, Broadcasting
    <3> QED BY <1>0, <1>2, <3>1 DEF Segmented, Broadcasting
  <2> QED BY <1>1, <1>3, <2>2, <2>4 DEF HubInv
<1>5. CASE H!Close(c) \/ H!Disconnect(c)
  <2>1. /\ client[c] # "new" /\ client'[c] \notin {"new", "open"}
        /\ \A d \in Conns : d # c => client'[d] = client[d]
        /\ \A h \in Hubs : conns'[h] \subseteq conns[h] /\ conns[h] \subseteq conns'[h] \cup {c}
    <3>1. client \in [Conns -> {"new", "open", "closed", "left"}] /\ conns \in [Hubs -> SUBSET Conns]
      BY <1>0 DEF HubTypes
    <3>2. conns' = conns \/ conns' = [conns EXCEPT ![HubOf[c]] = conns[HubOf[c]] \ {c}]
      BY <1>5 DEF H!Close, H!Disconnect
    <3>3. \A h \in Hubs : conns'[h] = conns[h] \/ conns'[h] = conns[h] \ {c}
      BY <3>1, <3>2
    <3> QED BY <1>5, <3>1, <3>3 DEF H!Close, H!Disconnect
  <2>2. Segmented'
    BY <1>0, <1>2, <2>1, SegmentedFrame
  <2>3. Attached'
    <3>1. \A d \in Conns : (client[d] # "new" => client'[d] # "new") /\ (client'[d] = "open" => client[d] = "open")
                           /\ (client'[d] = "new" => client[d] = "new")
      BY <2>1
    <3>2. \A s \in H!Senders : cast[s].to \subseteq Conns /\ cast[s].dead \subseteq Conns
      BY <1>0 DEF HubTypes, Cast
    <3>3. \A h \in Hubs : \A d \in conns'[h] : HubOf[d] = h /\ client'[d] # "new"
      BY <1>0, <2>1, <3>1 DEF Attached, HubTypes
    <3>4. \A d \in Conns : client'[d] = "open" => d \in conns'[HubOf[d]]
      BY <1>0, <2>1, <3>1, PlaceOf DEF Attached
    <3>5. \A s \in H!Senders : \A d \in cast[s].to : HubOf[d] = H!Place(s) /\ client'[d] # "new"
      BY <1>0, <3>1, <3>2 DEF Attached
    <3>6. \A s \in H!Senders : \A d \in cast[s].dead : client'[d] \notin {"new", "open"}
      BY <1>0, <3>1, <3>2 DEF Attached
    <3>7. \A d \in Conns : client'[d] = "new" => \A s \in H!Senders : received[d][s] = <<>>
      BY <1>0, <3>1 DEF Attached
    <3> QED BY <1>2, <3>3, <3>4, <3>5, <3>6, <3>7 DEF Attached
  <2> QED BY <1>1, <1>3, <2>2, <2>3 DEF HubInv
<1> QED BY <1>4, <1>5

LEMMA AttachedFrame ==
  ASSUME Attached, UNCHANGED <<client, conns, received>>,
         \A s \in H!Senders : cast'[s].to \subseteq cast[s].to /\ cast'[s].dead \subseteq cast[s].dead
  PROVE  Attached'
  BY DEF Attached

LEMMA PublishStep ==
  ASSUME HubSettings, HubInv, NEW e \in Events, H!Publish(e)
  PROVE  HubInv'
<1>0. HubTypes /\ Attached /\ Segmented /\ FellBack
  BY DEF HubInv
<1>1. /\ UNCHANGED <<client, conns, hub, cast, received, faults>> /\ relayed' = Append(relayed, e)
      /\ call[e] = "none" /\ call' = [call EXCEPT ![e] = "executed"]
      /\ relayed \in Seq(Events) /\ channel \in [Hubs -> Seq(Events)]
      /\ channel' = [h \in Hubs |-> IF hub[h] = "listening" THEN Append(channel[h], e) ELSE channel[h]]
  BY <1>0 DEF H!Publish, HubTypes
<1>2. /\ relayed' \in Seq(Events) /\ Len(relayed) \in Nat /\ Len(relayed') = Len(relayed) + 1
      /\ relayed'[Len(relayed) + 1] = e /\ \A n \in 1..Len(relayed) : relayed'[n] = relayed[n]
  BY <1>1
<1>3. HubTypes'
  <2>1. channel' \in [Hubs -> Seq(Events)] /\ call' \in [Events -> {"none", "executed", "failed", "done"}]
    BY <1>0, <1>1 DEF HubTypes
  <2> QED BY <1>0, <1>1, <1>2, <2>1 DEF HubTypes
<1>4. Attached'
  BY <1>0, <1>1, AttachedFrame
<1>5. FellBack'
  <2>1. \A d \in Events : call'[d] = call[d] \/ {call[d], call'[d]} \subseteq {"none", "executed"}
    BY <1>0, <1>1 DEF HubTypes
  <2> QED BY <1>0, <1>1, <2>1, FellBackFrame
<1>6. \A c \in Conns, s \in H!Senders, j \in 0..Len(relayed) :
        Segment(received[c][s], relayed, j) => Segment(received[c][s], relayed', j)
  BY <1>0, <1>1, SegmentKept DEF HubTypes
<1>7. ASSUME NEW h \in Hubs, hub[h] = "listening", NEW k \in 0..Len(relayed), Taken(h, k) PROVE Taken(h, k)'
  <2>1. /\ channel[h] \in Seq(Events) /\ channel'[h] = Append(channel[h], e) /\ Len(channel[h]) \in Nat
        /\ Len(channel'[h]) = Len(channel[h]) + 1 /\ channel'[h][Len(channel[h]) + 1] = e
        /\ \A n \in 1..Len(channel[h]) : channel'[h][n] = channel[h][n]
    BY <1>1, <1>7
  <2>2. k \in Nat /\ k + Len(channel[h]) = Len(relayed) /\ k + Len(channel'[h]) = Len(relayed')
    <3>1. k \in Nat /\ k + Len(channel[h]) = Len(relayed)
      BY <1>2, <1>7 DEF Taken
    <3>2. PICK m \in Nat : m = Len(channel[h]) /\ Len(channel'[h]) = m + 1
      BY <2>1
    <3>3. PICK n \in Nat : n = Len(relayed) /\ Len(relayed') = n + 1
      BY <1>2
    <3>4. k + (m + 1) = n + 1
      BY <3>1, <3>2, <3>3
    <3> QED BY <3>1, <3>2, <3>3, <3>4
  <2>3. \A n \in 1..(Len(channel[h]) + 1) : channel'[h][n] = relayed'[k + n]
    <3> TAKE n \in 1..(Len(channel[h]) + 1)
    <3>1. CASE n = Len(channel[h]) + 1
      <4>1. k + n = Len(relayed) + 1
        <5>1. PICK m \in Nat : m = Len(channel[h]) /\ k + m = Len(relayed) /\ k \in Nat
          BY <2>1, <2>2
        <5> QED BY <3>1, <5>1
      <4> QED BY <1>2, <2>1, <3>1, <4>1
    <3>2. CASE n # Len(channel[h]) + 1
      <4>1. n \in 1..Len(channel[h]) /\ k + n \in 1..Len(relayed)
        BY <2>1, <2>2, <3>2
      <4> QED BY <1>2, <1>7, <2>1, <4>1 DEF Taken
    <3> QED BY <3>1, <3>2
  <2>4. Broadcasting(h) => k > 0 /\ cast[h].event = relayed'[k]
    BY <1>2, <1>7 DEF Taken
  <2>5. \A c \in Conns : client[c] = "open" /\ HubOf[c] = h =>
          Segment(received[c][h], relayed', IF c \in cast[h].to THEN k - 1 ELSE k)
    <3> SUFFICES ASSUME NEW c \in Conns, client[c] = "open", HubOf[c] = h
                 PROVE  Segment(received[c][h], relayed', IF c \in cast[h].to THEN k - 1 ELSE k)
      OBVIOUS
    <3>1. c \in cast[h].to => k - 1 \in 0..Len(relayed)
      BY <2>2, <2>4, IdleCast DEF Broadcasting
    <3>2. h \in H!Senders
      BY PlaceOf
    <3> QED BY <1>6, <1>7, <3>1, <3>2 DEF Taken
  <2> QED BY <1>1, <2>1, <2>2, <2>3, <2>4, <2>5 DEF Taken, Broadcasting
<1>8. \A j \in 0..Len(relayed) : j \in 0..Len(relayed')
  BY <1>2
<1>9. \A c \in Conns : \E j \in 0..Len(relayed') : Segment(received[c][HubOf[c]], relayed', j)
  BY <1>0, <1>6, <1>8, PlaceOf DEF Segmented
<1>10. Segmented'
  BY <1>0, <1>1, <1>7, <1>8, <1>9 DEF Segmented, Broadcasting
<1> QED BY <1>3, <1>4, <1>5, <1>10 DEF HubInv

LEMMA RaiseStep ==
  ASSUME HubSettings, HubInv, NEW e \in Events, H!Raise(e)
  PROVE  HubInv'
<1>0. HubTypes /\ Attached /\ Segmented /\ FellBack
  BY DEF HubInv
<1>1. /\ UNCHANGED <<client, conns, hub, channel, cast, relayed, received>>
      /\ call[e] \in {"none", "executed"} /\ call' = [call EXCEPT ![e] = "failed"] /\ faults' = faults + 1
  BY DEF H!Raise
<1>2. HubTypes' /\ Attached' /\ Segmented'
  BY <1>0, <1>1, AttachedFrame, SegmentedFrame DEF HubTypes
<1>3. \A d \in Events : call[d] = "done" <=> call'[d] = "done"
  BY <1>0, <1>1 DEF HubTypes
<1>4. IsFiniteSet(Erred') /\ Cardinality(Erred') = faults'
  <2>1. Erred' = Erred \cup {e} /\ e \notin Erred
    BY <1>0, <1>1 DEF Erred, HubTypes
  <2> QED BY <1>0, <1>1, <2>1, FS_AddElement DEF FellBack
<1>5. FellBack'
  BY <1>0, <1>1, <1>3, <1>4 DEF FellBack, Broadcasting
<1> QED BY <1>2, <1>5 DEF HubInv

LEMMA FallBackStep ==
  ASSUME HubSettings, HubInv, NEW e \in Events, H!FallBack(e)
  PROVE  HubInv'
<1>0. HubTypes /\ Attached /\ Segmented /\ FellBack
  BY DEF HubInv
<1>1. /\ UNCHANGED <<client, conns, hub, channel, relayed, received, faults>>
      /\ call[e] = "failed" /\ call' = [call EXCEPT ![e] = "done"]
  BY DEF H!FallBack
<1>2. e \in H!Senders /\ H!Place(e) = HubOf[e] /\ HubOf[e] \in Hubs /\ \A h \in Hubs : h # e /\ h \in H!Senders
  BY PlaceOf
<1>3. PICK new \in Cast : CastTo(e, new) /\ new.event = e /\ new.to = conns[H!Place(e)] /\ new.dead = {}
  BY <1>0, <1>2, StartingCast DEF H!FallBack
<1>4. HubTypes'
  BY <1>0, <1>1, <1>3 DEF HubTypes, CastTo
<1>5. Segmented'
  BY <1>0, <1>1, <1>2, <1>3, SegmentedFrame DEF CastTo
<1>6. Attached'
  <2>1. \A s \in H!Senders : s # e => cast'[s] = cast[s]
    BY <1>3 DEF CastTo
  <2>2. cast'[e].to = conns[HubOf[e]] /\ cast'[e].dead = {}
    BY <1>2, <1>3 DEF CastTo
  <2>3. \A s \in H!Senders : \A c \in cast'[s].to : HubOf[c] = H!Place(s) /\ client[c] # "new"
    BY <1>0, <1>2, <2>1, <2>2 DEF Attached
  <2>4. \A s \in H!Senders : \A c \in cast'[s].dead : client[c] \notin {"new", "open"}
    BY <1>0, <1>2, <2>1, <2>2 DEF Attached
  <2> QED BY <1>0, <1>1, <2>3, <2>4 DEF Attached
<1>7. FellBack'
  <2>1. Erred' = Erred
    BY <1>0, <1>1 DEF Erred, HubTypes
  <2>2. \A d \in Events : d # e => call'[d] = call[d] /\ cast'[d] = cast[d]
    BY <1>0, <1>1, <1>3, PlaceOf DEF HubTypes, CastTo
  <2>3. call'[e] = "done" /\ cast'[e].event = e /\ \A c \in Conns : received[c][e] = <<>>
    BY <1>0, <1>1, <1>3 DEF HubTypes, CastTo, FellBack
  <2>4. \A d \in Events : Broadcasting(d)' => call'[d] = "done" /\ cast'[d].event = d
    BY <1>0, <2>2, <2>3 DEF FellBack, Broadcasting
  <2>5. \A c \in Conns, d \in Events : received[c][d] # <<>> => call'[d] = "done" /\ c \notin cast'[d].to
    BY <1>0, <2>2, <2>3 DEF FellBack
  <2> QED BY <1>0, <1>1, <2>1, <2>4, <2>5 DEF FellBack
<1> QED BY <1>4, <1>5, <1>6, <1>7 DEF HubInv

LEMMA ListenStep ==
  ASSUME HubSettings, HubInv, NEW h \in Hubs, H!Listen(h)
  PROVE  HubInv'
<1>0. HubTypes /\ Attached /\ Segmented /\ FellBack /\ h \in H!Senders /\ H!Place(h) = h /\ h \notin Events
  BY PlaceOf DEF HubInv
<1>1. /\ UNCHANGED <<client, conns, hub, call, relayed, received, faults>> /\ hub[h] = "listening"
      /\ channel[h] # <<>> /\ channel[h] \in Seq(Events) /\ channel' = [channel EXCEPT ![h] = Tail(channel[h])]
      /\ relayed \in Seq(Events)
  BY <1>0 DEF H!Listen, HubTypes
<1>2. PICK m \in Nat : m = Len(channel[h]) /\ m > 0
  BY <1>1
<1>3. PICK tail \in Seq(Events) : /\ tail = Tail(channel[h]) /\ Len(tail) + 1 = m
                                  /\ \A n \in 1..Len(tail) : tail[n] = channel[h][n + 1]
  <2>1. Tail(channel[h]) \in Seq(Events) /\ Len(Tail(channel[h])) = m - 1
        /\ \A n \in 1..Len(Tail(channel[h])) : Tail(channel[h])[n] = channel[h][n + 1]
    BY <1>1, <1>2, HeadTailProperties
  <2>2. Len(Tail(channel[h])) + 1 = m
    BY <1>2, <2>1
  <2> QED BY <2>1, <2>2
<1>4. Head(channel[h]) = channel[h][1] /\ channel[h][1] \in Events
  BY <1>1, <1>2
<1>5. PICK new \in Cast : /\ CastTo(h, new) /\ new.event = channel[h][1] /\ new.to = conns[h] /\ new.dead = {}
                          /\ ~Broadcasting(h)
  <2>1. PICK e \in Events : e = channel[h][1] /\ H!Broadcast(h, e)
    BY <1>4 DEF H!Listen
  <2> QED BY <1>0, <2>1, StartingCast
<1>6. /\ channel' \in [Hubs -> Seq(Events)] /\ channel'[h] = tail
      /\ \A g \in Hubs : g # h => channel'[g] = channel[g]
  BY <1>0, <1>1, <1>3 DEF HubTypes
<1>7. HubTypes'
  BY <1>0, <1>1, <1>5, <1>6 DEF HubTypes, CastTo
<1>8. \A s \in H!Senders : s # h => cast'[s] = cast[s]
  BY <1>5 DEF CastTo
<1>9. cast'[h] = new
  BY <1>5 DEF CastTo
<1>10. Attached'
  <2>1. \A s \in H!Senders : \A c \in cast'[s].to : HubOf[c] = H!Place(s) /\ client[c] # "new"
    BY <1>0, <1>5, <1>8, <1>9 DEF Attached
  <2>2. \A s \in H!Senders : \A c \in cast'[s].dead : client[c] \notin {"new", "open"}
    BY <1>0, <1>5, <1>8, <1>9 DEF Attached
  <2> QED BY <1>0, <1>1, <2>1, <2>2 DEF Attached
<1>11. FellBack'
  <2>1. \A e \in Events : cast'[e] = cast[e]
    BY <1>0, <1>8, PlaceOf
  <2> QED BY <1>0, <1>1, <2>1, FellBackFrame
<1>12. PICK k \in 0..Len(relayed) : Taken(h, k)
  BY <1>0, <1>1 DEF Segmented
<1>13. k + 1 \in 0..Len(relayed) /\ k \in Nat /\ (k + 1) + Len(tail) = Len(relayed)
  <2>1. k + m = Len(relayed) /\ Len(relayed) \in Nat /\ k \in Nat
    BY <1>1, <1>2, <1>12 DEF Taken
  <2> QED BY <1>2, <1>3, <2>1
<1>14. Taken(h, k + 1)'
  <2>1. \A n \in 1..Len(tail) : tail[n] = relayed[(k + 1) + n]
    <3> TAKE n \in 1..Len(tail)
    <3>1. n + 1 \in 1..Len(channel[h]) /\ (k + 1) + n = k + (n + 1)
      <4>1. Len(tail) \in Nat /\ n \in Nat /\ k \in Nat /\ n >= 1 /\ n <= Len(tail)
        BY <1>3, <1>13
      <4>2. Len(channel[h]) = Len(tail) + 1 /\ k \in Nat
        BY <1>2, <1>3, <1>13
      <4> QED BY <4>1, <4>2
    <3> QED BY <1>3, <1>12, <3>1 DEF Taken
  <2>2. channel[h][1] = relayed[k + 1]
    BY <1>2, <1>12 DEF Taken
  <2>3. \A c \in Conns : client[c] = "open" /\ HubOf[c] = h =>
          c \in new.to /\ Segment(received[c][h], relayed, k)
    <3>1. \A c \in Conns : c \notin cast[h].to
      BY <1>5, IdleCast DEF Broadcasting
    <3> QED BY <1>0, <1>5, <1>12, <3>1 DEF Taken, Attached
  <2>4. (k + 1) - 1 = k /\ k + 1 > 0
    BY <1>13
  <2> QED BY <1>1, <1>5, <1>6, <1>9, <1>13, <2>1, <2>2, <2>3, <2>4 DEF Taken
<1>15. ASSUME NEW g \in Hubs, g # h, hub[g] = "listening", NEW l \in 0..Len(relayed), Taken(g, l) PROVE Taken(g, l)'
  <2>1. cast'[g] = cast[g]
    BY <1>8, <1>15, PlaceOf
  <2> QED BY <1>1, <1>6, <1>15, <2>1 DEF Taken, Broadcasting
<1>16. \A g \in Hubs : IF hub'[g] = "listening" THEN \E l \in 0..Len(relayed) : Taken(g, l)'
                                                ELSE cast'[g] = H!Idle
  <2> TAKE g \in Hubs
  <2>1. CASE g = h
    BY <1>1, <1>13, <1>14, <2>1
  <2>2. CASE g # h
    <3>1. cast'[g] = cast[g]
      BY <1>8, <2>2, PlaceOf
    <3> QED BY <1>0, <1>1, <1>15, <2>2, <3>1 DEF Segmented, Broadcasting
  <2> QED BY <2>1, <2>2
<1>17. Segmented'
  BY <1>0, <1>1, <1>16 DEF Segmented, Broadcasting
<1> QED BY <1>7, <1>10, <1>11, <1>17 DEF HubInv

LEMMA SendStep ==
  ASSUME HubSettings, HubInv, NEW s \in H!Senders, NEW c \in Conns, H!Send(s, c)
  PROVE  HubInv'
<1>0. HubTypes /\ Attached /\ Segmented /\ FellBack
  BY DEF HubInv
<1>1. UNCHANGED <<client, conns, hub, channel, call, relayed, faults>> /\ relayed \in Seq(Events)
  BY <1>0 DEF H!Send, HubTypes
<1>2. PICK new \in Cast : /\ CastTo(s, new) /\ new.event = cast[s].event /\ new.to = cast[s].to \ {c}
                          /\ c \in cast[s].to
                          /\ new.dead = IF client[c] = "open" THEN cast[s].dead ELSE cast[s].dead \cup {c}
  BY <1>0, SendingCast
<1>3. Broadcasting(s) /\ HubOf[c] = H!Place(s) /\ client[c] # "new"
  BY <1>0, <1>2, IdleCast DEF Broadcasting, Attached
<1>4. cast[s].event \in Events
  BY <1>0, <1>3, SendsEvent
<1>5. /\ received' \in [Conns -> [H!Senders -> Seq(Events)]]
      /\ received'[c][s] = IF client[c] = "open" THEN Append(received[c][s], cast[s].event) ELSE received[c][s]
      /\ \A d \in Conns, t \in H!Senders : d # c \/ t # s => received'[d][t] = received[d][t]
  BY <1>0, <1>4, Receiving
<1>6. HubTypes'
  BY <1>0, <1>1, <1>2, <1>5 DEF HubTypes, CastTo
<1>7. cast'[s] = new /\ \A t \in H!Senders : t # s => cast'[t] = cast[t]
  BY <1>2 DEF CastTo
<1>8. Attached'
  <2>1. \A t \in H!Senders : \A d \in cast'[t].to : HubOf[d] = H!Place(t) /\ client[d] # "new"
    BY <1>0, <1>2, <1>7 DEF Attached
  <2>2. \A t \in H!Senders : \A d \in cast'[t].dead : client[d] \notin {"new", "open"}
    BY <1>0, <1>2, <1>3, <1>7 DEF Attached
  <2>3. \A d \in Conns : client[d] = "new" => \A t \in H!Senders : received'[d][t] = <<>>
    <3>1. ASSUME NEW d \in Conns, client[d] = "new", NEW t \in H!Senders PROVE received'[d][t] = <<>>
      <4>1. d # c /\ received[d][t] = <<>>
        BY <1>0, <1>3, <3>1 DEF Attached
      <4> QED BY <1>5, <4>1
    <3> QED BY <3>1
  <2> QED BY <1>0, <1>1, <2>1, <2>2, <2>3 DEF Attached
<1>9. CASE s \in Events
  <2>1. \A h \in Hubs : h # s /\ h \in H!Senders /\ HubOf[c] \in Hubs
    BY <1>9, PlaceOf
  <2>2. \A d \in Conns : HubOf[d] \in Hubs /\ received'[d][HubOf[d]] = received[d][HubOf[d]]
    BY <1>5, <2>1, PlaceOf
  <2>3. \A h \in Hubs : cast'[h] = cast[h] /\ \A d \in Conns : received'[d][h] = received[d][h]
    BY <1>5, <1>7, <2>1
  <2>4. \A h \in Hubs, k \in 0..Len(relayed) : Taken(h, k) => Taken(h, k)'
    BY <1>1, <2>3 DEF Taken, Broadcasting
  <2>5. Segmented'
    BY <1>0, <1>1, <2>2, <2>3, <2>4 DEF Segmented, Broadcasting
  <2>6. call[s] = "done" /\ cast[s].event = s /\ received[c][s] = <<>>
    BY <1>0, <1>2, <1>3, <1>9 DEF FellBack
  <2>7. received'[c][s] \in {<<>>, <<s>>}
    BY <1>5, <2>6
  <2>8. \A e \in Events : Broadcasting(e)' => call[e] = "done" /\ cast'[e].event = e
    <3>1. \A e \in Events : e \in H!Senders
      BY PlaceOf
    <3> QED BY <1>0, <1>2, <1>7, <2>6, <3>1 DEF FellBack, Broadcasting
  <2>9. \A d \in Conns, e \in Events :
          /\ received'[d][e] \in {<<>>, <<e>>}
          /\ received'[d][e] # <<>> => call[e] = "done" /\ d \notin cast'[e].to
    <3> SUFFICES ASSUME NEW d \in Conns, NEW e \in Events
                 PROVE  /\ received'[d][e] \in {<<>>, <<e>>}
                        /\ received'[d][e] # <<>> => call[e] = "done" /\ d \notin cast'[e].to
      OBVIOUS
    <3>1. e \in H!Senders
      BY PlaceOf
    <3>2. CASE d = c /\ e = s
      BY <1>2, <1>7, <2>6, <2>7, <3>2
    <3>3. CASE ~(d = c /\ e = s)
      <4>1. received'[d][e] = received[d][e]
        BY <1>5, <3>1, <3>3
      <4>2. d \in cast'[e].to => d \in cast[e].to
        BY <1>2, <1>7, <3>1
      <4> QED BY <1>0, <4>1, <4>2 DEF FellBack
    <3> QED BY <3>2, <3>3
  <2>10. FellBack'
    BY <1>0, <1>1, <2>8, <2>9 DEF FellBack, Erred
  <2> QED BY <1>6, <1>8, <2>5, <2>10 DEF HubInv
<1>10. CASE s \in Hubs
  <2>1. HubOf[c] = s /\ s \notin Events /\ \A e \in Events : e \in H!Senders /\ e # s
    BY <1>3, <1>10, PlaceOf
  <2>2. \A e \in Events : cast'[e] = cast[e] /\ \A d \in Conns : received'[d][e] = received[d][e]
    BY <1>5, <1>7, <2>1
  <2>3. FellBack'
    BY <1>0, <1>1, <2>2 DEF FellBack, Broadcasting, Erred
  <2>4. hub[s] = "listening"
    BY <1>0, <1>3, <1>10 DEF Segmented
  <2>5. PICK k \in 0..Len(relayed) : Taken(s, k)
    BY <1>0, <1>10, <2>4 DEF Segmented
  <2>6. k \in 1..Len(relayed) /\ cast[s].event = relayed[k]
    BY <1>1, <1>3, <2>5 DEF Taken
  <2>7. client[c] = "open" => Segment(received'[c][s], relayed, k)
    <3>1. client[c] = "open" => Segment(received[c][s], relayed, k - 1)
      BY <1>2, <2>1, <2>5 DEF Taken
    <3>2. received[c][s] \in Seq(Events)
      BY <1>0 DEF HubTypes
    <3> QED BY <1>1, <1>5, <2>6, <3>1, <3>2, SegmentSent
  <2>8. Taken(s, k)'
    <3>1. \A d \in Conns : client[d] = "open" /\ HubOf[d] = s =>
            Segment(received'[d][s], relayed, IF d \in new.to THEN k - 1 ELSE k)
      <4> SUFFICES ASSUME NEW d \in Conns, client[d] = "open", HubOf[d] = s
                   PROVE  Segment(received'[d][s], relayed, IF d \in new.to THEN k - 1 ELSE k)
        OBVIOUS
      <4>1. CASE d = c
        BY <1>2, <2>7, <4>1
      <4>2. CASE d # c
        BY <1>2, <1>5, <2>5, <4>2 DEF Taken
      <4> QED BY <4>1, <4>2
    <3> QED BY <1>1, <1>2, <1>7, <2>5, <2>6, <3>1 DEF Taken
  <2>9. ASSUME NEW g \in Hubs, g # s, NEW l \in 0..Len(relayed), Taken(g, l) PROVE Taken(g, l)'
    <3>1. g \in H!Senders /\ cast'[g] = cast[g] /\ \A d \in Conns : received'[d][g] = received[d][g]
      BY <1>5, <1>7, <2>9, PlaceOf
    <3> QED BY <1>1, <2>9, <3>1 DEF Taken, Broadcasting
  <2>10. \A g \in Hubs : IF hub[g] = "listening" THEN \E l \in 0..Len(relayed) : Taken(g, l)'
                                                 ELSE cast'[g] = H!Idle
    <3> TAKE g \in Hubs
    <3>1. CASE g = s
      BY <2>4, <2>8, <3>1
    <3>2. CASE g # s
      <4>1. cast'[g] = cast[g]
        BY <1>7, <3>2, PlaceOf
      <4> QED BY <1>0, <2>9, <3>2, <4>1 DEF Segmented, Broadcasting
    <3> QED BY <3>1, <3>2
  <2>11. \A d \in Conns : \E j \in 0..Len(relayed) : Segment(received'[d][HubOf[d]], relayed, j)
    <3> TAKE d \in Conns
    <3>1. HubOf[d] \in H!Senders
      BY PlaceOf
    <3>2. CASE d = c /\ client[c] = "open"
      BY <2>1, <2>7, <3>2
    <3>3. CASE ~(d = c /\ client[c] = "open")
      <4>1. received'[d][HubOf[d]] = received[d][HubOf[d]]
        BY <1>5, <2>1, <3>1, <3>3
      <4> QED BY <1>0, <4>1 DEF Segmented
    <3> QED BY <3>2, <3>3
  <2>12. Segmented'
    BY <1>1, <2>10, <2>11 DEF Segmented, Broadcasting
  <2> QED BY <1>6, <1>8, <2>3, <2>12 DEF HubInv
<1> QED BY <1>9, <1>10 DEF H!Senders

LEMMA EndBroadcastStep ==
  ASSUME HubSettings, HubInv, NEW s \in H!Senders, H!EndBroadcast(s)
  PROVE  HubInv'
<1>0. HubTypes /\ Attached /\ Segmented /\ FellBack /\ H!Place(s) \in Hubs
  BY PlaceOf DEF HubInv
<1>1. UNCHANGED <<client, hub, channel, call, relayed, received, faults>> /\ cast[s].to = {}
  BY DEF H!EndBroadcast
<1>2. CastTo(s, H!Idle)
  BY <1>0, IdleCast, Casting DEF H!EndBroadcast
<1>3. /\ conns' \in [Hubs -> SUBSET Conns]
      /\ \A h \in Hubs : /\ conns'[h] \subseteq conns[h]
                         /\ \A c \in conns[h] : c \in conns'[h] \/ c \in cast[s].dead
  <2>1. conns \in [Hubs -> SUBSET Conns]
    BY <1>0 DEF HubTypes
  <2>2. conns' = [conns EXCEPT ![H!Place(s)] = conns[H!Place(s)] \ cast[s].dead]
    BY DEF H!EndBroadcast
  <2> QED BY <1>0, <2>1, <2>2
<1>4. HubTypes'
  BY <1>0, <1>1, <1>2, <1>3 DEF HubTypes, CastTo
<1>5. \A t \in H!Senders : /\ cast'[t] = cast[t] \/ (cast'[t] = H!Idle /\ cast[t].to = {})
                           /\ cast'[t].to = cast[t].to /\ cast'[t].dead \subseteq cast[t].dead
  BY <1>1, <1>2, IdleCast DEF CastTo
<1>6. Attached'
  <2>1. \A c \in cast[s].dead : client[c] # "open"
    BY <1>0 DEF Attached
  <2>2. \A h \in Hubs : \A c \in conns'[h] : HubOf[c] = h /\ client[c] # "new"
    BY <1>0, <1>3 DEF Attached
  <2>3. \A c \in Conns : client[c] = "open" => c \in conns'[HubOf[c]]
    BY <1>0, <1>3, <2>1, PlaceOf DEF Attached
  <2> QED BY <1>0, <1>1, <1>5, <2>2, <2>3 DEF Attached
<1>7. FellBack'
  <2>1. \A e \in Events : e \in H!Senders
    BY PlaceOf
  <2> QED BY <1>0, <1>1, <1>5, <2>1 DEF FellBack, Broadcasting, Erred
<1>8. Segmented'
  <2>1. \A h \in Hubs : h \in H!Senders
    BY PlaceOf
  <2>2. \A h \in Hubs, k \in 0..Len(relayed) : Taken(h, k) => Taken(h, k)'
    BY <1>1, <1>5, <2>1 DEF Taken, Broadcasting
  <2> QED BY <1>0, <1>1, <1>5, <2>1, <2>2 DEF Segmented, Broadcasting
<1> QED BY <1>4, <1>6, <1>7, <1>8 DEF HubInv

LEMMA ListenerEndsStep ==
  ASSUME HubSettings, HubInv, NEW h \in Hubs, H!ListenerEnds(h)
  PROVE  HubInv'
<1>0. HubTypes /\ Attached /\ Segmented /\ FellBack /\ h \in H!Senders
  BY PlaceOf DEF HubInv
<1>1. /\ UNCHANGED <<client, conns, call, relayed, received, faults>>
      /\ hub' = [hub EXCEPT ![h] = "ended"] /\ channel' = [channel EXCEPT ![h] = <<>>]
  BY DEF H!ListenerEnds, H!AfterError
<1>2. CastTo(h, H!Idle)
  BY <1>0, IdleCast, Casting DEF H!ListenerEnds
<1>3. HubTypes'
  BY <1>0, <1>1, <1>2 DEF HubTypes, CastTo
<1>4. \A s \in H!Senders : s # h => cast'[s] = cast[s]
  BY <1>2 DEF CastTo
<1>5. cast'[h] = H!Idle
  BY <1>2 DEF CastTo
<1>6. Attached'
  <2>1. \A s \in H!Senders : cast'[s].to \subseteq cast[s].to /\ cast'[s].dead \subseteq cast[s].dead
    BY <1>4, <1>5, IdleCast
  <2> QED BY <1>0, <1>1, <2>1, AttachedFrame
<1>7. FellBack'
  <2>1. \A e \in Events : cast'[e] = cast[e]
    BY <1>4, PlaceOf
  <2> QED BY <1>0, <1>1, <2>1, FellBackFrame
<1>8. \A g \in Hubs : IF hub'[g] = "listening" THEN \E l \in 0..Len(relayed) : Taken(g, l)'
                                              ELSE cast'[g] = H!Idle
  <2> TAKE g \in Hubs
  <2>1. CASE g = h
    BY <1>0, <1>1, <1>5, <2>1 DEF HubTypes
  <2>2. CASE g # h
    <3>1. cast'[g] = cast[g] /\ hub'[g] = hub[g] /\ channel'[g] = channel[g]
      BY <1>0, <1>1, <1>4, <2>2, PlaceOf DEF HubTypes
    <3>2. \A l \in 0..Len(relayed) : Taken(g, l) => Taken(g, l)'
      BY <1>1, <3>1 DEF Taken, Broadcasting
    <3> QED BY <1>0, <3>1, <3>2 DEF Segmented, Broadcasting
  <2> QED BY <2>1, <2>2
<1>9. Segmented'
  BY <1>0, <1>1, <1>8 DEF Segmented, Broadcasting
<1> QED BY <1>3, <1>6, <1>7, <1>9 DEF HubInv

LEMMA HubInit == ASSUME HubSettings PROVE H!Init => HubInv
<1> SUFFICES ASSUME H!Init PROVE HubInv
  OBVIOUS
<1>1. /\ client = [c \in Conns |-> "new"] /\ conns = [h \in Hubs |-> {}] /\ hub = [h \in Hubs |-> "listening"]
      /\ channel = [h \in Hubs |-> <<>>] /\ call = [e \in Events |-> "none"] /\ cast = [s \in H!Senders |-> H!Idle]
      /\ relayed = <<>> /\ received = [c \in Conns |-> [s \in H!Senders |-> <<>>]] /\ faults = 0
  BY DEF H!Init
<1>2. HubTypes
  BY <1>1, IdleCast DEF HubTypes
<1>3. Attached
  BY <1>1, IdleCast DEF Attached
<1>4. Segmented
  <2>1. 0 \in 0..Len(relayed) /\ Len(relayed) = 0
    BY <1>1
  <2>2. \A h \in Hubs : h \in H!Senders /\ cast[h] = H!Idle /\ Len(channel[h]) = 0
    BY <1>1, PlaceOf
  <2>3. \A h \in Hubs : Taken(h, 0)
    BY <1>1, <2>1, <2>2 DEF Taken, Broadcasting
  <2>4. \A c \in Conns : received[c][HubOf[c]] = <<>>
    BY <1>1, PlaceOf
  <2>5. \A c \in Conns : Segment(received[c][HubOf[c]], relayed, 0)
    BY <2>4, SegmentEmpty
  <2> QED BY <1>1, <2>1, <2>3, <2>5 DEF Segmented
<1>5. FellBack
  <2>1. Erred = {}
    BY <1>1 DEF Erred
  <2>2. \A c \in Conns, e \in Events : received[c][e] = <<>> /\ cast[e] = H!Idle
    BY <1>1, PlaceOf
  <2> QED BY <1>1, <2>1, <2>2, FS_EmptySet, PlaceOf DEF FellBack, Broadcasting
<1> QED BY <1>2, <1>3, <1>4, <1>5 DEF HubInv

LEMMA HubStep == ASSUME HubSettings PROVE HubInv /\ [H!Next]_(H!wsvars) => HubInv'
<1> SUFFICES ASSUME HubInv, [H!Next]_(H!wsvars) PROVE HubInv'
  OBVIOUS
<1>1. ASSUME NEW s \in H!Senders, NEW c \in Conns, H!Send(s, c) PROVE HubInv'
  BY <1>1, SendStep
<1>2. ASSUME NEW s \in H!Senders, H!EndBroadcast(s) PROVE HubInv'
  BY <1>2, EndBroadcastStep
<1>3. CASE UNCHANGED H!wsvars
  <2>1. UNCHANGED <<client, conns, hub, channel, call, cast, relayed, received, faults>>
    BY <1>3 DEF H!wsvars
  <2>2. HubTypes' /\ Attached'
    BY <2>1 DEF HubInv, HubTypes, Attached
  <2>3. Segmented' /\ FellBack'
    BY <2>1, SegmentedFrame, FellBackFrame DEF HubInv
  <2> QED BY <2>2, <2>3 DEF HubInv
<1> QED BY <1>1, <1>2, <1>3, ClientStep, PublishStep, RaiseStep, FallBackStep, ListenStep, ListenerEndsStep DEF H!Next

\* A client is sent a segment of the channel by its hub, and at most once each what its
\* publisher could not hand to Redis, for any number of hubs, connections and errors.
THEOREM HubNoGaps == H!Spec => []NoGaps
<1>1. HubSettings
  BY SharedStateAssumption
<1>2. ASSUME HubInv PROVE NoGaps
  <2>0. HubTypes /\ Segmented /\ FellBack
    BY <1>2 DEF HubInv
  <2> SUFFICES ASSUME NEW c \in Conns
               PROVE  /\ \E i \in 0..Len(relayed), j \in 0..Len(relayed) :
                           received[c][HubOf[c]] = SubSeq(relayed, i + 1, j)
                      /\ \A e \in Events : received[c][e] \in {<<>>, <<e>>}
                      /\ H!Cardinality({e \in Events : received[c][e] # <<>>}) <= faults
    BY DEF NoGaps, H!NoGaps
  <2>1. \E i \in 0..Len(relayed), j \in 0..Len(relayed) : received[c][HubOf[c]] = SubSeq(relayed, i + 1, j)
    <3>1. PICK j \in 0..Len(relayed) : Segment(received[c][HubOf[c]], relayed, j)
      BY <2>0 DEF Segmented
    <3>2. received[c][HubOf[c]] \in Seq(Events) /\ relayed \in Seq(Events)
      BY <1>1, <2>0, PlaceOf DEF HubTypes
    <3>3. PICK q \in Seq(Events) : q = received[c][HubOf[c]]
      BY <3>2
    <3>4. \E i \in 0..Len(relayed), l \in 0..Len(relayed) : q = SubSeq(relayed, i + 1, l)
      <4>1. Segment(q, relayed, j)
        BY <3>1, <3>3
      <4> QED BY <3>2, <4>1, SegmentIsSubSeq
    <3> QED BY <3>3, <3>4
  <2>2. {e \in Events : received[c][e] # <<>>} \subseteq Erred
    BY <2>0 DEF FellBack, Erred
  <2>3. Cardinality({e \in Events : received[c][e] # <<>>}) <= faults
    BY <2>0, <2>2, FS_Subset DEF FellBack
  <2>4. H!Cardinality({e \in Events : received[c][e] # <<>>}) = Cardinality({e \in Events : received[c][e] # <<>>})
    BY DEF H!Cardinality, Cardinality
  <2> QED BY <2>0, <2>1, <2>3, <2>4 DEF FellBack
<1> QED BY <1>1, <1>2, HubInit, HubStep, PTL DEF H!Spec
=============================================================================
