---------------------------- MODULE FeatureCache ----------------------------
(***************************************************************************)
(* scoring/services/feature_cache.py: TwoLevelFeatureCache in several      *)
(* replicas, each with an in-process LRU (L1) over one Redis (L2).  One    *)
(* feature of one user; the others matter only when they push it out of an *)
(* L1.  A call touches its L1 before it awaits Redis, Redis executes the   *)
(* command, and the call goes on when it is resumed.  Values are numbered  *)
(* in the order they are set.                                              *)
(***************************************************************************)
EXTENDS Integers, FiniteSets

CONSTANTS
  Replicas, Tasks, Home, \* the replica of each task
  L1Ttl, L2Ttl,          \* l1_ttl and l2_ttl
  Stall,                 \* bound: how long a call may take
  MaxSets, MaxTime       \* bounds: values and clock

VARIABLES
  now,
  l1,    \* per replica the entry of its LRU, or None
  l2,    \* the key in Redis, or None
  op,    \* per task the call it is in
  sets,  \* number of values so far
  gone   \* history: per value the latest time at which it was, or was to be, in Redis

fcvars == <<now, l1, l2, op, sets, gone>>

None == [none |-> TRUE]
Idle == [at |-> "idle", val |-> 0, since |-> 0]
Entry(v, ttl) == [val |-> v, until |-> now + ttl]
Live(e) == e # None /\ now <= e.until
InOp(p, v) == [at |-> p, val |-> v, since |-> now]
At(t, p) == op[t].at = p

Init ==
  /\ now = 0 /\ l1 = [r \in Replicas |-> None] /\ l2 = None
  /\ op = [t \in Tasks |-> Idle] /\ sets = 0 /\ gone = [v \in 1..MaxSets |-> 0]

Goes(t, p, v) == op' = [op EXCEPT ![t].at = p, ![t].val = v]
Ends(t) == op' = [op EXCEPT ![t] = Idle]
\* the value in Redis has been there until now
Seen == gone' = IF l2 = None THEN gone ELSE [gone EXCEPT ![l2.val] = now]
-----------------------------------------------------------------------------
(***************************************************************************)
(* set and set_many: L1 at once, Redis after an await; an error is logged. *)
(***************************************************************************)
Set(t) ==
  /\ At(t, "idle") /\ sets < MaxSets
  /\ sets' = sets + 1 /\ gone' = [gone EXCEPT ![sets + 1] = now]
  /\ l1' = [l1 EXCEPT ![Home[t]] = Entry(sets + 1, L1Ttl)]
  /\ op' = [op EXCEPT ![t] = InOp("set", sets + 1)]
  /\ UNCHANGED <<now, l2>>

SetL2(t, ok) ==
  /\ At(t, "set") /\ Ends(t)
  /\ l2' = IF ok THEN Entry(op[t].val, L2Ttl) ELSE l2
  /\ gone' = [v \in 1..MaxSets |->
                IF v = op[t].val \/ (l2 # None /\ v = l2.val) THEN now ELSE gone[v]]
  /\ UNCHANGED <<now, l1, sets>>
-----------------------------------------------------------------------------
(***************************************************************************)
(* get, get_many and warm: L1 if it can, else Redis, whose answer fills L1. *)
(***************************************************************************)
Get(t) ==
  /\ At(t, "idle") /\ ~Live(l1[Home[t]])
  /\ l1' = [l1 EXCEPT ![Home[t]] = None]
  /\ op' = [op EXCEPT ![t] = InOp("get", 0)]
  /\ UNCHANGED <<now, l2, sets, gone>>

GetL2(t, ok) ==
  /\ At(t, "get")
  /\ IF ok /\ Live(l2) THEN Goes(t, "fill", l2.val) ELSE Ends(t)
  /\ Seen /\ UNCHANGED <<now, l1, l2, sets>>

\* l1.set without a TTL takes the default, whatever is left of the one in Redis.
Filled_L2Ttl(v) == Entry(v, L2Ttl)
Filled(v) == Entry(v, L1Ttl)
Fill(t) ==
  /\ At(t, "fill") /\ Ends(t)
  /\ l1' = [l1 EXCEPT ![Home[t]] = Filled(op[t].val)]
  /\ UNCHANGED <<now, l2, sets, gone>>
-----------------------------------------------------------------------------
(***************************************************************************)
(* invalidate_user: the keys are those Redis lists, also for L1, and only  *)
(* for the L1 of this replica.                                             *)
(***************************************************************************)
Invalidate(t) ==
  /\ At(t, "idle") /\ op' = [op EXCEPT ![t] = InOp("scan", 0)]
  /\ UNCHANGED <<now, l1, l2, sets, gone>>

Scan(t, ok) ==
  /\ At(t, "scan") /\ IF ok /\ Live(l2) THEN Goes(t, "found", 0) ELSE Ends(t)
  /\ UNCHANGED <<now, l1, l2, sets, gone>>

DropL1(t) ==
  /\ At(t, "found") /\ l1' = [l1 EXCEPT ![Home[t]] = None] /\ Goes(t, "delete", 0)
  /\ UNCHANGED <<now, l2, sets, gone>>

DeleteL2(t, ok) ==
  /\ At(t, "delete") /\ Ends(t)
  /\ l2' = IF ok THEN None ELSE l2
  /\ Seen /\ UNCHANGED <<now, l1, sets>>
-----------------------------------------------------------------------------
\* Another key is set while the LRU is full.
Evict(r) == /\ l1[r] # None /\ l1' = [l1 EXCEPT ![r] = None]
            /\ UNCHANGED <<now, l2, op, sets, gone>>

Tick ==
  /\ now < MaxTime /\ now' = now + 1
  /\ \A t \in Tasks : ~At(t, "idle") => now - op[t].since < Stall
  /\ IF Live(l2) THEN Seen /\ l2' = l2 ELSE l2' = None /\ UNCHANGED gone
  /\ UNCHANGED <<l1, op, sets>>

Next ==
  \/ Tick \/ \E r \in Replicas : Evict(r)
  \/ \E t \in Tasks : \/ Set(t) \/ Get(t) \/ Fill(t) \/ Invalidate(t) \/ DropL1(t)
                      \/ \E ok \in BOOLEAN : SetL2(t, ok) \/ GetL2(t, ok) \/ Scan(t, ok) \/ DeleteL2(t, ok)

Spec == Init /\ [][Next]_fcvars
-----------------------------------------------------------------------------
\* When Redis has let go of a value, because it was overwritten, invalidated or expired, or
\* has never got it, no replica serves it for longer than l1_ttl after that, and the time
\* of a read that was under way.  Nothing else puts an end to it: invalidation leaves the
\* L1 of other replicas alone, and a key that Redis does not list.
ServedBriefly ==
  \A r \in Replicas :
    Live(l1[r]) => \/ l2 # None /\ l2.val = l1[r].val
                   \/ now <= gone[l1[r].val] + Stall + L1Ttl
=============================================================================
