--------------------------- MODULE SlidingWindow ----------------------------
(***************************************************************************)
(* scoring/services/redis_rate_limiter.py: RedisRateLimiter.check for one  *)
(* identifier.  The caller reads the clock, Redis runs the script later    *)
(* and in one step.  The clocks of the replicas agree.  The member of a    *)
(* request is its time and a random number.                                *)
(***************************************************************************)
EXTENDS Integers, Sequences, FiniteSets

CONSTANTS
  Callers,
  Limit,      \* max_requests
  Window,     \* _window_ms
  Draws,      \* results of math.random
  Stall,      \* bound: how long a request may take to reach Redis
  MaxChecks, MaxTime

VARIABLES
  now,
  members,  \* the sorted set of the key
  expires,  \* when the key expires
  asking,   \* per caller in check() the time it has read, or None
  admitted, \* history: members of the admitted requests in order, and whether the
            \* set had already been cut by a later time
  newest    \* history: the latest time the script has run with or the key expired

swvars == <<now, members, expires, asking, admitted, newest>>

None == -1
Init ==
  /\ now = 0 /\ members = {} /\ expires = 0 /\ asking = [c \in Callers |-> None]
  /\ admitted = <<>> /\ newest = None

\* check(): read the clock, then await the script.
Check(c) ==
  /\ asking[c] = None /\ asking' = [asking EXCEPT ![c] = now]
  /\ UNCHANGED <<now, members, expires, admitted, newest>>

\* An error lets the request through without a record.
FailOpen(c) ==
  /\ asking[c] # None /\ asking' = [asking EXCEPT ![c] = None]
  /\ UNCHANGED <<now, members, expires, admitted, newest>>

Kept(s, at) == {m \in s : m.at > at - Window}

HasRoom_AtLimit(s) == Cardinality(s) <= Limit
HasRoom(s) == Cardinality(s) < Limit

\* the Lua script
Script(c, draw) ==
  LET at == asking[c]
      kept == Kept(members, at)
  IN  /\ at # None /\ Len(admitted) < MaxChecks
      /\ asking' = [asking EXCEPT ![c] = None]
      /\ IF HasRoom(kept)
         THEN /\ members' = kept \cup {[at |-> at, draw |-> draw]}
              /\ expires' = now + Window
              /\ admitted' = Append(admitted, [at |-> at, draw |-> draw, late |-> at < newest])
         ELSE members' = kept /\ UNCHANGED <<expires, admitted>>
      /\ newest' = IF at > newest THEN at ELSE newest
      /\ UNCHANGED now

Tick ==
  /\ now < MaxTime /\ now' = now + 1
  /\ \A c \in Callers : asking[c] # None => now - asking[c] < Stall
  /\ IF members # {} /\ now' > expires
     THEN members' = {} /\ newest' = now'
     ELSE UNCHANGED <<members, newest>>
  /\ UNCHANGED <<expires, asking, admitted>>

Next == Tick \/ \E c \in Callers : Check(c) \/ FailOpen(c) \/ \E d \in Draws : Script(c, d)

Spec == Init /\ [][Next]_swvars
-----------------------------------------------------------------------------
\* Members admitted up to the i-th request in the window that ends with it; two requests
\* of one time that draw the same number are one member.
InWindow(i) ==
  {[at |-> admitted[j].at, draw |-> admitted[j].draw] :
     j \in {k \in 1..i : admitted[k].at > admitted[i].at - Window /\ admitted[k].at <= admitted[i].at}}

\* Whenever a request is admitted that no later one has overtaken, the window that ends
\* with it holds at most max_requests, however those before it were delayed and reordered.
\* The window of one that was overtaken holds up to twice as many: what a later time, or
\* the expiry of the key, has taken out of the set no longer counts against it; for that
\* the requests have to reach Redis within half a window.
WindowBound ==
  \A i \in DOMAIN admitted :
    /\ ~admitted[i].late => Cardinality(InWindow(i)) <= Limit
    /\ admitted[i].late /\ 2 * Stall <= Window => Cardinality(InWindow(i)) <= 2 * Limit
=============================================================================
