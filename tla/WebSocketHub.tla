---------------------------- MODULE WebSocketHub ----------------------------
(***************************************************************************)
(* scoring/services/websocket_hub.py: WebSocketHub on several replicas     *)
(* over one Redis Pub/Sub channel, for one organisation.  A listener       *)
(* broadcasts to the connections of its replica, one send after the other; *)
(* a publisher that gets an error does so itself, beside the listener.     *)
(***************************************************************************)
EXTENDS Integers, Sequences, FiniteSets

CONSTANTS
  Replicas, Conns, Events,
  Home,    \* the replica of each connection and of each event's publisher
  MaxFaults \* bound: publish calls that raise

VARIABLES
  client,   \* per connection: "new", "open", "closed" (the socket), "left" (the endpoint)
  conns,    \* per replica its _connections of the organisation
  hub,      \* per replica its _listen task: "listening", "ended"
  channel,  \* per replica the messages Redis has for it
  call,     \* publish(), per event: "none", "executed", "failed", "done"
  cast,     \* _broadcast_local per sender: the event, connections to go, dead ones
  order,    \* history: events in the order Redis executed them
  received, \* history: per connection and sender, the events it was sent
  faults    \* history: publish calls that raised

wsvars == <<client, conns, hub, channel, call, cast, order, received, faults>>

\* Listeners broadcast, and publishers whose call to Redis raised.
Senders == Replicas \cup Events
Idle == [event |-> "none", to |-> {}, dead |-> {}]
Place(s) == IF s \in Replicas THEN s ELSE Home[s]

Init ==
  /\ client = [c \in Conns |-> "new"] /\ conns = [r \in Replicas |-> {}]
  /\ hub = [r \in Replicas |-> "listening"] /\ channel = [r \in Replicas |-> <<>>]
  /\ call = [e \in Events |-> "none"] /\ cast = [s \in Senders |-> Idle]
  /\ order = <<>> /\ received = [c \in Conns |-> [s \in Senders |-> <<>>]] /\ faults = 0
-----------------------------------------------------------------------------
Connect(c) ==
  /\ client[c] = "new" /\ client' = [client EXCEPT ![c] = "open"]
  /\ conns' = [conns EXCEPT ![Home[c]] = @ \cup {c}]
  /\ UNCHANGED <<hub, channel, call, cast, order, received, faults>>

Close(c) ==
  /\ client[c] = "open" /\ client' = [client EXCEPT ![c] = "closed"]
  /\ UNCHANGED <<conns, hub, channel, call, cast, order, received, faults>>

\* The endpoint notices, and leaves the hub.
Disconnect(c) ==
  /\ client[c] = "closed" /\ client' = [client EXCEPT ![c] = "left"]
  /\ conns' = [conns EXCEPT ![Home[c]] = @ \ {c}]
  /\ UNCHANGED <<hub, channel, call, cast, order, received, faults>>
-----------------------------------------------------------------------------
\* publish(): Redis hands the message to every replica that is subscribed.
Publish(e) ==
  /\ call[e] = "none" /\ call' = [call EXCEPT ![e] = "executed"]
  /\ order' = Append(order, e)
  /\ channel' = [r \in Replicas |->
                   IF hub[r] = "listening" THEN Append(channel[r], e) ELSE channel[r]]
  /\ UNCHANGED <<client, conns, hub, cast, received, faults>>

\* The call raises, whether Redis has executed it or not.
Raise(e) ==
  /\ call[e] \in {"none", "executed"} /\ faults < MaxFaults /\ faults' = faults + 1
  /\ call' = [call EXCEPT ![e] = "failed"]
  /\ UNCHANGED <<client, conns, hub, channel, cast, order, received>>
-----------------------------------------------------------------------------
(***************************************************************************)
(* _broadcast_local: a copy of the connections, the sends, and at the end  *)
(* the removal of those that failed.                                       *)
(***************************************************************************)
Broadcast(s, e) ==
  /\ cast[s] = Idle
  /\ cast' = [cast EXCEPT ![s] = [event |-> e, to |-> conns[Place(s)], dead |-> {}]]

Listen(r) ==
  /\ hub[r] = "listening" /\ channel[r] # <<>> /\ Broadcast(r, Head(channel[r]))
  /\ channel' = [channel EXCEPT ![r] = Tail(@)]
  /\ UNCHANGED <<client, conns, hub, call, order, received, faults>>

FallBack(e) ==
  /\ call[e] = "failed" /\ Broadcast(e, e) /\ call' = [call EXCEPT ![e] = "done"]
  /\ UNCHANGED <<client, conns, hub, channel, order, received, faults>>

Send(s, c) ==
  /\ c \in cast[s].to
  /\ IF client[c] = "open"
     THEN /\ received' = [received EXCEPT ![c][s] = Append(@, cast[s].event)]
          /\ cast' = [cast EXCEPT ![s].to = @ \ {c}]
     ELSE /\ cast' = [cast EXCEPT ![s].to = @ \ {c}, ![s].dead = @ \cup {c}]
          /\ UNCHANGED received
  /\ UNCHANGED <<client, conns, hub, channel, call, order, faults>>

EndBroadcast(s) ==
  /\ cast[s] # Idle /\ cast[s].to = {}
  /\ conns' = [conns EXCEPT ![Place(s)] = @ \ cast[s].dead]
  /\ cast' = [cast EXCEPT ![s] = Idle]
  /\ UNCHANGED <<client, hub, channel, call, order, received, faults>>

\* stop(), or an error of the subscription: the listener is not started again.
AfterError_Resubscribes == "listening"
AfterError == "ended"
ListenerEnds(r) ==
  /\ hub[r] = "listening" /\ hub' = [hub EXCEPT ![r] = AfterError]
  /\ channel' = [channel EXCEPT ![r] = <<>>] /\ cast' = [cast EXCEPT ![r] = Idle]
  /\ UNCHANGED <<client, conns, call, order, received, faults>>

Next ==
  \/ \E c \in Conns : Connect(c) \/ Close(c) \/ Disconnect(c)
  \/ \E e \in Events : Publish(e) \/ Raise(e) \/ FallBack(e)
  \/ \E r \in Replicas : Listen(r) \/ ListenerEnds(r)
  \/ \E s \in Senders : EndBroadcast(s) \/ \E c \in Conns : Send(s, c)

Spec == Init /\ [][Next]_wsvars
-----------------------------------------------------------------------------
\* What a client gets from its listener is a segment of what Redis executed: in order,
\* nothing twice, and nothing left out between the first and the last, whoever connects,
\* closes or fails meanwhile.  Beside it comes, at most once, an event whose publisher on
\* its replica got an error.
NoGaps ==
  \A c \in Conns :
    /\ \E i \in 0..Len(order), j \in 0..Len(order) : received[c][Home[c]] = SubSeq(order, i + 1, j)
    /\ \A e \in Events : received[c][e] \in {<<>>, <<e>>}
    /\ Cardinality({e \in Events : received[c][e] # <<>>}) <= faults
=============================================================================
