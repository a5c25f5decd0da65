---------------------------- MODULE MCResilience ----------------------------
(***************************************************************************)
(* The in-process services whose tasks must not be left waiting, in one    *)
(* state space: a behaviour is of one of them.  They are independent, so   *)
(* nothing is gained by running them side by side.                         *)
(***************************************************************************)
EXTENDS CircuitBreaker, Resilience

VARIABLES service, content, rules, hash, engine, watching, rewrites, uses, touched

webhook  == <<registered, breaker, task, tries, dlq, outcome, rounds, received, late>>
batching == <<req, queue, batch, ppc, turn, stop>>
logging  == <<calls, buffer, lock, waiting, loop, stopper, taken, stored, logged, faults>>
config   == <<file, version, snapshot, holder, read, calling, watched, changed, edits, reloads, announced>>
scoring  == <<content, rules, hash, engine, watching, rewrites, uses, touched>>

MCTarget == [e \in Webhooks |-> CHOOSE p \in Endpoints : TRUE]
R == INSTANCE RuleEngine WITH
       Threads <- {"t1", "t2"}, MaxEdits <- 2, MaxCalls <- 3,
       Rules <- [c \in {"v1", "v2"} |-> IF c = "v1" THEN {<<"a", TRUE>>, <<"b", TRUE>>}
                                                   ELSE {<<"b", FALSE>>}],
       task <- engine, edits <- rewrites, calls <- uses

Services == {"breaker", "webhook", "batch", "log", "config", "rules"}
ServiceInit ==
  /\ service \in Services /\ Init /\ W!Init /\ B!Init /\ L!Init /\ H!Init /\ R!Init
  /\ service # "config" => file.override = "o1"
  /\ service # "rules" => content = "v1"
ServiceNext ==
  /\ UNCHANGED service
  /\ \/ service = "breaker" /\ Next   /\ UNCHANGED <<webhook, batching, logging, config, scoring>>
     \/ service = "webhook" /\ W!Next /\ UNCHANGED <<vars, batching, logging, config, scoring>>
     \/ service = "batch"   /\ B!Next /\ UNCHANGED <<vars, webhook, logging, config, scoring>>
     \/ service = "log"     /\ L!Next /\ UNCHANGED <<vars, webhook, batching, config, scoring>>
     \/ service = "config"  /\ H!Next /\ UNCHANGED <<vars, webhook, batching, logging, scoring>>
     \/ service = "rules"   /\ R!Next /\ UNCHANGED <<vars, webhook, batching, logging, config>>

\* The fairness of each service, for the behaviours of that service.
ServiceFairness ==
  /\ WF_vars(service = "breaker" /\ Tick)
  /\ \A c \in Callers : WF_vars(service = "breaker" /\ Admit(c)) /\ WF_vars(service = "breaker" /\ Finish(c))
  /\ \A e \in Webhooks : WF_webhook(service = "webhook" /\ W!Deliver(e))
  /\ WF_batching(service = "batch" /\ B!Processor) /\ WF_batching(service = "batch" /\ B!StopReturn)
  /\ \A r \in Requests : WF_batching(service = "batch" /\ (B!Put(r) \/ B!Refuse(r)))
  /\ WF_logging(service = "log" /\ L!Proceed) /\ WF_logging(service = "log" /\ L!LoopWakes)
  /\ WF_logging(service = "log" /\ L!Flushing)
  /\ WF_config(service = "config" /\ H!Proceed) /\ WF_config(service = "config" /\ H!WatchLoop)
  /\ WF_scoring(service = "rules" /\ R!Poll)
  /\ \A t \in {"t1", "t2", "watcher"} : WF_scoring(service = "rules" /\ R!Proceed(t))

ServiceSpec ==
  /\ ServiceInit
  /\ [][ServiceNext]_<<service, vars, webhook, batching, logging, config, scoring>>
  /\ ServiceFairness
-----------------------------------------------------------------------------
\* rule engine: the rules come to be those of the file
RulesSettle == R!RulesSettle
=============================================================================
