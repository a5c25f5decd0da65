----------------------------- MODULE MCServices -----------------------------
(***************************************************************************)
(* The services that keep shared state, in one state space: a behaviour is *)
(* of one of them.  They are independent, so nothing is gained by running  *)
(* them side by side.                                                      *)
(***************************************************************************)
EXTENDS RedisBreaker, SharedState

VARIABLE service

store    == <<version, events, archive, writers, subscribed, inbox, phase, replay, handled, order,
              missed, forgotten, rebuilt>>
router   == <<rules, seen, now, routing, routed>>
ladder   == <<index, step, era, fired>>
archiver == <<produced, committed, position, consumer, proc, starts, buffer, flusher, thread, delta, files,
              deltaLog, failures, skipped, excused, dropped, entered>>
workflow == <<cases, limit, roof, manual, reopened>>
network  == <<graph, cache, dirty, task, added, raced>>
features == <<clock, l1, l2, op, sets, gone>>
limiter  == <<time, members, expires, asking, admitted, newest>>
sockets  == <<client, conns, hub, channel, call, cast, relayed, received, faults>>
trials   == <<shadow, canary, samples, tester, launches, scored, straddled, mixed>>
study    == <<status, winner, metrics, results, recorder, late>>

\* Alerts of one fingerprint, or next to it, matching one rule or several.
MCAlert(score, amount, sanctioned) ==
  [txn |-> "x", entity |-> "e", score |-> score, amount |-> amount, sanctioned |-> sanctioned]
MCAlerts == {MCAlert(60, 50000, FALSE), MCAlert(60, 10, TRUE), MCAlert(95, 10, TRUE)}
MCRules == {[id |-> "c", enabled |-> TRUE, prio |-> 1, window |-> 60,
             conds |-> {[field |-> "amount", op |-> ">=", value |-> 50000]}]}
MCExpertise == {<<CHOOSE a \in Analysts : TRUE, CHOOSE c \in Cases : TRUE>>}
MCHome == [t \in Tasks |-> t]
MCHubOf == [x \in Conns \cup Events |-> CHOOSE r \in Hubs : TRUE]

Services == {"redis", "events", "routing", "escalation", "archiver", "cases", "graph", "cache",
             "window", "hub", "canary", "experiment"}
ServiceInit ==
  /\ service \in Services
  /\ Init /\ E!Init /\ R!Init /\ X!Init /\ A!Init /\ C!Init /\ G!Init /\ F!Init /\ S!Init /\ H!Init
  /\ N!Init /\ M!Init
ServiceNext ==
  /\ UNCHANGED service
  /\ \/ service = "redis"      /\ Next
     \/ service = "events"     /\ E!Next
     \/ service = "routing"    /\ R!Next
     \/ service = "escalation" /\ X!Next
     \/ service = "archiver"   /\ A!Next
     \/ service = "cases"      /\ C!Next
     \/ service = "graph"      /\ G!Next
     \/ service = "cache"      /\ F!Next
     \/ service = "window"     /\ S!Next
     \/ service = "hub"        /\ H!Next
     \/ service = "canary"     /\ N!Next
     \/ service = "experiment" /\ M!Next
  /\ service # "redis"      => UNCHANGED vars
  /\ service # "events"     => UNCHANGED store
  /\ service # "routing"    => UNCHANGED router
  /\ service # "escalation" => UNCHANGED ladder
  /\ service # "archiver"   => UNCHANGED archiver
  /\ service # "cases"      => UNCHANGED workflow
  /\ service # "graph"      => UNCHANGED network
  /\ service # "cache"      => UNCHANGED features
  /\ service # "window"     => UNCHANGED limiter
  /\ service # "hub"        => UNCHANGED sockets
  /\ service # "canary"     => UNCHANGED trials
  /\ service # "experiment" => UNCHANGED study

ServiceSpec ==
  /\ ServiceInit
  /\ [][ServiceNext]_<<service, vars, store, router, ladder, archiver, workflow, network, features,
                      limiter, sockets, trials, study>>
=============================================================================
