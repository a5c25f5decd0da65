----------------------------- MODULE MCAlerting -----------------------------
(***************************************************************************)
(* The scoring consumer, which publishes alerts, and the path of an alert  *)
(* from the topic to a notification, in one state space: a behaviour is of *)
(* one of them.  AlertPath models the publication as a step of its own, so *)
(* nothing is gained by running them side by side.                         *)
(***************************************************************************)
EXTENDS MCScoringConsumer, AlertPath

VARIABLE part

\* Replicas are interchangeable: one of them owns a partition at first, which the other may be.
AlertingInit ==
  /\ part \in {"scoring", "path"} /\ Init /\ PathInit
  /\ LET first == CHOOSE r \in Replicas : TRUE IN
       IF part = "scoring" THEN owner = [p \in Partitions |-> first]
                           ELSE owner[CHOOSE p \in Partitions : TRUE] = first
AlertingNext ==
  /\ UNCHANGED part
  /\ \/ part = "scoring" /\ Next /\ UNCHANGED pathvars
     \/ part = "path" /\ PathNext /\ UNCHANGED vars

\* The fairness of each, for its own behaviours.
AlertingFairness ==
  /\ WF_vars(part = "scoring" /\ Handler)
  /\ WF_vars(part = "scoring" /\ (StopConsumer \/ StopProducer))
  /\ \A p \in Partitions : WF_pathvars(part = "path" /\ Handle(p))
  /\ WF_pathvars(part = "path" /\ \E j \in sending : EndSend(j))

AlertingSpec == AlertingInit /\ [][AlertingNext]_<<part, vars, pathvars>> /\ AlertingFairness
=============================================================================
