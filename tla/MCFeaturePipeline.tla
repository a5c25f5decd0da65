-------------------------- MODULE MCFeaturePipeline --------------------------
(***************************************************************************)
(* FeaturePipeline with windows of 1 and 2 ticks and three transactions:   *)
(* two of the same time and amount in different shops, and one exactly a   *)
(* short window later.                                                     *)
(***************************************************************************)
EXTENDS FeaturePipeline, TLC

MCWindows == <<1, 2>>
MCTxns == {[ts |-> 1, amount |-> 5, shop |-> "a"], [ts |-> 1, amount |-> 5, shop |-> "b"],
           [ts |-> 2, amount |-> 3, shop |-> "a"]}

AnyReplica == Permutations(Replicas)
=============================================================================
