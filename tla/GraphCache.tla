----------------------------- MODULE GraphCache -----------------------------
(***************************************************************************)
(* scoring/services/graph_analysis.py: TransactionGraphAnalyzer and its    *)
(* caches.  Transactions are added in the event loop; PageRank, label      *)
(* propagation and betweenness run in executor threads on the graph as it  *)
(* changes, and their callers write the result to a cache when they are    *)
(* resumed.  A result is the set of transactions it is based on.  The      *)
(* edge list and its eviction feed none of the three and are left out.     *)
(***************************************************************************)
EXTENDS Integers, FiniteSets

CONSTANTS Txns, Callers

VARIABLES
  graph,  \* transactions in _nodes, _adj and _out_adj
  cache,  \* _pagerank_cache, _community_cache, _betweenness_cache: the result, or None
  dirty,  \* _cache_dirty
  task,   \* per caller: what it computes, for which call, the graph at the start
  added,  \* history: transactions that were added
  raced   \* history: those added while a PageRank was being computed

gcvars == <<graph, cache, dirty, task, added, raced>>

None == [none |-> TRUE]
Kinds == {"pagerank", "community", "betweenness"}
Idle == [for |-> "none", kind |-> "none", base |-> {}]

Init ==
  /\ graph = {} /\ cache = [k \in Kinds |-> None] /\ dirty = TRUE
  /\ task = [c \in Callers |-> Idle] /\ added = {} /\ raced = {}
-----------------------------------------------------------------------------
Computing(k) == \E c \in Callers : task[c].kind = k

\* add_transaction
Dirtied_Never == dirty
Dirtied == TRUE
AddTransaction(t) ==
  /\ t \notin added /\ added' = added \cup {t}
  /\ graph' = graph \cup {t} /\ dirty' = Dirtied
  /\ raced' = IF Computing("pagerank") THEN raced \cup {t} ELSE raced
  /\ UNCHANGED <<cache, task>>

Clear ==
  /\ graph # {} /\ graph' = {} /\ dirty' = TRUE
  /\ cache' = [k \in Kinds |-> None]
  /\ UNCHANGED <<task, added, raced>>
-----------------------------------------------------------------------------
(***************************************************************************)
(* A call computes, or goes on with what the cache holds.  get_node_risk   *)
(* needs PageRank, then the communities, then betweenness; the other calls *)
(* need one of them.                                                       *)
(***************************************************************************)
Served(k) == cache[k] # None /\ (k = "betweenness" \/ ~dirty)
Run(c, for, k) == task' = [task EXCEPT ![c] = [for |-> for, kind |-> k, base |-> graph]]

ComputePagerank(c, for) == Run(c, for, "pagerank")
DetectCommunities(c, for) == Run(c, for, "community")
Betweenness(c, for) == Run(c, for, "betweenness")
After(c, for, served) ==
  IF for # "risk" THEN task' = [task EXCEPT ![c] = Idle]
  ELSE IF "community" \notin served THEN DetectCommunities(c, for)
  ELSE IF "betweenness" \notin served THEN Betweenness(c, for)
  ELSE task' = [task EXCEPT ![c] = Idle]

Begin(c, for) ==
  /\ task[c] = Idle
  /\ IF for = "community"
     THEN ~Served("community") /\ DetectCommunities(c, for)
     ELSE IF ~Served("pagerank") THEN ComputePagerank(c, for)
     ELSE for = "risk" /\ After(c, for, {k \in Kinds : Served(k)}) /\ task' # task
  /\ (for = "risk" => graph # {})
  /\ UNCHANGED <<graph, cache, dirty, added, raced>>

\* What the thread has read: the graph of its start and any part of what came later.
Results(c) == {task[c].base \cup new : new \in SUBSET (graph \ task[c].base)}

Cleaned(k) == k = "pagerank" /\ cache["community"] # None
Finish(c) ==
  LET k == task[c].kind
  IN  /\ k \in Kinds
      /\ \E r \in Results(c) : cache' = [cache EXCEPT ![k] = [on |-> r]]
      /\ dirty' = IF Cleaned(k) THEN FALSE ELSE dirty
      /\ LET served == {j \in Kinds : cache'[j] # None /\ (j = "betweenness" \/ ~dirty')} \cup {k}
         IN  After(c, task[c].for, served)
      /\ UNCHANGED <<graph, added, raced>>

\* A computation that meets a node it has not listed raises; the caller's task ends.
Fail(c) ==
  /\ task[c].kind \in Kinds /\ graph # task[c].base
  /\ task' = [task EXCEPT ![c] = Idle]
  /\ UNCHANGED <<graph, cache, dirty, added, raced>>

Next ==
  \/ \E t \in Txns : AddTransaction(t)
  \/ Clear
  \/ \E c \in Callers : Finish(c) \/ Fail(c)
                        \/ \E for \in {"pagerank", "community", "risk"} : Begin(c, for)

Spec == Init /\ [][Next]_gcvars
-----------------------------------------------------------------------------
\* A PageRank that is served from the cache misses no transaction of the graph, except
\* those that were added while some PageRank was being computed.
PagerankCovers ==
  Served("pagerank") => graph \ cache["pagerank"].on \subseteq raced
=============================================================================
