SPECIFICATION Spec
CONSTANTS
  None = None
  Replicas = {r1,r2}
  Txns <- MCTxns
  Windows <- MCWindows
  MaxMsgs = 2
  MaxMoves = 1
INVARIANTS CountBound AverageSettles EnrichedBacked
PROPERTY AggregatesExact
CHECK_DEADLOCK FALSE
SYMMETRY AnyReplica
