SPECIFICATION AlertingSpec
CONSTANTS
  None = None
  MaxSends = 2
  MaxMsgs = 2
  MaxRuns = 2
  Scores <- TwoScores
  AsyncScorer = FALSE
  ThresholdReview = 50
  Nil = Nil
  Keys = {k1}
  Ttl = 2
  Partitions = {p1,p2}
  Replicas = {r1,r2}
  Kinds = {"AlertEvent","ScoredTransaction"}
  Pushers = {"webhook"}
  MaxMoves = 1
  MaxAlerts = 2
  MaxTime = 2
INVARIANTS AlertBacked NearlyOnce HandledIsNotified
PROPERTIES ShutdownEnds SuppressedIsRecent AllHandled
CHECK_DEADLOCK FALSE
