SPECIFICATION FairSpec
CONSTANTS
  None = None
  Users = {u1}
  Scores <- MCScores
  Pushers <- MCPushers
  EmailEnabled = TRUE
  MaxRetries = 2
  Ttl = 2
  MaxMsgs = 2
  MaxTime = 2
  MaxRuns = 2
INVARIANTS NearlyOnce
PROPERTIES DedupWindow ShutdownEnds
CHECK_DEADLOCK FALSE
