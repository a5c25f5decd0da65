SPECIFICATION ServiceSpec
CONSTANTS
  Callers = {c1,c2,c3}
  FailureThreshold = 2
  SuccessThreshold = 2
  HalfOpenMaxCalls = 2
  RecoveryTimeout = 2
  MayCancel = TRUE
  Requests = {q1,q2,q3}
  MaxBatchSize = 2
  MaxQueueSize = 1
  Webhooks = {e1,e2}
  Endpoints = {p1}
  Target <- MCTarget
  MaxRetries = 1
  HookThreshold = 2
  HookTimeout = 1
  DlqEnabled = TRUE
  MaxRounds = 1
  Entries = {l1,l2,l3,l4}
  Critical = {l4}
  Malformed = {l3}
  BufferSize = 2
  MaxFaults = 2
  Reloaders = {t1}
  MaxEdits = 3
  MaxReloads = 2
INVARIANTS ProbeBudget OnePlace AttemptsBounded PlacedOnce LossBound AnnouncedOnce
PROPERTIES AbstractSpec Recovers DeliveriesEnd Answering Drains Settles RulesSettle
CHECK_DEADLOCK FALSE
