SPECIFICATION ServiceSpec
CONSTANTS
  Callers = {c1,c2,c3}
  FailureThreshold = 3
  SuccessThreshold = 2
  RecoveryTimeout = 3
  Threads = {t1,t2}
  Aggregates = {a1}
  Writers = {w1,w2}
  Times = {1,2}
  QueryLimit = 1
  MaxVersion = 2
  Alerts <- MCAlerts
  CustomRules <- MCRules
  Readings = {0,57,62}
  MaxStall = 5
  MaxRouted = 3
  Laddered = {x}
  MaxCalls = 6
  BufferMax = 2
  MaxMsgs = 3
  MaxRuns = 2
  MaxFaults = 1
  Cases = {k1,k2}
  Analysts = {an1,an2}
  Limits = {1,2}
  Expertise <- MCExpertise
  MaxUnusual = 1
  Txns = {x1,x2}
  Analyses = {g1,g2}
  Replicas = {1,2}
  Tasks = {1,2}
  Home <- MCHome
  L1Ttl = 1
  L2Ttl = 2
  Stall = 1
  MaxSets = 2
  MaxTime = 3
  Clients = {u1,u2}
  Limit = 2
  Window = 4
  Draws = {1,2}
  Delay = 2
  MaxChecks = 5
  MaxClock = 5
  Hubs = {r1}
  Conns = {n1}
  Events = {e1,e2,e3}
  HubOf <- MCHubOf
  MaxErrors = 1
  Deployers = {d1,d2,d3}
  CanarySamples = 2
  MaxStarts = 2
  MaxScored = 2
  Control = c
  Treatments = {v}
  MinSamples = 2
  MaxOutcomes = 4
INVARIANTS CountTellsState ProjectionFollows SuppressionExact LadderFollowed NothingElseLost LoadBound PagerankCovers ServedBriefly WindowBound NoGaps MeasuredByItsOwn ConcludedInTime
PROPERTIES AbstractSpec LogSpec
CHECK_DEADLOCK FALSE
