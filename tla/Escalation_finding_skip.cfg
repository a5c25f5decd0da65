SPECIFICATION Spec
CONSTANTS
  Threads = {t1,t2}
  Alerts = {a1}
  MaxCalls = 2
INVARIANT EveryLevelFires
CHECK_DEADLOCK FALSE
