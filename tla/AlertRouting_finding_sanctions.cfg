SPECIFICATION Spec
CONSTANTS
  Threads = {t1}
  Alerts <- MCAlerts
  CustomRules = {}
  Times <- MCTimes
  MaxStall = 4
  MaxRouted = 2
INVARIANT SanctionedAlerted
CHECK_DEADLOCK FALSE
