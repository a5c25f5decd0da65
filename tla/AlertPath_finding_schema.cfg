SPECIFICATION PathSpec
CONSTANTS
  Nil = Nil
  Keys = {k1,k2}
  Ttl = 2
  Partitions = {p1}
  Replicas = {r1}
  Kinds = {"AlertEvent"}
  Pushers = {"webhook"}
  MaxMoves = 0
  MaxAlerts = 2
  MaxTime = 2
INVARIANT AlertsAreNotified
CHECK_DEADLOCK FALSE
