--------------------------- MODULE MCAlertRouting ---------------------------
\* One alert of a high score on a sanctioned entity, seen more than once.
EXTENDS AlertRouting

MCAlerts ==
  {[txn |-> "x", entity |-> "e", score |-> 97, amount |-> 10, sanctioned |-> TRUE]}
MCTimes == {0, 4}
=============================================================================
