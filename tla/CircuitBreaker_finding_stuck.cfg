SPECIFICATION Spec
CONSTANTS
  Callers = {c1,c2}
  FailureThreshold = 2
  SuccessThreshold = 2
  HalfOpenMaxCalls = 2
  RecoveryTimeout = 1
  MayCancel = TRUE
INVARIANT HalfOpenAdmits
