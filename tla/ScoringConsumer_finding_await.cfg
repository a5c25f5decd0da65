SPECIFICATION Spec
CONSTANTS
  None = None
  MaxSends = 2
  MaxMsgs = 2
  MaxRuns = 1
  Scores <- OneScore
  AsyncScorer = TRUE
  ThresholdReview = 50
PROPERTY ErrorHasCause
CHECK_DEADLOCK FALSE
