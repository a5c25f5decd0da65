SPECIFICATION Spec
CONSTANTS
  BufferMax = 2
  MaxMsgs = 3
  MaxRuns = 2
  MaxFaults = 1
INVARIANT LogKeepsFiles
CHECK_DEADLOCK FALSE
