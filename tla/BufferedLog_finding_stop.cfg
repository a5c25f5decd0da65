SPECIFICATION Spec
CONSTANTS
  Events = {e1,e2}
  Critical = {}
  Malformed = {}
  BufferSize = 2
  MaxFaults = 0
PROPERTY StopFlushes
CHECK_DEADLOCK FALSE
