SPECIFICATION Spec
CONSTANTS
  MaxRequests = 1
  MaxBatch = 1
CHECK_DEADLOCK FALSE
INVARIANT
  StopIsAnswered
