SPECIFICATION Spec
CONSTANTS
  r1 = r1
  r2 = r2
  w1 = w1
  w2 = w2
  Request <- TwoRequests
  Worker <- OneWorker
  RetryLimit = 1
  MaxForeign = 0
  MaxFaults = 0
INVARIANT IdleMirrorIsCurrent
CHECK_DEADLOCK FALSE
