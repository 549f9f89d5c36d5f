SPECIFICATION FairSpec
CONSTANTS
  r1 = r1
  r2 = r2
  w1 = w1
  w2 = w2
  Request <- TwoRequests
  Worker <- OneWorker
  RetryLimit = 2
  MaxForeign = 1
  MaxFaults = 1
INVARIANT UndisturbedMirrorIsCurrent
INVARIANT UnconfirmedNeverOverwritten
INVARIANT RetryBudgetKept
PROPERTY QueueRunsDry
CHECK_DEADLOCK FALSE
