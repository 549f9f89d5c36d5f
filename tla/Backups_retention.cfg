SPECIFICATION Spec
CONSTANTS
  t1 = t1
  h1 = h1
  h2 = h2
  Target <- OneTarget
  Sweeper <- NoSweeper
  Handler <- TwoHandlers
  Interval = 1
  Limit = 1
  PageSize = 3
  MaxTime = 3
  MaxRows = 3
  Mode = {"auto"}
  Policy <- AnyPolicy
  MaxUpsets = 1
INVARIANT KeptBackupsExist
INVARIANT GoneIsGone
CHECK_DEADLOCK FALSE
SYMMETRY Alike
