SPECIFICATION FairSpec
CONSTANTS
  s1 = s1
  s2 = s2
  c1 = c1
  c2 = c2
  Server <- TwoServers
  Caller <- TwoCallers
  Boot = Boot
  NoServer = NoServer
  MaxCalls = 1
INVARIANT PendingIsAwaited
INVARIANT WaitingIsReachable
INVARIANT OwnAnswer
INVARIANT ReaderNeverBlocked
INVARIANT NoStrayChild
PROPERTY CallsReturn
PROPERTY LockIsReleased
CHECK_DEADLOCK FALSE
