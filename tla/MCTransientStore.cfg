CONSTANTS
  t1 = t1
  t2 = t2
  p1 = p1
  p2 = p2
  None = None
  Process <- MCProcess
  Thread <- MCThread
  Key <- MCKey
  MaxSemaphore = 2
  InitialSize = 1
  MaxAttempts = 2
  MaxGeneration = 3
SPECIFICATION FairSpec
INVARIANTS TypeOK DataExcludes StoreShared
PROPERTY AccessEnds
