SPECIFICATION FairSpec
CONSTANTS
  c1 = c1
  c2 = c2
  c3 = c3
  c4 = c4
  p1 = p1
  p2 = p2
  Connection <- MCConnection
  Process <- MCProcess
  processOf <- MCProcessOf
  Operations <- MCWrites
  None = None
INVARIANTS TypeOK LockExcludes NoContention LockAccounted
PROPERTIES OperationEnds ImplementsWriteLock
