\* Two requests of the platform, one of the extensions, each started any number
\* of times.  A closed engine takes no more steps.
CONSTANTS
  r1 = r1
  r2 = r2
  x1 = x1
  None = None
  Freed = Freed
  Request <- MCRequest
  Extension <- MCExtension
SPECIFICATION FairSpec
INVARIANTS TypeOK JobsSound
PROPERTIES RequestsAnswered CloseEnds
CHECK_DEADLOCK FALSE
