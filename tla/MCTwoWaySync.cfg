SPECIFICATION Spec
CONSTANTS
  Local <- MCLocal
  Row <- MCRow
  Style <- MCStyle
  Path = {p}
  Key = {k1, k2}
  Detail = {d, e}
  Null = Null
  MaxEdits = 2
  MaxRemote = 1
  MaxSyncs = 2
  MaxErrors = 1
INVARIANTS TypeOK InStep
PROPERTIES EditsReachServer DeletesOnlyTheDeleted
CHECK_DEADLOCK FALSE
