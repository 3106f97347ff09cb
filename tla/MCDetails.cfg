SPECIFICATION Spec
CONSTANTS
  Mixes <- MCMixes
  MaxRows = 4
  None = None
INVARIANTS TypeOK SavedIsShown FlagsTellChanges
PROPERTIES NothingElseTouched
CHECK_DEADLOCK FALSE
