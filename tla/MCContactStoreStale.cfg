SPECIFICATION Spec
CONSTANTS
  w1 = w1
  book = book
  i1 = i1
  i2 = i2
  Writer = {w1}
  Collection = {book}
  Contact = {i1, i2}
  Builtin = {}
  NoCollection = NoCollection
SYMMETRY Symmetry
CHECK_DEADLOCK FALSE
INVARIANT NothingLost
