\* Ids and contacts are used up.
CONSTANTS
  k1 = k1
  None = None
  Client <- MCClient
  Name <- MCName
  Nick <- MCNick
  Value <- MCValue
  Card <- MCCard
  Mask <- MCMask
  Collection <- MCCollection
  MaxContact = 4
  MaxConstituent = 2
  MaxIsNot = 1
SPECIFICATION Spec
INVARIANTS TypeOK AggregatesSound
PROPERTY TogetherStays
CHECK_DEADLOCK FALSE
