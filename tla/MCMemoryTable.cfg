\* Three keys, blocks of three sizes, and regions with room for some of them.
CONSTANTS
  none = none
  small = small
  large = large
  Garbage = Garbage
  Key <- MCKey
  Value <- MCValue
  DataSize <- MCDataSize
  TableSizes <- MCTableSizes
SPECIFICATION Spec
INVARIANTS TypeOK HeapSound
PROPERTIES MigrationSucceeds ImplementsMap
