CONSTANTS
  c1 = c1
  c2 = c2
  p1 = p1
  p2 = p2
  Connection <- MCConnection
  Process <- MCProcess
  processOf <- MCProcessOf
  schemaVersion <- MCVersions
  MaxFile = 2
  MaxCount = 1
SPECIFICATION Spec
INVARIANTS TypeOK OneUpgrades FilesSound
PROPERTY SchemaStable
