SPECIFICATION Spec
CONSTANTS
  v1 = v1
  v2 = v2
  Tombstone = Tombstone
  Absent = Absent
  Torn = Torn
  Main = main
  Free = free
  KeyLen <- MCKeyLen
  ValueLen <- MCValueLen
  Key = {1, 2}
  Value = {v1, v2}
  Large = {v2}
  SyncCount = 1
  Client = {c1, c2}
  SizeLimit = 5
  PowerLoss = FALSE
  MaxWrites = 2
  MaxCrashes = 1
  MaxFails = 0
SYMMETRY Symmetry
INVARIANTS
  TypeOK
  ReadsLinearizable
  ServesCurrent
  FlushedSurvives
  SizeExact
  NewestFirst
PROPERTIES
  ImplementsKVStore
