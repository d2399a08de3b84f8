SPECIFICATION Spec
CONSTANTS
  v1 = v1
  v2 = v2
  Tombstone = Tombstone
  Absent = Absent
  Torn = Torn
  Main = main
  Free = free
  KeyLen <- MCKeyLen
  ValueLen <- MCValueLen
  Key = {1}
  Value = {v1, v2}
  Large = {}
  SyncCount = 1
  Client = {c1}
  SizeLimit = 3
  PowerLoss = TRUE
  MaxWrites = 2
  MaxCrashes = 2
  MaxFails = 1
INVARIANTS
  AckedSurvives
  ReadInv
  LsnIncreasing
PROPERTIES
  ImplementsKVStore
