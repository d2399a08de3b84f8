SPECIFICATION Spec
CONSTANTS
  v1 = v1
  v2 = v2
  Tombstone = Tombstone
  Absent = Absent
  Torn = Torn
  Main = main
  Free = free
  KeyLen <- MCKeyLen
  ValueLen <- MCValueLen
  Key = {1, 2}
  Value = {v1, v2}
  Large = {}
  SyncCount = 2
  Client = {c1}
  SizeLimit = 5
  PowerLoss = FALSE
  MaxWrites = 3
  MaxCrashes = 1
  MaxFails = 0
INVARIANTS
  FlushedSurvives
