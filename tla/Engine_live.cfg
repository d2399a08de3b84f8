SPECIFICATION FairSpec
CONSTANTS
  v1 = v1
  v2 = v2
  Tombstone = Tombstone
  Absent = Absent
  Torn = Torn
  Main = main
  Free = free
  KeyLen <- MCKeyLen
  ValueLen <- MCValueLen
  Key = {1}
  Value = {v1}
  Large = {}
  SyncCount = 2
  Client = {c1, c2}
  SizeLimit = 2
  PowerLoss = FALSE
  MaxWrites = 2
  MaxCrashes = 1
  MaxFails = 1

  
PROPERTIES
  LockReleased
  
  StartupEnds
