SPECIFICATION WSSpec
CONSTANTS
  Key = {1}
  Value = {v1}
  Tombstone = Tombstone
  Absent = Absent
  Torn = Torn
  Large = {}
  SyncCount = 3
  MaxLsn = 4
INVARIANTS
  LossBounded
  NoHoles
  SyncedIsDurable
