SPECIFICATION SSSpec
CONSTANTS
  Key = {1, 2, 3}
  Value = {v1}
  Tombstone = Tombstone
  Absent = Absent
  MaxTables = 2
INVARIANTS
  SSTypeOK
  SearchIsOverlay
PROPERTIES
  SyncedStays
