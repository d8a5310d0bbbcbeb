\* One editor and one server: every load, save and crash may go wrong once.
SPECIFICATION FairSpec
CONSTANTS
  Client = {a}
  Server = {s}
  Shape = {x, y}
  Thread = {}
  a = a
  s = s
  x = x
  y = y
  Offline = Offline
  Unloaded = Unloaded
  RETENTION = 3
  Maintenance = {}
  Legacy <- NoLegacy
  MaxRows = 4
  MaxSaving = 2
  MaxFailedLoads = 1
  MaxFailedSaves = 1
INVARIANTS TypeOK GuardIsTruthful
PROPERTIES PruneIsRedundant UnloadKeepsInserts InsertReachesRows
