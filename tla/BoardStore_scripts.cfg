SPECIFICATION Spec
CONSTANTS
  Client = {a, b}
  Server = {s}
  Shape = {x}
  Thread = {m}
  a = a
  b = b
  s = s
  x = x
  m = m
  Offline = Offline
  Unloaded = Unloaded
  RETENTION = 2
  Maintenance = {"compact", "backfill"}
  Legacy <- Deltas
  MaxRows = 5
  MaxSaving = 1
  MaxFailedLoads = 0
  MaxFailedSaves = 0
SYMMETRY Symmetry
PROPERTIES CompactionKeepsShapes BackfillKeepsRows
