SPECIFICATION Spec
CONSTANTS
  Keys = {k1}
  Tags = {a, b}
  Metas <- TwoMetas
  TTLs = {0, 1}
  Writers = {w1}
  Batchers = {}
  Readers = {}
  Workers = {}
  Reaper = reaper
  None = none
  QueueCap = 1
  MaxRevisions = 0
  Caps = {}
  Extreme = FALSE
  MaxTime = 2
  MaxRequests = 2
  MaxCrashes = 0
PROPERTIES
  PermanentStays
CHECK_DEADLOCK FALSE
