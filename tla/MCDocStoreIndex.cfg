SPECIFICATION Spec
CONSTANTS
  Keys = {k1}
  Tags = {a, b}
  Metas <- TwoMetas
  TTLs = {0, 1}
  Writers = {}
  Batchers = {b1}
  Readers = {}
  Workers = {x1, x2}
  Reaper = reaper
  None = none
  QueueCap = 4
  MaxRevisions = 0
  Caps = {}
  Extreme = FALSE
  MaxTime = 1
  MaxRequests = 3
  MaxCrashes = 0
SYMMETRY Symmetry
INVARIANTS
  NothingMissing
CHECK_DEADLOCK FALSE
