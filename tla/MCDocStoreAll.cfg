SPECIFICATION FairSpec
CONSTANTS
  Keys = {k1}
  Tags = {a, b}
  Metas <- TwoMetas
  TTLs = {0, 1}
  Writers = {w1}
  Batchers = {b1}
  Readers = {r1}
  Workers = {x1}
  Reaper = reaper
  None = none
  QueueCap = 1
  MaxRevisions = 1
  Caps = {0, 1}
  Extreme = FALSE
  MaxTime = 2
  MaxRequests = 3
  MaxCrashes = 1
INVARIANTS
  TypeOK
  ByKeyResolves
  TTLBucketsAgree
PROPERTIES
  ExpiredIsReaped
CHECK_DEADLOCK FALSE
