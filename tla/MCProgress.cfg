SPECIFICATION ProgressSpec
CONSTANTS
  c1 = c1
  c2 = c2
  e1 = e1
  e2 = e2
  e3 = e3
  i1 = i1
  i2 = i2
  k1 = k1
  k2 = k2
  Jobs = {i1, i2}
  Clients = {c1, c2}
  QueueCap = 1
  Chunks = 2
  ChunkDocs = 2
  NoJob = none
  MaxRestarts = 1
  Events = {e1, e2, e3}
  Stamps <- MCStamps
  ChanCap = 1
  BatchCap = 2
  ExCap = 1
  MaxFlushFails = 1
  SseStreams = {c1}
  HttpStreams = {k1, k2}
  HttpId = i1
  Posts = {e1, e2}
  NoStream = none
  SessionCap = 1
  MKeys = {k1}
  MaxTxn = 2
  MaxPuts = 2
  KeepFor = 1
  MaxAge = 1
  BatchEvery = 2
  MaxWalWrites = 3
  MaxWalCrashes = 1
  MaxWalFaults = 1
  RingSize = 8
  VNodes <- MCVNodes
  FirstShards = 2
  MaxShards = 3
  CopiesOf = 2
  MaxRingCalls = 1
  LKeys = {k1, k2, e1}
  ShardMax = 2
  LTtl = 1
  MaxLClock = 2
  MaxLWrites = 3
  MaxOps = 2
  Waiters = {c1, c2}
  BatchReads = 2
INVARIANTS RecordsTruthful AuditTrailSound ExtremeSound
PROPERTIES EveryJobEnds StopEnds SessionsSound
CHECK_DEADLOCK FALSE
