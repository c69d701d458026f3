SPECIFICATION ServicesSpec
CONSTANTS
  c1 = c1
  c2 = c2
  d1 = d1
  d2 = d2
  e1 = e1
  e2 = e2
  i1 = i1
  i2 = i2
  k1 = k1
  k2 = k2
  RDocs = {d1}
  RJobs = {i1, i2}
  NoEntry = none
  InitSeals <- MCInitSeals
  MaxWrites = 1
  MaxReboots = 1
  FDocs = {d1, d2}
  Terms = {"a", "b"}
  Texts <- MCTexts
  FClients = {c1, c2}
  NoText = none
  MaxFWrites = 3
  MaxFCrashes = 1
  VDocs = {d1}
  VTexts = {"short", "long"}
  ChunksOf <- MCChunksOf
  MaxChunks = 2
  EWorkers = {e1, e2}
  EClients = {c1}
  JobCap = 1
  NoVec = none
  MaxEWrites = 3
  MaxFails = 1
  MaxECrashes = 1
  RegIds = {i1, i2}
  RegVals = {k1, k2}
  NoReg = none
  RegClients = {c1, c2}
  MaxRegReqs = 2
  MaxRegCrashes = 1
  HookIds = {i1, i2}
  CronIds = {k1}
  NoRule = none
  AClients = {c1, c2}
  InitRules <- MCInitRules
  MaxARequests = 2
  MaxFires = 1
  MaxARestarts = 1
  Conns = {k1, k2, i1}
  IpOf <- MCIpOf
  NoIp = "none"
  FilterOf <- MCFilterOf
  UserOf <- MCUserOf
  AllColls = "all"
  SseEvents = {e1, e2}
  CollOf <- MCCollOf
  MaxConns = 2
  MaxPerIP = 1
  SseCap = 1
  Actors = {k1}
  NoBucket = none
  Budget = 1
  Window = 2
  Threshold = 2
  Cooldown = 3
  MaxWait = 1
  MaxTime = 4
  MaxCalls = 4
  SDocs = {d1, d2}
  Letters = {0, 1}
  MaxWord = 4
  MaxClauses = 3
  MaxDups = 4
  MaxBuckets = 4
  DeltaHeader = 1
  AuthUsers = {k1}
  AuthKeys = {k2}
  AuthGroups = {i1}
  Grants <- MCGrants
  NoVal = none
  AuthClients = {c1, c2}
  MaxAuthReqs = 4
  MaxAuthFails = 1
  MaxAuthRestarts = 1
  McpKeyIds = {k1}
  Lookups = {c1, c2}
  Admins = {i1, i2}
  NoKey = none
  CacheTTL = 2
  MaxLookup = 1
  MaxTick = 5
  Firings = {k1, k2}
  MaxAttempts = 2
  PageLimit = 1
  MaxListings = 1
  MaxCleanups = 1
  TgDocs = {d1, d2}
  TgTexts <- MCTgTexts
  TgRules <- MCTgRules
  MaxTgRequests = 2
  TgTopK = 1
  NoTg = none
  MaxTgEdits = 1
  TDocs = {d1}
  Recorders = {c1, c2}
  TStart = 1
  MaxDays = 1
  TChanCap = 1
  TBatch = 2
  MaxEvents = 3
  HistoFrom = 17890
  HistoTo = 20100
  Searches = {c1, c2}
  FuDocs = {d1, d2, e1}
  FuScores = {1, 2, 3}
  RRFK = 60
  AlphaParts = 2
  MaxEntries = 9
  MaxWorkers = 5
  MaxMinSize = 3
  GDocs = {d1, d2}
  GClients = {c1}
  GLoader = k1
  GPlaces <- MCGPlaces
  Postcode = postcode
  PostcodeAt <- MCPostcodeAt
  NoPlace = none
  NoGDoc = absent
  GCorners <- MCGCorners
  Precision = 3
  MaxGRequests = 2
  MaxGRestarts = 1
INVARIANTS RotationSafe IndexSound SkipIsSound CopiesAgree HubSound LimitsHold AnswersExact AccessSound DeliveriesTold TemporalExact ResultsSound CronsAgree DeletedKeyRefused RequestsGuarded WritesFollowed GeoSound
CHECK_DEADLOCK FALSE
