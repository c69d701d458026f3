SPECIFICATION FairSpec
CONSTANTS
  Writers = {w1}
  Chans = {c1}
  Ids = {f1}
  Follower = f1
  Ops <- MCOps
  Footprints <- OneKey
  None = none
  Keys = {k1}
  Base = 0
  Cap = 1
  MaxLSN = 2
  MaxCommits = 3
  MaxCrashes = 0
  MaxRestores = 1
  MaxSkips = 0
  PeerAsks = FALSE
PROPERTIES
  TooOldIsResynced
CHECK_DEADLOCK FALSE
