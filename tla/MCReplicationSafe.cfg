SPECIFICATION Spec
CONSTANTS
  Writers = {w1, w2}
  Chans = {c1, c2}
  Ids = {f1}
  Follower = f1
  Ops <- MCOps
  Footprints <- OneKey
  None = none
  Keys = {k1}
  Base = 0
  Cap = 1
  MaxLSN = 2
  MaxCommits = 2
  MaxCrashes = 1
  MaxRestores = 1
  MaxSkips = 1
  PeerAsks = TRUE
SYMMETRY Symmetry
ACTION_CONSTRAINT Apart
INVARIANTS
  FollowerNotAhead
  RegisteredIsTailing
  SnapshotCovers
CHECK_DEADLOCK FALSE
