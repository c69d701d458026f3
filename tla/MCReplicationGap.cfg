SPECIFICATION Spec
CONSTANTS
  Writers = {w1}
  Chans = {c1, c2}
  Ids = {f1}
  Follower = f1
  Ops <- MCOps
  Footprints <- OneKey
  None = none
  Keys = {k1}
  Base = 0
  Cap = 4
  MaxLSN = 2
  MaxCommits = 2
  MaxCrashes = 0
  MaxRestores = 0
  MaxSkips = 0
  PeerAsks = FALSE
SYMMETRY Symmetry
INVARIANTS
  CaughtUp
CHECK_DEADLOCK FALSE
