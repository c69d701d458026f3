SPECIFICATION BinlogFairSpec
CONSTANTS
  Writers = {w1, w2}
  Ids = {f1}
  Chans = {c1, c2}
  Ops = {op}
  None = none
  Cap = 1
  MaxLSN = 3
  MaxCrashes = 2
INVARIANTS
  BinlogTypeOK
  LogConsecutive
  OldestIsFirst
  RegisteredIsOpen
  ReadFromComplete
PROPERTIES
  ImplementsLog
  WritersReturn
CHECK_DEADLOCK FALSE
