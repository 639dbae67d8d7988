CONSTANTS
  Keys = {1, 2}
  ZeroKey = 1
  BatchSize = 2
  RareSize = 2
  ChanSize = 1
  RankListSize = 1
  MaxPushes = 5
  MaxFaults = 0
SPECIFICATION Spec
CHECK_DEADLOCK FALSE
INVARIANTS AllListed
