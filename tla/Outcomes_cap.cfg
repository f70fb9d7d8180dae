SPECIFICATION OutFairSpec
CONSTANTS
  OutPacks = {1, 2}
  Settle = 2
  MaxLag = 1
  OutLimit = 1
  WorkCap = 1
  Horizon = 4
  MaxDrops = 0
PROPERTY EveryOutcomeApplied
CHECK_DEADLOCK FALSE
