SPECIFICATION Spec
CONSTANTS
  Readers = {t1}
  Appenders = {a1}
  Items <- FeedItems
  PageSize = 1
  People = {1}
  Hooks <- SmallHooks
  Askers = {u1}
  UnsubLimit = 1
  BatchLimit = 2
  MaxTime = 1
  MaxAsks = 2
  MaxFaults = 1
  None = None
  OutPacks = {1, 2}
  Settle = 2
  MaxLag = 1
  OutLimit = 1
  WorkCap = 2
  Horizon = 4
  MaxDrops = 1
INVARIANTS
  ReturnsInv
  UnsubHonoured
  NoOutcomePassed
PROPERTIES
  SuppressionOnlyGrows
  UnsubReachesTerminal
  HookReachesTerminal
  EveryOutcomeApplied
CHECK_DEADLOCK FALSE
