SPECIFICATION FairSpec
CONSTANTS
  Packs = {p1}
  Workers = {w1, w2}
  Keys = {k1}
  NoKey = NoKey
  NoPack = NoPack
  MaxDelay = 1
  ClaimStale = 2
  InvocationLimit = 9
  BatchSize = 1
  MaxFaults = 2
PROPERTIES
  KnownOutcomeFinal
  EveryPackResolves
