SPECIFICATION Spec
CONSTANTS
  Packs = {p1}
  Workers = {w1, w2}
  Keys = {k1, k2}
  NoKey = NoKey
  NoPack = NoPack
  MaxDelay = 1
  ClaimStale = 2
  InvocationLimit = 1
  BatchSize = 1
  MaxFaults = 2
SYMMETRY WorkerSymmetry
INVARIANTS
  IInv
  AtMostOnePost
  OutcomeTruthful
PROPERTIES
  OutcomeFinal
  NeverEarly
  ImplementsOneShot
