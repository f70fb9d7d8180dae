SPECIFICATION Spec
CONSTANTS
  h1 = h1
  h2 = h2
  Contacts = {1}
  Handlers = {h1, h2}
  Buttons = {"launch", "cancel"}
  Blockable = {}
  NumBatches = 1
  BatchSize = 1
  ChunkSize = 1
  MaxGen = 0
  MaxOrdinal = 0
  MaxPresses = 2
  MaxRetries = 0
  MaxFaults = 1
SYMMETRY Symmetry
INVARIANT CancelReachesAll
CHECK_DEADLOCK FALSE
