SPECIFICATION Spec
CONSTANTS
  h1 = h1
  Contacts = {1}
  Handlers = {h1}
  Buttons = {"launch"}
  Blockable = {}
  NumBatches = 1
  BatchSize = 1
  ChunkSize = 1
  MaxGen = 0
  MaxOrdinal = 0
  MaxPresses = 1
  MaxRetries = 0
  MaxFaults = 0
INVARIANT OutcomeApplied
CHECK_DEADLOCK FALSE
