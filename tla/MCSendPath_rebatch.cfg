SPECIFICATION RetrySpec
CONSTANTS
  Contacts = {1, 2, 3}
  Handlers = {h1}
  Buttons = {"launch", "approve", "relaunch", "retry"}
  Blockable = {}
  NumBatches = 3
  BatchSize = 1
  ChunkSize = 1
  MaxGen = 1
  MaxOrdinal = 1
  MaxPresses = 5
  MaxRetries = 1
  MaxFaults = 1
INVARIANT InterruptedSendFound
CHECK_DEADLOCK FALSE
