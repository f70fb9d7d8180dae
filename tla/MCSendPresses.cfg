SPECIFICATION PressesSpec
CONSTANTS
  h1 = h1
  h2 = h2
  Contacts = {1, 2}
  Handlers = {h1, h2}
  Buttons = {"launch", "approve", "relaunch", "cancel", "archive", "retry", "status"}
  Blockable = {1}
  NumBatches = 2
  BatchSize = 1
  ChunkSize = 1
  MaxGen = 1
  MaxOrdinal = 1
  MaxPresses = 3
  MaxRetries = 1
  MaxFaults = 1
SYMMETRY Symmetry
INVARIANT TypeOK
INVARIANT IInv
INVARIANT OneMailPerGeneration
INVARIANT RepeatOnlyAfterFailure
INVARIANT JobsTruthful
INVARIANT InterruptedSendFoundAlone
CHECK_DEADLOCK FALSE
