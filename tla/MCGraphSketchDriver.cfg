CONSTANTS
  num_workers = 2
  StreamLength = 2
  MaxCalls = 3
  QueueSlots = 1
  Update <- AllUpdates
SPECIFICATION FairSpec
INVARIANTS QuiescentInv UpdateOnce FirstFlushComplete
PROPERTIES NoUpdateDuringQuery FirstFlushReturns
