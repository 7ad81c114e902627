SPECIFICATION Spec
CONSTANTS
  h1 = h1
  h2 = h2
  w1 = w1
  NoFile = NoFile
  Producers <- OneHook
  Consumers <- OneWorker
  Batches <- Batch2
  MaxEvents = 2
  MaxQueueLines = 0
  KeepDefault = 1
  CompactHead = 2
  MaxFailures = 0
  SlowHolders = FALSE
  MaxCaptures = 4
  MaxCrashes = 0
INVARIANT ConsumedWereProcessed
