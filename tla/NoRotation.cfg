SPECIFICATION FairSpec
CONSTANTS
  h1 = h1
  h2 = h2
  w1 = w1
  NoFile = NoFile
  Producers <- TwoHooks
  Consumers <- OneWorker
  Batches <- Batch2
  MaxEvents = 0
  MaxQueueLines = 0
  KeepDefault = 1
  CompactHead = 1
  MaxFailures = 1
  SlowHolders = FALSE
  MaxCaptures = 3
  MaxCrashes = 0
INVARIANT ConsumedWereProcessed
PROPERTY ImplementsDelivery
PROPERTY DirectEventsDrain
