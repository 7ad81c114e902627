SPECIFICATION FairSpec
CONSTANTS
  h1 = h1
  h2 = h2
  w1 = w1
  NoFile = NoFile
  Producers <- OneHook
  Consumers <- OneWorker
  Batches <- Batch1
  MaxEvents = 1
  MaxQueueLines = 0
  KeepDefault = 1
  CompactHead = 1
  MaxFailures = 0
  SlowHolders = TRUE
  MaxCaptures = 3
  MaxCrashes = 2
INVARIANT TypeOK
INVARIANT LockExclusive
PROPERTY CaptureReturns
