SPECIFICATION Spec
CONSTANTS
  h1 = h1
  h2 = h2
  w1 = w1
  NoFile = NoFile
  Producers <- TwoHooks
  Consumers <- OneWorker
  Batches <- Batch2
  MaxEvents = 2
  MaxQueueLines = 2
  KeepDefault = 1
  CompactHead = 1
  MaxFailures = 0
  SlowHolders = FALSE
  MaxCaptures = 4
  MaxCrashes = 0
INVARIANTS NoLossInv LossOnlyInMergeWindow HeadOverConsumed DirectLinesAreNewest
SYMMETRY HookSymmetry
