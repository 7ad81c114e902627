SPECIFICATION FairSpec
CONSTANTS
  Steps <- LearningSteps
  Slow <- SlowSteps
  PoolSize = 2
  Batch = 1
  Limit = 1
  MaxEvents = 2
  MaxTroubles = 2
INVARIANT TypeOK
INVARIANT ConsumedIsSaved
INVARIANT HeadOverProcessed
INVARIANT OffsetOverProcessed
PROPERTY CycleEnds
PROPERTY QueueDrains
