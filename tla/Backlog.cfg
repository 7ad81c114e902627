SPECIFICATION Spec
CONSTANTS
  Steps <- ReadingSteps
  Slow <- SlowSteps
  PoolSize = 2
  Batch = 2
  Limit = 2
  MaxEvents = 2
  MaxTroubles = 0
INVARIANT BacklogIsUnseen
