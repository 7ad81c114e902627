SPECIFICATION FairSpec
CONSTANTS
  p1 = p1
  p2 = p2
  p3 = p3
  p4 = p4
  NoPid = NoPid
  Pids <- ThreePids
  Managed <- Worker
  Threshold = 2
  MaxRestarts = 2
  Hour = 1
  Stale = 0
  CommandsOverlap = FALSE
  MaxCrashes = 1
  MaxStuck = 1
  MaxStrangers = 1
  MaxByHand = 1
INVARIANT TypeOK
INVARIANT OneWatchdog
INVARIANT OneOfEach
INVARIANT RestartsLimited
PROPERTY DownReachesAll
PROPERTY WorkerReturns
