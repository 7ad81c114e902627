SPECIFICATION Spec
CONSTANTS
  bridge = bridge
  hook = hook
  k1 = k1
  k2 = k2
  k3 = k3
  Absent = Absent
  Free = Free
  Stale = Stale
  Learners <- TwoLearners
  Batching <- Bridge
  Keys <- ThreeKeys
  Norm <- NormKeys
  SlowHolders = TRUE
  MayExit = TRUE
  MaxOps = 6
  MaxFaults = 1
  MaxCrashes = 1
INVARIANTS TypeOK SavesExclude CleanIsSaved NeverOvercounted FoldsKeepTotals
PROPERTY DiskGrowsUntilCrash
CHECK_DEADLOCK FALSE
