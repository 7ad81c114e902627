SPECIFICATION Spec
CONSTANTS
  h1 = h1
  h2 = h2
  s1 = s1
  s2 = s2
  edit = edit
  tip = tip
  base = base
  Hooks <- TwoHooks
  Sessions <- TwoSessions
  Tools <- OneTool
  Editors <- OneTool
  Advices <- TwoAdvices
  Baseline = base
  MaxCalls = 3
  MaxKills = 1
INVARIANT TypeOK
INVARIANT StaleAdviceEnds
INVARIANT ShownOnce
INVARIANT EmitsAreReal
INVARIANT PacketsAreFound
INVARIANT ShownIsRemembered
SYMMETRY Renaming
CHECK_DEADLOCK FALSE
