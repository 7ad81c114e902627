SPECIFICATION Spec
CONSTANTS
  a1 = a1
  a2 = a2
  s1 = s1
  s2 = s2
  Agents <- TwoAgents
  Sessions <- TwoSessions
  Tools <- OneTool
  MaxSteps = 1
  MaxCalls = 2
  MaxKills = 1
INVARIANT TypeOK
INVARIANT OneOpenEpisode
INVARIANT OutcomeTold
INVARIANT BudgetHalts
INVARIANT OwnResult
SYMMETRY Renaming
CHECK_DEADLOCK FALSE
