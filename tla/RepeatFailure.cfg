SPECIFICATION Spec
CONSTANTS
  a1 = a1
  a2 = a2
  s1 = s1
  s2 = s2
  Agents <- OneAgent
  Sessions <- OneSession
  Tools <- OneTool
  MaxSteps = 9
  MaxCalls = 3
  MaxKills = 0
INVARIANT RepeatsAreNoticed
CHECK_DEADLOCK FALSE
