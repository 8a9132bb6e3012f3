CONSTANTS
  c1 = c1
  c2 = c2
  c3 = c3
  s1 = s1
  s2 = s2
  NoSession = NoSession
  Session = {s1, s2}
  Call = {c1, c2, c3}
  Foreign = {s1}
  Plan <- MCPlan
  MaxPid = 5
  MaxUpset = 1
SPECIFICATION Spec
CHECK_DEADLOCK FALSE
PROPERTY SupersededStartIdle
