SPECIFICATION BootSpec
CONSTANTS
  s1 = s1  s2 = s2  k1 = k1  k2 = k2
  Nil = Nil
  Session <- TwoSessions
  ToolCall <- TwoCalls
  MaxConvs = 2
  Misfires = TRUE
INVARIANT TaskIsOfTheLaunch
CHECK_DEADLOCK FALSE
