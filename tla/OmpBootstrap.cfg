SPECIFICATION BootSpec
CONSTANTS
  s1 = s1  s2 = s2  k1 = k1  k2 = k2
  Nil = Nil
  Session <- TwoSessions
  ToolCall <- TwoCalls
  MaxConvs = 3
  Misfires = TRUE
INVARIANTS OneTask TaskIsProved NoPollOutlives
PROPERTY BootstrapSettles
CHECK_DEADLOCK FALSE
