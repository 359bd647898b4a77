CONSTANTS
  p1 = p1  p2 = p2  a1 = a1  a2 = a2  a3 = a3
  None = None  Stale = Stale
  Proc <- Procs
  Addr <- Three
  Owns <- Together
SPECIFICATION Spec
INVARIANTS StartFindsRoom
PROPERTY OnlyYoungAreLost
