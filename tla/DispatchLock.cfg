SPECIFICATION Spec
CONSTANTS
  a1 = a1  a2 = a2  a3 = a3  a4 = a4
  p1 = p1  p2 = p2  p3 = p3
  h1 = h1  h2 = h2
  None = None
  Attempt <- MCAttempt
  Process <- MCProcess
  proc <- OneHostProc
  host <- OneHost
  machine <- OneHost
  IOFaults = TRUE
  HandClears = {"torn", "marker"}
CHECK_DEADLOCK FALSE
INVARIANT MutualExclusion
PROPERTIES ForeignRemovalIsOfTheDead ImplementsMutex
