CONSTANTS
  d1 = d1  d2 = d2  n1 = n1  n2 = n2
  None = None
  Retirer <- Two
  Native <- Natives
  MaxGens = 2
  MaxRewrites = 1
SYMMETRY Symmetry
SPECIFICATION Spec
INVARIANTS AnswerIsTrue OneShutdown AskedForIt SidecarIsTrue
CHECK_DEADLOCK FALSE
