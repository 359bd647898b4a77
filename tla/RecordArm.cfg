SPECIFICATION Spec
CONSTANTS
  p1 = p1  p2 = p2  n1 = n1  n2 = n2  g1 = g1  g2 = g2
  None = None  Dead = Dead
  Process <- Processes
  Native <- Natives
  Garden <- Gardens
  MaxRuns = 3
  MaxKey = 2
  Faults = TRUE
SYMMETRY Symmetry
INVARIANTS PairMatches OneAddress DeliverableIsServed
PROPERTY GardenIsForLife
CHECK_DEADLOCK FALSE
