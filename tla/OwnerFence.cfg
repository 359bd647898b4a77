SPECIFICATION Spec
CONSTANTS
  Host = {h1, h2, h3}
  Parent = {p1, p2}
  Spelling = {s1, s2}
  Foreign = foreign
  None = none
  MaxWrites = 7
  MaxFaults = 1
SYMMETRY Symmetry
INVARIANTS OneUser AdoptedOnce LastOpenIsKept AnswerHolds
CHECK_DEADLOCK FALSE
