SPECIFICATION HarnessSpec
CONSTANTS
  Op = {o1, o2}
  Request <- Requests
  Turns = 1
INVARIANTS
  TypesOK
  OneJob
  EndsProven
  NoOverlap
  CleanTrue
  LeftTold
PROPERTIES
  OnlyOwnRemoved
SYMMETRY Symmetry
CHECK_DEADLOCK FALSE
