SPECIFICATION ArmsSpec
INVARIANTS
  TypesOK
  CleanTrue
  LeftTold
  OnlyOwnRemoved
CHECK_DEADLOCK FALSE
