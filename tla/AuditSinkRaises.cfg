SPECIFICATION Spec
CONSTANTS
  Lines = 3
  Capacity = 1
  Caller = {c1}
  StartMayFail = TRUE
INVARIANTS
  NeverRaises
