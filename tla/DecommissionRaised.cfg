SPECIFICATION Spec
CONSTANTS
  Adapter = {a1}
  Mapping = {m1}
  Turns = 1
INVARIANTS
  PartialReported
CHECK_DEADLOCK FALSE
