SPECIFICATION Spec
CONSTANTS
  MaxFaults = 0
  MaxTouches = 0
  MaxStops = 0
INVARIANTS
  OthersKeep
CHECK_DEADLOCK FALSE
