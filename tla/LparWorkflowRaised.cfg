SPECIFICATION Spec
CONSTANTS
  MaxAssignments = 2
  Others = 2
INVARIANTS
  ProvisionReported
CHECK_DEADLOCK FALSE
