SPECIFICATION Spec
CONSTANTS
  TakeOver = {FALSE}
  Reconnect = TRUE
  Chunks = 1
  Turns = 5
  SilentGrant = TRUE
  Coalesced = FALSE
  LateTimeout = FALSE
  RmvtermLies = FALSE
INVARIANTS
  ReleasedProven
CHECK_DEADLOCK FALSE
