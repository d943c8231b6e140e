SPECIFICATION Spec
CONSTANTS
  TakeOver = {FALSE}
  Reconnect = TRUE
  Chunks = 1
  Turns = 5
  SilentGrant = FALSE
  Coalesced = FALSE
  LateTimeout = TRUE
  RmvtermLies = FALSE
INVARIANTS
  KnownLossSpared
CHECK_DEADLOCK FALSE
