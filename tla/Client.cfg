SPECIFICATION ClientSpec
CONSTANTS
  Op = {o1}
  Proc = {p1, p2}
  Thread = {t1, t2}
  Partition = {}
  Key = {k1, k2}
  Classified = {k1}
  LedgerKey = {}
  Capacity = 2
  LockReplaceable = FALSE
  None = None
  Tasks = {c1, c2}
  Names = {n1}
  MaxCalls = 3
  Timeouts = {0, 3}
  Intervals = {1, 2, 5}
  Blips = 2
  Lags = 1
  TakeOver = {TRUE, FALSE}
  Reconnect = TRUE
  Chunks = 2
  Turns = 5
  Edits = 1
  NSystems = 2
  NVios = 2
  MaxFaults = 1
  MaxTouches = 1
  Lines = 3
  Slots = 1
INVARIANTS
  TypesOK
  OneRunner
  AtMostOnce
  NothingUnjournaled
  SessionsAccounted
  CacheSound
  JobKnown
  ReleaseSafe
  BytesKept
  CallsAuthorized
  ReportTrue
PROPERTIES
  GapFirst
SYMMETRY Symmetry
