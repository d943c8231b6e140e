SPECIFICATION LiveSpec
CONSTANTS
  Op = {o1, o2}
  Proc = {p1}
  Thread = {t1}
  Partition = {q1}
  Key = {}
  Classified = {}
  LedgerKey = {l1}
  Capacity = 2
  LockReplaceable = FALSE
  None = None
INVARIANTS
  GuardExclusive
PROPERTIES
  OrphanFound
  CloseEnds
  Settles
