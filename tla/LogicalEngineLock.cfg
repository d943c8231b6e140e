SPECIFICATION Spec
CONSTANTS
  Op = {o1, o2}
  Proc = {p1}
  Thread = {t1, t2}
  Partition = {}
  Key = {k1}
  Classified = {k1}
  LedgerKey = {}
  Capacity = 2
  LockReplaceable = TRUE
  None = None
INVARIANTS
  NeverOrphaned
  JournalCurrent
  SettledEnd
PROPERTIES
  TerminalFinal
SYMMETRY Symmetry
