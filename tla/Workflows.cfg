SPECIFICATION WorkflowsSpec
CONSTANTS
  Adapter = {a1, a2}
  Mapping = {m1, m2}
  Turns = 2
  Client = {c1, c2}
  Names = {n1}
  Sizes = {1}
  Devices = {t1}
  Lpars = {p1, p2}
  Owned = {p1}
  User = {u1, u2}
  Lpar = {q1, q2}
  Mine = {q1, q2}
  Things = {x1}
  Slots = {2, 3}
  MaxAssignments = 2
  MaxCalls = 2
  MaxOthers = 2
  MaxMeddlers = 1
  Uuids = {"i1", "i2", "i3"}
  Titles = {"a", "b", "c"}
  Target = "a"
  Bystander = "b"
  Asks <- Asked
  Guard = TRUE
  MaxTurns = 2
INVARIANTS
  TypesOK
  StopsInTime
  OnlyInventoried
  BareWhenDeleted
  Truthful
  CallsHonest
  CollisionsTold
  ReportTruthful
PROPERTIES
  WritesConfined
SYMMETRY AllSymmetry
CHECK_DEADLOCK FALSE
