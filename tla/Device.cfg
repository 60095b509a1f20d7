SPECIFICATION Spec
CONSTANTS
  c1 = c1
  c2 = c2
  Clients = {c1, c2}
  Serial = TRUE
  SIZE = 3
  Unit = 1
  Calls <- OneEach
  Imposters = {}
  MaxCalls = 2
INVARIANTS
  ReadsAreWhole
  WrittenOnce
CHECK_DEADLOCK FALSE
