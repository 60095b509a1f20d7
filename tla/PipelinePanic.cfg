SPECIFICATION Spec
CONSTANTS
  Calls = {c1, c2, c3}
  Units = {u1}
  UnitOf <- OneUnit
  MaxTid = 2
  MaxInFlight = 2
  TimeoutDesyncs = FALSE
  MaxAnswers = 1
  MaxStrays = 0
  Nobody = Nobody
SYMMETRY CallSymmetry
INVARIANT NoPanic
CHECK_DEADLOCK FALSE
