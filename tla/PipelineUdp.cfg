SPECIFICATION FairSpec
CONSTANTS
  Calls = {c1, c2, c3}
  Units = {u1}
  UnitOf <- OneUnit
  MaxTid = 3
  MaxInFlight = 1
  TimeoutDesyncs = FALSE
  MaxAnswers = 1
  MaxStrays = 0
  Nobody = Nobody
INVARIANTS
  NoPanicBeforeReuse
PROPERTIES
  TimeoutScope
  EveryCallReturns
  TaskStops
CHECK_DEADLOCK FALSE
