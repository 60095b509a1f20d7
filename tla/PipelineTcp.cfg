SPECIFICATION Spec
CONSTANTS
  Calls = {c1, c2, c3}
  Units = {u1}
  UnitOf <- OneUnit
  MaxTid = 2
  MaxInFlight = 2
  TimeoutDesyncs = TRUE
  MaxAnswers = 2
  MaxStrays = 1
  Nobody = Nobody
SYMMETRY CallSymmetry
INVARIANTS
  OwnResponse
  TimersMatchEntries
  DesyncLeavesNothing
  TaskOutlivesCalls
  PermitsConserved
PROPERTIES
  ImplementsExchanges
  OwnResponseNeverRejected
CHECK_DEADLOCK FALSE
