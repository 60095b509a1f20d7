SPECIFICATION FairDuplexSpec
CONSTANTS
  Calls = {c1, c2, c3}
  Units = {u1}
  UnitOf <- OneUnit
  MaxTid = 3
  MaxInFlight = 2
  TimeoutDesyncs = TRUE
  MaxAnswers = 1
  MaxStrays = 0
  RequestRoom = 1
  ResponseRoom = 0
  Nobody = Nobody
INVARIANTS
  StandstillTakesMore
PROPERTIES
  ReturnsUnlessAbandoned
CHECK_DEADLOCK FALSE
