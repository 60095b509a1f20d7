SPECIFICATION FairSpec
CONSTANTS
  Setups <- EveryKind
  AnyUnit = AnyUnit
  MaxConns = 2
  MaxArrivals = 2
  MaxErrors = 1
  MaxPanics = 1
INVARIANTS
  EndsAreAnnounced
  ShutdownMeansQuiet
  ShutdownIsOrderly
  AnswersOnlyOwnUnit
PROPERTIES
  ShutdownCompletes
CHECK_DEADLOCK FALSE
