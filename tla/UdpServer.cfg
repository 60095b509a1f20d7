SPECIFICATION FairSpec
CONSTANTS
  Kinds = {"own", "other", "undecodable", "oversized"}
  MaxDatagrams = 3
  SocketBuffer = 2
  Targets = {"unix", "windows"}
  SocketErrors <- OneOfEach
  MaxErrors = 1
INVARIANTS
  ShutdownMeansQuiet
  NoPeerStopsServing
PROPERTIES
  ShutdownCompletes
  DatagramsAreTakenUp
CHECK_DEADLOCK FALSE
