SPECIFICATION FairSpec
CONSTANTS
  Attempts <- MCAttempts
  Settings <- MCSettings
  Listeners <- MCListeners
  ServerCert = "ca"
INVARIANTS
  OwnCertificate
  AuthenticatedAsConfigured
  DirectionControlled
PROPERTIES
  EveryAttemptEnds
CHECK_DEADLOCK FALSE
