SPECIFICATION Spec
CONSTANTS
  InUse = {"Rtu", "RtuOverTcp", "Tcp", "Ascii", "Udp"}
  Crc16 <- SumCheck
  Header <- MCHeader
  Samples <- EveryVariant
  Followers <- AFew
  Foreign <- OneByteOff
  Stray = {0, 13, 58, 65, 97}
  MaxStrayLen = 17
  MaxAttempts = 2
INVARIANTS
  RoundTrip
  DamageIsNoticed
  CutWhereSent
CHECK_DEADLOCK FALSE
