SPECIFICATION FairSpec
CONSTANTS
  Framings = {"Tls", "Udp", "RtuOverTcp", "Ascii"}
  Units = {0, 1}
  Strays <- Others
  MaxTid = 2
  MaxRequests = 3
  MaxReplies = 2
  MaxInbox = 2
  MaxNoise = 1

  
  
PROPERTIES
  EveryWaitEnds
CHECK_DEADLOCK FALSE
