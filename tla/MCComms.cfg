\* U8 = 3 makes both counters wrap within a session.
CONSTANTS
  Byte = {0, 1}
  U8 = 3
  MaxTraffic = 3
  MaxCall = 2
  GapSeen = TRUE
SPECIFICATION FairSpec
PROPERTIES StreamSpec CallsReturn
