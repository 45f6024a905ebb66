\* 0x8000 bytes are asked for: the answer is empty.
CONSTANTS
  OffMod = 8
  Para = 2
  PhysSize = 8
  ItemMax = 15
  WordMod = 8
  BufSize = 2
  NoRequest = none
  Blank = {0}
  MaxBacklog = 8
  HostBuffer = 5
  MaxSessions = 1
  AllowTimeout = FALSE
  Request <- LargeRead
SPECIFICATION FairSpec
PROPERTY EveryRequestReturns
