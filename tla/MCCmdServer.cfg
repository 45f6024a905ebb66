\* A session that lasts: every request is served as RemoteMemory says, and
\* answered if it fits.
CONSTANTS
  OffMod = 4
  Para = 2
  PhysSize = 8
  ItemMax = 15
  WordMod = 8
  BufSize = 2
  NoRequest = none
  Blank = {0}
  MaxBacklog = 8
  HostBuffer = 11
  MaxSessions = 1
  AllowTimeout = FALSE
  Request <- StableRequests
SPECIFICATION FairSpec
PROPERTIES RemoteSpec ServableReturns
