\* Blocks across the end of a segment, also when answers are abandoned and
\* several requests are under way.
CONSTANTS
  OffMod = 4
  Para = 1
  PhysSize = 8
  ItemMax = 15
  WordMod = 8
  BufSize = 3
  NoRequest = none
  Blank = {0}
  MaxBacklog = 10
  HostBuffer = 4
  MaxSessions = 1
  AllowTimeout = TRUE
  Request <- CrossingRequests
SPECIFICATION Spec
PROPERTIES StoresInPlace
