\* A whole segment is to be filled: nothing is.
CONSTANTS
  OffMod = 8
  Para = 2
  PhysSize = 8
  ItemMax = 15
  WordMod = 8
  BufSize = 2
  NoRequest = none
  Blank = {0}
  MaxBacklog = 8
  HostBuffer = 5
  MaxSessions = 1
  AllowTimeout = FALSE
  Request <- LargeFill
SPECIFICATION Spec
PROPERTY AcceptedMeansDone
