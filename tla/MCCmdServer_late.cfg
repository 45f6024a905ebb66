\* After a timeout the next command gets the answer of the last one.
\* The board may end up waiting for ever for bytes that the host never sends or
\* never takes.
CHECK_DEADLOCK FALSE
CONSTANTS
  OffMod = 4
  Para = 2
  PhysSize = 3
  ItemMax = 15
  WordMod = 8
  BufSize = 2
  NoRequest = none
  Blank = {0}
  MaxBacklog = 11
  HostBuffer = 6
  MaxSessions = 1
  AllowTimeout = TRUE
  Request <- FewRequests
SPECIFICATION Spec
PROPERTY AcceptedMeansDone
