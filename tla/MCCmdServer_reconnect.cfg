\* A session begun in the middle of a command gets the wrong answers.
\* The board may end up waiting for ever for bytes that the host never sends or
\* never takes.
CHECK_DEADLOCK FALSE
CONSTANTS
  OffMod = 4
  Para = 2
  PhysSize = 3
  ItemMax = 7
  WordMod = 4
  BufSize = 2
  NoRequest = none
  Blank = {0}
  MaxBacklog = 7
  HostBuffer = 4
  MaxSessions = 4
  AllowTimeout = FALSE
  Request <- FewRequests
SPECIFICATION Spec
INVARIANT CorrectTail
