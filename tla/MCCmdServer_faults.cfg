\* Sessions end and begin at any time, and the host gives up on answers and
\* goes on in the same session.
\* The board may end up waiting for ever for bytes that the host never sends or
\* never takes.
CHECK_DEADLOCK FALSE
CONSTANTS
  OffMod = 4
  Para = 2
  PhysSize = 3
  ItemMax = 7
  WordMod = 4
  BufSize = 2
  NoRequest = none
  Blank = {0}
  MaxBacklog = 7
  HostBuffer = 4
  MaxSessions = 3
  AllowTimeout = TRUE
  Request <- FaultRequests
SPECIFICATION Spec
INVARIANTS TypeOK PayloadAccounted CleanTail
PROPERTIES CleanSteps StoresInPlace
