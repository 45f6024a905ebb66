\* Sessions may be reopened while the board is still busy with the last one.
\* U8 = 3: the counters wrap within a session, and one behind differs from
\* one ahead.
CONSTANTS
  Byte = {0, 1}
  U8 = 3
  MaxTraffic = 2
  MaxCall = 2
  GapSeen = FALSE
SPECIFICATION Spec
INVARIANTS TypeOK InOrder WriteSynchronous IndInv NoSpuriousSession NoOverrun
