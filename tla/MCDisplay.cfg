\* Three tests on two pages, with results of one to three digits and five at
\* first.
CONSTANTS
  Tests <- SmallTests
  Measured = {7, 130}
  Garbage = {7, 65535}
  FORCE_PAGE <- NoForcePage
  PageDelay = 3
  Columns = 15
  Lines = 5
SPECIFICATION Spec
INVARIANTS ScreenExact ResultsFresh
PROPERTIES EveryTestShown
