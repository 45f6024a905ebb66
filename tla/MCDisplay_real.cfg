\* The real table.
CONSTANTS
  Tests <- RealTests
  Measured = {13}
  Garbage = {65535}
  FORCE_PAGE <- NoForcePage
  PageDelay = 50
  Columns = 15
  Lines = 19
SPECIFICATION Spec
INVARIANTS ScreenExact
PROPERTIES EveryTestShown
