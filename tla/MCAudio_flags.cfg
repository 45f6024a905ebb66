\* The value 0x15 and its comment.
CONSTANTS
  B = 2
  Intervals = {50}
SPECIFICATION Spec
INVARIANTS FlagsReset
