SPECIFICATION PrintfSpec
CONSTANTS
  Inputs <- NegativePrecision
  PRINTF_INTEGER_BUFFER_SIZE = 32
INVARIANTS Conforms
CHECK_DEADLOCK FALSE
