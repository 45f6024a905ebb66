SPECIFICATION PrintfSpec
CONSTANTS
  Inputs <- Unfinished
  PRINTF_INTEGER_BUFFER_SIZE = 32
INVARIANTS WithinFormat
CHECK_DEADLOCK FALSE
