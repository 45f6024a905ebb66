SPECIFICATION PrintfSpec
CONSTANTS
  Inputs <- MCInputs
  PRINTF_INTEGER_BUFFER_SIZE = 32
INVARIANTS Conforms WithinBuffer WithinFormat
