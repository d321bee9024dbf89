\* 6-bit addresses and a 4-bit int: LMEM_LOG_SIZE = 3 is the scaled
\* LMEM_LOG_SIZE = 31, where 1 << LMEM_LOG_SIZE reaches the sign bit.
\* Local memory is [16, 24) by the spec and IO is [48, 56).
CONSTANTS
  ADDR_BITS = 6
  INT_BITS = 4
  IO_BASE_ADDR = 48
  IO_END_ADDR = 56
  LMEM_ENABLED = TRUE
  LMEM_BASE_ADDR = 16
  LMEM_LOG_SIZE = 3

SPECIFICATION Spec

INVARIANT ClassifiedAsSpec
