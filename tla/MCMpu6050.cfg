SPECIFICATION FairSpec
CONSTANTS
  BITS = 8
  STRETCH_TIMEOUT = 2
  REGISTERS = 7
  SAMPLE_BYTES = 14
INVARIANTS InStep BusLeftIdle RunsProgrammed
PROPERTIES CallsEnd
CHECK_DEADLOCK FALSE
