CONSTANTS
  BYTE = 10
  RADIX = 4
  STRING_MAX_SIZE = 4
  UUID_STR_SIZE = 11
  CHARARR_MAX = 12
  CLOCK_SEQ = 2
  MAX_CPUS = 2
  MAX_MEM_RANGES = 2
  MAX_DEVICE_MEM_RANGES = 1
  MAX_SMCS = 2
  MAX_SECSERVS = 2
  SP_MAX_INTERRUPTS_PER_DEVICE = 1
  SP_MAX_STREAMS_PER_DEVICE = 1
  Boots <- MCBoots
SPECIFICATION Spec
INVARIANTS
  VmsAsWritten
  AcceptsWellFormed
  
  BootParamsRead
