SPECIFICATION FairSpec
CONSTANTS
  SizeMod = 4096
  MiB = 64
  Requests <- EndingRequests
  ProgSizes <- Programs
  Fixed = 40
  Expansion = 2
INVARIANTS TypeOK MemoryAsAsked AllOrNothing FitsMemory Released
PROPERTY Ends
CHECK_DEADLOCK FALSE
