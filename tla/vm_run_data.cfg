SPECIFICATION Spec
CONSTANTS
  SizeMod = 4096
  MiB = 64
  Requests <- EndingRequests
  ProgSizes <- Programs
  Fixed = 40
  Expansion = 2
INVARIANT DataMapped
CHECK_DEADLOCK FALSE
