SPECIFICATION FairSpec
CONSTANTS
  SizeMod = 4096
  MiB = 64
  Requests <- AnyRequests
  ProgSizes <- Programs
  Fixed = 40
  Expansion = 2
PROPERTY AdjustEnds
CHECK_DEADLOCK FALSE
