SPECIFICATION FairIntSpec
CONSTANTS
  HalfMod = 16
  StackSpan = 128
  StackDepth = 12
  HeapAddrs = {64}
  HostRoom = 0
  Programs <- MCPrograms
  BitAnd <- AndOp
  BitOr <- OrOp
  BitXor <- XorOp
INVARIANTS TypeOK DisplaysExpected StackCleared
PROPERTIES Spec TestsExit
CHECK_DEADLOCK FALSE
