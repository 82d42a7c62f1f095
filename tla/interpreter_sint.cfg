SPECIFICATION IntSpec
CONSTANTS
  HalfMod = 16
  StackSpan = 256
  StackDepth = 24
  HeapAddrs = {}
  HostRoom = 0
  Programs <- TestSuite
  BitAnd <- AndOp
  BitOr <- OrOp
  BitXor <- XorOp
PROPERTY SintDisplaysUnsigned
CHECK_DEADLOCK FALSE
