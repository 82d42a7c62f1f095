SPECIFICATION Spec
CONSTANTS
  HalfMod = 16
  StackSpan = 0
  StackDepth = 0
  HeapAddrs = {}
  HostRoom = 0
  Programs = {}
  BitAnd <- AndOp
  BitOr <- OrOp
  BitXor <- XorOp
  Sources <- StoreSources
  LabelOrder <- MCLabelOrder
  ByteMod = 2
  IdxByteMod = 8
INVARIANT StoreClosed
CHECK_DEADLOCK FALSE
