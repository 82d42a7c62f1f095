SPECIFICATION FairJitSpec
CONSTANTS
  HalfMod = 16
  StackSpan = 64
  StackDepth = 3
  HeapAddrs = {}
  HostRoom = 0
  Programs <- LinkPrograms
  BitAnd <- AndOp
  BitOr <- OrOp
  BitXor <- XorOp
  StubAt = 7
  Prologue = 20
  Guard = 11
  Size <- MCSize
  Slots <- MCSlots
  Expansion = 2
INVARIANTS JitTypeOK EndToEnd Linked UndefinedOnlyDangling TextBound Reach
PROPERTY JitEnds
CHECK_DEADLOCK FALSE
