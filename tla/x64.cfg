SPECIFICATION FairSpec
CONSTANTS
  HalfMod = 16
  StackSpan = 512
  StackDepth = 36
  HeapAddrs = {}
  HostRoom = 9
  Programs <- NativePrograms
  BitAnd <- AndOp
  BitOr <- OrOp
  BitXor <- XorOp
  vr2ar <- X64vr2ar
  Boot <- X64Boot
  GuardCode <- X64GuardCode
  Nop <- Op
  Emit <- X64Emit
  StubAt <- X64StubAt
  Prologue <- X64Prologue
  Guard <- X64Guard
  Size <- X64Size
  Slots <- X64Slots
  Expansion = 2
  AddrLen = 7
INVARIANTS HostRestored DisplaysExpected InPlace
PROPERTIES IsVM TestsExit
CHECK_DEADLOCK FALSE
