SPECIFICATION FairSpec
CONSTANTS
  HalfMod = 16
  StackSpan = 256
  StackDepth = 24
  HeapAddrs = {}
  HostRoom = 0
  Programs <- NativePrograms
  BitAnd <- AndOp
  BitOr <- OrOp
  BitXor <- XorOp
  vr2ar <- A64vr2ar
  Boot <- A64Boot
  GuardCode <- emit_vm_exit_syscall_guard
  Nop <- A64Nop
  Emit <- A64Emit
  StubAt <- A64StubAt
  Prologue <- A64Prologue
  Guard <- A64Guard
  Size <- A64Size
  Slots <- A64Slots
  Expansion = 8
  ChunkMod = 4
  AddrParts = 3
  CondReach = 8192
INVARIANTS HostRestored DisplaysExpected BranchesKept InPlace
PROPERTIES IsVM TestsExit
CHECK_DEADLOCK FALSE
