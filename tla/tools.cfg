SPECIFICATION Spec
CONSTANTS
  HalfMod = 16
  StackSpan = 0
  StackDepth = 0
  HeapAddrs = {}
  HostRoom = 0
  Programs = {}
  BitAnd <- AndOp
  BitOr <- OrOp
  BitXor <- XorOp
  Sources <- MCSources
  LabelOrder <- MCLabelOrder
  ByteMod = 2
  IdxByteMod = 8
INVARIANTS TypeOK LinkedByName ReadsWhatIsWritten RoundTrip NamesTarget
PROPERTY Ends
CHECK_DEADLOCK FALSE
