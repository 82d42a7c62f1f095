------------------------- MODULE InterpreterProofs -------------------------
(***************************************************************************)
(* Theorems about the interpreter, for every word width, memory size and    *)
(* set of programs: its state is well typed, and it implements the abstract *)
(* machine VM.                                                              *)
(***************************************************************************)
EXTENDS Interpreter, TLAPS

-----------------------------------------------------------------------------
\* The arithmetic of ISA stays within the values, and makes no code address.

LEMMA WordModPositive == WordMod \in Nat /\ WordMod > 0 /\ WordMod \div 2 \in Nat
<1>1. HalfMod \in Nat /\ HalfMod > 2
  BY WidthAssumption
<1>2. WordMod \in Nat /\ WordMod > 0
  BY <1>1, SMTT(30) DEF WordMod
<1>3. \A n \in Nat : n \div 2 \in Nat
  BY SMT
<1> QED
  BY <1>2, <1>3

LEMMA WrapWord == ASSUME NEW n \in Int PROVE Wrap(n) \in Word
BY WordModPositive DEF Wrap, Word

LEMMA SignedInt == ASSUME NEW n \in Word PROVE Signed(n) \in Int
BY WordModPositive DEF Signed, Word

\* The values that are no address of the text.
NoCode == {v \in Value : v.tag # "code"}

LEMMA StkNoCode == ASSUME NEW o \in Int PROVE Stk(o) \in NoCode
BY DEF Stk, NoCode, Value, Junk

LEMMA NumNoCode == ASSUME NEW n \in Word PROVE Num(n) \in NoCode
BY DEF Num, NoCode, Value

LEMMA JunkNoCode == Junk \in NoCode
BY DEF Junk, NoCode, Value

LEMMA ValueParts ==
  ASSUME NEW v \in Value
  PROVE  /\ v.tag \in {"num", "code", "stk", "junk"}
         /\ v.tag = "num" => v.val \in Word
         /\ v.tag = "code" => v.val \in Nat
         /\ v.tag = "stk" => v.val \in Int
BY StackAssumption DEF Value, Junk

LEMMA OffsetNoCode == ASSUME NEW v \in Value, NEW d \in Int PROVE Offset(v, d) \in NoCode
<1>1. CASE v.tag = "num"
  <2>1. v.val + d \in Int
    BY <1>1, ValueParts, WordModPositive DEF Word
  <2> QED
    BY <1>1, <2>1, WrapWord, NumNoCode DEF Offset
<1>2. CASE v.tag = "stk"
  BY <1>2, ValueParts, StkNoCode DEF Offset
<1>3. CASE v.tag \notin {"num", "stk"}
  BY <1>3, JunkNoCode DEF Offset
<1> QED
  BY <1>1, <1>2, <1>3

LEMMA PlusNoCode == ASSUME NEW v \in Value, NEW w \in Value PROVE Plus(v, w) \in NoCode
<1>1. CASE w.tag = "num"
  BY <1>1, ValueParts, SignedInt, OffsetNoCode DEF Plus
<1>2. CASE w.tag # "num" /\ v.tag = "num"
  BY <1>2, ValueParts, SignedInt, OffsetNoCode DEF Plus
<1>3. CASE w.tag # "num" /\ v.tag # "num"
  BY <1>3, JunkNoCode DEF Plus
<1> QED
  BY <1>1, <1>2, <1>3

LEMMA MinusNoCode == ASSUME NEW v \in Value, NEW w \in Value PROVE Minus(v, w) \in NoCode
<1>1. CASE w.tag = "num"
  <2>1. -Signed(w.val) \in Int
    BY <1>1, ValueParts, SignedInt
  <2> QED
    BY <1>1, <2>1, OffsetNoCode DEF Minus, Both
<1>2. CASE Both("stk", v, w)
  <2>1. v.val - w.val \in Int
    BY <1>2, ValueParts DEF Both
  <2> QED
    BY <1>2, <2>1, WrapWord, NumNoCode DEF Minus, Both
<1>3. CASE w.tag # "num" /\ ~Both("stk", v, w)
  BY <1>3, JunkNoCode DEF Minus
<1> QED
  BY <1>1, <1>2, <1>3

LEMMA BitsNoCode ==
  ASSUME NEW v \in Value, NEW w \in Value
  PROVE  /\ Bits(BitAnd, v, w) \in NoCode
         /\ Bits(BitOr, v, w) \in NoCode
         /\ Bits(BitXor, v, w) \in NoCode
<1>1. CASE Both("num", v, w)
  <2>1. v.val \in Word /\ w.val \in Word
    BY <1>1, ValueParts DEF Both
  <2>2. /\ BitAnd(v.val, w.val) \in Word
        /\ BitOr(v.val, w.val) \in Word
        /\ BitXor(v.val, w.val) \in Word
    BY <2>1, BitAssumption
  <2>3. /\ Bits(BitAnd, v, w) = Num(BitAnd(v.val, w.val))
        /\ Bits(BitOr, v, w) = Num(BitOr(v.val, w.val))
        /\ Bits(BitXor, v, w) = Num(BitXor(v.val, w.val))
    BY <1>1, Zenon DEF Bits
  <2> QED
    BY <2>2, <2>3, NumNoCode
<1>2. CASE ~Both("num", v, w)
  <2>1. /\ Bits(BitAnd, v, w) = Junk
        /\ Bits(BitOr, v, w) = Junk
        /\ Bits(BitXor, v, w) = Junk
    BY <1>2, Zenon DEF Bits
  <2> QED
    BY <2>1, JunkNoCode
<1> QED
  BY <1>1, <1>2

LEMMA InvertNoCode == ASSUME NEW v \in Value PROVE Invert(v) \in NoCode
<1>1. CASE v.tag = "num"
  <2>1. WordMod - 1 - v.val \in Word
    BY <1>1, ValueParts, WordModPositive DEF Word
  <2> QED
    BY <1>1, <2>1, NumNoCode DEF Invert
<1>2. CASE v.tag # "num"
  BY <1>2, JunkNoCode DEF Invert
<1> QED
  BY <1>1, <1>2

LEMMA ValueWritten == ASSUME NEW v \in Value PROVE v \in Written
<1>1. CASE v \in [tag : {"num"}, val : Word]
  BY <1>1, WordModPositive DEF Written, Word
<1>2. CASE v \in [tag : {"code"}, val : Nat]
  BY <1>2 DEF Written
<1>3. CASE v \in [tag : {"stk"}, val : -StackSpan .. StackSpan]
  BY <1>3, StackAssumption DEF Written
<1>4. CASE v = Junk
  BY <1>4 DEF Written, Junk
<1> QED
  BY <1>1, <1>2, <1>3, <1>4 DEF Value

LEMMA ShownTyped == ASSUME NEW v \in Value, NEW id PROVE Shown(id, v) \in Written
<1>1. v.tag = "num" => Signed(v.val) \in Int
  BY ValueParts, SignedInt
<1>2. v \in Written
  BY ValueWritten
<1> QED
  BY <1>1, <1>2 DEF Shown, Written
-----------------------------------------------------------------------------
\* Programs.

LEMMA FetchTyped ==
  ASSUME prog \in Programs, pc \in DOMAIN prog.code
  PROVE  /\ Fetch \in Instr
         /\ pc \in Nat
         /\ pc = SYS_ENTER_ADDR => Fetch.op = "JMP"
         /\ \A r \in {Fetch.dst, Fetch.src} : r \in Reg
         /\ Fetch.idx \in Int /\ Fetch.imm \in Word /\ Fetch.tgt \in Nat
         /\ Fetch.am \in {"REG", "IMM"}
<1>1. ProgramOK(prog)
  BY ProgramAssumption
<1>2. Fetch \in Instr /\ pc \in 0 .. prog.size - 1 /\ prog.size \in Nat
  BY <1>1 DEF ProgramOK, Fetch
<1>3. pc = SYS_ENTER_ADDR => Fetch.op = "JMP"
  BY <1>1 DEF ProgramOK, Fetch
<1> QED
  BY <1>2, <1>3 DEF Instr, Mode

LEMMA Lengths ==
  ASSUME NEW i \in Instr
  PROVE  /\ InstrLen(i) \in Nat
         /\ i.op \in {"LOAD", "STORE"} => InstrLen(i) = 4
         /\ i.op \in MoveOp \cup {"CMP"} => InstrLen(i) = IF i.am = "REG" THEN 2 ELSE 10
         /\ i.op \in {"NOT", "PUSH", "POP"} => InstrLen(i) = 2
         /\ i.op \in BranchOp => InstrLen(i) = 9
BY DEF InstrLen, MoveOp, BranchOp, CondOp

LEMMA OperandsTyped ==
  ASSUME TypeOK, pc \in DOMAIN prog.code
  PROVE  /\ Dst \in Value /\ Src \in Value /\ Top \in Value
         /\ Fetch.dst \in Reg /\ Fetch.src \in Reg
         /\ Offset(regs[Fetch.src], Fetch.idx) \in Value
         /\ Offset(regs[Fetch.dst], Fetch.idx) \in Value
         /\ regs[Fetch.src] \in Value
<1>1. Fetch.dst \in Reg /\ Fetch.src \in Reg /\ Fetch.idx \in Int /\ Fetch.imm \in Word
  BY FetchTyped DEF TypeOK
<1>2. Dst \in Value /\ regs[Fetch.src] \in Value /\ Top \in Value
  BY <1>1 DEF TypeOK, Dst, Top, Reg
<1>3. Src \in Value
  BY <1>1, <1>2, NumNoCode DEF Src, Source, NoCode
<1> QED
  BY <1>1, <1>2, <1>3, OffsetNoCode DEF NoCode, Dst

\* What the six arithmetic handlers assign.
LEMMA OperateTyped ==
  ASSUME TypeOK, NEW op, NEW v \in Value, Operate(op, v)
  PROVE  TypeOK'
<1>1. /\ prog \in Programs /\ pc \in DOMAIN prog.code /\ pc \in Nat
      /\ regs \in [Reg -> Value] /\ Fetch.dst \in Reg
  BY FetchTyped DEF TypeOK, Operate, Handles, Runs
<1>2. regs' \in [Reg -> Value]
  BY <1>1 DEF Operate, Assign
<1>3. pc' \in Nat
  BY <1>1 DEF Operate, DISPATCH
<1>4. UNCHANGED <<prog, flags, mem, out, status>>
  BY DEF Operate, DISPATCH
<1> QED
  BY <1>2, <1>3, <1>4 DEF TypeOK

LEMMA WildTyped == ASSUME TypeOK, Wild PROVE TypeOK'
BY DEF Wild, TypeOK, Status

LEMMA TypeStep == TypeOK /\ [IntNext]_vars => TypeOK'
<1> SUFFICES ASSUME TypeOK, [IntNext]_vars PROVE TypeOK'
  OBVIOUS
<1> USE DEF Handles, Runs
<1>1. CASE exec_program
  BY <1>1 DEF exec_program, TypeOK, Status
<1>2. CASE load
  <2> DEFINE l == Offset(regs[Fetch.src], Fetch.idx)
  <2>1. CASE Stray(l)
    BY <2>1, WildTyped DEF Stray
  <2>2. CASE l \in Loc /\ Assign(Fetch.dst, mem[l]) /\ DISPATCH(4)
                       /\ UNCHANGED <<prog, flags, mem, out>>
    BY <1>2, <2>2, FetchTyped DEF load, TypeOK, Assign, DISPATCH
  <2> QED
    BY <1>2, <2>1, <2>2 DEF load
<1>3. CASE store
  <2> DEFINE l == Offset(regs[Fetch.dst], Fetch.idx)
  <2>1. CASE Stray(l)
    BY <2>1, WildTyped DEF Stray
  <2>2. CASE l \in Loc /\ mem' = [mem EXCEPT ![l] = regs[Fetch.src]] /\ DISPATCH(4)
                       /\ UNCHANGED <<prog, regs, flags, out>>
    BY <1>3, <2>2, FetchTyped, OperandsTyped DEF store, TypeOK, DISPATCH
  <2> QED
    BY <1>3, <2>1, <2>2 DEF store
<1>4. CASE mov \/ add \/ sub \/ and \/ or \/ xor
  <2>1. /\ Src \in Value /\ Plus(Dst, Src) \in Value /\ Minus(Dst, Src) \in Value
        /\ Bits(BitAnd, Dst, Src) \in Value
        /\ Bits(BitOr, Dst, Src) \in Value
        /\ Bits(BitXor, Dst, Src) \in Value
    <3>1. Dst \in Value /\ Src \in Value
      BY <1>4, OperandsTyped DEF mov, add, sub, and, or, xor, Operate
    <3> QED
      BY <3>1, PlusNoCode, MinusNoCode, BitsNoCode, Zenon DEF NoCode
  <2> QED
    BY <1>4, <2>1, OperateTyped, Zenon DEF mov, add, sub, and, or, xor
<1>5. CASE not
  <2>1. Invert(Dst) \in Value
    BY <1>5, OperandsTyped, InvertNoCode DEF not, NoCode
  <2> QED
    BY <1>5, <2>1, FetchTyped DEF not, TypeOK, Assign, DISPATCH
<1>6. CASE cmp
  <2>1. Compare(Dst, Src) \subseteq Flags
    BY DEF Compare, Order, Flags
  <2> QED
    BY <1>6, <2>1, FetchTyped DEF cmp, TypeOK, DISPATCH
<1>7. CASE push
  <2> DEFINE l == Offset(Top, -8)
  <2>1. CASE Stray(l)
    BY <2>1, WildTyped DEF Stray
  <2>2. CASE l \in Loc /\ Assign("SP", l)
                       /\ mem' = [mem EXCEPT ![l] = regs'[Fetch.dst]] /\ DISPATCH(2)
                       /\ UNCHANGED <<prog, flags, out>>
    <3>1. l \in Value
      BY <1>7, OperandsTyped, OffsetNoCode DEF push, NoCode
    <3>2. regs' \in [Reg -> Value]
      BY <2>2, <3>1 DEF Assign, TypeOK
    <3>3. mem' \in [Loc -> Value]
      BY <1>7, <2>2, <3>2, FetchTyped DEF TypeOK, push
    <3> QED
      BY <1>7, <2>2, <3>2, <3>3, FetchTyped DEF TypeOK, DISPATCH, push
  <2> QED
    BY <1>7, <2>1, <2>2 DEF push
<1>8. CASE pop
  <2>1. CASE Stray(Top)
    BY <2>1, WildTyped DEF Stray
  <2>2. CASE Top \in Loc /\ regs' = [[regs EXCEPT ![Fetch.dst] = mem[Top]]
                                       EXCEPT !["SP"] = Offset(@, 8)]
                         /\ DISPATCH(2) /\ UNCHANGED <<prog, flags, mem, out>>
    <3> DEFINE popped == [regs EXCEPT ![Fetch.dst] = mem[Top]]
    <3>1. popped \in [Reg -> Value] /\ "SP" \in Reg
      BY <2>2 DEF TypeOK, Reg
    <3>2. Offset(popped["SP"], 8) \in Value
      BY <3>1, OffsetNoCode DEF NoCode
    <3>3. regs' \in [Reg -> Value]
      BY <2>2, <3>1, <3>2
    <3> QED
      BY <1>8, <2>2, <3>3, FetchTyped DEF TypeOK, DISPATCH, pop
  <2> QED
    BY <1>8, <2>1, <2>2 DEF pop
<1>9. CASE call
  <2> DEFINE l == Offset(Top, -8)
  <2>1. CASE Stray(l)
    BY <2>1, WildTyped DEF Stray
  <2>2. CASE l \in Loc /\ Assign("SP", l) /\ mem' = [mem EXCEPT ![l] = Code(pc + 9)]
                       /\ pc' = Fetch.tgt /\ UNCHANGED <<prog, flags, out, status>>
    <3>1. l \in Value
      BY <1>9, OperandsTyped, OffsetNoCode DEF call, NoCode
    <3>2. Code(pc + 9) \in Value
      BY DEF TypeOK, Code, Value
    <3> QED
      BY <1>9, <2>2, <3>1, <3>2, FetchTyped DEF TypeOK, Assign, call
  <2> QED
    BY <1>9, <2>1, <2>2 DEF call
<1>10. CASE ret
  <2>1. CASE Stray(Top)
    BY <2>1, WildTyped DEF Stray
  <2>2. CASE Top \in Loc /\ PopPC(mem[Top]) /\ Assign("SP", Offset(Top, 8))
                         /\ UNCHANGED <<prog, flags, mem, out>>
    <3>1. Offset(Top, 8) \in Value
      BY <1>10, OperandsTyped, OffsetNoCode DEF ret, NoCode
    <3>2. mem[Top] \in Value
      BY <2>2 DEF TypeOK
    <3>3. pc' \in Nat /\ status' \in Status
      BY <2>2, <3>2, ValueParts DEF PopPC, TypeOK, Status, Word
    <3> QED
      BY <2>2, <3>1, <3>3 DEF TypeOK, Assign
  <2> QED
    BY <1>10, <2>1, <2>2 DEF ret
<1>11. CASE jmp \/ jmpeq \/ jmpne \/ jmpgt \/ jmplt \/ jmpge \/ jmple
  <2>1. /\ pc' \in {Fetch.tgt, pc + 9} /\ pc \in DOMAIN prog.code
        /\ UNCHANGED <<prog, regs, flags, mem, out, status>>
    BY <1>11 DEF jmp, jmpeq, jmpne, jmpgt, jmplt, jmpge, jmple, jcc, Branch, DISPATCH
  <2> QED
    BY <2>1, FetchTyped DEF TypeOK
<1>12. CASE vm_exit
  <2>1. Offset(Top, 16) \in Value
    BY <1>12, OperandsTyped, OffsetNoCode DEF vm_exit, AtSysEnter, NoCode
  <2> QED
    BY <1>12, <2>1 DEF vm_exit, TypeOK, Assign, Status
<1>13. ASSUME NEW id \in {SYSCALL_DISPLAY_SINT, SYSCALL_DISPLAY_UINT}, sys_enter(id)
       PROVE TypeOK'
  <2> DEFINE parameter == Offset(Top, 16)
  <2>1. CASE ~({Top, parameter} \subseteq Loc) /\ Wild
    BY <2>1, WildTyped
  <2>2. CASE /\ {Top, parameter} \subseteq Loc
             /\ out' = Append(out, Shown(id, mem[parameter]))
             /\ mem' = [mem EXCEPT ![parameter] = mem[Top]]
             /\ PopPC(mem'[parameter])
             /\ Assign("SP", Offset(Top, 16 + 8))
             /\ UNCHANGED <<prog, flags>>
    <3>1. mem[parameter] \in Value /\ mem[Top] \in Value
      BY <2>2 DEF TypeOK
    <3>2. out' \in Seq(Written)
      BY <2>2, <3>1, ShownTyped DEF TypeOK
    <3>3. mem' \in [Loc -> Value] /\ mem'[parameter] = mem[Top]
      BY <2>2, <3>1 DEF TypeOK
    <3>4. pc' \in Nat /\ status' \in Status
      BY <2>2, <3>1, <3>3, ValueParts DEF PopPC, TypeOK, Status, Word
    <3>5. Top \in Value
      BY <1>13, OperandsTyped DEF sys_enter, AtSysEnter
    <3>6. Offset(Top, 16 + 8) \in Value
      BY <3>5, OffsetNoCode DEF NoCode
    <3> QED
      BY <2>2, <3>2, <3>3, <3>4, <3>6 DEF TypeOK, Assign
  <2> QED
    BY <1>13, <2>1, <2>2 DEF sys_enter
<1>14. CASE sys_enter_abort
  BY <1>14 DEF sys_enter_abort, TypeOK, Status
<1>15. CASE no_frame \/ runaway
  BY <1>15, WildTyped DEF no_frame, runaway, Stray
<1>16. CASE UNCHANGED vars
  BY <1>16 DEF vars, TypeOK
<1> QED
  BY <1>1, <1>2, <1>3, <1>4, <1>5, <1>6, <1>7, <1>8, <1>9, <1>10, <1>11, <1>12, <1>13,
     <1>14, <1>15, <1>16 DEF IntNext, Handler, SysEnter

LEMMA TypeInit == Init => TypeOK
<1> SUFFICES ASSUME Init PROVE TypeOK
  OBVIOUS
<1>1. Stk(0) \in Value /\ Num(0) \in Value /\ Junk \in Value
  BY StkNoCode, NumNoCode, JunkNoCode, WordModPositive DEF NoCode, Word
<1> QED
  BY <1>1 DEF Init, TypeOK, FirstAddr, Flags, Status

\* In every state the interpreter reaches, registers and memory hold 64-bit
\* values, FLAGS has at most one bit set and PC is an address.
THEOREM TypeCorrect == IntSpec => []TypeOK
<1> QED
  BY TypeInit, TypeStep, PTL DEF IntSpec
-----------------------------------------------------------------------------
\* The interpreter implements VM: every handler is a step of the abstract machine
\* that takes the choices VM leaves open its own way.

\* A handler away from the entry of the system, in the terms of VM.
LEMMA HandlesAt ==
  ASSUME TypeOK, NEW op, op # "JMP", Handles(op)
  PROVE  /\ At({op}) /\ pc \in DOMAIN prog.code /\ Fetch.op = op /\ Fetch \in Instr
         /\ status = "running" /\ pc # SYS_ENTER_ADDR
BY FetchTyped DEF At, Handles, Runs, TypeOK

LEMMA DispatchGoesTo ==
  ASSUME status = "running", InstrLen(Fetch) \in Nat, DISPATCH(InstrLen(Fetch))
  PROVE  GoTo(After)
BY DEF DISPATCH, GoTo, After

LEMMA StepImplements == TypeOK /\ [IntNext]_vars => [Next]_vars
<1> SUFFICES ASSUME TypeOK, [IntNext]_vars PROVE [Next]_vars
  OBVIOUS
<1>1. CASE exec_program
  BY <1>1 DEF exec_program, Begin, Next
<1>2. CASE load
  <2>1. At({"LOAD"}) /\ InstrLen(Fetch) = 4 /\ status = "running"
    BY <1>2, HandlesAt, Lengths DEF load
  <2>2. DISPATCH(4) => GoTo(After)
    BY <2>1, DispatchGoesTo
  <2> QED
    BY <1>2, <2>1, <2>2 DEF load, Load, Assign, Stray, SomeFlags, Next
<1>3. CASE store
  <2>1. At({"STORE"}) /\ InstrLen(Fetch) = 4 /\ status = "running"
    BY <1>3, HandlesAt, Lengths DEF store
  <2>2. DISPATCH(4) => GoTo(After)
    BY <2>1, DispatchGoesTo
  <2> QED
    BY <1>3, <2>1, <2>2 DEF store, Store, Stray, SomeFlags, Next
<1>4. CASE mov \/ add \/ sub \/ and \/ or \/ xor
  <2>1. PICK op \in MoveOp : /\ Operate(op, Result(Fetch, regs))
                             /\ Fetch.op = op
    <3>1. CASE mov
      BY <3>1 DEF mov, Operate, Handles, Runs, Result, Dst, Src, MoveOp
    <3>2. CASE add
      BY <3>2 DEF add, Operate, Handles, Runs, Result, Dst, Src, MoveOp
    <3>3. CASE sub
      BY <3>3 DEF sub, Operate, Handles, Runs, Result, Dst, Src, MoveOp
    <3>4. CASE and
      <4>1. Fetch.op = "AND" /\ Operate("AND", Bits(BitAnd, Dst, Src))
        BY <3>4 DEF and, Operate, Handles, Runs
      <4>2. Result(Fetch, regs) = Bits(BitAnd, Dst, Src)
        BY <4>1 DEF Result, Dst, Src
      <4> QED
        BY <4>1, <4>2, Zenon DEF MoveOp
    <3>5. CASE or
      <4>1. Fetch.op = "OR" /\ Operate("OR", Bits(BitOr, Dst, Src))
        BY <3>5 DEF or, Operate, Handles, Runs
      <4>2. Result(Fetch, regs) = Bits(BitOr, Dst, Src)
        BY <4>1 DEF Result, Dst, Src
      <4> QED
        BY <4>1, <4>2, Zenon DEF MoveOp
    <3>6. CASE xor
      <4>1. Fetch.op = "XOR" /\ Operate("XOR", Bits(BitXor, Dst, Src))
        BY <3>6 DEF xor, Operate, Handles, Runs
      <4>2. Result(Fetch, regs) = Bits(BitXor, Dst, Src)
        BY <4>1 DEF Result, Dst, Src
      <4> QED
        BY <4>1, <4>2, Zenon DEF MoveOp
    <3> QED
      BY <1>4, <3>1, <3>2, <3>3, <3>4, <3>5, <3>6
  <2>2. /\ At(MoveOp \cup {"NOT"}) /\ status = "running"
        /\ InstrLen(Fetch) = IF Fetch.am = "REG" THEN 2 ELSE 10
    BY <2>1, HandlesAt, Lengths DEF Operate, At, Runs, MoveOp
  <2>3. GoTo(After)
    BY <2>1, <2>2, DispatchGoesTo DEF Operate
  <2> QED
    BY <2>1, <2>2, <2>3 DEF Operate, Assign, Compute, SomeFlags, Next
<1>5. CASE not
  <2>1. /\ At(MoveOp \cup {"NOT"}) /\ InstrLen(Fetch) = 2 /\ status = "running"
        /\ Fetch.op = "NOT"
    BY <1>5, HandlesAt, Lengths DEF not, At, Runs
  <2>2. GoTo(After)
    BY <1>5, <2>1, DispatchGoesTo DEF not
  <2>3. Result(Fetch, regs) = Invert(Dst)
    BY <2>1 DEF Result, Dst
  <2> QED
    BY <1>5, <2>1, <2>2, <2>3 DEF not, Assign, Compute, SomeFlags, Next
<1>6. CASE cmp
  <2>1. /\ At({"CMP"}) /\ status = "running"
        /\ InstrLen(Fetch) = IF Fetch.am = "REG" THEN 2 ELSE 10
    BY <1>6, HandlesAt, Lengths DEF cmp
  <2>2. GoTo(After)
    BY <1>6, <2>1, DispatchGoesTo DEF cmp
  <2> QED
    BY <1>6, <2>1, <2>2 DEF cmp, Cmp, Dst, Src, Next
<1>7. CASE push
  <2>1. At({"PUSH"}) /\ InstrLen(Fetch) = 2 /\ status = "running"
    BY <1>7, HandlesAt, Lengths DEF push
  <2>2. DISPATCH(2) => GoTo(After)
    BY <2>1, DispatchGoesTo
  <2> QED
    BY <1>7, <2>1, <2>2 DEF push, Push, Assign, Stray, Next
<1>8. CASE pop
  <2>1. At({"POP"}) /\ InstrLen(Fetch) = 2 /\ status = "running"
    BY <1>8, HandlesAt, Lengths DEF pop
  <2>2. DISPATCH(2) => GoTo(After)
    BY <2>1, DispatchGoesTo
  <2> QED
    BY <1>8, <2>1, <2>2 DEF pop, Pop, Stray, Next
<1>9. CASE call
  <2>1. At({"CALL"}) /\ After = pc + 9 /\ status = "running"
    BY <1>9, HandlesAt, Lengths DEF call, BranchOp, After
  <2> QED
    BY <1>9, <2>1 DEF call, Call, Assign, Stray, GoTo, Next
<1>10. CASE ret
  <2>1. At({"RET"}) /\ status = "running"
    BY <1>10, HandlesAt DEF ret
  <2>2. PopPC(mem[Top]) => Resume(mem[Top])
    BY <2>1 DEF PopPC, Resume, GoTo
  <2>3. Assign("SP", Offset(Top, 8)) <=> regs' = [regs EXCEPT !["SP"] = Offset(@, 8)]
    BY DEF Assign, Top
  <2> QED
    BY <1>10, <2>1, <2>2, <2>3 DEF ret, Ret, Stray, Next
<1>11. CASE jmp
  <2>1. At(CondOp \cup {"JMP"}) /\ Fetch.op = "JMP" /\ status = "running"
    BY <1>11 DEF jmp, Handles, Runs, At
  <2> QED
    BY <1>11, <2>1 DEF jmp, Branch, Jump, GoTo, Next
<1>12. CASE jmpeq \/ jmpne \/ jmpgt \/ jmplt \/ jmpge \/ jmple
  <2>1. PICK op \in CondOp : jcc(op, Holds[op])
    BY <1>12 DEF jmpeq, jmpne, jmpgt, jmplt, jmpge, jmple, Holds, CondOp, Flags
  <2>2. /\ At({op}) /\ Fetch.op = op /\ status = "running" /\ Fetch \in Instr
    BY <2>1, HandlesAt DEF jcc, CondOp
  <2>3. At(CondOp \cup {"JMP"}) /\ Fetch.op # "JMP"
    BY <2>1, <2>2 DEF At, Runs, CondOp
  <2>4. After = pc + 9
    BY <2>2, Lengths DEF After, BranchOp, CondOp
  <2>5. CASE flags \in Holds[op]
    BY <2>1, <2>2, <2>3, <2>5 DEF jcc, Branch, Jump, GoTo, Next
  <2>6. CASE flags \notin Holds[op]
    BY <2>1, <2>2, <2>3, <2>4, <2>6 DEF jcc, Branch, DISPATCH, Jump, GoTo, Next
  <2> QED
    BY <2>5, <2>6
<1>13. CASE vm_exit
  <2>1. Leaves(16, mem[Id])
    BY <1>13 DEF vm_exit, Assign, Leaves, TypeOK, Reg, GPR
  <2>2. HostRan(mem)
    BY <1>13 DEF vm_exit, HostRan, TypeOK
  <2> QED
    BY <1>13, <2>1, <2>2 DEF vm_exit, AtSysEnter, Handles, SyscallId, Id, Entered, Exit,
                             Syscall, Next
<1>14. ASSUME NEW id \in {SYSCALL_DISPLAY_SINT, SYSCALL_DISPLAY_UINT}, sys_enter(id)
       PROVE Next
  <2> DEFINE parameter == Offset(Top, 16)
  <2>1. Entered /\ Id \in Loc /\ MayBe(mem[Id], id) /\ status = "running"
    BY <1>14 DEF sys_enter, AtSysEnter, Handles, Runs, SyscallId, Id, Entered
  <2>2. CASE ~({Top, parameter} \subseteq Loc) /\ Wild
    <3>1. mem[Id] # Num(SYSCALL_VM_EXIT)
      BY <2>1 DEF MayBe, Num, Junk, SYSCALL_VM_EXIT, SYSCALL_DISPLAY_SINT,
                  SYSCALL_DISPLAY_UINT
    <3> QED
      BY <2>1, <2>2, <3>1 DEF NoFrame, Syscall, Next
  <2>3. CASE /\ {Top, parameter} \subseteq Loc
             /\ out' = Append(out, Shown(id, mem[parameter]))
             /\ mem' = [mem EXCEPT ![parameter] = mem[Top]]
             /\ PopPC(mem'[parameter])
             /\ Assign("SP", Offset(Top, 16 + 8))
             /\ UNCHANGED <<prog, flags>>
    <3>1. mem'[parameter] = mem[Top]
      BY <2>3 DEF TypeOK
    <3>2. Resume(mem[Top])
      BY <2>1, <2>3, <3>1 DEF PopPC, Resume, GoTo
    <3>3. Leaves(24, mem[Id])
      <4>1. 16 + 8 = 24
        OBVIOUS
      <4>2. regs' = [regs EXCEPT !["SP"] = Offset(Top, 24)]
        BY <2>3, <4>1, Zenon DEF Assign
      <4> QED
        BY <4>2 DEF Leaves, TypeOK, Reg, GPR
    <3>4. HostRan([mem EXCEPT ![parameter] = mem[Top]])
      BY <2>3 DEF HostRan, TypeOK
    <3>5. Display(id)
      BY <2>1, <2>3, <3>2, <3>3, <3>4 DEF Display, TypeOK
    <3> QED
      BY <3>5 DEF Syscall, Next
  <2> QED
    BY <1>14, <2>2, <2>3 DEF sys_enter
<1>15. CASE sys_enter_abort
  BY <1>15 DEF sys_enter_abort, AtSysEnter, Handles, SyscallId, Id, Entered, Unsupported,
               Syscall, Next
<1>16. CASE no_frame
  BY <1>16 DEF no_frame, AtSysEnter, Handles, SyscallId, Id, Entered, Stray, NoFrame,
               Syscall, Next
<1>17. CASE runaway
  BY <1>17 DEF runaway, LeaveText, Next
<1>18. CASE UNCHANGED vars
  BY <1>18
<1> QED
  BY <1>1, <1>2, <1>3, <1>4, <1>5, <1>6, <1>7, <1>8, <1>9, <1>10, <1>11, <1>12, <1>13,
     <1>14, <1>15, <1>16, <1>17, <1>18 DEF IntNext, Handler, SysEnter

\* The interpreter runs every program as the abstract machine does: its
\* behaviours, of any program on any memory, are behaviours of VM.
THEOREM Implements == IntSpec => Spec
<1>1. IntSpec => []TypeOK
  BY TypeCorrect
<1> QED
  BY <1>1, StepImplements, PTL DEF IntSpec, Spec
=============================================================================
