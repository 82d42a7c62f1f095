----------------------------- MODULE X64Proofs -----------------------------
(***************************************************************************)
(* The x86_64 JIT, proved: what the theorems of module JitProofs say of it,  *)
(* which writes native code while it translates and is then run by the       *)
(* processor; that the code that this one finds is the one that was meant;   *)
(* and that the host gets back what is its own. The last follows the         *)
(* processor through the native code, with an invariant that says for each   *)
(* place where it may be what the registers and the memory hold there. The   *)
(* processor's stack pointer is the program's while this runs, and nothing   *)
(* that the program has is an address of the host's stack.                   *)
(***************************************************************************)
EXTENDS X64, NativeProofs

\* The run of the code does not write to it.
LEMMA RunKeepsText == Run => UNCHANGED <<jitVars, text>>
<1> SUFFICES ASSUME Run PROVE UNCHANGED <<jitVars, text>>
  OBVIOUS
<1> USE DEF Fall, Go, GoAstray, Stray, Status, Returns
<1>1. CASE cpu_nop \/ cpu_imm \/ cpu_alu \/ cpu_cmp \/ cpu_load \/ cpu_store
  BY <1>1 DEF cpu_nop, cpu_imm, cpu_alu, cpu_cmp, cpu_load, cpu_store
<1>2. CASE cpu_push \/ cpu_pop \/ cpu_call \/ cpu_ret \/ return_to_host
  BY <1>2 DEF cpu_push, cpu_pop, cpu_call, cpu_ret, return_to_host
<1>3. CASE cpu_jmp \/ cpu_near \/ cpu_jcc
  BY <1>3 DEF cpu_jmp, cpu_near, cpu_jcc
<1>4. CASE \/ host_sys_enter(SYSCALL_DISPLAY_SINT) \/ host_sys_enter(SYSCALL_DISPLAY_UINT)
           \/ host_abort
  BY <1>4 DEF host_sys_enter, host_abort
<1> QED
  BY <1>1, <1>2, <1>3, <1>4 DEF Run

\* The x86_64 JIT does to its positions and mappings what the translator of module Jit
\* does: emitting code and running it disturb neither.
THEOREM Translator == Spec => JitSpec
<1>1. Init => JitInit
  BY DEF Init, NativeInit
<1>2. [Next]_vars => [JitNext]_jitVars
  BY RunKeepsText, TranslateSteps DEF Next, vars
<1> QED
  BY <1>1, <1>2, PTL DEF Spec, JitSpec

\* While the native code runs, and before, its blocks lie end to end, every transfer of
\* a translated program goes to its target's code, and the code is bounded by the
\* program: what the processor runs is what the translator laid out.
THEOREM CodeLinked == Spec => [](EndToEnd /\ Linked /\ TextBound)
  BY Translator, TranslatorSafe, PTL
-----------------------------------------------------------------------------
\* What the constants of modules Jit and Native are for this back end: what a model of it
\* gives them.
IsX64 ==
  /\ vr2ar = X64vr2ar /\ Nop = Op /\ Boot = X64Boot
  /\ StubAt = X64StubAt /\ Prologue = X64Prologue /\ Guard = X64Guard
  /\ \A at \in Nat : GuardCode(at) = emit_vm_exit_syscall_guard
  /\ \A i \in Instr : Size(i) = X64Size(i) /\ Slots(i) = X64Slots(i)
  /\ \A i \in Instr, at \in Nat, to \in Nat \cup {Unmapped} : Emit(i, at, to) = X64Emit(i, at, to)

\* Native instructions by their fields, the names that occur and the operands.
OpName  == MoveOp \cup CondOp \cup {"nop", "imm", "NOT", "CMP", "load", "store", "push", "pop",
                                   "call", "ret", "jmp", "near"}
RegName == {"rbx", "rbp", "rsp", "rax", "rcx", "rdx", "rsi", "rdi",
            "r8", "r9", "r10", "r11", "r12", "r13", "r14", "r15"}
Operand == [tag : {"num", "code", "stk", "junk", "fun", "dump", "member"}, val : Int]
X64Ops  == [op : OpName, am : {"REG"}, dst : RegName, src : RegName, val : Operand, d : Int,
            len : 1 .. 10]

\* The native instruction with these fields.
Insn(op, dst, src, val, d, len) ==
  [op |-> op, am |-> "REG", dst |-> dst, src |-> src, val |-> val, d |-> d, len |-> len]

\* With fields that occur it is a native instruction.
LEMMA InsnIn ==
  ASSUME NEW op \in OpName, NEW dst \in RegName, NEW src \in RegName, NEW val \in Operand,
         NEW d \in Int, NEW len \in 1 .. 10
  PROVE  Insn(op, dst, src, val, d, len) \in X64Ops
BY DEF Insn, X64Ops

\* What emit_mov_reg_imm has the processor load for the immediate v, and its length.
MovVal(v) == IF v.tag = "num" /\ FitsHalf(v.val) THEN Num(SignExtended(v.val)) ELSE v
MovLen(v) == IF v.tag # "num" THEN AddrLen ELSE IF FitsHalf(v.val) THEN 7 ELSE 10

\* What each emit function of one native instruction writes.
LEMMA Singles ==
  ASSUME NEW w, NEW r, NEW s, NEW v, NEW d, NEW n
  PROVE  /\ emit_nop = <<Insn("nop", "rax", "rax", Junk, 0, 1)>>
         /\ emit_ret = <<Insn("ret", "rax", "rax", Junk, 0, 1)>>
         /\ emit_push_reg(r) = <<Insn("push", "rax", r, Junk, 0, RexLen(r))>>
         /\ emit_pop_reg(r) = <<Insn("pop", r, "rax", Junk, 0, RexLen(r))>>
         /\ emit_call_reg(r) = <<Insn("call", "rax", r, Junk, 0, 3)>>
         /\ emit_jmp_reg(r) = <<Insn("jmp", "rax", r, Junk, 0, 3)>>
         /\ emit_reg_reg(w, r, s) = <<Insn(w, r, s, Junk, 0, 3)>>
         /\ emit_mov_reg_bd(r, s, d, n) = <<Insn("load", r, s, Junk, d, MemLen(s, n))>>
         /\ emit_mov_bd_reg(r, d, s, n) = <<Insn("store", r, s, Junk, d, MemLen(r, n))>>
         /\ emit_mov_reg_imm(r, v) = <<Insn("imm", r, "rax", MovVal(v), 0, MovLen(v))>>
         /\ emit_jmp_imm32(d) = <<Insn("near", "rax", "rax", Junk, d - 5, 5)>>
         /\ emit_jcc_imm32(w, d) = <<Insn(w, "rax", "rax", Junk, d - 6, 6)>>
         /\ Op = Insn("nop", "rax", "rax", Junk, 0, 1)
<1>1. emit_ret = <<Insn("ret", "rax", "rax", Junk, 0, 1)>>
  <2> DEFINE o == [Op EXCEPT !.op = "ret"]
  <2>2. <<o>> = emit_ret
    BY DEF emit_ret
  <2>1. o \in [op : {"ret"}, am : {"REG"}, dst : {"rax"}, src : {"rax"}, val : {Junk}, d : {0},
              len : {1}]
    BY DEF Op
  <2> HIDE DEF o
  <2>3. o = Insn("ret", "rax", "rax", Junk, 0, 1)
    BY <2>1 DEF Insn
  <2> QED
    BY <2>2, <2>3
<1>2. emit_push_reg(r) = <<Insn("push", "rax", r, Junk, 0, RexLen(r))>>
  <2> DEFINE y == RexLen(r)
             o == [Op EXCEPT !.op = "push", !.src = r, !.len = y]
  <2>2. <<o>> = emit_push_reg(r)
    BY DEF emit_push_reg
  <2> HIDE DEF y
  <2>1. o \in [op : {"push"}, am : {"REG"}, dst : {"rax"}, src : {r}, val : {Junk}, d : {0},
              len : {y}]
    BY DEF Op
  <2> HIDE DEF o
  <2>3. o = Insn("push", "rax", r, Junk, 0, y)
    BY <2>1 DEF Insn
  <2> QED
    BY <2>2, <2>3 DEF y
<1>3. emit_pop_reg(r) = <<Insn("pop", r, "rax", Junk, 0, RexLen(r))>>
  <2> DEFINE y == RexLen(r)
             o == [Op EXCEPT !.op = "pop", !.dst = r, !.len = y]
  <2>2. <<o>> = emit_pop_reg(r)
    BY DEF emit_pop_reg
  <2> HIDE DEF y
  <2>1. o \in [op : {"pop"}, am : {"REG"}, dst : {r}, src : {"rax"}, val : {Junk}, d : {0},
              len : {y}]
    BY DEF Op
  <2> HIDE DEF o
  <2>3. o = Insn("pop", r, "rax", Junk, 0, y)
    BY <2>1 DEF Insn
  <2> QED
    BY <2>2, <2>3 DEF y
<1>4. emit_call_reg(r) = <<Insn("call", "rax", r, Junk, 0, 3)>>
  <2> DEFINE o == [Op EXCEPT !.op = "call", !.src = r, !.len = 3]
  <2>2. <<o>> = emit_call_reg(r)
    BY DEF emit_call_reg
  <2>1. o \in [op : {"call"}, am : {"REG"}, dst : {"rax"}, src : {r}, val : {Junk}, d : {0},
              len : {3}]
    BY DEF Op
  <2> HIDE DEF o
  <2>3. o = Insn("call", "rax", r, Junk, 0, 3)
    BY <2>1 DEF Insn
  <2> QED
    BY <2>2, <2>3
<1>5. emit_jmp_reg(r) = <<Insn("jmp", "rax", r, Junk, 0, 3)>>
  <2> DEFINE o == [Op EXCEPT !.op = "jmp", !.src = r, !.len = 3]
  <2>2. <<o>> = emit_jmp_reg(r)
    BY DEF emit_jmp_reg
  <2>1. o \in [op : {"jmp"}, am : {"REG"}, dst : {"rax"}, src : {r}, val : {Junk}, d : {0},
              len : {3}]
    BY DEF Op
  <2> HIDE DEF o
  <2>3. o = Insn("jmp", "rax", r, Junk, 0, 3)
    BY <2>1 DEF Insn
  <2> QED
    BY <2>2, <2>3
<1>6. emit_reg_reg(w, r, s) = <<Insn(w, r, s, Junk, 0, 3)>>
  <2> DEFINE o == [Op EXCEPT !.op = w, !.dst = r, !.src = s, !.len = 3]
  <2>2. <<o>> = emit_reg_reg(w, r, s)
    BY DEF emit_reg_reg
  <2>1. o \in [op : {w}, am : {"REG"}, dst : {r}, src : {s}, val : {Junk}, d : {0},
              len : {3}]
    BY DEF Op
  <2> HIDE DEF o
  <2>3. o = Insn(w, r, s, Junk, 0, 3)
    BY <2>1 DEF Insn
  <2> QED
    BY <2>2, <2>3
<1>7. emit_mov_reg_bd(r, s, d, n) = <<Insn("load", r, s, Junk, d, MemLen(s, n))>>
  <2> DEFINE y == MemLen(s, n)
             o == [Op EXCEPT !.op = "load", !.dst = r, !.src = s, !.d = d, !.len = y]
  <2>2. <<o>> = emit_mov_reg_bd(r, s, d, n)
    BY DEF emit_mov_reg_bd
  <2> HIDE DEF y
  <2>1. o \in [op : {"load"}, am : {"REG"}, dst : {r}, src : {s}, val : {Junk}, d : {d},
              len : {y}]
    BY DEF Op
  <2> HIDE DEF o
  <2>3. o = Insn("load", r, s, Junk, d, y)
    BY <2>1 DEF Insn
  <2> QED
    BY <2>2, <2>3 DEF y
<1>8. emit_mov_bd_reg(r, d, s, n) = <<Insn("store", r, s, Junk, d, MemLen(r, n))>>
  <2> DEFINE y == MemLen(r, n)
             o == [Op EXCEPT !.op = "store", !.dst = r, !.src = s, !.d = d, !.len = y]
  <2>2. <<o>> = emit_mov_bd_reg(r, d, s, n)
    BY DEF emit_mov_bd_reg
  <2> HIDE DEF y
  <2>1. o \in [op : {"store"}, am : {"REG"}, dst : {r}, src : {s}, val : {Junk}, d : {d},
              len : {y}]
    BY DEF Op
  <2> HIDE DEF o
  <2>3. o = Insn("store", r, s, Junk, d, y)
    BY <2>1 DEF Insn
  <2> QED
    BY <2>2, <2>3 DEF y
<1>9. emit_mov_reg_imm(r, v) = <<Insn("imm", r, "rax", MovVal(v), 0, MovLen(v))>>
  <2> DEFINE x == MovVal(v)
             y == MovLen(v)
             o == [Op EXCEPT !.op = "imm", !.dst = r, !.val = x, !.len = y]
  <2>2. <<o>> = emit_mov_reg_imm(r, v)
    BY DEF emit_mov_reg_imm, MovVal, MovLen
  <2> HIDE DEF x, y
  <2>1. o \in [op : {"imm"}, am : {"REG"}, dst : {r}, src : {"rax"}, val : {x}, d : {0},
              len : {y}]
    BY DEF Op
  <2> HIDE DEF o
  <2>3. o = Insn("imm", r, "rax", x, 0, y)
    BY <2>1 DEF Insn
  <2> QED
    BY <2>2, <2>3 DEF x, y
<1>10. emit_jmp_imm32(d) = <<Insn("near", "rax", "rax", Junk, d - 5, 5)>>
  <2> DEFINE y == d - 5
             o == [Op EXCEPT !.op = "near", !.d = y, !.len = 5]
  <2>2. <<o>> = emit_jmp_imm32(d)
    BY DEF emit_jmp_imm32
  <2> HIDE DEF y
  <2>1. o \in [op : {"near"}, am : {"REG"}, dst : {"rax"}, src : {"rax"}, val : {Junk}, d : {y},
              len : {5}]
    BY DEF Op
  <2> HIDE DEF o
  <2>3. o = Insn("near", "rax", "rax", Junk, y, 5)
    BY <2>1 DEF Insn
  <2> QED
    BY <2>2, <2>3 DEF y
<1>11. emit_jcc_imm32(w, d) = <<Insn(w, "rax", "rax", Junk, d - 6, 6)>>
  <2> DEFINE y == d - 6
             o == [Op EXCEPT !.op = w, !.d = y, !.len = 6]
  <2>2. <<o>> = emit_jcc_imm32(w, d)
    BY DEF emit_jcc_imm32
  <2> HIDE DEF y
  <2>1. o \in [op : {w}, am : {"REG"}, dst : {"rax"}, src : {"rax"}, val : {Junk}, d : {y},
              len : {6}]
    BY DEF Op
  <2> HIDE DEF o
  <2>3. o = Insn(w, "rax", "rax", Junk, y, 6)
    BY <2>1 DEF Insn
  <2> QED
    BY <2>2, <2>3 DEF y
<1>12. Op = Insn("nop", "rax", "rax", Junk, 0, 1) /\ emit_nop = <<Op>>
  BY DEF Op, Insn, emit_nop
<1> QED
  BY <1>1, <1>2, <1>3, <1>4, <1>5, <1>6, <1>7, <1>8, <1>9, <1>10, <1>11, <1>12
-----------------------------------------------------------------------------
\* The code of native instructions that is n bytes long.
Codes(n) == {s \in Seq(X64Ops) : Bytes(s) = n}
Code64   == Seq(X64Ops)

\* Native instructions have lengths.
LEMMA X64OpsOK == Ops(X64Ops)
<1>1. \A o \in X64Ops : o.len \in 1 .. 10
  BY DEF X64Ops
<1> QED
  BY <1>1 DEF Ops

\* Code of one native instruction.
LEMMA CodesOne == ASSUME NEW o \in X64Ops PROVE <<o>> \in Codes(o.len)
<1>1. <<o>> \in Seq(X64Ops)
  OBVIOUS
<1> QED
  BY <1>1, X64OpsOK, BytesOne DEF Codes

\* Code after code, of a length that is known.
LEMMA Joining ==
  ASSUME NEW m \in Nat, NEW n \in Nat, NEW q \in Codes(m), NEW r \in Codes(n), NEW k, k = m + n
  PROVE  q \o r \in Codes(k)
<1>1. q \in Seq(X64Ops) /\ r \in Seq(X64Ops) /\ Bytes(q) = m /\ Bytes(r) = n
  BY DEF Codes
<1>2. Bytes(q \o r) = Bytes(q) + Bytes(r)
  BY <1>1, X64OpsOK, StartsConcat, 0 \in Nat
<1>3. q \o r \in Seq(X64Ops)
  BY <1>1
<1> QED
  BY <1>1, <1>2, <1>3 DEF Codes

\* The processor's register for one of the VM.
LEMMA RegNumber == ASSUME NEW r \in Reg PROVE X64vr2ar[r] \in RegName
BY DEF X64vr2ar, Reg, GPR, RegName

\* The lengths that depend on operands.
LEMMA Lengths ==
  ASSUME NEW r \in RegName, NEW n \in {1, 4}, NEW v
  PROVE  RexLen(r) \in 1 .. 2 /\ MemLen(r, n) \in 4 .. 8 /\ MovLen(v) \in {7, 10}
BY AddrAssumption DEF RexLen, MemLen, MovLen

\* A register and half of one have room for a bit.
LEMMA HalfPositive == HalfMod \in Nat /\ HalfMod > 0 /\ WordMod \in Nat /\ WordMod > 0
<1>1. HalfMod \in Nat /\ HalfMod > 0
  BY WidthAssumption
<1>2. HalfMod * HalfMod > 0
  BY <1>1, SMTT(30)
<1> QED
  BY <1>1, <1>2 DEF WordMod

\* What an immediate is made of is an operand.
LEMMA MovOperand == ASSUME NEW v \in Operand PROVE MovVal(v) \in Operand
<1>1. CASE v.tag = "num" /\ FitsHalf(v.val)
  <2>1. v.val \in Int /\ HalfMod \in Nat /\ HalfMod > 0 /\ WordMod \in Nat
    BY <1>1, HalfPositive DEF Operand
  <2>2. SignExtended(v.val) \in Int
    BY <2>1 DEF SignExtended
  <2> QED
    BY <1>1, <2>2 DEF MovVal, Num, Operand
<1>2. CASE ~(v.tag = "num" /\ FitsHalf(v.val))
  BY <1>2 DEF MovVal
<1> QED
  BY <1>1, <1>2

\* The emit functions of one native instruction.
LEMMA OneCode ==
  ASSUME NEW op \in OpName, NEW r \in RegName, NEW s \in RegName, NEW d \in Int, NEW n \in {1, 4},
         NEW v \in Operand
  PROVE  /\ emit_ret \in Codes(1)
         /\ emit_push_reg(r) \in Codes(RexLen(r))
         /\ emit_pop_reg(r) \in Codes(RexLen(r))
         /\ emit_call_reg(r) \in Codes(3)
         /\ emit_jmp_reg(r) \in Codes(3)
         /\ emit_reg_reg(op, r, s) \in Codes(3)
         /\ emit_mov_reg_bd(r, s, d, n) \in Codes(MemLen(s, n))
         /\ emit_mov_bd_reg(r, d, s, n) \in Codes(MemLen(r, n))
         /\ emit_mov_reg_imm(r, v) \in Codes(MovLen(v))
         /\ emit_jmp_imm32(d) \in Codes(5)
         /\ emit_jcc_imm32(op, d) \in Codes(6)
         /\ Op \in X64Ops
<1>1. /\ "ret" \in OpName /\ "push" \in OpName /\ "pop" \in OpName /\ "call" \in OpName
      /\ "jmp" \in OpName /\ "load" \in OpName /\ "store" \in OpName /\ "imm" \in OpName
      /\ "near" \in OpName /\ "nop" \in OpName /\ "rax" \in RegName /\ Junk \in Operand
  BY DEF OpName, RegName, Junk, Operand
<1>2. /\ emit_ret = <<Insn("ret", "rax", "rax", Junk, 0, 1)>>
      /\ emit_push_reg(r) = <<Insn("push", "rax", r, Junk, 0, RexLen(r))>>
      /\ emit_pop_reg(r) = <<Insn("pop", r, "rax", Junk, 0, RexLen(r))>>
      /\ emit_call_reg(r) = <<Insn("call", "rax", r, Junk, 0, 3)>>
      /\ emit_jmp_reg(r) = <<Insn("jmp", "rax", r, Junk, 0, 3)>>
      /\ emit_reg_reg(op, r, s) = <<Insn(op, r, s, Junk, 0, 3)>>
      /\ emit_mov_reg_bd(r, s, d, n) = <<Insn("load", r, s, Junk, d, MemLen(s, n))>>
      /\ emit_mov_bd_reg(r, d, s, n) = <<Insn("store", r, s, Junk, d, MemLen(r, n))>>
      /\ emit_mov_reg_imm(r, v) = <<Insn("imm", r, "rax", MovVal(v), 0, MovLen(v))>>
      /\ emit_jmp_imm32(d) = <<Insn("near", "rax", "rax", Junk, d - 5, 5)>>
      /\ emit_jcc_imm32(op, d) = <<Insn(op, "rax", "rax", Junk, d - 6, 6)>>
      /\ Op = Insn("nop", "rax", "rax", Junk, 0, 1)
  BY Singles
<1>3. /\ RexLen(r) \in 1 .. 10 /\ MemLen(s, n) \in 1 .. 10 /\ MemLen(r, n) \in 1 .. 10
      /\ MovLen(v) \in 1 .. 10
  BY Lengths
<1>4. MovVal(v) \in Operand
  BY MovOperand
<1>5. ASSUME NEW x \in OpName, NEW dst \in RegName, NEW src \in RegName, NEW val \in Operand,
             NEW e \in Int, NEW len \in 1 .. 10
      PROVE  <<Insn(x, dst, src, val, e, len)>> \in Codes(len)
  <2>1. Insn(x, dst, src, val, e, len) \in X64Ops
    BY InsnIn
  <2>2. Insn(x, dst, src, val, e, len).len = len
    BY DEF Insn
  <2> QED
    BY <2>1, <2>2, CodesOne
<1>6. d - 5 \in Int /\ d - 6 \in Int /\ 0 \in Int
  OBVIOUS
<1> DEFINE Fine(len) == len \in 1 .. 10
<1>7. Fine(1) /\ Fine(3) /\ Fine(5) /\ Fine(6)
  OBVIOUS
<1>8. /\ <<Insn("ret", "rax", "rax", Junk, 0, 1)>> \in Codes(1)
      /\ <<Insn("call", "rax", r, Junk, 0, 3)>> \in Codes(3)
      /\ <<Insn("jmp", "rax", r, Junk, 0, 3)>> \in Codes(3)
      /\ <<Insn(op, r, s, Junk, 0, 3)>> \in Codes(3)
  BY <1>1, <1>5, <1>6, <1>7, Zenon
<1>9. /\ <<Insn("push", "rax", r, Junk, 0, RexLen(r))>> \in Codes(RexLen(r))
      /\ <<Insn("pop", r, "rax", Junk, 0, RexLen(r))>> \in Codes(RexLen(r))
      /\ <<Insn("load", r, s, Junk, d, MemLen(s, n))>> \in Codes(MemLen(s, n))
      /\ <<Insn("store", r, s, Junk, d, MemLen(r, n))>> \in Codes(MemLen(r, n))
      /\ <<Insn("imm", r, "rax", MovVal(v), 0, MovLen(v))>> \in Codes(MovLen(v))
  BY <1>1, <1>3, <1>4, <1>5, <1>6, Zenon
<1>11. /\ <<Insn("near", "rax", "rax", Junk, d - 5, 5)>> \in Codes(5)
       /\ <<Insn(op, "rax", "rax", Junk, d - 6, 6)>> \in Codes(6)
  BY <1>1, <1>5, <1>6, <1>7, Zenon
<1>10. Op \in X64Ops
  BY <1>1, <1>2, InsnIn, 0 \in Int
<1> QED
  BY <1>2, <1>8, <1>9, <1>10, <1>11

\* A word is an operand.
LEMMA NumOperand == ASSUME NEW w \in Word PROVE Num(w) \in Operand
BY DEF Num, Operand, Word

\* A native address is an operand, which takes AddrLen bytes whatever it is.
LEMMA CodeOperand == ASSUME NEW x \in Int PROVE Code(x) \in Operand /\ MovLen(Code(x)) = AddrLen
BY DEF Code, Operand, MovLen

\* An immediate in rbp and what uses it.
LEMMA PairCodes ==
  ASSUME NEW op \in OpName, NEW r \in RegName, NEW v \in Operand
  PROVE  /\ emit_reg_imm64(op, r, v) \in Codes(MovLen(v) + 3)
         /\ emit_call_imm64(v) \in Codes(MovLen(v) + 3)
         /\ emit_jmp_imm64(v) \in Codes(MovLen(v) + 3)
<1>1. "rbp" \in RegName /\ MovLen(v) \in Nat
  BY Lengths, 1 \in {1, 4} DEF RegName
<1>2. /\ emit_mov_reg_imm("rbp", v) \in Codes(MovLen(v))
      /\ emit_reg_reg(op, r, "rbp") \in Codes(3)
      /\ emit_call_reg("rbp") \in Codes(3) /\ emit_jmp_reg("rbp") \in Codes(3)
  BY <1>1, OneCode, 0 \in Int, 1 \in {1, 4}
<1> QED
  BY <1>1, <1>2, Joining DEF emit_reg_imm64, emit_call_imm64, emit_jmp_imm64

\* How many bytes the code of the instruction i takes.
Count(i) ==
  CASE i.op = "LOAD"  -> MemLen(X64vr2ar[i.src], 4)
    [] i.op = "STORE" -> MemLen(X64vr2ar[i.dst], 4)
    [] i.op = "MOV" /\ i.am = "IMM" -> MovLen(Num(i.imm))
    [] i.op \in (MoveOp \ {"MOV"}) \cup {"CMP"} /\ i.am = "IMM" -> MovLen(Num(i.imm)) + 3
    [] i.op \in MoveOp \cup {"CMP"} /\ i.am = "REG" -> 3
    [] i.op = "NOT" -> 3
    [] i.op \in {"PUSH", "POP"} -> RexLen(X64vr2ar[i.dst])
    [] i.op \in {"CALL", "JMP"} -> AddrLen + 3
    [] i.op = "RET" -> 1
    [] i.op \in CondOp -> 6

\* The code of an instruction takes as many bytes wherever it is and wherever it goes.
LEMMA EmitCodes ==
  ASSUME NEW i \in Instr, NEW at \in Nat, NEW to \in Nat \cup {Unmapped}
  PROVE  X64Emit(i, at, to) \in Codes(Count(i)) /\ Count(i) \in 1 .. 13
<1> DEFINE d == X64vr2ar[i.dst]
           s == X64vr2ar[i.src]
<1>1. /\ d \in RegName /\ s \in RegName /\ i.idx \in Int /\ i.imm \in Word /\ i.op \in Opcode
      /\ i.am \in Mode /\ to \in Int /\ to - at \in Int
  BY RegNumber DEF Instr, Unmapped
<1>2. /\ Num(i.imm) \in Operand /\ Code(to) \in Operand /\ MovLen(Code(to)) = AddrLen
      /\ MovLen(Num(i.imm)) \in {7, 10} /\ AddrLen \in {7, 10}
      /\ RexLen(d) \in 1 .. 2 /\ MemLen(d, 4) \in 4 .. 8 /\ MemLen(s, 4) \in 4 .. 8
  BY <1>1, NumOperand, CodeOperand, Lengths, AddrAssumption
<1> USE DEF MoveOp, BranchOp, CondOp
<1>3. CASE i.op = "LOAD"
  <2>1. Count(i) = MemLen(s, 4) /\ X64Emit(i, at, to) = emit_mov_reg_bd(d, s, i.idx, 4)
    BY <1>3 DEF Count, X64Emit
  <2> QED
    BY <1>1, <1>2, <2>1, OneCode DEF OpName
<1>4. CASE i.op = "STORE"
  <2>1. Count(i) = MemLen(d, 4) /\ X64Emit(i, at, to) = emit_mov_bd_reg(d, i.idx, s, 4)
    BY <1>4 DEF Count, X64Emit
  <2> QED
    BY <1>1, <1>2, <2>1, OneCode DEF OpName
<1>5. CASE i.op \in MoveOp \cup {"CMP"} /\ i.am = "REG"
  <2>1. Count(i) = 3 /\ X64Emit(i, at, to) = emit_reg_reg(i.op, d, s)
    BY <1>5 DEF Count, X64Emit
  <2>2. i.op \in OpName
    BY <1>5 DEF OpName
  <2> QED
    BY <1>1, <1>2, <2>1, <2>2, OneCode
<1>6. CASE i.op = "MOV" /\ i.am = "IMM"
  <2>1. Count(i) = MovLen(Num(i.imm))
    BY <1>6 DEF Count
  <2>2. X64Emit(i, at, to) = emit_mov_reg_imm(d, Num(i.imm))
    BY <1>6 DEF X64Emit
  <2> QED
    BY <1>1, <1>2, <2>1, <2>2, OneCode DEF OpName
<1>7. CASE i.op \in (MoveOp \ {"MOV"}) \cup {"CMP"} /\ i.am = "IMM"
  <2>1. Count(i) = MovLen(Num(i.imm)) + 3
    BY <1>7 DEF Count
  <2>2. X64Emit(i, at, to) = emit_reg_imm64(i.op, d, Num(i.imm))
    BY <1>7 DEF X64Emit
  <2>3. i.op \in OpName
    BY <1>7 DEF OpName
  <2> QED
    BY <1>1, <1>2, <2>1, <2>2, <2>3, PairCodes
<1>8. CASE i.op = "NOT"
  <2>1. Count(i) = 3 /\ X64Emit(i, at, to) = emit_reg_reg("NOT", d, d)
    BY <1>8 DEF Count, X64Emit
  <2> QED
    BY <1>1, <1>2, <2>1, OneCode DEF OpName
<1>9. CASE i.op = "PUSH" \/ i.op = "POP"
  <2>1. Count(i) = RexLen(d)
    BY <1>9 DEF Count
  <2>2. X64Emit(i, at, to) = emit_push_reg(d) \/ X64Emit(i, at, to) = emit_pop_reg(d)
    BY <1>9 DEF X64Emit
  <2> QED
    BY <1>1, <1>2, <2>1, <2>2, OneCode DEF OpName
<1>10. CASE i.op = "CALL" \/ i.op = "JMP"
  <2>1. Count(i) = AddrLen + 3
    BY <1>10 DEF Count
  <2>2. \/ X64Emit(i, at, to) = emit_call_imm64(Code(to))
        \/ X64Emit(i, at, to) = emit_jmp_imm64(Code(to))
    BY <1>10 DEF X64Emit
  <2>3. "CMP" \in OpName
    BY DEF OpName
  <2> QED
    BY <1>1, <1>2, <2>1, <2>2, <2>3, PairCodes
<1>11. CASE i.op = "RET"
  <2>1. Count(i) = 1 /\ X64Emit(i, at, to) = emit_ret
    BY <1>11 DEF Count, X64Emit
  <2> QED
    BY <1>1, <1>2, <2>1, OneCode DEF OpName
<1>12. CASE i.op \in CondOp
  <2>1. Count(i) = 6 /\ X64Emit(i, at, to) = emit_jcc_imm32(i.op, to - at)
    BY <1>12 DEF Count, X64Emit
  <2>2. i.op \in OpName
    BY <1>12 DEF OpName
  <2> QED
    BY <1>1, <1>2, <2>1, <2>2, OneCode
<1> QED
  BY <1>1, <1>3, <1>4, <1>5, <1>6, <1>7, <1>8, <1>9, <1>10, <1>11, <1>12 DEF Opcode, Mode
-----------------------------------------------------------------------------
\* Code of a length that is known is code.
LEMMA InCode == ASSUME NEW n, NEW q \in Codes(n) PROVE q \in Code64
BY DEF Codes, Code64

\* Code after code.
LEMMA CodeJoin == ASSUME NEW q \in Code64, NEW r \in Code64 PROVE q \o r \in Code64
BY DEF Code64

\* Code has a length.
LEMMA CodeBytes == ASSUME NEW q \in Code64 PROVE Bytes(q) \in Nat /\ q \in Codes(Bytes(q))
<1>1. Bytes(q) \in Nat
  BY X64OpsOK, StartsWithin, 0 \in Nat DEF Code64
<1> QED
  BY <1>1 DEF Code64, Codes

\* The code that pushes or pops each of the registers rs.
Pushed(rs) == [k \in 1 .. Len(rs) |-> Insn("push", "rax", rs[k], Junk, 0, RexLen(rs[k]))]
Popped(rs) == [k \in 1 .. Len(rs) |-> Insn("pop", rs[k], "rax", Junk, 0, RexLen(rs[k]))]

\* Registers pushed or popped one after the other.
LEMMA EachRegister ==
  ASSUME NEW rs \in Seq(RegName)
  PROVE  /\ Pushed(rs) \in Code64 /\ Each(emit_push_reg, rs) = Pushed(rs)
         /\ Popped(rs) \in Code64 /\ Each(emit_pop_reg, rs) = Popped(rs)
<1> DEFINE n == Len(rs)
           p == [k \in DOMAIN rs |-> emit_push_reg(rs[k])]
           q == [k \in DOMAIN rs |-> emit_pop_reg(rs[k])]
<1>1. n \in Nat /\ DOMAIN rs = 1 .. n /\ \A k \in 1 .. n : rs[k] \in RegName
  OBVIOUS
<1>2. ASSUME NEW k \in 1 .. n
      PROVE  /\ Insn("push", "rax", rs[k], Junk, 0, RexLen(rs[k])) \in X64Ops
             /\ Insn("pop", rs[k], "rax", Junk, 0, RexLen(rs[k])) \in X64Ops
  <2>1. rs[k] \in RegName
    BY <1>1
  <2>2. /\ "push" \in OpName /\ "pop" \in OpName /\ "rax" \in RegName /\ Junk \in Operand
        /\ 0 \in Int
    BY DEF OpName, RegName, Junk, Operand
  <2>3. RexLen(rs[k]) \in 1 .. 10
    BY DEF RexLen
  <2> QED
    BY <2>1, <2>2, <2>3, InsnIn
<1>3. Pushed(rs) \in Code64 /\ Popped(rs) \in Code64
  BY <1>1, <1>2 DEF Pushed, Popped, Code64
<1>4. /\ Len(p) = n /\ Len(q) = n /\ Len(Pushed(rs)) = n /\ Len(Popped(rs)) = n
  BY <1>1 DEF Pushed, Popped
<1>5. \A k \in 1 .. n : p[k] = <<Pushed(rs)[k]>> /\ q[k] = <<Popped(rs)[k]>>
  BY <1>1, Singles DEF Pushed, Popped
<1>6. Each(emit_push_reg, rs) = Joined(p) /\ Each(emit_pop_reg, rs) = Joined(q)
  BY DEF Each
<1> HIDE DEF p, q, n
<1>7. Joined(p) = Pushed(rs) /\ Joined(q) = Popped(rs)
  BY <1>3, <1>4, <1>5, JoinedOnes DEF Code64
<1> QED
  BY <1>3, <1>6, <1>7

\* The host addresses that the code has as immediates.
LEMMA HostValues ==
  /\ host_sp \in Operand /\ vm_sp \in Operand /\ sys_enter \in Operand
  /\ DumpSlot(0) \in Operand /\ Stk(0) \in Operand /\ Num(0) \in Operand
<1>1. Stk(0) = [tag |-> "stk", val |-> 0]
  BY StackAssumption DEF Stk
<1>2. 0 \in Word
  BY HalfPositive DEF Word
<1> QED
  BY <1>1, <1>2, NumOperand DEF Operand, host_sp, vm_sp, sys_enter, DumpSlot

\* Registers and operations of the code around the program.
LEMMA Names ==
  /\ "rbp" \in RegName /\ "rsp" \in RegName /\ "rdi" \in RegName /\ "rax" \in RegName
  /\ "r8" \in RegName /\ "CMP" \in OpName /\ "ADD" \in OpName /\ "JMPEQ" \in OpName
BY DEF RegName, OpName, MoveOp, CondOp

\* The code of the immediate v, of a word of memory that rbp points to, and of a return.
LEMMA Simple ==
  ASSUME NEW r \in RegName, NEW s \in RegName, NEW v \in Operand, NEW d \in Int, NEW n \in {1, 4},
         NEW op \in OpName
  PROVE  /\ emit_mov_reg_imm(r, v) \in Code64 /\ emit_ret \in Code64
         /\ emit_mov_reg_bd(r, s, d, n) \in Code64 /\ emit_mov_bd_reg(r, d, s, n) \in Code64
         /\ emit_reg_imm64(op, r, v) \in Code64 /\ emit_call_imm64(v) \in Code64
         /\ emit_push_reg(r) \in Code64
         /\ emit_jmp_imm32(d) \in Code64 /\ emit_jcc_imm32(op, d) \in Code64
<1>1. /\ emit_mov_reg_imm(r, v) \in Code64 /\ emit_ret \in Code64
      /\ emit_mov_reg_bd(r, s, d, n) \in Code64 /\ emit_mov_bd_reg(r, d, s, n) \in Code64
      /\ emit_push_reg(r) \in Code64
  BY OneCode, InCode
<1>2. emit_reg_imm64(op, r, v) \in Code64 /\ emit_call_imm64(v) \in Code64
  BY PairCodes, InCode
<1>3. emit_jmp_imm32(d) \in Code64 /\ emit_jcc_imm32(op, d) \in Code64
  BY OneCode, InCode
<1> QED
  BY <1>1, <1>2, <1>3

\* The fourteen registers of reg_dump_area.
LEMMA DumpNames ==
  /\ Len(DumpOrder) = 14 /\ DOMAIN DumpOrder = 1 .. 14
  /\ \A k \in 1 .. 14 : DumpOrder[k] \in Reg /\ DumpOf(DumpOrder[k]).val \in Int
  /\ Len(SubSeq(DumpOrder, 1, 13)) = 13 /\ DOMAIN SubSeq(DumpOrder, 1, 13) = 1 .. 13
  /\ \A k \in 1 .. 13 : SubSeq(DumpOrder, 1, 13)[k] = DumpOrder[k]
<1>1. /\ Len(DumpOrder) = 14 /\ DOMAIN DumpOrder = 1 .. 14
      /\ \A k \in 1 .. 14 : DumpOrder[k] \in Reg
  BY DEF DumpOrder, Reg, GPR
<1>2. DumpOrder \in Seq(Reg)
  BY DEF DumpOrder, Reg, GPR
<1>3. ASSUME NEW k \in 1 .. 14 PROVE DumpOf(DumpOrder[k]).val \in Int
  <2> DEFINE j == CHOOSE j \in DOMAIN DumpOrder : DumpOrder[j] = DumpOrder[k]
  <2>1. j \in 1 .. 14
    BY <1>1
  <2> HIDE DEF j
  <2>2. 8 * (j - 1) \in Int
    BY <2>1
  <2>3. DumpOf(DumpOrder[k]) = DumpSlot(8 * (j - 1))
    BY DEF DumpOf, j
  <2> QED
    BY <2>2, <2>3 DEF DumpSlot
<1> QED
  BY <1>1, <1>2, <1>3

\* The registers of the VM, saved to reg_dump_area and cleared.
DumpStores == [k \in 1 .. 14 |->
                 Insn("store", "rbp", X64vr2ar[DumpOrder[k]], Junk, DumpOf(DumpOrder[k]).val,
                      MemLen("rbp", 4))]
Clears     == [k \in 1 .. 13 |->
                 Insn("imm", X64vr2ar[DumpOrder[k]], "rax", MovVal(Num(0)), 0, MovLen(Num(0)))]

\* They are what the emit functions write.
LEMMA ClearCodes ==
  /\ DumpStores \in Code64
  /\ emit_vm_reg_save_seq = emit_mov_reg_imm("rbp", DumpSlot(0)) \o DumpStores
  /\ Clears \in Code64 /\ emit_reg_init = Clears \o emit_mov_reg_imm("rsp", Stk(0))
<1>1. ASSUME NEW k \in 1 .. 14 PROVE DumpStores[k] \in X64Ops
  <2>1. X64vr2ar[DumpOrder[k]] \in RegName /\ DumpOf(DumpOrder[k]).val \in Int
    BY DumpNames, RegNumber
  <2>2. "store" \in OpName /\ Junk \in Operand /\ MemLen("rbp", 4) \in 1 .. 10
    BY DEF Junk, Operand, OpName, MemLen
  <2> QED
    BY <2>1, <2>2, Names, InsnIn DEF DumpStores
<1>2. ASSUME NEW k \in 1 .. 13 PROVE Clears[k] \in X64Ops
  <2>1. X64vr2ar[DumpOrder[k]] \in RegName
    BY DumpNames, RegNumber
  <2>2. "imm" \in OpName /\ MovVal(Num(0)) \in Operand /\ MovLen(Num(0)) \in 1 .. 10
    BY MovOperand, HostValues, Lengths, Names, 1 \in {1, 4} DEF OpName
  <2> QED
    BY <2>1, <2>2, Names, InsnIn, 0 \in Int DEF Clears
<1>3. DumpStores \in Code64 /\ Clears \in Code64
  BY <1>1, <1>2 DEF DumpStores, Clears, Code64
<1> DEFINE st(r) == emit_mov_bd_reg("rbp", DumpOf(r).val, X64vr2ar[r], 4)
           cl(r) == emit_mov_reg_imm(X64vr2ar[r], Num(0))
           p == [k \in 1 .. 14 |-> st(DumpOrder[k])]
           q == [k \in 1 .. 13 |-> cl(SubSeq(DumpOrder, 1, 13)[k])]
<1>4. ASSUME NEW k \in 1 .. 14 PROVE p[k] = <<DumpStores[k]>>
  <2>1. p[k] = emit_mov_bd_reg("rbp", DumpOf(DumpOrder[k]).val, X64vr2ar[DumpOrder[k]], 4)
    OBVIOUS
  <2> DEFINE s == X64vr2ar[DumpOrder[k]]
             o == DumpOf(DumpOrder[k]).val
  <2> HIDE DEF p, s, o
  <2>2. emit_mov_bd_reg("rbp", o, s, 4) = <<Insn("store", "rbp", s, Junk, o, MemLen("rbp", 4))>>
    BY Singles
  <2> QED
    BY <2>1, <2>2 DEF DumpStores, s, o
<1>5. ASSUME NEW k \in 1 .. 13 PROVE q[k] = <<Clears[k]>>
  <2>1. q[k] = emit_mov_reg_imm(X64vr2ar[DumpOrder[k]], Num(0))
    BY DumpNames
  <2> HIDE DEF q
  <2> QED
    BY <2>1, Singles DEF Clears
<1>6. Len(p) = 14 /\ Len(q) = 13
  OBVIOUS
<1>7. /\ emit_vm_reg_save_seq = emit_mov_reg_imm("rbp", DumpSlot(0)) \o Joined(p)
      /\ emit_reg_init = Joined(q) \o emit_mov_reg_imm("rsp", Stk(0))
  BY DumpNames, Zenon DEF emit_vm_reg_save_seq, emit_reg_init, Each
<1>8. Len(DumpStores) = 14 /\ Len(Clears) = 13
  BY DEF DumpStores, Clears
<1> HIDE DEF p, q
<1>9. Joined(p) = DumpStores /\ Joined(q) = Clears
  BY <1>3, <1>4, <1>5, <1>6, <1>8, JoinedOnes DEF Code64
<1> QED
  BY <1>3, <1>7, <1>9

\* The registers that the code around the program pushes and pops.
Saved     == <<"rbp", "rbx", "r12", "r13", "r14", "r15">>
Restored  == <<"r15", "r14", "r13", "r12", "rbx", "rbp">>
Volatile  == <<"r8", "r9", "r10", "r11", "rax", "rcx", "rdx", "rsi">>
Unspilled == <<"rsi", "rdx", "rcx", "rax", "r11", "r10", "r9", "r8">>

\* They are registers.
LEMMA Lists == /\ Saved \in Seq(RegName) /\ Restored \in Seq(RegName)
               /\ Volatile \in Seq(RegName) /\ Unspilled \in Seq(RegName)
BY DEF Saved, Restored, Volatile, Unspilled, RegName

\* The call of sys_enter.
LEMMA HostPathCode == HostPath \in Code64
<1> DEFINE m(v) == emit_mov_reg_imm("rbp", v)
           ld(r) == emit_mov_reg_bd(r, "rbp", 0, 1)
           st(r) == emit_mov_bd_reg("rbp", 0, r, 1)
<1>1. /\ m(vm_sp) \in Code64 /\ emit_call_imm64(sys_enter) \in Code64 /\ emit_ret \in Code64
      /\ \A r \in RegName : ld(r) \in Code64 /\ st(r) \in Code64
  BY Names, HostValues, Simple, 0 \in Int, 1 \in {1, 4}
<1>2. /\ ld("rsp") \in Code64 /\ ld("rdi") \in Code64 /\ st("rsp") \in Code64
      /\ st("rax") \in Code64
  BY <1>1, Names
<1>3. Pushed(Volatile) \in Code64 /\ Popped(Unspilled) \in Code64
  BY Lists, EachRegister
<1>4. /\ emit_non_vm_sub_entry_seq_to_host = (m(vm_sp) \o st("rsp")) \o Pushed(Volatile)
      /\ emit_non_vm_sub_exit_seq_to_host = (Popped(Unspilled) \o m(vm_sp)) \o ld("rsp")
  BY Lists, EachRegister DEF emit_non_vm_sub_entry_seq_to_host, emit_non_vm_sub_exit_seq_to_host,
                             Volatile, Unspilled
<1>5. emit_sys_enter_call = (((m(vm_sp) \o ld("rdi")) \o emit_call_imm64(sys_enter)) \o m(vm_sp))
                               \o st("rax")
  BY DEF emit_sys_enter_call
<1> HIDE DEF m, ld, st
<1>6. /\ emit_non_vm_sub_entry_seq_to_host \in Code64
      /\ emit_non_vm_sub_exit_seq_to_host \in Code64
  BY <1>1, <1>2, <1>3, <1>4, CodeJoin
<1>7. emit_sys_enter_call \in Code64
  <2>1. m(vm_sp) \o ld("rdi") \in Code64
    BY <1>1, <1>2, CodeJoin
  <2>2. (m(vm_sp) \o ld("rdi")) \o emit_call_imm64(sys_enter) \in Code64
    BY <1>1, <2>1, CodeJoin
  <2>3. ((m(vm_sp) \o ld("rdi")) \o emit_call_imm64(sys_enter)) \o m(vm_sp) \in Code64
    BY <1>1, <2>2, CodeJoin
  <2> QED
    BY <1>2, <1>5, <2>3, CodeJoin
<1> QED
  BY <1>1, <1>6, <1>7, CodeJoin DEF HostPath

\* The way back to the host.
LEMMA ExitPathCode == ExitPath \in Code64 /\ emit_vm_sub_exit_seq_to_host \in Code64
<1> DEFINE a == emit_mov_reg_imm("rbp", host_sp)
           b == emit_mov_reg_bd("rsp", "rbp", 0, 1)
           c == emit_reg_imm64("ADD", "rsp", Num(16))
           d == emit_mov_reg_imm("rbp", DumpSlot(0))
<1>1. /\ a \in Code64 /\ b \in Code64 /\ d \in Code64 /\ emit_ret \in Code64
  BY Names, HostValues, Simple, 0 \in Int, 1 \in {1, 4}
<1>2. c \in Code64
  <2>1. Num(16) \in Operand
    BY DEF Num, Operand
  <2> QED
    BY <2>1, Names, Simple, 0 \in Int, 1 \in {1, 4}
<1>3. Popped(Restored) \in Code64 /\ Each(emit_pop_reg, Restored) = Popped(Restored)
  BY Lists, EachRegister
<1>4. emit_vm_sub_exit_seq_to_host = ((a \o b) \o Popped(Restored)) \o emit_ret
  BY <1>3 DEF emit_vm_sub_exit_seq_to_host, Restored
<1>5. ExitPath = (c \o emit_vm_reg_save_seq) \o emit_vm_sub_exit_seq_to_host
  BY DEF ExitPath
<1>6. emit_vm_reg_save_seq = d \o DumpStores /\ DumpStores \in Code64
  BY ClearCodes
<1> HIDE DEF a, b, c, d
<1>7. emit_vm_sub_exit_seq_to_host \in Code64
  <2>1. a \o b \in Code64
    BY <1>1, CodeJoin
  <2>2. (a \o b) \o Popped(Restored) \in Code64
    BY <1>3, <2>1, CodeJoin
  <2> QED
    BY <1>1, <1>4, <2>2, CodeJoin
<1>8. emit_vm_reg_save_seq \in Code64
  BY <1>1, <1>6, CodeJoin
<1>9. c \o emit_vm_reg_save_seq \in Code64
  BY <1>2, <1>8, CodeJoin
<1> QED
  BY <1>5, <1>7, <1>9, CodeJoin
-----------------------------------------------------------------------------
\* All the code before the program.
LEMMA BootCode == X64Boot \in Code64
<1> DEFINE a == emit_mov_reg_bd("r8", "rsp", 8, 4)
           b == emit_reg_imm64("CMP", "r8", Num(0))
           c == emit_jcc_imm32("JMPEQ", 6 + Bytes(HostPath))
           e == emit_vm_sub_entry_seq_from_host
           j == emit_jmp_imm32(5 + Bytes(emit_sys_enter_stub))
<1>1. a \in Code64 /\ b \in Code64
  BY Names, HostValues, Simple, 8 \in Int, 4 \in {1, 4}
<1>2. c \in Code64
  <2>1. 6 + Bytes(HostPath) \in Int
    BY HostPathCode, CodeBytes
  <2> QED
    BY <2>1, Names, HostValues, Simple, 4 \in {1, 4}
<1>3. emit_sys_enter_stub \in Code64
  <2>1. emit_sys_enter_stub = (((a \o b) \o c) \o HostPath) \o ExitPath
    BY DEF emit_sys_enter_stub
  <2> HIDE DEF a, b, c
  <2>2. a \o b \in Code64
    BY <1>1, CodeJoin
  <2>3. (a \o b) \o c \in Code64
    BY <1>2, <2>2, CodeJoin
  <2>4. ((a \o b) \o c) \o HostPath \in Code64
    BY <2>3, HostPathCode, CodeJoin
  <2> QED
    BY <2>1, <2>4, ExitPathCode, CodeJoin
<1>4. e \in Code64
  <2> DEFINE x == emit_mov_reg_imm("rbp", host_sp)
             y == emit_mov_bd_reg("rbp", 0, "rsp", 1)
  <2>1. x \in Code64 /\ y \in Code64
    BY Names, HostValues, Simple, 0 \in Int, 1 \in {1, 4}
  <2>2. Pushed(Saved) \in Code64 /\ Each(emit_push_reg, Saved) = Pushed(Saved)
    BY Lists, EachRegister
  <2>3. e = (Pushed(Saved) \o x) \o y
    BY <2>2 DEF emit_vm_sub_entry_seq_from_host, Saved
  <2> HIDE DEF x, y, e
  <2>4. Pushed(Saved) \o x \in Code64
    BY <2>1, <2>2, CodeJoin
  <2> QED
    BY <2>1, <2>3, <2>4, CodeJoin
<1>5. j \in Code64
  <2>1. 5 + Bytes(emit_sys_enter_stub) \in Int
    BY <1>3, CodeBytes
  <2> QED
    BY <2>1, Names, HostValues, Simple, 4 \in {1, 4}
<1>6. X64Prelude \in Code64
  BY <1>4, <1>5, CodeJoin DEF X64Prelude
<1>7. emit_reg_init \in Code64
  <2>1. emit_mov_reg_imm("rsp", Stk(0)) \in Code64
    BY Names, HostValues, Simple, 0 \in Int, 1 \in {1, 4}
  <2> QED
    BY <2>1, ClearCodes, CodeJoin
<1>8. X64Prelude \o emit_sys_enter_stub \in Code64
  BY <1>3, <1>6, CodeJoin
<1> QED
  BY <1>7, <1>8, CodeJoin DEF X64Boot

\* The code after the program.
LEMMA GuardCodeIn == StubAt \in Nat => emit_vm_exit_syscall_guard \in Code64
<1> SUFFICES ASSUME StubAt \in Nat PROVE emit_vm_exit_syscall_guard \in Code64
  OBVIOUS
<1> DEFINE a == emit_mov_reg_imm("rbp", Num(0))
           b == emit_push_reg("rbp")
           c == emit_call_imm64(Code(StubAt))
<1>1. Code(StubAt) \in Operand
  BY CodeOperand
<1>2. a \in Code64 /\ b \in Code64 /\ c \in Code64
  BY <1>1, Names, HostValues, Simple, 0 \in Int, 1 \in {1, 4}
<1>3. emit_vm_exit_syscall_guard = (a \o b) \o c
  BY DEF emit_vm_exit_syscall_guard
<1> HIDE DEF a, b, c
<1>4. a \o b \in Code64
  BY <1>2, CodeJoin
<1> QED
  BY <1>2, <1>3, <1>4, CodeJoin

\* What the code of an instruction takes.
LEMMA EmitBytes ==
  ASSUME NEW i \in Instr, NEW at \in Nat, NEW to \in Nat \cup {Unmapped}
  PROVE  /\ X64Emit(i, at, to) \in Code64
         /\ Bytes(X64Emit(i, at, to)) = Count(i) /\ X64Size(i) = Count(i)
BY EmitCodes, 0 \in Nat DEF Codes, Code64, X64Size

\* Every instruction becomes code that its reserved slots hold, and the text grows by at
\* most two bytes of native code for each byte of the program: what the translator is
\* told of its back end is so whatever the program.
THEOREM SizesFit ==
  ASSUME IsX64, Expansion = 2, NEW i \in Instr PROVE Sized(i)
<1> USE DEF MoveOp, BranchOp, CondOp
<1>1. Size(i) = Count(i) /\ Count(i) \in 1 .. 13 /\ Slots(i) = X64Slots(i)
  BY EmitBytes, EmitCodes, 0 \in Nat DEF IsX64
<1>2. /\ i.op \in Opcode /\ i.am \in Mode /\ i.imm \in Word
      /\ X64vr2ar[i.dst] \in RegName /\ X64vr2ar[i.src] \in RegName
  BY RegNumber DEF Instr
<1>3. /\ MovLen(Num(i.imm)) \in {7, 10} /\ AddrLen \in {7, 10}
      /\ RexLen(X64vr2ar[i.dst]) \in 1 .. 2 /\ MemLen(X64vr2ar[i.dst], 4) \in 4 .. 8
      /\ MemLen(X64vr2ar[i.src], 4) \in 4 .. 8
  BY <1>2, Lengths, AddrAssumption
<1>4. CASE i.op \in BranchOp
  <2>1. InstrLen(i) = 9
    BY <1>4 DEF InstrLen
  <2>2. Count(i) = IF i.op \in CondOp THEN 6 ELSE AddrLen + 3
    BY <1>4 DEF Count
  <2>3. Slots(i) = IF i.op \in CondOp THEN 6 ELSE 13
    BY <1>1, <1>4 DEF X64Slots
  <2> QED
    BY <1>1, <1>3, <2>1, <2>2, <2>3 DEF Sized
<1>5. CASE i.op \in {"LOAD", "STORE"}
  <2>1. InstrLen(i) = 4
    BY <1>5 DEF InstrLen
  <2>2. Count(i) \in {MemLen(X64vr2ar[i.src], 4), MemLen(X64vr2ar[i.dst], 4)}
    BY <1>5 DEF Count
  <2> QED
    BY <1>1, <1>3, <1>5, <2>1, <2>2 DEF Sized
<1>6. CASE i.op \in MoveOp \cup {"CMP"} /\ i.am = "REG"
  <2>1. InstrLen(i) = 2
    BY <1>6 DEF InstrLen
  <2>2. Count(i) = 3
    BY <1>6 DEF Count
  <2> QED
    BY <1>1, <1>6, <2>1, <2>2 DEF Sized
<1>7. CASE i.op \in MoveOp \cup {"CMP"} /\ i.am = "IMM"
  <2>1. InstrLen(i) = 10
    BY <1>7 DEF InstrLen
  <2> QED
    BY <1>1, <1>7, <2>1 DEF Sized
<1>8. CASE i.op \in {"NOT", "PUSH", "POP"}
  <2>1. InstrLen(i) = 2
    BY <1>8 DEF InstrLen
  <2>2. Count(i) = 3 \/ Count(i) = RexLen(X64vr2ar[i.dst])
    BY <1>8 DEF Count
  <2> QED
    BY <1>1, <1>3, <1>8, <2>1, <2>2 DEF Sized
<1>9. CASE i.op = "RET"
  <2>1. InstrLen(i) = 1
    BY <1>9 DEF InstrLen
  <2>2. Count(i) = 1
    BY <1>9 DEF Count
  <2> QED
    BY <1>1, <1>9, <2>1, <2>2 DEF Sized
<1> QED
  BY <1>2, <1>4, <1>5, <1>6, <1>7, <1>8, <1>9 DEF Opcode, Mode

\* This back end's code is what module NativeProofs asks of a back end's.
LEMMA X64CodeOK == IsX64 => CodeOK(X64Ops)
<1> SUFFICES ASSUME IsX64 PROVE CodeOK(X64Ops)
  OBVIOUS
<1>1. Nop \in X64Ops /\ Nop.len = 1
  <2>1. Op \in X64Ops
    BY Names, HostValues, OneCode, 0 \in Int, 1 \in {1, 4}
  <2>2. Op.len = 1
    BY DEF Op
  <2> QED
    BY <2>1, <2>2 DEF IsX64
<1>2. Boot \in Code64 /\ Bytes(Boot) = Prologue
  BY BootCode DEF IsX64, X64Prologue
<1>3. \A at \in Nat : GuardCode(at) \in Code64 /\ Bytes(GuardCode(at)) = Guard
  BY GuardCodeIn, LayoutAssumption DEF IsX64, X64Guard
<1>4. \A i \in Instr, at \in Nat, to \in Nat \cup {Unmapped} :
         Emit(i, at, to) \in Code64 /\ Bytes(Emit(i, at, to)) = Size(i)
  BY EmitBytes DEF IsX64
<1>5. ASSUME NEW i \in Instr, i.op \in BranchOp PROVE Slots(i) % Nop.len = 0
  <2>1. Slots(i) \in {6, 13}
    BY DEF IsX64, X64Slots
  <2>2. 6 % 1 = 0 /\ 13 % 1 = 0
    OBVIOUS
  <2> QED
    BY <1>1, <2>1, <2>2
<1> QED
  BY <1>1, <1>2, <1>3, <1>4, <1>5, X64OpsOK DEF CodeOK, Code64

\* The code that the processor finds is that which the translator means it to find.
THEOREM CodeInPlace == ASSUME IsX64 PROVE Spec => []InPlace
<1>1. Init => CodeInv
  BY CodeInvInit DEF Init, NativeInit
<1>2. CodeInv /\ [Next]_vars => CodeInv'
  <2>1. [Next]_vars => Translate \/ UNCHANGED <<jitVars, text>>
    BY RunKeepsText DEF Next, vars
  <2> QED
    BY <2>1, X64CodeOK, CodeInvStep
<1>3. CodeInv => InPlace
  BY CodeInvInPlace
<1> QED
  BY <1>1, <1>2, <1>3, PTL DEF Spec
-----------------------------------------------------------------------------
\* What a program may have in a register or in memory: nothing of the host's stack, none of
\* its functions or variables, and no address of the code but those in E.
Tame(v, E) ==
  /\ v = [tag |-> v.tag, val |-> v.val]
  /\ v.tag \in {"num", "stk", "junk", "host"} \/ (v.tag = "code" /\ v.val \in E)
  /\ v.tag = "stk" => v.val \in Int

\* The slot of the host's stack that is n below its top, and what the entry sequence puts
\* into the first six; m slots of the memory M have that.
Slot(n)     == HostSlot(-8 * n)
Backs(M, m) == /\ M[Slot(0)] = host_return
               /\ \A n \in 1 .. 6 : n <= m => M[Slot(n)] = Entry(Saved[n])

\* All of them do, and the exit sequence finds them.
Kept(M) == M[host_sp] = Slot(6) /\ Backs(M, 6)

Shape(A, M) == DOMAIN A = ArchReg /\ DOMAIN M = Stack \cup HostLoc

\* The memory that a program reaches, and the registers that it has. The JIT has rbp.
Within == Stack \cup {vm_sp}
Own    == RegName \ {"rbp"}

TameRam(M, E) == \A l \in Within : Tame(M[l], E)

\* The host's values are where they belong, and a program has the rest.
Ready(A, M, E) ==
  /\ Kept(M)
  /\ \A r \in Own : Tame(A[r], E)
  /\ TameRam(M, E)

\* The processor's registers.
LEMMA Registers64 ==
  /\ ArchReg = RegName /\ "rsp" \in Own /\ Own \subseteq RegName /\ "rbp" \in RegName
  /\ "rbp" \notin Own /\ \A k \in 1 .. 6 : Saved[k] \in RegName \ {"rsp"}
<1>1. ArchReg = RegName
  <2>1. DOMAIN ByNumber = 1 .. 16
    BY DEF ByNumber
  <2>2. /\ ByNumber[1] = "rbx" /\ ByNumber[2] = "rbp" /\ ByNumber[3] = "rsp"
        /\ ByNumber[4] = "rax" /\ ByNumber[5] = "rcx" /\ ByNumber[6] = "rdx"
        /\ ByNumber[7] = "rsi" /\ ByNumber[8] = "rdi" /\ ByNumber[9] = "r8"
        /\ ByNumber[10] = "r9" /\ ByNumber[11] = "r10" /\ ByNumber[12] = "r11"
        /\ ByNumber[13] = "r12" /\ ByNumber[14] = "r13" /\ ByNumber[15] = "r14"
        /\ ByNumber[16] = "r15"
    BY DEF ByNumber
  <2>3. RegName \subseteq ArchReg
    BY <2>1, <2>2 DEF ArchReg, RegName
  <2>4. \A k \in 1 .. 16 : ByNumber[k] \in RegName
    BY DEF ByNumber, RegName
  <2> QED
    BY <2>1, <2>3, <2>4 DEF ArchReg
<1> QED
  BY <1>1 DEF Own, RegName, Saved

\* The slots of the host's stack lie one below the other.
LEMMA Slots64 ==
  /\ \A n \in 0 .. 6 : Slot(n) \in HostLoc /\ Slot(n).tag = "hst"
  /\ \A m, n \in 0 .. 6 : Slot(m) = Slot(n) => m = n
  /\ \A n \in 0 .. 5 : At(Slot(n), -8) = Slot(n + 1)
  /\ \A n \in 1 .. 6 : At(Slot(n), 8) = Slot(n - 1)
  /\ Slot(0) = HostSlot(0) /\ At(Slot(0), 8) = HostSlot(8)
<1>1. \A o, d : At(HostSlot(o), d) = HostSlot(o + d)
  BY DEF At, HostSlot
<1>2. \A n \in 0 .. 6 : Slot(n) \in HostLoc /\ Slot(n).tag = "hst"
  BY DEF Slot, HostLoc, HostSlot
<1>3. \A m, n \in 0 .. 6 : Slot(m) = Slot(n) => m = n
  BY DEF Slot, HostSlot
<1>4. ASSUME NEW n \in 0 .. 5 PROVE At(Slot(n), -8) = Slot(n + 1)
  <2>1. -8 * n + -8 = -8 * (n + 1)
    OBVIOUS
  <2> QED
    BY <1>1, <2>1 DEF Slot
<1>5. ASSUME NEW n \in 1 .. 6 PROVE At(Slot(n), 8) = Slot(n - 1)
  <2>1. -8 * n + 8 = -8 * (n - 1)
    OBVIOUS
  <2> QED
    BY <1>1, <2>1 DEF Slot
<1>6. Slot(0) = HostSlot(0)
  <2>1. ASSUME NEW n \in Int PROVE -8 * n = 0 - 8 * n
    OBVIOUS
  <2>2. \A n \in Int : n = 0 => 0 - 8 * n = 0
    OBVIOUS
  <2>3. -8 * 0 = 0
    BY <2>1, <2>2, 0 \in Int
  <2> QED
    BY <2>3 DEF Slot
<1>7. At(Slot(0), 8) = HostSlot(8)
  BY <1>1, <1>6
<1> QED
  BY <1>2, <1>3, <1>4, <1>5, <1>6, <1>7

\* What arithmetic computes is tame, whatever from.
LEMMA TameResult ==
  ASSUME NEW v, NEW w, NEW d, NEW E
  PROVE  /\ Tame(Offset(v, d), E) /\ Tame(Plus(v, w), E) /\ Tame(Minus(v, w), E)
         /\ Tame(Invert(v), E) /\ Tame(Num(d), E) /\ Tame(Junk, E) /\ Tame(Stk(d), E)
         /\ Tame(Bits(BitAnd, v, w), E) /\ Tame(Bits(BitOr, v, w), E)
         /\ Tame(Bits(BitXor, v, w), E) /\ Tame(HostVal(d), E)
<1>1. \A x, n : Tame(Offset(x, n), E)
  BY DEF Tame, Offset, Num, Stk, Junk
<1>2. Tame(Junk, E) /\ (\A n : Tame(Num(n), E)) /\ Tame(Stk(d), E) /\ Tame(HostVal(d), E)
  BY DEF Tame, Num, Junk, Stk, HostVal
<1>3. Tame(Plus(v, w), E) /\ Tame(Minus(v, w), E)
  BY <1>1, <1>2 DEF Plus, Minus
<1>4. Tame(Invert(v), E)
  BY <1>2 DEF Invert
<1>5. /\ Tame(Bits(BitAnd, v, w), E) /\ Tame(Bits(BitOr, v, w), E)
      /\ Tame(Bits(BitXor, v, w), E)
  BY <1>2 DEF Bits
<1> QED
  BY <1>1, <1>2, <1>3, <1>4, <1>5

\* So are addresses computed from what is, and where they are in memory they are of the
\* program's stack.
LEMMA TameAt ==
  ASSUME NEW v, NEW E, Tame(v, E), NEW d
  PROVE  /\ Tame(At(v, d), E) /\ At(v, d) = Offset(v, d)
         /\ \A l : Tame(l, E) /\ l \in Stack \cup HostLoc => l \in Stack
<1>1. At(v, d) = Offset(v, d)
  BY DEF At, Tame
<1>2. Tame(Offset(v, d), E)
  BY TameResult
<1>3. \A l \in HostLoc : l.tag \in {"hst", "dump", "member"}
  BY DEF HostLoc, HostSlot, DumpArea, DumpOf, DumpSlot, host_sp, vm_sp
<1>4. \A l : Tame(l, E) => l.tag \notin {"hst", "dump", "member"}
  BY DEF Tame
<1> QED
  BY <1>1, <1>2, <1>3, <1>4

\* The two parts of the memory are apart.
LEMMA MemoryParts ==
  /\ Within \subseteq Stack \cup HostLoc /\ vm_sp \notin Stack /\ host_sp \in HostLoc
  /\ host_sp \notin Within /\ \A n \in 0 .. 6 : Slot(n) \notin Within
  /\ \A n \in 0 .. 6 : Slot(n) # host_sp
<1>1. vm_sp \in HostLoc /\ host_sp \in HostLoc /\ host_sp # vm_sp
  BY DEF HostLoc, host_sp, vm_sp
<1>2. \A l \in Stack : l.tag = "stk"
  BY DEF Stack
<1>3. host_sp.tag = "member" /\ vm_sp.tag = "member"
  BY DEF host_sp, vm_sp
<1> QED
  BY <1>1, <1>2, <1>3, Slots64 DEF Within

\* A register changes.
LEMMA ReadyRegister ==
  ASSUME NEW A, NEW M, NEW E, Shape(A, M), NEW r \in RegName, NEW v, r = "rbp" \/ Tame(v, E)
  PROVE  LET B == [A EXCEPT ![r] = v]
         IN  Shape(B, M) /\ (Ready(A, M, E) => Ready(B, M, E))
<1> DEFINE B == [A EXCEPT ![r] = v]
<1>1. DOMAIN B = DOMAIN A /\ \A s \in RegName : B[s] = IF s = r THEN v ELSE A[s]
  BY Registers64 DEF Shape
<1> HIDE DEF B
<1>2. Shape(B, M)
  BY <1>1 DEF Shape
<1>3. Ready(A, M, E) => Ready(B, M, E)
  BY <1>1, Registers64 DEF Ready
<1> QED
  BY <1>2, <1>3 DEF B

\* A place of the memory that the program reaches changes.
LEMMA ReadyMemory ==
  ASSUME NEW A, NEW M, NEW E, Shape(A, M), NEW l \in Within, NEW v
  PROVE  LET N == [M EXCEPT ![l] = v]
         IN  /\ Shape(A, N)
             /\ \A m : Backs(M, m) => Backs(N, m)
             /\ Kept(M) => Kept(N)
             /\ TameRam(M, E) /\ Tame(v, E) => TameRam(N, E)
             /\ Ready(A, M, E) /\ Tame(v, E) => Ready(A, N, E)
<1> DEFINE N == [M EXCEPT ![l] = v]
<1>1. DOMAIN N = DOMAIN M /\ \A s \in DOMAIN M : N[s] = IF s = l THEN v ELSE M[s]
  OBVIOUS
<1> HIDE DEF N
<1>2. Shape(A, N)
  BY <1>1 DEF Shape
<1>3. N[host_sp] = M[host_sp] /\ \A n \in 0 .. 6 : N[Slot(n)] = M[Slot(n)]
  BY <1>1, MemoryParts, Slots64 DEF Shape
<1>4. \A m : Backs(M, m) => Backs(N, m)
  BY <1>3 DEF Backs
<1>5. Kept(M) => Kept(N)
  BY <1>3, <1>4 DEF Kept
<1>6. TameRam(M, E) /\ Tame(v, E) => TameRam(N, E)
  BY <1>1, MemoryParts DEF TameRam, Shape
<1> QED
  BY <1>2, <1>4, <1>5, <1>6 DEF Ready, N

\* So does one of reg_dump_area.
LEMMA KeptDump ==
  ASSUME NEW A, NEW M, Shape(A, M), NEW l, l.tag = "dump", Kept(M), NEW v
  PROVE  Shape(A, [M EXCEPT ![l] = v]) /\ Kept([M EXCEPT ![l] = v])
<1> DEFINE N == [M EXCEPT ![l] = v]
<1>1. DOMAIN N = DOMAIN M /\ \A s \in DOMAIN M : s # l => N[s] = M[s]
  OBVIOUS
<1> HIDE DEF N
<1>2. host_sp # l /\ \A n \in 0 .. 6 : Slot(n) # l
  BY Slots64 DEF host_sp
<1>3. host_sp \in DOMAIN M /\ \A n \in 0 .. 6 : Slot(n) \in DOMAIN M
  BY Slots64, MemoryParts DEF Shape
<1> QED
  BY <1>1, <1>2, <1>3 DEF Kept, Backs, Shape, N
-----------------------------------------------------------------------------
\* The action that runs a native instruction is that of its operation.
LEMMA Acts ==
  ASSUME Run
  PROVE  /\ phase = "done" /\ obs.status \in {"ready", "running"}
         /\ I.op = "nop" => cpu_nop
         /\ I.op = "imm" => cpu_imm
         /\ I.op \in MoveOp \cup {"NOT"} => cpu_alu
         /\ I.op = "CMP" => cpu_cmp
         /\ I.op = "load" => cpu_load
         /\ I.op = "store" => cpu_store
         /\ I.op = "push" => cpu_push
         /\ I.op = "pop" => cpu_pop
         /\ I.op = "jmp" => cpu_jmp
         /\ I.op = "near" => cpu_near
         /\ I.op \in CondOp => cpu_jcc
         /\ I.op = "ret" => cpu_ret \/ return_to_host
         /\ I.op = "call" /\ ar[I.src].tag = "code" => cpu_call
         /\ I.op = "call" /\ ar[I.src] = sys_enter =>
               \/ host_abort
               \/ \E id \in {SYSCALL_DISPLAY_SINT, SYSCALL_DISPLAY_UINT} : host_sys_enter(id)
<1> USE DEF Executes, CondOp, MoveOp
<1>1. CASE cpu_nop \/ cpu_imm \/ cpu_alu \/ cpu_cmp
  BY <1>1 DEF cpu_nop, cpu_imm, cpu_alu, cpu_cmp
<1>2. CASE cpu_load \/ cpu_store \/ cpu_push \/ cpu_pop
  BY <1>2 DEF cpu_load, cpu_store, cpu_push, cpu_pop
<1>3. CASE cpu_jmp \/ cpu_near \/ cpu_jcc
  BY <1>3 DEF cpu_jmp, cpu_near, cpu_jcc
<1>4. CASE cpu_ret \/ return_to_host
  BY <1>4 DEF cpu_ret, return_to_host
<1>5. CASE cpu_call
  BY <1>5 DEF cpu_call, sys_enter
<1>6. CASE \E id \in {SYSCALL_DISPLAY_SINT, SYSCALL_DISPLAY_UINT} : host_sys_enter(id)
  BY <1>6 DEF host_sys_enter, Calls, sys_enter
<1>7. CASE host_abort
  BY <1>7 DEF host_abort, Calls, sys_enter
<1> QED
  BY <1>1, <1>2, <1>3, <1>4, <1>5, <1>6, <1>7 DEF Run

\* Whether the program runs on, at z, or is lost.
Live == obs.status \in {"ready", "running"}
Lost == obs.status \in {"wild", "aborted"}
On(z) == ip' = z /\ Live'
Seen == "status" \in DOMAIN obs

\* It does after most native instructions.
LEMMA Going ==
  ASSUME Live, Seen
  PROVE  /\ \A z : Go(z) => On(z)
         /\ Fall => On(ip + I.len)
         /\ GoAstray => Lost'
         /\ Stray => Lost'
         /\ Status("aborted") => Lost'
<1>1. \A z : Go(z) => On(z)
  BY DEF Go, On, Live, Shows
<1>2. GoAstray \/ Stray \/ Status("aborted") => Lost'
  BY DEF GoAstray, Stray, Status, Lost, Shows, Seen
<1> QED
  BY <1>1, <1>2 DEF Fall

\* What the program sees keeps its fields.
LEMMA SeenStep == Seen /\ [Next]_vars => Seen'
<1> SUFFICES ASSUME Seen, [Next]_vars PROVE Seen'
  OBVIOUS
<1>1. ASSUME NEW z, Go(z) PROVE Seen'
  BY <1>1 DEF Go, Shows, Seen
<1>2. Fall \/ GoAstray \/ Stray \/ Status("aborted") \/ Returns => Seen'
  <2>1. Fall => Seen'
    BY <1>1 DEF Fall
  <2>2. GoAstray => Seen'
    BY DEF GoAstray, Shows, Seen
  <2>3. Stray \/ Status("aborted") => Seen'
    BY DEF Stray, Status, Seen
  <2>4. Returns => Seen'
    BY DEF Returns, Seen
  <2> QED
    BY <2>1, <2>2, <2>3, <2>4
<1>3. CASE Translate \/ UNCHANGED vars
  BY <1>3 DEF Translate, write_prologue, write_instruction, write_end, write_deferred,
              write_guard, vars, cpu, Seen
<1>4. CASE Run
  <2>1. CASE \/ cpu_nop \/ cpu_imm \/ cpu_alu \/ cpu_cmp \/ cpu_load \/ cpu_store
             \/ cpu_push \/ cpu_pop
    BY <1>2, <2>1 DEF cpu_nop, cpu_imm, cpu_alu, cpu_cmp, cpu_load, cpu_store, cpu_push, cpu_pop
  <2>2. CASE cpu_jmp \/ cpu_near \/ cpu_jcc \/ cpu_call \/ cpu_ret \/ return_to_host
    BY <1>1, <1>2, <2>2 DEF cpu_jmp, cpu_near, cpu_jcc, cpu_call, cpu_ret, return_to_host
  <2>3. CASE \/ host_sys_enter(SYSCALL_DISPLAY_SINT) \/ host_sys_enter(SYSCALL_DISPLAY_UINT)
             \/ host_abort
    BY <1>2, <2>3 DEF host_sys_enter, host_abort
  <2> QED
    BY <1>4, <2>1, <2>2, <2>3 DEF Run
<1> QED
  BY <1>3, <1>4 DEF Next
-----------------------------------------------------------------------------
\* What a native instruction does to the registers and the memory that the program goes
\* on with.

\* An instruction without an effect, and one that loads an immediate.
LEMMA ImmStep ==
  ASSUME Run, Seen
  PROVE  /\ I.op = "nop" => On(ip + I.len) /\ UNCHANGED <<ar, ram>>
         /\ I.op = "imm" => /\ On(ip + I.len) /\ UNCHANGED ram
                            /\ ar' = [ar EXCEPT ![I.dst] = I.val]
BY Acts, Going DEF cpu_nop, cpu_imm, Live

\* One that computes, after which the register has nothing of the host.
LEMMA AluStep ==
  ASSUME Run, Seen, I.op \in MoveOp \cup {"NOT"}, I.am = "REG"
  PROVE  /\ On(ip + I.len) /\ UNCHANGED ram
         /\ \E v : /\ ar' = [ar EXCEPT ![I.dst] = v]
                   /\ (I.op = "MOV" /\ v = ar[I.src]) \/ \A E : Tame(v, E)
<1>1. cpu_alu /\ Live
  BY Acts DEF Live
<1>2. On(ip + I.len) /\ UNCHANGED ram /\ ar' = [ar EXCEPT ![I.dst] = Result(I, ar)]
  BY <1>1, Going DEF cpu_alu
<1>3. I.op = "MOV" => Result(I, ar) = ar[I.src]
  BY DEF Result, Source
<1>4. ASSUME I.op # "MOV", NEW E PROVE Tame(Result(I, ar), E)
  <2> DEFINE v == ar[I.dst]
             w == Source(I, ar)
  <2>1. /\ Tame(Plus(v, w), E) /\ Tame(Minus(v, w), E) /\ Tame(Invert(v), E)
        /\ Tame(Bits(BitAnd, v, w), E) /\ Tame(Bits(BitOr, v, w), E)
        /\ Tame(Bits(BitXor, v, w), E)
    <3> HIDE DEF v, w
    <3> QED
      BY TameResult
  <2> QED
    BY <1>4, <2>1 DEF Result, MoveOp
<1> QED
  BY <1>2, <1>3, <1>4

\* A comparison.
LEMMA CmpStep ==
  ASSUME Run, Seen, I.op = "CMP"
  PROVE  On(ip + I.len) /\ UNCHANGED <<ar, ram>> /\ fl' \in Compare(ar[I.dst], ar[I.src])
BY Acts, Going DEF cpu_cmp, Live

\* The accesses to memory.
LEMMA LoadStep ==
  ASSUME Run, Seen, I.op = "load"
  PROVE  \/ Lost'
         \/ /\ On(ip + I.len) /\ UNCHANGED ram /\ At(ar[I.src], I.d) \in DOMAIN ram
            /\ ar' = [ar EXCEPT ![I.dst] = ram[At(ar[I.src], I.d)]]
BY Acts, Going DEF cpu_load, Live

\* A store.
LEMMA StoreStep ==
  ASSUME Run, Seen, I.op = "store"
  PROVE  \/ Lost'
         \/ /\ On(ip + I.len) /\ UNCHANGED ar /\ At(ar[I.dst], I.d) \in DOMAIN ram
            /\ ram' = [ram EXCEPT ![At(ar[I.dst], I.d)] = ar[I.src]]
BY Acts, Going DEF cpu_store, Live

\* A push
LEMMA PushStep ==
  ASSUME Run, Seen, I.op = "push"
  PROVE  LET l == At(ar["rsp"], -8)
         IN  \/ Lost'
             \/ /\ On(ip + I.len) /\ l \in DOMAIN ram
                /\ ar' = [ar EXCEPT !["rsp"] = l] /\ ram' = [ram EXCEPT ![l] = ar[I.src]]
BY Acts, Going DEF cpu_push, Pushes, Live

\* and a pop.
LEMMA PopStep ==
  ASSUME Run, Seen, I.op = "pop"
  PROVE  LET l == ar["rsp"]
         IN  \/ Lost'
             \/ /\ On(ip + I.len) /\ UNCHANGED ram /\ l \in DOMAIN ram
                /\ ar' = [[ar EXCEPT !["rsp"] = At(l, 8)] EXCEPT ![I.dst] = ram[l]]
BY Acts, Going DEF cpu_pop, Live

\* A call of native code.
LEMMA CallStep ==
  ASSUME Run, Seen, I.op = "call", ar[I.src].tag = "code"
  PROVE  LET l == At(ar["rsp"], -8)
         IN  \/ Lost'
             \/ /\ On(ar[I.src].val) /\ l \in DOMAIN ram
                /\ ar' = [ar EXCEPT !["rsp"] = l]
                /\ ram' = [ram EXCEPT ![l] = Code(ip + I.len)]
BY Acts, Going DEF cpu_call, Pushes, Live

\* A return, to the host or to the address on top of the stack.
LEMMA RetStep ==
  ASSUME Run, Seen, I.op = "ret"
  PROVE  LET l == ar["rsp"]
         IN  /\ \/ Lost'
                \/ /\ UNCHANGED ram /\ l \in DOMAIN ram
                   /\ ar' = [ar EXCEPT !["rsp"] = At(l, 8)]
                   /\ \/ ram[l] # host_return /\ ram[l].tag = "code" /\ On(ram[l].val)
                      \/ ram[l] = host_return /\ obs'.status = "exited"
<1>1. Live /\ (cpu_ret \/ return_to_host)
  BY Acts DEF Live
<1>2. CASE cpu_ret
  BY <1>1, <1>2, Going DEF cpu_ret
<1>3. CASE return_to_host
  <2>1. obs'.status = "exited"
    <3> DEFINE x == [obs EXCEPT !.regs = [r \in Reg |-> AsVM(ram[DumpOf(r)])]]
               y == [x EXCEPT !.mem = Memory]
    <3>1. obs' = [y EXCEPT !.status = "exited"]
      BY <1>3 DEF return_to_host, Returns
    <3>2. DOMAIN y = DOMAIN obs
      OBVIOUS
    <3> HIDE DEF y
    <3> QED
      BY <3>1, <3>2 DEF Seen
  <2> QED
    BY <1>3, <2>1 DEF return_to_host, Returns
<1> QED
  BY <1>1, <1>2, <1>3

\* The jumps.
LEMMA JumpStep ==
  ASSUME Run, Seen
  PROVE  /\ I.op = "jmp" => On(ar[I.src].val) /\ UNCHANGED <<ar, ram>>
         /\ I.op = "near" => On(ip + I.len + I.d) /\ UNCHANGED <<ar, ram>>
         /\ I.op \in CondOp => /\ UNCHANGED <<ar, ram>>
                               /\ On(ip + I.len + I.d) \/ On(ip + I.len)
                               /\ fl \in Holds[I.op] \ {"NONE"} => On(ip + I.len + I.d)
<1>1. I.op = "jmp" => On(ar[I.src].val) /\ UNCHANGED <<ar, ram>>
  BY Acts, Going DEF cpu_jmp, Live
<1>2. I.op = "near" => On(ip + I.len + I.d) /\ UNCHANGED <<ar, ram>>
  BY Acts, Going DEF cpu_near, Displaced, Live
<1>3. ASSUME I.op \in CondOp
      PROVE  /\ UNCHANGED <<ar, ram>>
             /\ On(ip + I.len + I.d) \/ On(ip + I.len)
             /\ fl \in Holds[I.op] \ {"NONE"} => On(ip + I.len + I.d)
  BY <1>3, Acts, Going DEF cpu_jcc, Displaced, Live
<1> QED
  BY <1>1, <1>2, <1>3
-----------------------------------------------------------------------------
\* A native instruction that works on the registers of the program and what they point to,
\* or loads rbp, and goes on with the next.
Quiet(o) ==
  \/ o.op \in {"nop", "CMP"}
  \/ o.op = "imm" /\ (o.dst = "rbp" \/ (o.dst \in Own /\ Tame(o.val, {})))
  \/ /\ o.op \in MoveOp \cup {"NOT"} /\ o.am = "REG" /\ o.dst \in Own
     /\ o.op = "MOV" => o.src \in Own
  \/ o.op \in {"load", "store"} /\ o.dst \in Own /\ o.src \in Own
  \/ o.op = "push" /\ o.src \in Own
  \/ o.op = "pop" /\ o.dst \in Own

\* Where a program accesses memory with its register, and what it finds there.
LEMMA AccessTame ==
  ASSUME NEW E, Shape(ar, ram), Ready(ar, ram, E), NEW r \in Own, NEW d
  PROVE  /\ Tame(At(ar[r], d), E)
         /\ At(ar[r], d) \in DOMAIN ram => At(ar[r], d) \in Stack /\ Tame(ram[At(ar[r], d)], E)
         /\ ar[r] \in DOMAIN ram => ar[r] \in Stack /\ Tame(ram[ar[r]], E)
<1>1. Tame(ar[r], E)
  BY DEF Ready
<1>2. /\ Tame(At(ar[r], d), E)
      /\ \A l : Tame(l, E) /\ l \in Stack \cup HostLoc => l \in Stack
  BY <1>1, TameAt
<1> QED
  BY <1>1, <1>2 DEF Ready, TameRam, Within, Shape

\* What the program pushes, or has pushed for it.
LEMMA ReadyPush ==
  ASSUME NEW E, Shape(ar, ram), Ready(ar, ram, E), NEW v, Tame(v, E),
         NEW l, l = At(ar["rsp"], -8), l \in DOMAIN ram,
         ar' = [ar EXCEPT !["rsp"] = l], ram' = [ram EXCEPT ![l] = v]
  PROVE  Shape(ar', ram') /\ Ready(ar', ram', E) /\ l \in Stack
<1>1. l \in Stack /\ Tame(l, E)
  BY Registers64, AccessTame
<1>2. Shape(ar', ram) /\ Ready(ar', ram, E)
  BY <1>1, Registers64, ReadyRegister
<1> QED
  BY <1>1, <1>2, ReadyMemory DEF Within

\* It leaves the program ready, for the addresses in E, unless it loses it.
LEMMA QuietStep ==
  ASSUME Run, Seen, Quiet(I), NEW E, Shape(ar, ram), Ready(ar, ram, E)
  PROVE  Lost' \/ (On(ip + I.len) /\ Shape(ar', ram') /\ Ready(ar', ram', E))
<1> DEFINE Fine == On(ip + I.len) /\ Shape(ar', ram') /\ Ready(ar', ram', E)
<1>1. ASSUME On(ip + I.len), UNCHANGED ram, NEW r \in RegName,
             NEW v, r = "rbp" \/ Tame(v, E), ar' = [ar EXCEPT ![r] = v]
      PROVE  Fine
  BY <1>1, ReadyRegister
<1>2. CASE I.op \in {"nop", "CMP"}
  BY <1>2, ImmStep, CmpStep
<1>3. CASE I.op = "imm" /\ (I.dst = "rbp" \/ (I.dst \in Own /\ Tame(I.val, {})))
  <2>1. Tame(I.val, {}) => Tame(I.val, E)
    BY DEF Tame
  <2>2. I.dst \in RegName
    BY <1>3, Registers64
  <2> QED
    BY <1>1, <1>3, <2>1, <2>2, ImmStep
<1>4. CASE /\ I.op \in MoveOp \cup {"NOT"} /\ I.am = "REG" /\ I.dst \in Own
           /\ I.op = "MOV" => I.src \in Own
  <2>1. PICK v : /\ ar' = [ar EXCEPT ![I.dst] = v]
                 /\ (I.op = "MOV" /\ v = ar[I.src]) \/ \A F : Tame(v, F)
    BY <1>4, AluStep
  <2>2. On(ip + I.len) /\ UNCHANGED ram
    BY <1>4, AluStep
  <2>3. Tame(v, E)
    BY <1>4, <2>1 DEF Ready
  <2>4. I.dst \in RegName
    BY <1>4, Registers64
  <2> QED
    BY <1>1, <2>1, <2>2, <2>3, <2>4
<1>5. CASE I.op = "load" /\ I.dst \in Own /\ I.src \in Own
  <2>1. I.dst \in RegName
    BY <1>5, Registers64
  <2> QED
    BY <1>1, <1>5, <2>1, LoadStep, AccessTame
<1>6. CASE I.op = "store" /\ I.dst \in Own /\ I.src \in Own
  <2> DEFINE l == At(ar[I.dst], I.d)
  <2>1. CASE Lost'
    BY <2>1
  <2>2. CASE ~Lost'
    <3>1. /\ On(ip + I.len) /\ UNCHANGED ar /\ l \in DOMAIN ram
          /\ ram' = [ram EXCEPT ![l] = ar[I.src]]
      BY <1>6, <2>2, StoreStep
    <3>2. l \in Within /\ Tame(ar[I.src], E)
      BY <1>6, <3>1, AccessTame DEF Within, Ready
    <3> HIDE DEF l
    <3>3. Shape(ar, ram') /\ Ready(ar, ram', E)
      BY <3>1, <3>2, ReadyMemory
    <3> QED
      BY <3>1, <3>3
  <2> QED
    BY <2>1, <2>2
<1>7. CASE I.op = "push" /\ I.src \in Own
  <2>1. Tame(ar[I.src], E)
    BY <1>7 DEF Ready
  <2> QED
    BY <1>7, <2>1, PushStep, ReadyPush
<1>8. CASE I.op = "pop" /\ I.dst \in Own
  <2> DEFINE l == ar["rsp"]
             B == [ar EXCEPT !["rsp"] = At(l, 8)]
  <2>1. CASE Lost'
    BY <2>1
  <2>2. CASE ~Lost'
    <3>1. /\ On(ip + I.len) /\ UNCHANGED ram /\ l \in DOMAIN ram
          /\ ar' = [B EXCEPT ![I.dst] = ram[l]]
      BY <1>8, <2>2, PopStep
    <3>2. Tame(At(l, 8), E) /\ Tame(ram[l], E)
      BY <3>1, Registers64, AccessTame
    <3>3. Shape(B, ram) /\ Ready(B, ram, E)
      BY <3>2, Registers64, ReadyRegister
    <3>4. I.dst \in RegName
      BY <1>8, Registers64
    <3> HIDE DEF B, l
    <3>5. Shape(ar', ram) /\ Ready(ar', ram, E)
      BY <3>1, <3>2, <3>3, <3>4, ReadyRegister
    <3> QED
      BY <3>1, <3>5
  <2> QED
    BY <2>1, <2>2
<1> QED
  BY <1>2, <1>3, <1>4, <1>5, <1>6, <1>7, <1>8 DEF Quiet
-----------------------------------------------------------------------------
\* Where the processor may be once the translator is done, with the registers A, the
\* memory M and the flags f: at p, in the code around the program and that of the
\* program itself.

\* The k-th native instruction of the code around the program.
Spot(k) == Starts(X64Boot, 0)[k]

\* Where a program may have itself sent: to an instruction or the stub, behind its end, and
\* behind a call.
Behind(a) == block[a].at + Size(prog.code[a])
Calling   == {a \in Body : prog.code[a].op = "CALL"}
Entries   == {va2aa[a] : a \in DOMAIN va2aa} \cup {GuardAt} \cup {Behind(a) : a \in Calling}

\* In the entry sequence from the host, whose registers have not changed.
Down(k) == IF k <= 6 THEN k - 1 ELSE 6
Entering(k, A, M) ==
  /\ k \in 1 .. 8
  /\ A["rsp"] = Slot(Down(k)) /\ Backs(M, Down(k)) /\ TameRam(M, Entries)
  /\ \A r \in RegName \ {"rsp", "rbp"} : A[r] = Entry(r)
  /\ A["rbp"] = IF k <= 7 THEN Entry("rbp") ELSE host_sp

\* Before the program.
Clearing(k, A, M) ==
  /\ k = 9 \/ k \in 67 .. 80
  /\ Kept(M) /\ TameRam(M, Entries)
  /\ \A r \in Own \ {"rsp"} : Tame(A[r], Entries)

\* In the stub, up to its return to the program. While the host has the stack, what was
\* the top of it is in vm_sp.
InStub(k, A, M) ==
  /\ k \in 10 .. 40
  /\ Ready(A, M, Entries)
  /\ k \in {15, 25, 29, 39} => A["rbp"] = vm_sp
  /\ k = 27 => A["rbp"] = sys_enter
  /\ k = 16 => M[vm_sp] = A["rsp"]
  /\ k \in 17 .. 27 => At(M[vm_sp], -8) \in DOMAIN M
  /\ k \in 26 .. 27 => A["rdi"] = M[vm_sp]

\* On the way back to the host, which has some of its registers.
Leaving(k, A, M) ==
  /\ k \in 41 .. 66
  /\ Kept(M)
  /\ k \in 44 .. 57 => A["rbp"] = DumpSlot(0)
  /\ k = 59 => A["rbp"] = host_sp
  /\ k \in 60 .. 66 => /\ A["rsp"] = Slot(66 - k)
                       /\ \A n \in 1 .. 6 : n > 66 - k => A[Saved[n]] = Entry(Saved[n])

\* After the program: the call to exit,
Exits(v, M)    == v \in Stack /\ M[v] = Num(0)
GuardSpot(k)   == Starts(emit_vm_exit_syscall_guard, GuardAt)[k]
Guarding(k, A, M) ==
  /\ k \in 1 .. 4
  /\ Ready(A, M, Entries)
  /\ k = 2 => A["rbp"] = Num(0)
  /\ k \in 3 .. 4 => Exits(A["rsp"], M)
  /\ k = 4 => A["rbp"] = Code(StubAt)

\* which the stub does not take for another.
Exiting(k, A, M, f) ==
  /\ k \in 10 .. 13
  /\ Kept(M)
  /\ k = 10 => Exits(At(A["rsp"], 8), M)
  /\ k > 10 => A["r8"] = Num(0)
  /\ k = 12 => A["rbp"] = Num(0)
  /\ k = 13 => f = "EQ"

\* In the program: at an instruction, at the second of the two that its code may have, or
\* in what its slots have left.
Paired(i) == \/ i.op \in {"CALL", "JMP"}
             \/ i.op \in (MoveOp \ {"MOV"}) \cup {"CMP"} /\ i.am = "IMM"
InBlock(p, A, M) ==
  \E a \in Body :
    LET i == prog.code[a]
        b == block[a]
    IN  /\ Ready(A, M, Entries)
        /\ \/ p = b.at
           \/ /\ Paired(i) /\ p = b.at + (Count(i) - 3)
              /\ i.op \in {"CALL", "JMP"} => A["rbp"] = Code(b.to)
           \/ p \in b.at + Count(i) .. b.at + b.len - 1

Around(p, A, M, f) ==
  \E k \in 1 .. 80 :
    /\ p = Spot(k)
    /\ \/ Entering(k, A, M) \/ Clearing(k, A, M) \/ InStub(k, A, M) \/ Leaving(k, A, M)
       \/ Exiting(k, A, M, f)

Fits(p, A, M, f) ==
  /\ Shape(A, M)
  /\ \/ Around(p, A, M, f)
     \/ \E k \in 1 .. 4 : p = GuardSpot(k) /\ Guarding(k, A, M)
     \/ InBlock(p, A, M)

HostBack(A) == A["rsp"] = HostSlot(8) /\ \A r \in CalleeSaved : A[r] = Entry(r)

\* Before that the state is as text_mem's caller leaves it.
Untouched ==
  /\ ip = 0 /\ obs.status = "ready"
  /\ ar = [r \in ArchReg |-> IF r = "rsp" THEN HostSlot(0) ELSE Entry(r)]
  /\ ram = [l \in Stack \cup HostLoc |-> IF l = HostSlot(0) THEN host_return ELSE Junk]

HostInv ==
  /\ Seen
  /\ phase # "done" => Untouched
  /\ phase = "done" => \/ Lost
                       \/ Live /\ Fits(ip, ar, ram, fl)
                       \/ obs.status = "exited" /\ HostBack(ar)
-----------------------------------------------------------------------------
\* What the processor finds around the program.

\* Code of n native instructions.
Long(n) == {q \in Code64 : Len(q) = n}

\* Code after code.
LEMMA Cat ==
  ASSUME NEW m \in Nat, NEW n \in Nat, NEW q \in Long(m), NEW r \in Long(n), NEW k, k = m + n
  PROVE  /\ q \o r \in Long(k)
         /\ \A j \in 1 .. m : (q \o r)[j] = q[j]
         /\ \A j \in 1 .. n : (q \o r)[m + j] = r[j]
<1>1. q \in Seq(X64Ops) /\ r \in Seq(X64Ops) /\ Len(q) = m /\ Len(r) = n
  BY DEF Long, Code64
<1>2. q \o r \in Seq(X64Ops) /\ Len(q \o r) = m + n
  BY <1>1
<1>3. \A j \in 1 .. m : (q \o r)[j] = q[j]
  BY <1>1
<1>4. \A j \in 1 .. n : (q \o r)[m + j] = r[j]
  BY <1>1
<1> QED
  BY <1>2, <1>3, <1>4 DEF Long, Code64

\* Any code of m native instructions before any of n, which make k.
Joins(m, n, k) ==
  \A q \in Long(m), r \in Long(n) :
    /\ q \o r \in Long(k)
    /\ \A j \in 1 .. m : (q \o r)[j] = q[j]
    /\ \A j \in 1 .. n : (q \o r)[m + j] = r[j]

\* So it is for every m and n.
LEMMA CatJoins == ASSUME NEW m \in Nat, NEW n \in Nat, NEW k, k = m + n PROVE Joins(m, n, k)
BY Cat DEF Joins

\* Two native instructions.
LEMMA CatTwo ==
  ASSUME NEW q \in Long(1), NEW r \in Long(1)
  PROVE  q \o r \in Long(2) /\ (q \o r)[1] = q[1] /\ (q \o r)[2] = r[1]
<1>1. 1 \in Nat /\ 2 = 1 + 1 /\ 1 \in 1 .. 1
  OBVIOUS
<1>2. /\ q \o r \in Long(2)
      /\ \A j \in 1 .. 1 : (q \o r)[j] = q[j]
      /\ \A j \in 1 .. 1 : (q \o r)[1 + j] = r[j]
  BY <1>1, Cat
<1>3. (q \o r)[1] = q[1] /\ (q \o r)[1 + 1] = r[1]
  BY <1>1, <1>2
<1> QED
  BY <1>1, <1>2, <1>3

\* The code of one.
LEMMA LongOne == ASSUME NEW o, <<o>> \in Code64 PROVE <<o>> \in Long(1) /\ <<o>>[1] = o
BY DEF Long

\* What the native instruction o does, but for its length.
Does(o, op, dst, src, val, d) ==
  o.op = op /\ o.am = "REG" /\ o.dst = dst /\ o.src = src /\ o.val = val /\ o.d = d

\* It is what its fields say.
LEMMA DoesInsn ==
  \A op, dst, src, val, d, len : Does(Insn(op, dst, src, val, d, len), op, dst, src, val, d)
BY DEF Does, Insn

\* Code of one native instruction.
LEMMA DoesOne ==
  ASSUME NEW op, NEW dst, NEW src, NEW val, NEW d, NEW len, NEW q, q \in Code64,
         q = <<Insn(op, dst, src, val, d, len)>>
  PROVE  q \in Long(1) /\ Does(q[1], op, dst, src, val, d)
BY LongOne, DoesInsn

\* The native instructions of the code around the program that are not in a row.
LEMMA SingleOps ==
  /\ \A r \in RegName, v \in Operand :
        LET q == emit_mov_reg_imm(r, v)
        IN  q \in Long(1) /\ Does(q[1], "imm", r, "rax", MovVal(v), 0)
  /\ emit_ret \in Long(1) /\ Does(emit_ret[1], "ret", "rax", "rax", Junk, 0)
  /\ \A r, s \in RegName, d \in Int, n \in {1, 4} :
        /\ LET q == emit_mov_reg_bd(r, s, d, n)
           IN  q \in Long(1) /\ Does(q[1], "load", r, s, Junk, d)
        /\ LET q == emit_mov_bd_reg(r, d, s, n)
           IN  q \in Long(1) /\ Does(q[1], "store", r, s, Junk, d)
  /\ \A r \in RegName :
        /\ emit_push_reg(r) \in Long(1) /\ Does(emit_push_reg(r)[1], "push", "rax", r, Junk, 0)
        /\ emit_call_reg(r) \in Long(1) /\ Does(emit_call_reg(r)[1], "call", "rax", r, Junk, 0)
  /\ \A op \in OpName, r, s \in RegName :
        LET q == emit_reg_reg(op, r, s)
        IN  q \in Long(1) /\ Does(q[1], op, r, s, Junk, 0)
  /\ \A d \in Int :
        /\ LET q == emit_jmp_imm32(d)
           IN  q \in Long(1) /\ Does(q[1], "near", "rax", "rax", Junk, d - 5)
        /\ \A op \in OpName :
              LET q == emit_jcc_imm32(op, d)
              IN  q \in Long(1) /\ Does(q[1], op, "rax", "rax", Junk, d - 6)
<1>1. ASSUME NEW w, NEW r, NEW s, NEW v, NEW d, NEW n
      PROVE  /\ emit_ret = <<Insn("ret", "rax", "rax", Junk, 0, 1)>>
             /\ emit_push_reg(r) = <<Insn("push", "rax", r, Junk, 0, RexLen(r))>>
             /\ emit_call_reg(r) = <<Insn("call", "rax", r, Junk, 0, 3)>>
             /\ emit_reg_reg(w, r, s) = <<Insn(w, r, s, Junk, 0, 3)>>
             /\ emit_mov_reg_bd(r, s, d, n) = <<Insn("load", r, s, Junk, d, MemLen(s, n))>>
             /\ emit_mov_bd_reg(r, d, s, n) = <<Insn("store", r, s, Junk, d, MemLen(r, n))>>
             /\ emit_mov_reg_imm(r, v) = <<Insn("imm", r, "rax", MovVal(v), 0, MovLen(v))>>
             /\ emit_jmp_imm32(d) = <<Insn("near", "rax", "rax", Junk, d - 5, 5)>>
             /\ emit_jcc_imm32(w, d) = <<Insn(w, "rax", "rax", Junk, d - 6, 6)>>
  BY Singles
<1>2. 0 \in Int /\ 1 \in {1, 4}
  OBVIOUS
<1>3. ASSUME NEW r \in RegName, NEW v \in Operand
      PROVE  LET q == emit_mov_reg_imm(r, v)
             IN  q \in Long(1) /\ Does(q[1], "imm", r, "rax", MovVal(v), 0)
  <2>1. emit_mov_reg_imm(r, v) \in Code64
    BY <1>2, Names, Simple, Zenon
  <2>2. emit_mov_reg_imm(r, v) = <<Insn("imm", r, "rax", MovVal(v), 0, MovLen(v))>>
    BY <1>1, Zenon
  <2> QED
    BY <2>1, <2>2, DoesOne
<1>4. emit_ret \in Long(1) /\ Does(emit_ret[1], "ret", "rax", "rax", Junk, 0)
  <2>1. emit_ret \in Code64
    BY <1>2, Names, HostValues, Simple, Zenon
  <2>2. emit_ret = <<Insn("ret", "rax", "rax", Junk, 0, 1)>>
    BY <1>1, Zenon
  <2> QED
    BY <2>1, <2>2, DoesOne
<1>5. ASSUME NEW r \in RegName, NEW s \in RegName, NEW d \in Int, NEW n \in {1, 4}
      PROVE  /\ LET q == emit_mov_reg_bd(r, s, d, n)
                IN  q \in Long(1) /\ Does(q[1], "load", r, s, Junk, d)
             /\ LET q == emit_mov_bd_reg(r, d, s, n)
                IN  q \in Long(1) /\ Does(q[1], "store", r, s, Junk, d)
  <2>1. emit_mov_reg_bd(r, s, d, n) \in Code64 /\ emit_mov_bd_reg(r, d, s, n) \in Code64
    BY Names, HostValues, Simple, Zenon
  <2>2. /\ emit_mov_reg_bd(r, s, d, n) = <<Insn("load", r, s, Junk, d, MemLen(s, n))>>
        /\ emit_mov_bd_reg(r, d, s, n) = <<Insn("store", r, s, Junk, d, MemLen(r, n))>>
        /\ emit_mov_reg_imm(r, Junk) = <<Insn("imm", r, "rax", MovVal(Junk), 0, MovLen(Junk))>>
        /\ emit_reg_reg("ADD", r, s) = <<Insn("ADD", r, s, Junk, 0, 3)>>
    BY <1>1
  <2> QED
    BY <2>1, <2>2, DoesOne
<1>6. ASSUME NEW r \in RegName
      PROVE  /\ LET q == emit_push_reg(r)
                IN  q \in Long(1) /\ Does(q[1], "push", "rax", r, Junk, 0)
             /\ LET q == emit_call_reg(r)
                IN  q \in Long(1) /\ Does(q[1], "call", "rax", r, Junk, 0)
  <2>1. emit_push_reg(r) \in Code64
    BY <1>2, Names, HostValues, Simple, Zenon
  <2>2. emit_call_reg(r) \in Code64
    <3>1. emit_call_reg(r) \in Codes(3)
      BY <1>2, Names, HostValues, OneCode, Zenon
    <3> QED
      BY <3>1, InCode
  <2>3. /\ emit_push_reg(r) = <<Insn("push", "rax", r, Junk, 0, RexLen(r))>>
        /\ emit_call_reg(r) = <<Insn("call", "rax", r, Junk, 0, 3)>>
    BY <1>1, Zenon
  <2> QED
    BY <2>1, <2>2, <2>3, DoesOne
<1>7. ASSUME NEW op \in OpName, NEW r \in RegName, NEW s \in RegName
      PROVE  LET q == emit_reg_reg(op, r, s)
             IN  q \in Long(1) /\ Does(q[1], op, r, s, Junk, 0)
  <2>1. emit_reg_reg(op, r, s) \in Code64
    <3>1. emit_reg_reg(op, r, s) \in Codes(3)
      BY <1>2, HostValues, OneCode, Zenon
    <3> QED
      BY <3>1, InCode
  <2>2. emit_reg_reg(op, r, s) = <<Insn(op, r, s, Junk, 0, 3)>>
    BY <1>1, Zenon
  <2> QED
    BY <2>1, <2>2, DoesOne
<1>8. ASSUME NEW d \in Int
      PROVE  LET q == emit_jmp_imm32(d)
             IN  q \in Long(1) /\ Does(q[1], "near", "rax", "rax", Junk, d - 5)
  <2>1. emit_jmp_imm32(d) \in Code64
    BY <1>2, Names, HostValues, Simple, Zenon
  <2>2. emit_jmp_imm32(d) = <<Insn("near", "rax", "rax", Junk, d - 5, 5)>>
    BY <1>1, Zenon
  <2> QED
    BY <2>1, <2>2, DoesOne
<1>9. ASSUME NEW d \in Int, NEW op \in OpName
      PROVE  LET q == emit_jcc_imm32(op, d)
             IN  q \in Long(1) /\ Does(q[1], op, "rax", "rax", Junk, d - 6)
  <2>1. emit_jcc_imm32(op, d) \in Code64
    BY <1>2, Names, HostValues, Simple, Zenon
  <2>2. emit_jcc_imm32(op, d) = <<Insn(op, "rax", "rax", Junk, d - 6, 6)>>
    BY <1>1, Zenon
  <2> QED
    BY <2>1, <2>2, DoesOne
<1> QED
  BY <1>3, <1>4, <1>5, <1>6, <1>7, <1>8, <1>9

\* The immediate that is no number is what is loaded, and so is zero.
LEMMA HostMoves ==
  /\ MovVal(host_sp) = host_sp /\ MovVal(vm_sp) = vm_sp /\ MovVal(sys_enter) = sys_enter
  /\ MovVal(DumpSlot(0)) = DumpSlot(0) /\ MovVal(Stk(0)) = Stk(0) /\ MovVal(Num(0)) = Num(0)
  /\ \A x : MovVal(Code(x)) = Code(x)
<1>1. MovVal(Num(0)) = Num(0)
  <2>1. HalfMod \in Nat /\ HalfMod > 0 /\ WordMod = HalfMod * HalfMod
    BY HalfPositive DEF WordMod
  <2>2. 0 % HalfMod = 0
    BY <2>1
  <2>3. SignExtended(0) = 0
    <3>1. CASE 0 < HalfMod \div 2
      BY <2>2, <3>1 DEF SignExtended
    <3>2. CASE ~(0 < HalfMod \div 2)
      <4>1. HalfMod = 1 /\ WordMod = 1
        BY <2>1, <3>2
      <4> QED
        BY <2>2, <3>2, <4>1 DEF SignExtended
    <3> QED
      BY <3>1, <3>2
  <2> QED
    BY <2>3 DEF MovVal, Num
<1>2. Stk(0).tag # "num"
  BY DEF Stk, Junk
<1> QED
  BY <1>1, <1>2 DEF MovVal, host_sp, vm_sp, sys_enter, DumpSlot, Code

\* Registers in a row.
LEMMA Rows ==
  /\ Pushed(Saved) \in Long(6) /\ Popped(Restored) \in Long(6)
  /\ Pushed(Volatile) \in Long(8) /\ Popped(Unspilled) \in Long(8)
  /\ DumpStores \in Long(14) /\ Clears \in Long(13)
<1>1. /\ Pushed(Saved) \in Code64 /\ Popped(Restored) \in Code64
      /\ Pushed(Volatile) \in Code64 /\ Popped(Unspilled) \in Code64
      /\ DumpStores \in Code64 /\ Clears \in Code64
  BY Lists, EachRegister, ClearCodes
<1>2. Len(Saved) = 6 /\ Len(Restored) = 6 /\ Len(Volatile) = 8 /\ Len(Unspilled) = 8
  BY DEF Saved, Restored, Volatile, Unspilled
<1>3. /\ Len(Pushed(Saved)) = 6 /\ Len(Popped(Restored)) = 6
      /\ Len(Pushed(Volatile)) = 8 /\ Len(Popped(Unspilled)) = 8
  BY <1>2 DEF Pushed, Popped
<1>4. Len(DumpStores) = 14 /\ Len(Clears) = 13
  BY DEF DumpStores, Clears
<1> QED
  BY <1>1, <1>3, <1>4 DEF Long

\* Any code of m native instructions before one, which make k.
Grows(m, k) ==
  \A q \in Long(m), r \in Long(1) :
    q \o r \in Long(k) /\ (q \o r)[k] = r[1] /\ \A j \in 1 .. m : (q \o r)[j] = q[j]

\* So it is for every m.
LEMMA CatGrows == ASSUME NEW m \in Nat, NEW k, k = m + 1 PROVE Grows(m, k)
<1> SUFFICES ASSUME NEW q \in Long(m), NEW r \in Long(1)
             PROVE  /\ q \o r \in Long(k) /\ (q \o r)[k] = r[1]
                    /\ \A j \in 1 .. m : (q \o r)[j] = q[j]
  BY DEF Grows
<1>1. 1 \in Nat /\ 1 \in 1 .. 1
  OBVIOUS
<1>2. /\ q \o r \in Long(k)
      /\ \A j \in 1 .. m : (q \o r)[j] = q[j]
      /\ \A j \in 1 .. 1 : (q \o r)[m + j] = r[j]
  BY <1>1, Cat
<1> QED
  BY <1>1, <1>2

\* One native instruction with the register rbp for the host's values.
LEMMA HostOps ==
  /\ \A v \in {host_sp, vm_sp, sys_enter, DumpSlot(0), Num(0)} :
        LET q == emit_mov_reg_imm("rbp", v)
        IN  q \in Long(1) /\ Does(q[1], "imm", "rbp", "rax", v, 0)
  /\ \A r \in {"rsp", "rdi", "rax"} :
        /\ LET q == emit_mov_reg_bd(r, "rbp", 0, 1)
           IN  q \in Long(1) /\ Does(q[1], "load", r, "rbp", Junk, 0)
        /\ LET q == emit_mov_bd_reg("rbp", 0, r, 1)
           IN  q \in Long(1) /\ Does(q[1], "store", "rbp", r, Junk, 0)
<1>1. 0 \in Int /\ 1 \in {1, 4} /\ "rbp" \in RegName
  BY Names
<1>2. \A v \in {host_sp, vm_sp, sys_enter, DumpSlot(0), Num(0)} : v \in Operand /\ MovVal(v) = v
  BY HostValues, HostMoves
<1>3. \A r \in {"rsp", "rdi", "rax"} : r \in RegName
  BY Names
<1> QED
  BY <1>1, <1>2, <1>3, SingleOps

\* Two native instructions, of which the first loads rbp.
LEMMA PairOps ==
  /\ LET q == emit_reg_imm64("CMP", "r8", Num(0))
     IN  /\ q \in Long(2) /\ Does(q[1], "imm", "rbp", "rax", Num(0), 0)
         /\ Does(q[2], "CMP", "r8", "rbp", Junk, 0)
  /\ LET q == emit_reg_imm64("ADD", "rsp", Num(16))
     IN  /\ q \in Long(2) /\ Does(q[1], "imm", "rbp", "rax", MovVal(Num(16)), 0)
         /\ Does(q[2], "ADD", "rsp", "rbp", Junk, 0)
  /\ \A v \in Operand :
        LET q == emit_call_imm64(v)
        IN  /\ q \in Long(2) /\ Does(q[1], "imm", "rbp", "rax", MovVal(v), 0)
            /\ Does(q[2], "call", "rax", "rbp", Junk, 0)
<1>1. /\ Num(16) \in Operand /\ Num(0) \in Operand /\ MovVal(Num(0)) = Num(0)
      /\ "r8" \in RegName /\ "rsp" \in RegName /\ "rbp" \in RegName
      /\ "CMP" \in OpName /\ "ADD" \in OpName
  BY Names, HostValues, HostMoves DEF Num, Operand
<1>2. ASSUME NEW op \in OpName, NEW r \in RegName, NEW v \in Operand
      PROVE  LET q == emit_reg_imm64(op, r, v)
             IN  /\ q \in Long(2) /\ Does(q[1], "imm", "rbp", "rax", MovVal(v), 0)
                 /\ Does(q[2], op, r, "rbp", Junk, 0)
  <2> DEFINE a == emit_mov_reg_imm("rbp", v)
             b == emit_reg_reg(op, r, "rbp")
  <2>1. a \in Long(1) /\ Does(a[1], "imm", "rbp", "rax", MovVal(v), 0)
    BY <1>1, SingleOps
  <2>2. b \in Long(1) /\ Does(b[1], op, r, "rbp", Junk, 0)
    BY <1>1, SingleOps
  <2>3. emit_reg_imm64(op, r, v) = a \o b
    BY DEF emit_reg_imm64
  <2> HIDE DEF a, b
  <2>4. a \o b \in Long(2) /\ (a \o b)[1] = a[1] /\ (a \o b)[2] = b[1]
    BY <2>1, <2>2, CatTwo
  <2> QED
    BY <2>1, <2>2, <2>3, <2>4
<1>3. ASSUME NEW v \in Operand
      PROVE  LET q == emit_call_imm64(v)
             IN  /\ q \in Long(2) /\ Does(q[1], "imm", "rbp", "rax", MovVal(v), 0)
                 /\ Does(q[2], "call", "rax", "rbp", Junk, 0)
  <2> DEFINE a == emit_mov_reg_imm("rbp", v)
             b == emit_call_reg("rbp")
  <2>1. a \in Long(1) /\ Does(a[1], "imm", "rbp", "rax", MovVal(v), 0)
    BY <1>1, SingleOps
  <2>2. b \in Long(1) /\ Does(b[1], "call", "rax", "rbp", Junk, 0)
    BY <1>1, SingleOps
  <2>3. emit_call_imm64(v) = a \o b
    BY DEF emit_call_imm64
  <2> HIDE DEF a, b
  <2>4. a \o b \in Long(2) /\ (a \o b)[1] = a[1] /\ (a \o b)[2] = b[1]
    BY <2>1, <2>2, CatTwo
  <2> QED
    BY <2>1, <2>2, <2>3, <2>4
<1>4. LET q == emit_reg_imm64("CMP", "r8", Num(0))
      IN  /\ q \in Long(2) /\ Does(q[1], "imm", "rbp", "rax", Num(0), 0)
          /\ Does(q[2], "CMP", "r8", "rbp", Junk, 0)
  BY <1>1, <1>2
<1>5. LET q == emit_reg_imm64("ADD", "rsp", Num(16))
      IN  /\ q \in Long(2) /\ Does(q[1], "imm", "rbp", "rax", MovVal(Num(16)), 0)
          /\ Does(q[2], "ADD", "rsp", "rbp", Junk, 0)
  BY <1>1, <1>2
<1> QED
  BY <1>3, <1>4, <1>5

\* The sequence on entry from the host.
LEMMA EntryOps ==
  LET q == emit_vm_sub_entry_seq_from_host
  IN  /\ q \in Long(8)
      /\ \A k \in 1 .. 6 : Does(q[k], "push", "rax", Saved[k], Junk, 0)
      /\ Does(q[7], "imm", "rbp", "rax", host_sp, 0)
      /\ Does(q[8], "store", "rbp", "rsp", Junk, 0)
<1> DEFINE a == Pushed(Saved)
           b == emit_mov_reg_imm("rbp", host_sp)
           c == emit_mov_bd_reg("rbp", 0, "rsp", 1)
<1>1. emit_vm_sub_entry_seq_from_host = (a \o b) \o c
  BY Lists, EachRegister DEF emit_vm_sub_entry_seq_from_host, Saved
<1>2. /\ b \in Long(1) /\ Does(b[1], "imm", "rbp", "rax", host_sp, 0)
      /\ c \in Long(1) /\ Does(c[1], "store", "rbp", "rsp", Junk, 0)
  BY HostOps
<1>3. a \in Long(6) /\ \A k \in 1 .. 6 : Does(a[k], "push", "rax", Saved[k], Junk, 0)
  <2>1. DOMAIN Saved = 1 .. 6 /\ Len(Saved) = 6
    BY DEF Saved
  <2>2. \A k \in 1 .. 6 : a[k] = Insn("push", "rax", Saved[k], Junk, 0, RexLen(Saved[k]))
    BY <2>1 DEF Pushed
  <2> QED
    BY <2>2, Rows, DoesInsn
<1> HIDE DEF a, b, c
<1>0. Grows(6, 7) /\ Grows(7, 8)
  BY CatGrows
<1>4. a \o b \in Long(7) /\ (a \o b)[7] = b[1] /\ \A j \in 1 .. 6 : (a \o b)[j] = a[j]
  BY <1>0, <1>2, <1>3 DEF Grows
<1> DEFINE x == a \o b
<1> HIDE DEF x
<1>5. x \o c \in Long(8) /\ (x \o c)[8] = c[1] /\ \A j \in 1 .. 7 : (x \o c)[j] = x[j]
  BY <1>0, <1>2, <1>4 DEF x, Grows
<1>6. /\ \A j \in 1 .. 6 : j \in 1 .. 7
      /\ 7 \in 1 .. 7
  OBVIOUS
<1> QED
  BY <1>1, <1>2, <1>3, <1>4, <1>5, <1>6 DEF x

\* The registers of the rows.
LEMMA RowOps ==
  /\ \A k \in 1 .. 6 : /\ Does(Pushed(Saved)[k], "push", "rax", Saved[k], Junk, 0)
                       /\ Does(Popped(Restored)[k], "pop", Restored[k], "rax", Junk, 0)
  /\ \A k \in 1 .. 8 : /\ Does(Pushed(Volatile)[k], "push", "rax", Volatile[k], Junk, 0)
                       /\ Does(Popped(Unspilled)[k], "pop", Unspilled[k], "rax", Junk, 0)
  /\ \A k \in 1 .. 14 : Does(DumpStores[k], "store", "rbp", X64vr2ar[DumpOrder[k]], Junk,
                             DumpOf(DumpOrder[k]).val)
  /\ \A k \in 1 .. 13 : Does(Clears[k], "imm", X64vr2ar[DumpOrder[k]], "rax", Num(0), 0)
<1>1. Len(Saved) = 6 /\ Len(Restored) = 6 /\ Len(Volatile) = 8 /\ Len(Unspilled) = 8
  BY DEF Saved, Restored, Volatile, Unspilled
<1>2. MovVal(Num(0)) = Num(0)
  BY HostMoves
<1>3. \A k \in 1 .. 6 : /\ Does(Pushed(Saved)[k], "push", "rax", Saved[k], Junk, 0)
                        /\ Does(Popped(Restored)[k], "pop", Restored[k], "rax", Junk, 0)
  BY <1>1, DoesInsn DEF Pushed, Popped
<1>4. \A k \in 1 .. 8 : /\ Does(Pushed(Volatile)[k], "push", "rax", Volatile[k], Junk, 0)
                        /\ Does(Popped(Unspilled)[k], "pop", Unspilled[k], "rax", Junk, 0)
  BY <1>1, DoesInsn DEF Pushed, Popped
<1>5. \A k \in 1 .. 14 : Does(DumpStores[k], "store", "rbp", X64vr2ar[DumpOrder[k]], Junk,
                              DumpOf(DumpOrder[k]).val)
  BY DoesInsn DEF DumpStores
<1>6. \A k \in 1 .. 13 : Does(Clears[k], "imm", X64vr2ar[DumpOrder[k]], "rax", Num(0), 0)
  BY <1>2, DoesInsn DEF Clears
<1> QED
  BY <1>3, <1>4, <1>5, <1>6

\* The way to the host for sys_enter and back to the program.
LEMMA HostPathOps ==
  LET q == HostPath
  IN  /\ q \in Long(27)
      /\ \A k \in {1, 11, 15, 25} : Does(q[k], "imm", "rbp", "rax", vm_sp, 0)
      /\ Does(q[2], "store", "rbp", "rsp", Junk, 0)
      /\ \A k \in 1 .. 8 : Does(q[2 + k], "push", "rax", Volatile[k], Junk, 0)
      /\ Does(q[12], "load", "rdi", "rbp", Junk, 0)
      /\ Does(q[13], "imm", "rbp", "rax", sys_enter, 0)
      /\ Does(q[14], "call", "rax", "rbp", Junk, 0)
      /\ Does(q[16], "store", "rbp", "rax", Junk, 0)
      /\ \A k \in 1 .. 8 : Does(q[16 + k], "pop", Unspilled[k], "rax", Junk, 0)
      /\ Does(q[26], "load", "rsp", "rbp", Junk, 0)
      /\ Does(q[27], "ret", "rax", "rax", Junk, 0)
<1> DEFINE m == emit_mov_reg_imm("rbp", vm_sp)
           ld(r) == emit_mov_reg_bd(r, "rbp", 0, 1)
           st(r) == emit_mov_bd_reg("rbp", 0, r, 1)
           c == emit_call_imm64(sys_enter)
           N == emit_non_vm_sub_entry_seq_to_host
           C == emit_sys_enter_call
           X == emit_non_vm_sub_exit_seq_to_host
           u == Pushed(Volatile)
           v == Popped(Unspilled)
           e == emit_ret
<1>1. /\ m \in Long(1) /\ Does(m[1], "imm", "rbp", "rax", vm_sp, 0)
      /\ ld("rsp") \in Long(1) /\ Does(ld("rsp")[1], "load", "rsp", "rbp", Junk, 0)
      /\ ld("rdi") \in Long(1) /\ Does(ld("rdi")[1], "load", "rdi", "rbp", Junk, 0)
      /\ st("rsp") \in Long(1) /\ Does(st("rsp")[1], "store", "rbp", "rsp", Junk, 0)
      /\ st("rax") \in Long(1) /\ Does(st("rax")[1], "store", "rbp", "rax", Junk, 0)
  BY HostOps
<1>2. /\ c \in Long(2) /\ Does(c[1], "imm", "rbp", "rax", sys_enter, 0)
      /\ Does(c[2], "call", "rax", "rbp", Junk, 0)
  BY PairOps, HostValues, HostMoves
<1>3. e \in Long(1) /\ Does(e[1], "ret", "rax", "rax", Junk, 0)
  BY SingleOps
<1>4. /\ u \in Long(8) /\ v \in Long(8)
      /\ \A k \in 1 .. 8 : Does(u[k], "push", "rax", Volatile[k], Junk, 0)
      /\ \A k \in 1 .. 8 : Does(v[k], "pop", Unspilled[k], "rax", Junk, 0)
  BY Rows, RowOps
<1>5. /\ N = (m \o st("rsp")) \o u /\ X = (v \o m) \o ld("rsp")
      /\ C = (((m \o ld("rdi")) \o c) \o m) \o st("rax")
      /\ HostPath = ((N \o C) \o X) \o e
  BY Lists, EachRegister DEF emit_non_vm_sub_entry_seq_to_host, emit_non_vm_sub_exit_seq_to_host,
                             emit_sys_enter_call, Volatile, Unspilled, HostPath
<1>6. Grows(8, 9) /\ Grows(9, 10) /\ Grows(4, 5) /\ Grows(5, 6) /\ Grows(26, 27)
  BY CatGrows
<1> HIDE DEF m, ld, st, c, N, C, X, u, v, e
<1>7. /\ N \in Long(10) /\ Does(N[1], "imm", "rbp", "rax", vm_sp, 0)
      /\ Does(N[2], "store", "rbp", "rsp", Junk, 0)
      /\ \A k \in 1 .. 8 : Does(N[2 + k], "push", "rax", Volatile[k], Junk, 0)
  <2> DEFINE x == m \o st("rsp")
  <2>1. x \in Long(2) /\ x[1] = m[1] /\ x[2] = st("rsp")[1]
    BY <1>1, CatTwo
  <2>2. N = x \o u
    BY <1>5
  <2> HIDE DEF x
  <2>3. /\ N \in Long(10)
        /\ \A j \in 1 .. 2 : N[j] = x[j]
        /\ \A j \in 1 .. 8 : N[2 + j] = u[j]
    <3>1. Joins(2, 8, 10)
      BY CatJoins
    <3> QED
      BY <1>4, <2>1, <2>2, <3>1 DEF Joins
  <2> QED
    BY <1>1, <1>4, <2>1, <2>3
<1>8. /\ X \in Long(10) /\ Does(X[9], "imm", "rbp", "rax", vm_sp, 0)
      /\ Does(X[10], "load", "rsp", "rbp", Junk, 0)
      /\ \A k \in 1 .. 8 : Does(X[k], "pop", Unspilled[k], "rax", Junk, 0)
  <2> DEFINE x == v \o m
  <2>1. x \in Long(9) /\ x[9] = m[1] /\ \A j \in 1 .. 8 : x[j] = v[j]
    <3>1. Grows(8, 9) /\ v \in Long(8) /\ m \in Long(1)
      BY <1>1, <1>4, <1>6
    <3> QED
      BY <3>1 DEF Grows
  <2>2. X = x \o ld("rsp")
    BY <1>5
  <2> HIDE DEF x
  <2>3. X \in Long(10) /\ X[10] = ld("rsp")[1] /\ \A j \in 1 .. 9 : X[j] = x[j]
    <3>1. Grows(9, 10) /\ x \in Long(9) /\ ld("rsp") \in Long(1)
      BY <1>1, <1>6, <2>1
    <3> QED
      BY <2>2, <3>1 DEF Grows
  <2>4. X[9] = m[1] /\ \A j \in 1 .. 8 : X[j] = v[j]
    BY <2>1, <2>3
  <2> QED
    BY <1>1, <1>4, <2>3, <2>4
<1>9. /\ C \in Long(6) /\ Does(C[1], "imm", "rbp", "rax", vm_sp, 0)
      /\ Does(C[2], "load", "rdi", "rbp", Junk, 0)
      /\ Does(C[3], "imm", "rbp", "rax", sys_enter, 0)
      /\ Does(C[4], "call", "rax", "rbp", Junk, 0)
      /\ Does(C[5], "imm", "rbp", "rax", vm_sp, 0)
      /\ Does(C[6], "store", "rbp", "rax", Junk, 0)
  <2> DEFINE x == m \o ld("rdi")
             y == x \o c
             z == y \o m
  <2>0. C = z \o st("rax")
    BY <1>5
  <2>1. x \in Long(2) /\ x[1] = m[1] /\ x[2] = ld("rdi")[1]
    BY <1>1, CatTwo
  <2> HIDE DEF x
  <2>2. /\ y \in Long(4)
        /\ \A j \in 1 .. 2 : y[j] = x[j]
        /\ \A j \in 1 .. 2 : y[2 + j] = c[j]
    <3>1. Joins(2, 2, 4)
      BY CatJoins
    <3> QED
      BY <1>2, <2>1, <3>1 DEF Joins
  <2> HIDE DEF y
  <2>3. z \in Long(5) /\ z[5] = m[1] /\ \A j \in 1 .. 4 : z[j] = y[j]
    <3>1. Grows(4, 5) /\ y \in Long(4) /\ m \in Long(1)
      BY <1>1, <1>6, <2>2
    <3> QED
      BY <3>1 DEF Grows
  <2> HIDE DEF z
  <2>4. C \in Long(6) /\ C[6] = st("rax")[1] /\ \A j \in 1 .. 5 : C[j] = z[j]
    <3>1. Grows(5, 6) /\ z \in Long(5) /\ st("rax") \in Long(1)
      BY <1>1, <1>6, <2>3
    <3> QED
      BY <2>0, <3>1 DEF Grows
  <2>5. /\ C[1] = m[1] /\ C[2] = ld("rdi")[1] /\ C[3] = c[1] /\ C[4] = c[2] /\ C[5] = m[1]
        /\ C[6] = st("rax")[1]
    BY <2>1, <2>2, <2>3, <2>4
  <2> QED
    BY <1>1, <1>2, <2>4, <2>5
<1> DEFINE f == N \o C
           g == f \o X
<1>10. /\ f \in Long(16)
       /\ \A j \in 1 .. 10 : f[j] = N[j]
       /\ \A j \in 1 .. 6 : f[10 + j] = C[j]
  <2>1. Joins(10, 6, 16)
    BY CatJoins
  <2> QED
    BY <1>7, <1>9, <2>1 DEF Joins
<1> HIDE DEF f
<1>11. /\ g \in Long(26)
       /\ \A j \in 1 .. 16 : g[j] = f[j]
       /\ \A j \in 1 .. 10 : g[16 + j] = X[j]
  <2>1. Joins(16, 10, 26)
    BY CatJoins
  <2> QED
    BY <1>8, <1>10, <2>1 DEF Joins
<1> HIDE DEF g
<1>12. /\ HostPath \in Long(27) /\ HostPath[27] = e[1]
       /\ \A j \in 1 .. 26 : HostPath[j] = g[j]
  <2>1. HostPath = g \o e
    BY <1>5 DEF f, g
  <2>2. Grows(26, 27) /\ g \in Long(26) /\ e \in Long(1)
    BY <1>3, <1>6, <1>11
  <2> QED
    BY <2>1, <2>2 DEF Grows
<1>13. /\ \A k \in {1, 11, 15, 25} : Does(HostPath[k], "imm", "rbp", "rax", vm_sp, 0)
       /\ Does(HostPath[2], "store", "rbp", "rsp", Junk, 0)
       /\ Does(HostPath[12], "load", "rdi", "rbp", Junk, 0)
       /\ Does(HostPath[13], "imm", "rbp", "rax", sys_enter, 0)
       /\ Does(HostPath[14], "call", "rax", "rbp", Junk, 0)
       /\ Does(HostPath[16], "store", "rbp", "rax", Junk, 0)
       /\ Does(HostPath[26], "load", "rsp", "rbp", Junk, 0)
  <2>1. /\ HostPath[1] = N[1] /\ HostPath[2] = N[2] /\ HostPath[11] = C[1] /\ HostPath[12] = C[2]
        /\ HostPath[13] = C[3] /\ HostPath[14] = C[4] /\ HostPath[15] = C[5]
        /\ HostPath[16] = C[6] /\ HostPath[25] = X[9] /\ HostPath[26] = X[10]
    BY <1>10, <1>11, <1>12
  <2> QED
    BY <1>7, <1>8, <1>9, <2>1
<1>14. \A k \in 1 .. 8 : HostPath[2 + k] = N[2 + k] /\ HostPath[16 + k] = X[k]
  BY <1>10, <1>11, <1>12
<1> QED
  BY <1>3, <1>7, <1>8, <1>12, <1>13, <1>14

\* The way back to the host.
LEMMA ExitPathOps ==
  LET q == ExitPath
  IN  /\ q \in Long(26)
      /\ Does(q[1], "imm", "rbp", "rax", MovVal(Num(16)), 0)
      /\ Does(q[2], "ADD", "rsp", "rbp", Junk, 0)
      /\ Does(q[3], "imm", "rbp", "rax", DumpSlot(0), 0)
      /\ \A k \in 1 .. 14 : Does(q[3 + k], "store", "rbp", X64vr2ar[DumpOrder[k]], Junk,
                                 DumpOf(DumpOrder[k]).val)
      /\ Does(q[18], "imm", "rbp", "rax", host_sp, 0)
      /\ Does(q[19], "load", "rsp", "rbp", Junk, 0)
      /\ \A k \in 1 .. 6 : Does(q[19 + k], "pop", Restored[k], "rax", Junk, 0)
      /\ Does(q[26], "ret", "rax", "rax", Junk, 0)
<1> DEFINE a == emit_mov_reg_imm("rbp", host_sp)
           b == emit_mov_reg_bd("rsp", "rbp", 0, 1)
           c == emit_reg_imm64("ADD", "rsp", Num(16))
           d == emit_mov_reg_imm("rbp", DumpSlot(0))
           p == Popped(Restored)
           e == emit_ret
           s == d \o DumpStores
           y == a \o b
           z == y \o p
           x == z \o e
           f == c \o s
<1>1. /\ a \in Long(1) /\ Does(a[1], "imm", "rbp", "rax", host_sp, 0)
      /\ b \in Long(1) /\ Does(b[1], "load", "rsp", "rbp", Junk, 0)
      /\ d \in Long(1) /\ Does(d[1], "imm", "rbp", "rax", DumpSlot(0), 0)
      /\ e \in Long(1) /\ Does(e[1], "ret", "rax", "rax", Junk, 0)
  BY HostOps, SingleOps
<1>2. /\ c \in Long(2) /\ Does(c[1], "imm", "rbp", "rax", MovVal(Num(16)), 0)
      /\ Does(c[2], "ADD", "rsp", "rbp", Junk, 0)
  BY PairOps
<1>3. /\ p \in Long(6) /\ DumpStores \in Long(14)
      /\ \A k \in 1 .. 6 : Does(p[k], "pop", Restored[k], "rax", Junk, 0)
  BY Rows, RowOps
<1>4. ExitPath = f \o x
  BY ClearCodes, Lists, EachRegister DEF ExitPath, emit_vm_sub_exit_seq_to_host, Restored
<1> HIDE DEF a, b, c, d, p, e
<1>5. y \in Long(2) /\ y[1] = a[1] /\ y[2] = b[1]
  BY <1>1, CatTwo
<1>6. /\ s \in Long(15) /\ s[1] = d[1]
      /\ \A j \in 1 .. 14 : s[1 + j] = DumpStores[j]
  <2>1. Joins(1, 14, 15) /\ 1 \in 1 .. 1
    BY CatJoins
  <2> QED
    BY <1>1, <1>3, <2>1 DEF Joins
<1> HIDE DEF y, s
<1>7. /\ z \in Long(8)
      /\ \A j \in 1 .. 2 : z[j] = y[j]
      /\ \A j \in 1 .. 6 : z[2 + j] = p[j]
  <2>1. Joins(2, 6, 8)
    BY CatJoins
  <2> QED
    BY <1>3, <1>5, <2>1 DEF Joins
<1> HIDE DEF z
<1>8. x \in Long(9) /\ x[9] = e[1] /\ \A j \in 1 .. 8 : x[j] = z[j]
  <2>1. Grows(8, 9)
    BY CatGrows
  <2> QED
    BY <1>1, <1>7, <2>1 DEF Grows
<1>9. /\ f \in Long(17)
      /\ \A j \in 1 .. 2 : f[j] = c[j]
      /\ \A j \in 1 .. 15 : f[2 + j] = s[j]
  <2>1. Joins(2, 15, 17)
    BY CatJoins
  <2> QED
    BY <1>2, <1>6, <2>1 DEF Joins
<1> HIDE DEF x, f
<1>10. /\ ExitPath \in Long(26)
       /\ \A j \in 1 .. 17 : ExitPath[j] = f[j]
       /\ \A j \in 1 .. 9 : ExitPath[17 + j] = x[j]
  <2>1. Joins(17, 9, 26)
    BY CatJoins
  <2> QED
    BY <1>4, <1>8, <1>9, <2>1 DEF Joins
<1>11. /\ ExitPath[1] = c[1] /\ ExitPath[2] = c[2] /\ ExitPath[3] = d[1]
       /\ ExitPath[18] = a[1] /\ ExitPath[19] = b[1] /\ ExitPath[26] = e[1]
  BY <1>5, <1>6, <1>7, <1>8, <1>9, <1>10
<1>12. ASSUME NEW k \in 1 .. 14 PROVE ExitPath[3 + k] = DumpStores[k]
  <2>1. /\ 3 + k \in 1 .. 17 /\ 3 + k = 2 + (1 + k) /\ 1 + k \in 1 .. 15
    OBVIOUS
  <2>2. ExitPath[3 + k] = f[3 + k] /\ f[2 + (1 + k)] = s[1 + k] /\ s[1 + k] = DumpStores[k]
    BY <1>6, <1>9, <1>10, <2>1
  <2> QED
    BY <2>1, <2>2
<1>13. ASSUME NEW k \in 1 .. 6 PROVE ExitPath[19 + k] = p[k]
  <2>1. /\ 19 + k = 17 + (2 + k) /\ 2 + k \in 1 .. 9 /\ 2 + k \in 1 .. 8
    OBVIOUS
  <2>2. ExitPath[17 + (2 + k)] = x[2 + k] /\ x[2 + k] = z[2 + k] /\ z[2 + k] = p[k]
    BY <1>7, <1>8, <1>10, <2>1
  <2> QED
    BY <2>1, <2>2
<1> QED
  BY <1>1, <1>2, <1>3, <1>10, <1>11, <1>12, <1>13, RowOps

\* The stub.
LEMMA StubOps ==
  LET q == emit_sys_enter_stub
  IN  /\ q \in Long(57)
      /\ Does(q[1], "load", "r8", "rsp", Junk, 8)
      /\ Does(q[2], "imm", "rbp", "rax", Num(0), 0)
      /\ Does(q[3], "CMP", "r8", "rbp", Junk, 0)
      /\ Does(q[4], "JMPEQ", "rax", "rax", Junk, Bytes(HostPath))
      /\ \A k \in 1 .. 27 : q[4 + k] = HostPath[k]
      /\ \A k \in 1 .. 26 : q[31 + k] = ExitPath[k]
<1> DEFINE a == emit_mov_reg_bd("r8", "rsp", 8, 4)
           b == emit_reg_imm64("CMP", "r8", Num(0))
           n == 6 + Bytes(HostPath)
           c == emit_jcc_imm32("JMPEQ", n)
           x == a \o b
           y == x \o c
           z == y \o HostPath
<1>1. n \in Int /\ n - 6 = Bytes(HostPath)
  BY HostPathCode, CodeBytes
<1>2. emit_sys_enter_stub = z \o ExitPath
  BY DEF emit_sys_enter_stub
<1> HIDE DEF n
<1>3. /\ a \in Long(1) /\ Does(a[1], "load", "r8", "rsp", Junk, 8)
      /\ c \in Long(1) /\ Does(c[1], "JMPEQ", "rax", "rax", Junk, n - 6)
  <2>1. 4 \in {1, 4} /\ 8 \in Int
    OBVIOUS
  <2> QED
    BY <1>1, <2>1, Names, SingleOps
<1>4. /\ b \in Long(2) /\ Does(b[1], "imm", "rbp", "rax", Num(0), 0)
      /\ Does(b[2], "CMP", "r8", "rbp", Junk, 0)
  BY PairOps
<1> HIDE DEF a, b, c
<1>5. x \in Long(3) /\ x[1] = a[1] /\ x[2] = b[1] /\ x[3] = b[2]
  <2>1. Joins(1, 2, 3)
    BY CatJoins
  <2>2. /\ x \in Long(3)
        /\ \A j \in 1 .. 1 : x[j] = a[j]
        /\ \A j \in 1 .. 2 : x[1 + j] = b[j]
    BY <1>3, <1>4, <2>1 DEF Joins
  <2> HIDE DEF x
  <2> QED
    BY <2>2
<1> HIDE DEF x
<1>6. y \in Long(4) /\ y[4] = c[1] /\ \A j \in 1 .. 3 : y[j] = x[j]
  <2>1. Grows(3, 4)
    BY CatGrows
  <2> QED
    BY <1>3, <1>5, <2>1 DEF Grows
<1> HIDE DEF y
<1>7. /\ z \in Long(31)
      /\ \A j \in 1 .. 4 : z[j] = y[j]
      /\ \A j \in 1 .. 27 : z[4 + j] = HostPath[j]
  <2>1. Joins(4, 27, 31) /\ HostPath \in Long(27)
    BY CatJoins, HostPathOps
  <2> QED
    BY <1>6, <2>1 DEF Joins
<1> HIDE DEF z
<1> DEFINE q == emit_sys_enter_stub
<1>8. /\ q \in Long(57)
      /\ \A j \in 1 .. 31 : q[j] = z[j]
      /\ \A j \in 1 .. 26 : q[31 + j] = ExitPath[j]
  <2>1. Joins(31, 26, 57) /\ ExitPath \in Long(26)
    BY CatJoins, ExitPathOps
  <2> QED
    BY <1>2, <1>7, <2>1 DEF Joins
<1> HIDE DEF q
<1>9. q[1] = a[1] /\ q[2] = b[1] /\ q[3] = b[2] /\ q[4] = c[1]
  BY <1>5, <1>6, <1>7, <1>8
<1>10. ASSUME NEW k \in 1 .. 27 PROVE q[4 + k] = HostPath[k]
  <2>1. 4 + k \in 1 .. 31
    OBVIOUS
  <2> QED
    BY <1>7, <1>8, <2>1
<1> QED
  BY <1>1, <1>3, <1>4, <1>8, <1>9, <1>10 DEF q

\* All that is before the program.
LEMMA BootOps ==
  LET q == X64Boot
  IN  /\ q \in Long(80)
      /\ \A k \in 1 .. 6 : Does(q[k], "push", "rax", Saved[k], Junk, 0)
      /\ Does(q[7], "imm", "rbp", "rax", host_sp, 0)
      /\ Does(q[8], "store", "rbp", "rsp", Junk, 0)
      /\ Does(q[9], "near", "rax", "rax", Junk, Bytes(emit_sys_enter_stub))
      /\ \A k \in 1 .. 57 : q[9 + k] = emit_sys_enter_stub[k]
      /\ \A k \in 1 .. 13 : Does(q[66 + k], "imm", X64vr2ar[DumpOrder[k]], "rax", Num(0), 0)
      /\ Does(q[80], "imm", "rsp", "rax", Stk(0), 0)
<1> DEFINE a == emit_vm_sub_entry_seq_from_host
           n == 5 + Bytes(emit_sys_enter_stub)
           b == emit_jmp_imm32(n)
           s == emit_sys_enter_stub
           c == emit_mov_reg_imm("rsp", Stk(0))
           x == a \o b
           y == x \o s
           z == Clears \o c
           q == X64Boot
<1>1. s \in Long(57) /\ n \in Int /\ n - 5 = Bytes(s)
  <2>1. s \in Long(57)
    BY StubOps
  <2>2. Bytes(s) \in Nat
    BY <2>1, CodeBytes DEF Long
  <2> QED
    BY <2>1, <2>2
<1>2. q = y \o z
  BY ClearCodes DEF X64Boot, X64Prelude
<1>3. /\ a \in Long(8)
      /\ \A k \in 1 .. 6 : Does(a[k], "push", "rax", Saved[k], Junk, 0)
      /\ Does(a[7], "imm", "rbp", "rax", host_sp, 0)
      /\ Does(a[8], "store", "rbp", "rsp", Junk, 0)
  BY EntryOps
<1> HIDE DEF n
<1>4. b \in Long(1) /\ Does(b[1], "near", "rax", "rax", Junk, n - 5)
  BY <1>1, SingleOps
<1>5. c \in Long(1) /\ Does(c[1], "imm", "rsp", "rax", Stk(0), 0)
  <2>1. MovVal(Stk(0)) = Stk(0)
    BY HostMoves
  <2> QED
    BY <2>1, Names, HostValues, SingleOps
<1>6. /\ Clears \in Long(13)
      /\ \A k \in 1 .. 13 : Does(Clears[k], "imm", X64vr2ar[DumpOrder[k]], "rax", Num(0), 0)
  BY Rows, RowOps
<1> HIDE DEF a, b, c, s, q
<1>7. x \in Long(9) /\ x[9] = b[1] /\ \A j \in 1 .. 8 : x[j] = a[j]
  <2>1. Grows(8, 9)
    BY CatGrows
  <2> QED
    BY <1>3, <1>4, <2>1 DEF Grows
<1> HIDE DEF x
<1>8. /\ y \in Long(66)
      /\ \A j \in 1 .. 9 : y[j] = x[j]
      /\ \A j \in 1 .. 57 : y[9 + j] = s[j]
  <2>1. Joins(9, 57, 66)
    BY CatJoins
  <2> QED
    BY <1>1, <1>7, <2>1 DEF Joins
<1>9. z \in Long(14) /\ z[14] = c[1] /\ \A j \in 1 .. 13 : z[j] = Clears[j]
  <2>1. Grows(13, 14)
    BY CatGrows
  <2> QED
    BY <1>5, <1>6, <2>1 DEF Grows
<1> HIDE DEF y, z
<1>10. /\ q \in Long(80)
       /\ \A j \in 1 .. 66 : q[j] = y[j]
       /\ \A j \in 1 .. 14 : q[66 + j] = z[j]
  <2>1. Joins(66, 14, 80)
    BY CatJoins
  <2> QED
    BY <1>2, <1>8, <1>9, <2>1 DEF Joins
<1>11. \A k \in 1 .. 6 : q[k] = a[k]
  BY <1>7, <1>8, <1>10
<1>12. q[7] = a[7] /\ q[8] = a[8] /\ q[9] = b[1] /\ q[80] = c[1]
  BY <1>7, <1>8, <1>9, <1>10
<1>13. ASSUME NEW k \in 1 .. 57 PROVE q[9 + k] = s[k]
  <2>1. 9 + k \in 1 .. 66
    OBVIOUS
  <2> QED
    BY <1>8, <1>10, <2>1
<1>14. ASSUME NEW k \in 1 .. 13 PROVE q[66 + k] = Clears[k]
  BY <1>9, <1>10
<1>15. /\ \A k \in 1 .. 6 : Does(q[k], "push", "rax", Saved[k], Junk, 0)
       /\ Does(q[7], "imm", "rbp", "rax", host_sp, 0)
       /\ Does(q[8], "store", "rbp", "rsp", Junk, 0)
       /\ Does(q[9], "near", "rax", "rax", Junk, Bytes(s))
       /\ Does(q[80], "imm", "rsp", "rax", Stk(0), 0)
  BY <1>1, <1>3, <1>4, <1>5, <1>11, <1>12
<1>16. \A k \in 1 .. 13 : Does(q[66 + k], "imm", X64vr2ar[DumpOrder[k]], "rax", Num(0), 0)
  BY <1>6, <1>14
<1> QED
  BY <1>10, <1>13, <1>15, <1>16 DEF q, s

\* The k-th native instruction of the code around the program.
OpAt(k) == X64Boot[k]

\* Those of the stub and of the way to the host and back,
LEMMA StubSpotOps ==
  /\ Does(OpAt(10), "load", "r8", "rsp", Junk, 8)
  /\ Does(OpAt(11), "imm", "rbp", "rax", Num(0), 0)
  /\ Does(OpAt(12), "CMP", "r8", "rbp", Junk, 0)
  /\ Does(OpAt(13), "JMPEQ", "rax", "rax", Junk, Bytes(HostPath))
  /\ \A k \in {14, 24, 28, 38} : Does(OpAt(k), "imm", "rbp", "rax", vm_sp, 0)
  /\ Does(OpAt(15), "store", "rbp", "rsp", Junk, 0)
  /\ \A k \in 16 .. 23 : Does(OpAt(k), "push", "rax", Volatile[k - 15], Junk, 0)
  /\ Does(OpAt(25), "load", "rdi", "rbp", Junk, 0)
  /\ Does(OpAt(26), "imm", "rbp", "rax", sys_enter, 0)
  /\ Does(OpAt(27), "call", "rax", "rbp", Junk, 0)
  /\ Does(OpAt(29), "store", "rbp", "rax", Junk, 0)
  /\ \A k \in 30 .. 37 : Does(OpAt(k), "pop", Unspilled[k - 29], "rax", Junk, 0)
  /\ Does(OpAt(39), "load", "rsp", "rbp", Junk, 0)
  /\ Does(OpAt(40), "ret", "rax", "rax", Junk, 0)
<1>1. \A k \in 1 .. 57 : OpAt(9 + k) = emit_sys_enter_stub[k]
  BY BootOps DEF OpAt
<1>2. /\ OpAt(10) = emit_sys_enter_stub[1] /\ OpAt(11) = emit_sys_enter_stub[2]
      /\ OpAt(12) = emit_sys_enter_stub[3] /\ OpAt(13) = emit_sys_enter_stub[4]
  BY <1>1
<1>3. ASSUME NEW k \in 1 .. 27 PROVE OpAt(13 + k) = HostPath[k]
  <2>1. 4 + k \in 1 .. 57 /\ 9 + (4 + k) = 13 + k
    OBVIOUS
  <2>2. OpAt(9 + (4 + k)) = emit_sys_enter_stub[4 + k]
    BY <1>1, <2>1
  <2> QED
    BY <2>1, <2>2, StubOps
<1>4. /\ OpAt(14) = HostPath[1] /\ OpAt(24) = HostPath[11] /\ OpAt(28) = HostPath[15]
      /\ OpAt(38) = HostPath[25] /\ OpAt(15) = HostPath[2] /\ OpAt(25) = HostPath[12]
      /\ OpAt(26) = HostPath[13] /\ OpAt(27) = HostPath[14] /\ OpAt(29) = HostPath[16]
      /\ OpAt(39) = HostPath[26] /\ OpAt(40) = HostPath[27]
  BY <1>3
<1>5. ASSUME NEW k \in 16 .. 23 PROVE Does(OpAt(k), "push", "rax", Volatile[k - 15], Junk, 0)
  <2> DEFINE j == k - 15
  <2>1. j \in 1 .. 8 /\ 2 + j \in 1 .. 27 /\ 13 + (2 + j) = k
    OBVIOUS
  <2> HIDE DEF j
  <2>2. OpAt(13 + (2 + j)) = HostPath[2 + j]
    BY <1>3, <2>1
  <2>3. Does(HostPath[2 + j], "push", "rax", Volatile[j], Junk, 0)
    BY <2>1, HostPathOps
  <2> QED
    BY <2>1, <2>2, <2>3 DEF j
<1>6. ASSUME NEW k \in 30 .. 37 PROVE Does(OpAt(k), "pop", Unspilled[k - 29], "rax", Junk, 0)
  <2> DEFINE j == k - 29
  <2>1. j \in 1 .. 8 /\ 16 + j \in 1 .. 27 /\ 13 + (16 + j) = k
    OBVIOUS
  <2> HIDE DEF j
  <2>2. OpAt(13 + (16 + j)) = HostPath[16 + j]
    BY <1>3, <2>1
  <2>3. Does(HostPath[16 + j], "pop", Unspilled[j], "rax", Junk, 0)
    BY <2>1, HostPathOps
  <2> QED
    BY <2>1, <2>2, <2>3 DEF j
<1>7. /\ Does(OpAt(10), "load", "r8", "rsp", Junk, 8)
      /\ Does(OpAt(11), "imm", "rbp", "rax", Num(0), 0)
      /\ Does(OpAt(12), "CMP", "r8", "rbp", Junk, 0)
      /\ Does(OpAt(13), "JMPEQ", "rax", "rax", Junk, Bytes(HostPath))
  BY <1>2, StubOps
<1>8. /\ \A k \in {14, 24, 28, 38} : Does(OpAt(k), "imm", "rbp", "rax", vm_sp, 0)
      /\ Does(OpAt(15), "store", "rbp", "rsp", Junk, 0)
      /\ Does(OpAt(25), "load", "rdi", "rbp", Junk, 0)
      /\ Does(OpAt(26), "imm", "rbp", "rax", sys_enter, 0)
      /\ Does(OpAt(27), "call", "rax", "rbp", Junk, 0)
      /\ Does(OpAt(29), "store", "rbp", "rax", Junk, 0)
      /\ Does(OpAt(39), "load", "rsp", "rbp", Junk, 0)
      /\ Does(OpAt(40), "ret", "rax", "rax", Junk, 0)
  BY <1>4, HostPathOps
<1> QED
  BY <1>5, <1>6, <1>7, <1>8

\* and the others.
LEMMA SpotOps ==
  /\ \A k \in 1 .. 6 : Does(OpAt(k), "push", "rax", Saved[k], Junk, 0)
  /\ Does(OpAt(7), "imm", "rbp", "rax", host_sp, 0)
  /\ Does(OpAt(8), "store", "rbp", "rsp", Junk, 0)
  /\ Does(OpAt(9), "near", "rax", "rax", Junk, Bytes(emit_sys_enter_stub))
  /\ Does(OpAt(41), "imm", "rbp", "rax", MovVal(Num(16)), 0)
  /\ Does(OpAt(42), "ADD", "rsp", "rbp", Junk, 0)
  /\ Does(OpAt(43), "imm", "rbp", "rax", DumpSlot(0), 0)
  /\ \A k \in 44 .. 57 : Does(OpAt(k), "store", "rbp", X64vr2ar[DumpOrder[k - 43]], Junk,
                              DumpOf(DumpOrder[k - 43]).val)
  /\ Does(OpAt(58), "imm", "rbp", "rax", host_sp, 0)
  /\ Does(OpAt(59), "load", "rsp", "rbp", Junk, 0)
  /\ \A k \in 60 .. 65 : Does(OpAt(k), "pop", Restored[k - 59], "rax", Junk, 0)
  /\ Does(OpAt(66), "ret", "rax", "rax", Junk, 0)
  /\ \A k \in 67 .. 79 : Does(OpAt(k), "imm", X64vr2ar[DumpOrder[k - 66]], "rax", Num(0), 0)
  /\ Does(OpAt(80), "imm", "rsp", "rax", Stk(0), 0)
<1>1. \A k \in 1 .. 57 : OpAt(9 + k) = emit_sys_enter_stub[k]
  BY BootOps DEF OpAt
<1>2. ASSUME NEW k \in 1 .. 26 PROVE OpAt(40 + k) = ExitPath[k]
  <2>1. 31 + k \in 1 .. 57 /\ 9 + (31 + k) = 40 + k
    OBVIOUS
  <2>2. OpAt(9 + (31 + k)) = emit_sys_enter_stub[31 + k]
    BY <1>1, <2>1
  <2> QED
    BY <2>1, <2>2, StubOps
<1>3. /\ OpAt(41) = ExitPath[1] /\ OpAt(42) = ExitPath[2] /\ OpAt(43) = ExitPath[3]
      /\ OpAt(58) = ExitPath[18] /\ OpAt(59) = ExitPath[19] /\ OpAt(66) = ExitPath[26]
  BY <1>2
<1>4. /\ Does(OpAt(41), "imm", "rbp", "rax", MovVal(Num(16)), 0)
      /\ Does(OpAt(42), "ADD", "rsp", "rbp", Junk, 0)
      /\ Does(OpAt(43), "imm", "rbp", "rax", DumpSlot(0), 0)
      /\ Does(OpAt(58), "imm", "rbp", "rax", host_sp, 0)
      /\ Does(OpAt(59), "load", "rsp", "rbp", Junk, 0)
      /\ Does(OpAt(66), "ret", "rax", "rax", Junk, 0)
  BY <1>3, ExitPathOps
<1>5. ASSUME NEW k \in 44 .. 57
      PROVE  Does(OpAt(k), "store", "rbp", X64vr2ar[DumpOrder[k - 43]], Junk,
                  DumpOf(DumpOrder[k - 43]).val)
  <2> DEFINE j == k - 43
  <2>1. j \in 1 .. 14 /\ 3 + j \in 1 .. 26 /\ 40 + (3 + j) = k
    OBVIOUS
  <2> HIDE DEF j
  <2>2. OpAt(40 + (3 + j)) = ExitPath[3 + j]
    BY <1>2, <2>1
  <2>3. Does(ExitPath[3 + j], "store", "rbp", X64vr2ar[DumpOrder[j]], Junk,
             DumpOf(DumpOrder[j]).val)
    BY <2>1, ExitPathOps
  <2> QED
    BY <2>1, <2>2, <2>3 DEF j
<1>6. ASSUME NEW k \in 60 .. 65 PROVE Does(OpAt(k), "pop", Restored[k - 59], "rax", Junk, 0)
  <2> DEFINE j == k - 59
  <2>1. j \in 1 .. 6 /\ 19 + j \in 1 .. 26 /\ 40 + (19 + j) = k
    OBVIOUS
  <2> HIDE DEF j
  <2>2. OpAt(40 + (19 + j)) = ExitPath[19 + j]
    BY <1>2, <2>1
  <2>3. Does(ExitPath[19 + j], "pop", Restored[j], "rax", Junk, 0)
    BY <2>1, ExitPathOps
  <2> QED
    BY <2>1, <2>2, <2>3 DEF j
<1>7. ASSUME NEW k \in 67 .. 79
      PROVE  Does(OpAt(k), "imm", X64vr2ar[DumpOrder[k - 66]], "rax", Num(0), 0)
  <2> DEFINE j == k - 66
  <2>1. j \in 1 .. 13 /\ 66 + j = k
    OBVIOUS
  <2> HIDE DEF j
  <2>2. Does(OpAt(66 + j), "imm", X64vr2ar[DumpOrder[j]], "rax", Num(0), 0)
    BY <2>1, BootOps DEF OpAt
  <2> QED
    BY <2>1, <2>2 DEF j
<1>8. /\ \A k \in 1 .. 6 : Does(OpAt(k), "push", "rax", Saved[k], Junk, 0)
      /\ Does(OpAt(7), "imm", "rbp", "rax", host_sp, 0)
      /\ Does(OpAt(8), "store", "rbp", "rsp", Junk, 0)
      /\ Does(OpAt(9), "near", "rax", "rax", Junk, Bytes(emit_sys_enter_stub))
      /\ Does(OpAt(80), "imm", "rsp", "rax", Stk(0), 0)
  BY BootOps DEF OpAt
<1> QED
  BY <1>4, <1>5, <1>6, <1>7, <1>8

\* Where the native instructions of a code of n of them are,
Runs(n) ==
  \A q \in Long(n), at \in Nat :
    /\ Starts(q, at) \in [1 .. n + 1 -> Nat] /\ Starts(q, at)[1] = at
    /\ \A k \in 1 .. n : Starts(q, at)[k + 1] = Starts(q, at)[k] + q[k].len
    /\ Starts(q, at)[n + 1] = at + Bytes(q) /\ Bytes(q) \in Nat
    /\ \A t : Placed(t, q, at) => \A k \in 1 .. n : t[Starts(q, at)[k]] = q[k]

\* and of one of n behind one of m.
Follows(m, n) ==
  \A q \in Long(m), r \in Long(n), at \in Nat :
    /\ \A k \in 1 .. m + 1 : Starts(q \o r, at)[k] = Starts(q, at)[k]
    /\ \A k \in 1 .. n + 1 : Starts(q \o r, at)[m + k] = Starts(r, at + Bytes(q))[k]
    /\ Bytes(q \o r) = Bytes(q) + Bytes(r)

\* They are one after the other.
LEMMA LongStarts == ASSUME NEW n \in Nat PROVE Runs(n)
<1> SUFFICES ASSUME NEW q \in Long(n), NEW at \in Nat
             PROVE  /\ Starts(q, at) \in [1 .. n + 1 -> Nat] /\ Starts(q, at)[1] = at
                    /\ \A k \in 1 .. n : Starts(q, at)[k + 1] = Starts(q, at)[k] + q[k].len
                    /\ Starts(q, at)[n + 1] = at + Bytes(q) /\ Bytes(q) \in Nat
                    /\ \A t : Placed(t, q, at) => \A k \in 1 .. n : t[Starts(q, at)[k]] = q[k]
  BY DEF Runs
<1>1. q \in Seq(X64Ops) /\ Len(q) = n
  BY DEF Long, Code64
<1>2. Ops(X64Ops)
  BY X64OpsOK
<1>3. /\ Starts(q, at) \in [1 .. Len(q) + 1 -> Nat] /\ Starts(q, at)[1] = at
      /\ \A k \in 1 .. Len(q) : Starts(q, at)[k + 1] = Starts(q, at)[k] + q[k].len
  BY <1>1, <1>2, StartsRec
<1>4. Starts(q, at)[Len(q) + 1] = at + Bytes(q) /\ Bytes(q) \in Nat
  BY <1>1, <1>2, StartsWithin
<1>5. DOMAIN q = 1 .. n
  BY <1>1
<1>6. \A t : Placed(t, q, at) => \A k \in 1 .. n : t[Starts(q, at)[k]] = q[k]
  BY <1>5 DEF Placed
<1> QED
  BY <1>1, <1>3, <1>4, <1>6

\* So are the two codes.
LEMMA LongConcat == ASSUME NEW m \in Nat, NEW n \in Nat PROVE Follows(m, n)
<1> SUFFICES ASSUME NEW q \in Long(m), NEW r \in Long(n), NEW at \in Nat
             PROVE  /\ \A k \in 1 .. m + 1 : Starts(q \o r, at)[k] = Starts(q, at)[k]
                    /\ \A k \in 1 .. n + 1 :
                          Starts(q \o r, at)[m + k] = Starts(r, at + Bytes(q))[k]
                    /\ Bytes(q \o r) = Bytes(q) + Bytes(r)
  BY DEF Follows
<1>1. q \in Seq(X64Ops) /\ Len(q) = m /\ r \in Seq(X64Ops) /\ Len(r) = n
  BY DEF Long, Code64
<1>2. Ops(X64Ops)
  BY X64OpsOK
<1>3. /\ \A k \in 1 .. Len(q) + 1 : Starts(q \o r, at)[k] = Starts(q, at)[k]
      /\ \A k \in 1 .. Len(r) + 1 :
            Starts(q \o r, at)[Len(q) + k] = Starts(r, at + Bytes(q))[k]
      /\ Bytes(q \o r) = Bytes(q) + Bytes(r)
  <2>1. \A u, v \in Seq(X64Ops), x \in Nat :
          /\ \A k \in 1 .. Len(u) + 1 : Starts(u \o v, x)[k] = Starts(u, x)[k]
          /\ \A k \in 1 .. Len(v) + 1 :
                Starts(u \o v, x)[Len(u) + k] = Starts(v, x + Bytes(u))[k]
          /\ Bytes(u \o v) = Bytes(u) + Bytes(v)
    BY <1>2, StartsConcat
  <2> QED
    BY <1>1, <2>1
<1> QED
  BY <1>1, <1>3

\* Where two parts of the stub are.
LEMMA StubStarts ==
  ASSUME NEW at \in Nat
  PROVE  LET s == Starts(emit_sys_enter_stub, at)
         IN  s[1] = at /\ s[32] = s[5] + Bytes(HostPath)
<1> DEFINE a == emit_mov_reg_bd("r8", "rsp", 8, 4)
           b == emit_reg_imm64("CMP", "r8", Num(0))
           c == emit_jcc_imm32("JMPEQ", 6 + Bytes(HostPath))
           y == (a \o b) \o c
           z == y \o HostPath
           s == Starts(emit_sys_enter_stub, at)
<1>1. /\ a \in Long(1) /\ b \in Long(2) /\ c \in Long(1)
      /\ HostPath \in Long(27) /\ ExitPath \in Long(26) /\ emit_sys_enter_stub \in Long(57)
  <2>1. 4 \in {1, 4} /\ 8 \in Int /\ 6 + Bytes(HostPath) \in Int
    BY HostPathCode, CodeBytes
  <2>2. a \in Long(1) /\ c \in Long(1)
    BY <2>1, Names, SingleOps
  <2> QED
    BY <2>2, PairOps, HostPathOps, ExitPathOps, StubOps
<1>2. emit_sys_enter_stub = z \o ExitPath
  BY DEF emit_sys_enter_stub
<1>3. y \in Long(4)
  <2>1. Joins(1, 2, 3) /\ Joins(3, 1, 4)
    BY CatJoins
  <2> HIDE DEF a, b, c
  <2>2. a \o b \in Long(3)
    BY <1>1, <2>1 DEF Joins
  <2> QED
    BY <1>1, <2>1, <2>2 DEF Joins
<1> HIDE DEF y
<1>4. z \in Long(31)
  <2>1. Joins(4, 27, 31)
    BY CatJoins
  <2> QED
    BY <1>1, <1>3, <2>1 DEF Joins
<1>6. s[1] = at
  <2>1. Runs(57)
    BY LongStarts
  <2> QED
    BY <1>1, <2>1 DEF Runs
<1>7. /\ \A k \in 1 .. 31 + 1 : s[k] = Starts(z, at)[k]
      /\ Starts(z, at)[31 + 1] = at + Bytes(z)
  <2>1. Starts(z, at)[31 + 1] = at + Bytes(z)
    <3>1. Runs(31)
      BY LongStarts
    <3> QED
      BY <1>4, <3>1 DEF Runs
  <2>2. \A k \in 1 .. 31 + 1 : Starts(z \o ExitPath, at)[k] = Starts(z, at)[k]
    <3>1. Follows(31, 26)
      BY LongConcat
    <3> QED
      BY <1>1, <1>4, <3>1 DEF Follows
  <2> QED
    BY <1>2, <2>1, <2>2
<1>8. /\ \A k \in 1 .. 4 + 1 : Starts(z, at)[k] = Starts(y, at)[k]
      /\ Bytes(z) = Bytes(y) + Bytes(HostPath)
      /\ Starts(y, at)[4 + 1] = at + Bytes(y)
  <2>1. Starts(y, at)[4 + 1] = at + Bytes(y)
    <3>1. Runs(4)
      BY LongStarts
    <3> QED
      BY <1>3, <3>1 DEF Runs
  <2>2. /\ \A k \in 1 .. 4 + 1 : Starts(y \o HostPath, at)[k] = Starts(y, at)[k]
        /\ Bytes(y \o HostPath) = Bytes(y) + Bytes(HostPath)
    <3>1. Follows(4, 27)
      BY LongConcat
    <3> QED
      BY <1>1, <1>3, <3>1 DEF Follows
  <2> QED
    BY <2>1, <2>2
<1>9. s[32] = at + Bytes(z) /\ s[5] = at + Bytes(y)
  <2>1. 32 = 31 + 1 /\ 5 = 4 + 1 /\ 32 \in 1 .. 31 + 1 /\ 5 \in 1 .. 31 + 1 /\ 5 \in 1 .. 4 + 1
    OBVIOUS
  <2> QED
    BY <1>7, <1>8, <2>1
<1>10. Bytes(y) \in Nat /\ Bytes(HostPath) \in Nat
  <2>1. Runs(4) /\ Runs(27)
    BY LongStarts
  <2> QED
    BY <1>1, <1>3, <2>1, 0 \in Nat DEF Runs
<1> QED
  BY <1>6, <1>8, <1>9, <1>10

\* Where the native instructions of the code around the program are.
LEMMA Spots ==
  /\ \A k \in 1 .. 81 : Spot(k) \in Nat
  /\ Spot(1) = 0
  /\ \A k \in 1 .. 80 : Spot(k + 1) = Spot(k) + OpAt(k).len
  /\ Spot(10) = X64StubAt /\ Spot(81) = X64Prologue
  /\ Spot(67) = Spot(10) + Bytes(emit_sys_enter_stub)
  /\ Spot(41) = Spot(14) + Bytes(HostPath)
  /\ \A t : Placed(t, X64Boot, 0) => \A k \in 1 .. 80 : t[Spot(k)] = OpAt(k)
<1> DEFINE s == emit_sys_enter_stub
           x == X64Prelude
           y == x \o s
           z == emit_reg_init
           q == X64Boot
<1>1. x \in Long(9) /\ s \in Long(57) /\ y \in Long(66) /\ z \in Long(14) /\ q \in Long(80)
  <2>1. s \in Long(57) /\ q \in Long(80) /\ emit_vm_sub_entry_seq_from_host \in Long(8)
    BY StubOps, BootOps, EntryOps
  <2>2. 5 + Bytes(s) \in Int
    BY <2>1, CodeBytes DEF Long
  <2>3. emit_jmp_imm32(5 + Bytes(s)) \in Long(1)
    BY <2>2, SingleOps
  <2>4. Joins(8, 1, 9) /\ Joins(9, 57, 66) /\ Joins(13, 1, 14)
    BY CatJoins
  <2>5. x \in Long(9)
    BY <2>1, <2>3, <2>4 DEF Joins, X64Prelude
  <2>6. y \in Long(66)
    BY <2>1, <2>4, <2>5 DEF Joins
  <2>7. z \in Long(14)
    <3>1. emit_mov_reg_imm("rsp", Stk(0)) \in Long(1) /\ Clears \in Long(13)
      BY Names, HostValues, SingleOps, Rows
    <3> QED
      BY <2>4, <3>1, ClearCodes DEF Joins
  <2> QED
    BY <2>1, <2>5, <2>6, <2>7
<1>2. q = y \o z
  BY DEF X64Boot
<1> HIDE DEF q, y, z, x
<1>4. /\ Starts(q, 0) \in [1 .. 80 + 1 -> Nat] /\ Starts(q, 0)[1] = 0
      /\ \A k \in 1 .. 80 : Starts(q, 0)[k + 1] = Starts(q, 0)[k] + q[k].len
      /\ Starts(q, 0)[80 + 1] = 0 + Bytes(q) /\ Bytes(q) \in Nat
      /\ \A t : Placed(t, q, 0) => \A k \in 1 .. 80 : t[Starts(q, 0)[k]] = q[k]
  <2>1. Runs(80)
    BY LongStarts
  <2> QED
    BY <1>1, <2>1, 0 \in Nat DEF Runs
<1>5. Spot(1) = 0 /\ (\A k \in 1 .. 81 : Spot(k) \in Nat)
  <2>1. 80 + 1 = 81
    OBVIOUS
  <2>3. Starts(q, 0) \in [1 .. 81 -> Nat] /\ Starts(q, 0)[1] = 0
    BY <1>4, <2>1
  <2>2. \A k : Spot(k) = Starts(q, 0)[k]
    BY DEF Spot, q
  <2> QED
    BY <2>2, <2>3
<1>6. \A k \in 1 .. 80 : Spot(k + 1) = Spot(k) + OpAt(k).len
  BY <1>4 DEF Spot, q, OpAt
<1>7. \A k \in 1 .. 66 + 1 : Spot(k) = Starts(y, 0)[k]
  <2>1. \A k \in 1 .. 66 + 1 : Starts(y \o z, 0)[k] = Starts(y, 0)[k]
    <3>1. Follows(66, 14)
      BY LongConcat
    <3> QED
      BY <1>1, <3>1, 0 \in Nat DEF Follows
  <2> QED
    BY <1>2, <2>1 DEF Spot, q
<1>8. /\ Starts(y, 0)[66 + 1] = 0 + Bytes(y) /\ Bytes(y) = Bytes(x) + Bytes(s)
      /\ \A k \in 1 .. 57 + 1 : Starts(y, 0)[9 + k] = Starts(s, 0 + Bytes(x))[k]
      /\ Bytes(x) \in Nat /\ Bytes(s) \in Nat
  <2>1. Starts(y, 0)[66 + 1] = 0 + Bytes(y)
    <3>1. Runs(66)
      BY LongStarts
    <3> QED
      BY <1>1, <3>1, 0 \in Nat DEF Runs
  <2>2. Bytes(x) \in Nat /\ Bytes(s) \in Nat
    <3>1. Runs(9) /\ Runs(57)
      BY LongStarts
    <3> QED
      BY <1>1, <3>1, 0 \in Nat DEF Runs
  <2>3. /\ \A k \in 1 .. 57 + 1 : Starts(x \o s, 0)[9 + k] = Starts(s, 0 + Bytes(x))[k]
        /\ Bytes(x \o s) = Bytes(x) + Bytes(s)
    <3>1. Follows(9, 57)
      BY LongConcat
    <3> QED
      BY <1>1, <3>1, 0 \in Nat DEF Follows
  <2> QED
    BY <2>1, <2>2, <2>3 DEF y
<1>9. Spot(67) = Bytes(x) + Bytes(s)
  BY <1>7, <1>8
<1>10. \A k \in 1 .. 57 + 1 : Spot(9 + k) = Starts(s, Bytes(x))[k]
  <2>1. 0 + Bytes(x) = Bytes(x)
    BY <1>8
  <2>2. \A k \in 1 .. 57 + 1 : 9 + k \in 1 .. 66 + 1
    OBVIOUS
  <2> QED
    BY <1>7, <1>8, <2>1, <2>2
<1>11. /\ Starts(s, Bytes(x))[1] = Bytes(x)
       /\ Starts(s, Bytes(x))[32] = Starts(s, Bytes(x))[5] + Bytes(HostPath)
  BY <1>8, StubStarts
<1>12. Spot(10) = Bytes(x) /\ Spot(41) = Spot(14) + Bytes(HostPath)
  <2>1. Spot(10) = Starts(s, Bytes(x))[1] /\ Spot(14) = Starts(s, Bytes(x))[5]
        /\ Spot(41) = Starts(s, Bytes(x))[32]
    BY <1>10
  <2> QED
    BY <1>11, <2>1
<1>13. Spot(81) = X64Prologue
  <2>1. Starts(q, 0)[80 + 1] = 0 + Bytes(q) /\ Bytes(q) \in Nat
    BY <1>4
  <2>2. 80 + 1 = 81 /\ \A b \in Nat : 0 + b = b
    OBVIOUS
  <2>3. Spot(81) = Starts(q, 0)[81] /\ X64Prologue = Bytes(q)
    BY DEF Spot, X64Prologue, q
  <2> QED
    BY <2>1, <2>2, <2>3
<1>14. \A t : Placed(t, q, 0) => \A k \in 1 .. 80 : t[Spot(k)] = OpAt(k)
  BY <1>4 DEF Spot, OpAt, q
<1> QED
  BY <1>5, <1>6, <1>9, <1>12, <1>13, <1>14 DEF X64StubAt, x, q

\* What is behind the program, and where.
LEMMA GuardOps ==
  ASSUME IsX64, GuardAt \in Nat
  PROVE  LET q == emit_vm_exit_syscall_guard
         IN  /\ q \in Long(4)
             /\ Does(q[1], "imm", "rbp", "rax", Num(0), 0)
             /\ Does(q[2], "push", "rax", "rbp", Junk, 0)
             /\ Does(q[3], "imm", "rbp", "rax", Code(StubAt), 0)
             /\ Does(q[4], "call", "rax", "rbp", Junk, 0)
             /\ GuardSpot(1) = GuardAt
             /\ \A k \in 1 .. 4 : GuardSpot(k) \in Nat
             /\ \A k \in 1 .. 3 : GuardSpot(k + 1) = GuardSpot(k) + q[k].len
             /\ \A t : Placed(t, q, GuardAt) => \A k \in 1 .. 4 : t[GuardSpot(k)] = q[k]
<1> DEFINE a == emit_mov_reg_imm("rbp", Num(0))
           b == emit_push_reg("rbp")
           c == emit_call_imm64(Code(StubAt))
           x == a \o b
           q == emit_vm_exit_syscall_guard
<1>1. a \in Long(1) /\ Does(a[1], "imm", "rbp", "rax", Num(0), 0)
  BY HostOps
<1>2. b \in Long(1) /\ Does(b[1], "push", "rax", "rbp", Junk, 0)
  BY Names, SingleOps
<1>3. /\ c \in Long(2) /\ Does(c[1], "imm", "rbp", "rax", Code(StubAt), 0)
      /\ Does(c[2], "call", "rax", "rbp", Junk, 0)
  <2>1. Code(StubAt) \in Operand /\ MovVal(Code(StubAt)) = Code(StubAt)
    BY LayoutAssumption, CodeOperand, HostMoves
  <2> QED
    BY <2>1, PairOps
<1>4. q = x \o c
  BY DEF emit_vm_exit_syscall_guard
<1> HIDE DEF a, b, c
<1>5. x \in Long(2) /\ x[1] = a[1] /\ x[2] = b[1]
  BY <1>1, <1>2, CatTwo
<1> HIDE DEF x, q
<1>6. /\ q \in Long(4)
      /\ \A j \in 1 .. 2 : q[j] = x[j]
      /\ \A j \in 1 .. 2 : q[2 + j] = c[j]
  <2>1. Joins(2, 2, 4)
    BY CatJoins
  <2> QED
    BY <1>3, <1>4, <1>5, <2>1 DEF Joins
<1>7. q[1] = a[1] /\ q[2] = b[1] /\ q[3] = c[1] /\ q[4] = c[2]
  BY <1>5, <1>6
<1>9. /\ Starts(q, GuardAt) \in [1 .. 4 + 1 -> Nat] /\ Starts(q, GuardAt)[1] = GuardAt
      /\ \A k \in 1 .. 4 : Starts(q, GuardAt)[k + 1] = Starts(q, GuardAt)[k] + q[k].len
      /\ \A t : Placed(t, q, GuardAt) => \A k \in 1 .. 4 : t[Starts(q, GuardAt)[k]] = q[k]
  <2>1. Runs(4)
    BY LongStarts
  <2> QED
    BY <1>6, <2>1 DEF Runs
<1>10. /\ GuardSpot(1) = GuardAt /\ \A k \in 1 .. 4 : GuardSpot(k) \in Nat
       /\ \A k \in 1 .. 3 : GuardSpot(k + 1) = GuardSpot(k) + q[k].len
  BY <1>9 DEF GuardSpot, q
<1>11. \A t : Placed(t, q, GuardAt) => \A k \in 1 .. 4 : t[GuardSpot(k)] = q[k]
  BY <1>9 DEF GuardSpot, q
<1> QED
  BY <1>1, <1>2, <1>3, <1>6, <1>7, <1>10, <1>11 DEF q
-----------------------------------------------------------------------------
\* When the processor runs.
Ripe == IsX64 /\ CodeInv /\ Laid /\ phase = "done" /\ Seen

\* What a step leads to.
Settles == \/ Lost'
           \/ Live' /\ Fits(ip', ar', ram', fl')
           \/ obs'.status = "exited" /\ HostBack(ar')

\* What the processor finds then.
LEMMA RipeText ==
  ASSUME Ripe
  PROVE  /\ \A k \in 1 .. 80 : text[Spot(k)] = OpAt(k)
         /\ \A k \in 1 .. 4 : text[GuardSpot(k)] = emit_vm_exit_syscall_guard[k]
         /\ GuardAt \in Nat /\ StubAt = Spot(10) /\ Prologue = Spot(81)
         /\ End = GuardAt
<1>1. /\ StubAt = Spot(10) /\ Prologue = Spot(81) /\ Boot = X64Boot
      /\ \A t : Placed(t, X64Boot, 0) => \A k \in 1 .. 80 : t[Spot(k)] = OpAt(k)
  BY Spots DEF Ripe, IsX64
<1>2. End = GuardAt /\ GuardAt = arch - Guard
  BY DEF Ripe, End, GuardAt
<1>3. GuardAt \in Nat
  <2>1. Prologue <= End
    BY DEF Ripe, CodeInv, Disjoint
  <2>2. arch \in Nat /\ Guard \in Nat /\ Prologue \in Nat
    BY LayoutAssumption DEF Ripe, CodeInv, JitInv, JitTypeOK
  <2> QED
    BY <1>2, <2>1, <2>2
<1>4. /\ Placed(text, Boot, 0)
      /\ Placed(text, GuardCode(arch - Guard), arch - Guard)
  BY DEF Ripe, CodeInv, TextInv
<1>5. GuardCode(GuardAt) = emit_vm_exit_syscall_guard
  BY <1>3 DEF Ripe, IsX64
<1>6. Placed(text, emit_vm_exit_syscall_guard, GuardAt)
  BY <1>2, <1>4, <1>5
<1>7. \A t : Placed(t, emit_vm_exit_syscall_guard, GuardAt) =>
               \A k \in 1 .. 4 : t[GuardSpot(k)] = emit_vm_exit_syscall_guard[k]
  BY <1>3, GuardOps DEF Ripe
<1> QED
  BY <1>1, <1>2, <1>3, <1>4, <1>6, <1>7

\* The instruction at a place around the program, and where the next one is.
LEMMA Here ==
  ASSUME Ripe, NEW k \in 1 .. 80, ip = Spot(k)
  PROVE  I = OpAt(k) /\ ip + I.len = Spot(k + 1)
BY RipeText, Spots DEF I

\* The code of an instruction of the program, and what the slots reserved for it have left.
LEMMA BlockText ==
  ASSUME Ripe, NEW a \in Body
  PROVE  LET i == prog.code[a]
             b == block[a]
         IN  /\ i \in Instr /\ b.at \in Nat /\ b.to \in Nat \cup {Unmapped}
             /\ b.len \in Nat /\ Size(i) = Count(i)
             /\ Placed(text, X64Emit(i, b.at, b.to), b.at)
             /\ \A z \in b.at + Count(i) .. b.at + b.len - 1 : text[z] = Op
             /\ Count(i) \in 1 .. 13 /\ Count(i) <= b.len
             /\ i.op \in BranchOp => b.to \in Entries /\ b.to \in Nat
<1> DEFINE i == prog.code[a]
           b == block[a]
<1>1. /\ DOMAIN block = Body /\ prog \in Programs /\ a \in DOMAIN prog.code
      /\ \A c \in DOMAIN va2aa : va2aa[c] \in Nat
  BY JitInvLinked DEF Ripe, CodeInv, JitInv, JitTypeOK, Linked, Body
<1>2. b \in [at : Nat, len : Nat, to : Nat \cup {Unmapped}]
  BY <1>1 DEF Ripe, CodeInv, JitInv, JitTypeOK
<1>3. i \in Instr
  BY <1>1, ProgramStep
<1>4. i.op \in BranchOp => b.to \in Entries /\ b.to \in Nat
  <2> SUFFICES ASSUME i.op \in BranchOp PROVE b.to \in Entries /\ b.to \in Nat
    OBVIOUS
  <2>1. a \in Transfer
    BY DEF Transfer
  <2>2. i.tgt \in DOMAIN va2aa /\ b.to = va2aa[i.tgt]
    BY <2>1, JitInvLinked DEF Ripe, CodeInv, Linked
  <2> HIDE DEF i, b
  <2> QED
    BY <1>1, <2>2 DEF Entries
<1>5. CodeIn(text, i, b)
  BY <1>1 DEF Ripe, CodeInv, TextInv
<1>6. Size(i) <= b.len
  BY <1>1 DEF Ripe, CodeInv, JitInv, EndToEnd
<1> HIDE DEF i, b
<1>7. b.at \in Nat /\ b.len \in Nat /\ b.to \in Nat \cup {Unmapped}
  BY <1>2
<1>8. Size(i) = X64Size(i) /\ Emit(i, b.at, b.to) = X64Emit(i, b.at, b.to) /\ Nop = Op
  BY <1>3, <1>7 DEF Ripe, IsX64
<1>9. Size(i) = Count(i) /\ Count(i) \in 1 .. 13
  BY <1>3, <1>7, <1>8, EmitBytes, EmitCodes
<1>10. /\ Placed(text, X64Emit(i, b.at, b.to), b.at)
       /\ Nops(text, b.at + Count(i), b.at + b.len, b.at)
  <2>1. ~(i.op \in BranchOp /\ b.to = Unmapped)
    BY <1>4 DEF Unmapped
  <2> QED
    BY <1>5, <1>8, <1>9, <2>1 DEF CodeIn
<1>11. ASSUME NEW z \in b.at + Count(i) .. b.at + b.len - 1 PROVE text[z] = Op
  <2>1. Nop.len = 1
    BY <1>8 DEF Op
  <2>2. z - b.at \in Int
    BY <1>7, <1>9
  <2>3. (z - b.at) % 1 = 0
    BY <2>2
  <2>4. Aligned(z, b.at)
    BY <2>1, <2>3 DEF Aligned
  <2>5. \A y \in b.at + Count(i) .. (b.at + b.len) - 1 : Aligned(y, b.at) => text[y] = Nop
    BY <1>10 DEF Nops
  <2>6. (b.at + b.len) - 1 = b.at + b.len - 1
    BY <1>7
  <2> QED
    BY <1>8, <2>4, <2>5, <2>6
<1> QED
  BY <1>3, <1>4, <1>6, <1>7, <1>9, <1>10, <1>11 DEF i, b

\* The places where an instruction's code starts, or the guard's.
Heads == {va2aa[a] : a \in DOMAIN va2aa} \cup {GuardAt}

\* The program arrives there as it should.
LEMMA HeadFits ==
  ASSUME Ripe, NEW z \in Heads, NEW A, NEW M, NEW f, Shape(A, M), Ready(A, M, Entries)
  PROVE  Fits(z, A, M, f)
<1>1. CASE z = GuardAt
  <2>1. GuardSpot(1) = z /\ Guarding(1, A, M)
    BY <1>1, RipeText, GuardOps DEF Ripe, Guarding
  <2> QED
    BY <2>1, 1 \in 1 .. 4 DEF Fits
<1>2. ASSUME NEW a \in DOMAIN va2aa, z = va2aa[a] PROVE Fits(z, A, M, f)
  <2>1. CASE a = SYS_ENTER_ADDR
    <3>1. z = Spot(10)
      BY <1>2, <2>1, RipeText DEF Ripe, Laid
    <3>2. InStub(10, A, M)
      BY DEF InStub
    <3>3. Around(z, A, M, f)
      BY <3>1, <3>2, 10 \in 1 .. 80 DEF Around
    <3> QED
      BY <3>3 DEF Fits
  <2>2. CASE a # SYS_ENTER_ADDR
    <3>1. DOMAIN block = Body /\ DOMAIN va2aa \subseteq DOMAIN prog.code
      BY JitInvLinked DEF Ripe, CodeInv, JitInv, JitTypeOK, Linked
    <3>2. a \in Body /\ block[a].at = z
      BY <1>2, <2>2, <3>1 DEF Body, Ripe, CodeInv, JitInv, EndToEnd
    <3> QED
      BY <3>2 DEF Fits, InBlock
  <2> QED
    BY <2>1, <2>2
<1> QED
  BY <1>1, <1>2 DEF Heads

\* The end of a block is such a place, and so is that of the code before the program.
LEMMA NextPlace ==
  ASSUME Ripe
  PROVE  /\ \A a \in Body : block[a].at + block[a].len \in Heads
         /\ Prologue \in Heads
         /\ StubAt \in Heads
         /\ Heads \subseteq Entries
<1>1. /\ DOMAIN block = Body /\ prog \in Programs /\ vm = prog.size
      /\ DOMAIN va2aa = {c \in DOMAIN prog.code : c < vm}
  BY JitInvLinked DEF Ripe, CodeInv, JitInv, JitTypeOK, Linked, PassOrder, Progress
<1>2. \A a \in Body : a \in DOMAIN va2aa
  BY <1>1, ProgramStep DEF Body
<1>3. ASSUME NEW a \in Body PROVE block[a].at + block[a].len \in Heads
  <2> DEFINE b == a + InstrLen(prog.code[a])
  <2>1. IF b \in DOMAIN block THEN block[b].at = block[a].at + block[a].len
                              ELSE block[a].at + block[a].len = GuardAt
    BY <1>1 DEF Ripe, CodeInv, JitInv, EndToEnd, GuardAt
  <2> HIDE DEF b
  <2>2. CASE b \in DOMAIN block
    <3>1. block[b].at = va2aa[b] /\ b \in DOMAIN va2aa
      BY <1>1, <1>2, <2>2 DEF Ripe, CodeInv, JitInv, EndToEnd
    <3> QED
      BY <2>1, <2>2, <3>1 DEF Heads
  <2> QED
    BY <2>1, <2>2 DEF Heads
<1>4. Prologue \in Heads
  <2>1. CASE FirstAddr \in DOMAIN block
    <3>1. block[FirstAddr].at = Prologue /\ block[FirstAddr].at = va2aa[FirstAddr]
      BY <2>1 DEF Ripe, Laid, CodeInv, JitInv, EndToEnd
    <3> QED
      BY <1>1, <1>2, <2>1, <3>1 DEF Heads
  <2>2. CASE FirstAddr \notin DOMAIN block
    <3>1. End = Prologue
      BY <2>2 DEF Ripe, Laid
    <3> QED
      BY <3>1, RipeText DEF Heads
  <2> QED
    BY <2>1, <2>2
<1>5. StubAt \in Heads
  <2>1. SYS_ENTER_ADDR \in DOMAIN prog.code /\ SYS_ENTER_ADDR < vm
    BY <1>1, FirstStep DEF SYS_ENTER_ADDR, Ripe, CodeInv, JitInv, Progress
  <2>2. va2aa[SYS_ENTER_ADDR] = StubAt
    BY DEF Ripe, Laid
  <2> QED
    BY <1>1, <2>1, <2>2 DEF Heads
<1>6. Heads \subseteq Entries
  BY DEF Heads, Entries
<1> QED
  BY <1>3, <1>4, <1>5, <1>6

\* So is what lies behind the code of an instruction, if not a nop of its slots.
LEMMA TailFits ==
  ASSUME Ripe, NEW a \in Body, NEW z \in Int,
         block[a].at + Count(prog.code[a]) <= z, z <= block[a].at + block[a].len,
         NEW A, NEW M, NEW f, Shape(A, M), Ready(A, M, Entries)
  PROVE  Fits(z, A, M, f)
<1> DEFINE c == Count(prog.code[a])
           at == block[a].at
           len == block[a].len
<1>1. at \in Nat /\ len \in Nat /\ c \in Nat
  BY BlockText
<1>2. CASE z = at + len
  BY <1>2, NextPlace, HeadFits
<1>3. CASE z # at + len
  <2>1. z \in at + c .. at + len - 1
    BY <1>1, <1>3
  <2> QED
    BY <2>1 DEF Fits, InBlock
<1> QED
  BY <1>2, <1>3

\* Wherever a program may have itself sent, it arrives as it should.
LEMMA Lands ==
  ASSUME Ripe, NEW z \in Entries, NEW A, NEW M, NEW f, Shape(A, M), Ready(A, M, Entries)
  PROVE  Fits(z, A, M, f)
<1>1. CASE z \in Heads
  BY <1>1, HeadFits
<1>2. ASSUME NEW a \in Calling, z = Behind(a) PROVE Fits(z, A, M, f)
  <2>1. a \in Body
    BY DEF Calling
  <2>2. z = block[a].at + Count(prog.code[a])
    BY <1>2, <2>1, BlockText DEF Behind
  <2>3. z \in Int /\ z <= block[a].at + block[a].len
    BY <2>1, <2>2, BlockText
  <2> QED
    BY <2>1, <2>2, <2>3, TailFits
<1> QED
  BY <1>1, <1>2 DEF Entries, Heads

\* A step to such a place is one that the program goes on from,
LEMMA Arrives ==
  ASSUME Ripe, NEW z \in Entries, On(z), Shape(ar', ram'), Ready(ar', ram', Entries)
  PROVE  Settles
<1>1. Fits(z, ar', ram', fl')
  BY Lands
<1> QED
  BY <1>1 DEF Settles, On

\* and so is one to the next native instruction around it that finds what it needs.
LEMMA Advances ==
  ASSUME NEW k \in 1 .. 80, On(Spot(k)), Shape(ar', ram'),
         \/ Entering(k, ar', ram') \/ Clearing(k, ar', ram') \/ InStub(k, ar', ram')
         \/ Leaving(k, ar', ram') \/ Exiting(k, ar', ram', fl')
  PROVE  Settles
<1>1. Around(Spot(k), ar', ram', fl')
  BY DEF Around
<1> QED
  BY <1>1 DEF Settles, On, Fits
-----------------------------------------------------------------------------
\* The steps of the processor around the program.

\* The values that the host's registers had are tame.
LEMMA EntryTame == \A r, E : Tame(Entry(r), E)
BY TameResult DEF Entry

\* A step of the entry sequence from the host.
LEMMA FromEntering ==
  ASSUME Ripe, Run, Shape(ar, ram), NEW k \in 1 .. 8, ip = Spot(k), Entering(k, ar, ram)
  PROVE  Settles
<1>1. I = OpAt(k) /\ ip + I.len = Spot(k + 1) /\ Seen /\ k \in 1 .. 80
  BY Here DEF Ripe
<1>2. CASE k \in 1 .. 6
  <2>1. Does(I, "push", "rax", Saved[k], Junk, 0)
    BY <1>1, <1>2, SpotOps
  <2>2. CASE Lost'
    BY <2>2 DEF Settles
  <2>3. CASE ~Lost'
    <3>1. ar["rsp"] = Slot(k - 1) /\ At(Slot(k - 1), -8) = Slot(k)
      <4>1. k - 1 \in 0 .. 5 /\ (k - 1) + 1 = k
        BY <1>2
      <4>2. At(Slot(k - 1), -8) = Slot((k - 1) + 1)
        BY <4>1, Slots64
      <4> QED
        BY <1>2, <4>1, <4>2 DEF Entering, Down
    <3>2. ar[Saved[k]] = Entry(Saved[k])
      BY <1>2, Registers64 DEF Entering
    <3>3. /\ On(Spot(k + 1)) /\ Slot(k) \in DOMAIN ram
          /\ ar' = [ar EXCEPT !["rsp"] = Slot(k)]
          /\ ram' = [ram EXCEPT ![Slot(k)] = Entry(Saved[k])]
      BY <1>1, <2>1, <2>3, <3>1, <3>2, PushStep DEF Does
    <3>4. /\ DOMAIN ar' = ArchReg /\ ar'["rsp"] = Slot(k)
          /\ \A r \in RegName \ {"rsp"} : ar'[r] = ar[r]
      BY <3>3, Registers64 DEF Shape
    <3>5. /\ DOMAIN ram' = DOMAIN ram /\ ram'[Slot(k)] = Entry(Saved[k])
          /\ \A l \in DOMAIN ram \ {Slot(k)} : ram'[l] = ram[l]
      BY <3>3
    <3>6. Shape(ar', ram')
      BY <3>4, <3>5 DEF Shape
    <3>7. TameRam(ram', Entries)
      BY <1>2, <3>5, MemoryParts DEF TameRam, Entering, Shape
    <3>8. Down(k) = k - 1 /\ Down(k + 1) = k /\ k + 1 \in 1 .. 8
      BY <1>2 DEF Down
    <3>9. Backs(ram', k)
      <4>1. \A n \in 0 .. 6 : n < k => ram'[Slot(n)] = ram[Slot(n)]
        BY <1>2, <3>5, Slots64 DEF Shape
      <4> QED
        BY <1>2, <3>5, <3>8, <4>1 DEF Backs, Entering
    <3>10. Entering(k + 1, ar', ram')
      BY <1>2, <3>4, <3>7, <3>8, <3>9 DEF Entering, RegName
    <3> QED
      BY <1>2, <3>3, <3>6, <3>10, Advances
  <2> QED
    BY <2>2, <2>3
<1>3. CASE k = 7
  <2>1. Does(I, "imm", "rbp", "rax", host_sp, 0)
    BY <1>1, <1>3, SpotOps
  <2>2. On(Spot(k + 1)) /\ UNCHANGED ram /\ ar' = [ar EXCEPT !["rbp"] = host_sp]
    BY <1>1, <2>1, ImmStep DEF Does
  <2>3. /\ DOMAIN ar' = ArchReg /\ ar'["rbp"] = host_sp
        /\ \A r \in RegName \ {"rbp"} : ar'[r] = ar[r]
    BY <2>2, Registers64 DEF Shape
  <2>4. Shape(ar', ram')
    BY <2>2, <2>3 DEF Shape
  <2>5. Down(k) = 6 /\ Down(k + 1) = 6 /\ k + 1 = 8 /\ "rsp" \in RegName \ {"rbp"}
    BY <1>3 DEF Down, RegName
  <2>6. Entering(k + 1, ar', ram')
    BY <1>3, <2>2, <2>3, <2>5 DEF Entering
  <2> QED
    BY <1>3, <2>2, <2>4, <2>6, Advances
<1>4. CASE k = 8
  <2>1. Does(I, "store", "rbp", "rsp", Junk, 0)
    BY <1>1, <1>4, SpotOps
  <2>2. CASE Lost'
    BY <2>2 DEF Settles
  <2>3. CASE ~Lost'
    <3>1. ar["rbp"] = host_sp /\ At(host_sp, 0) = host_sp
      BY <1>4 DEF Entering, At, host_sp
    <3>2. ar["rsp"] = Slot(6) /\ Backs(ram, 6)
      BY <1>4 DEF Entering, Down
    <3>3. /\ On(Spot(k + 1)) /\ UNCHANGED ar
          /\ host_sp \in DOMAIN ram /\ ram' = [ram EXCEPT ![host_sp] = Slot(6)]
      BY <1>1, <2>1, <2>3, <3>1, <3>2, StoreStep DEF Does
    <3>4. /\ DOMAIN ram' = DOMAIN ram /\ ram'[host_sp] = Slot(6)
          /\ \A l \in DOMAIN ram \ {host_sp} : ram'[l] = ram[l]
      BY <3>3
    <3>5. Shape(ar', ram')
      BY <3>3, <3>4 DEF Shape
    <3>6. TameRam(ram', Entries)
      BY <1>4, <3>4, MemoryParts DEF TameRam, Entering, Shape
    <3>7. Backs(ram', 6)
      <4>1. \A n \in 0 .. 6 : ram'[Slot(n)] = ram[Slot(n)]
        BY <3>4, Slots64, MemoryParts DEF Shape
      <4> QED
        BY <3>2, <4>1 DEF Backs
    <3>8. \A r \in Own \ {"rsp"} : Tame(ar'[r], Entries)
      BY <3>3, EntryTame DEF Entering, Own
    <3>9. Clearing(k + 1, ar', ram')
      BY <1>4, <3>4, <3>6, <3>7, <3>8 DEF Clearing, Kept
    <3> QED
      BY <1>4, <3>3, <3>5, <3>9, Advances
  <2> QED
    BY <2>2, <2>3
<1> QED
  BY <1>2, <1>3, <1>4

\* A step before the program: the jump over the stub, and what clears the registers.
LEMMA FromClearing ==
  ASSUME Ripe, Run, Shape(ar, ram), NEW k \in 1 .. 80, ip = Spot(k), Clearing(k, ar, ram)
  PROVE  Settles
<1>1. I = OpAt(k) /\ ip + I.len = Spot(k + 1) /\ Seen
  BY Here DEF Ripe
<1>2. CASE k = 9
  <2>1. Does(I, "near", "rax", "rax", Junk, Bytes(emit_sys_enter_stub))
    BY <1>1, <1>2, SpotOps
  <2>2. On(Spot(67)) /\ UNCHANGED <<ar, ram>>
    <3>1. ip + I.len + I.d = Spot(67)
      BY <1>1, <1>2, <2>1, Spots DEF Does
    <3> QED
      BY <1>1, <2>1, <3>1, JumpStep DEF Does
  <2>3. Clearing(67, ar', ram') /\ Shape(ar', ram')
    BY <1>2, <2>2 DEF Clearing
  <2> QED
    BY <2>2, <2>3, 67 \in 1 .. 80, Advances
<1>3. CASE k \in 67 .. 79
  <2> DEFINE j == k - 66
             r == X64vr2ar[DumpOrder[j]]
  <2>1. Does(I, "imm", r, "rax", Num(0), 0)
    BY <1>1, <1>3, SpotOps
  <2>2. r \in Own \ {"rsp"}
    <3>1. j \in 1 .. 13
      BY <1>3
    <3>2. \A x \in 1 .. 13 : X64vr2ar[DumpOrder[x]] \in Own \ {"rsp"}
      BY DEF DumpOrder, X64vr2ar, Own, RegName
    <3> QED
      BY <3>1, <3>2
  <2> HIDE DEF r
  <2>3. On(Spot(k + 1)) /\ UNCHANGED ram /\ ar' = [ar EXCEPT ![r] = Num(0)]
    BY <1>1, <2>1, ImmStep DEF Does
  <2>4. /\ DOMAIN ar' = ArchReg
        /\ \A s \in RegName : ar'[s] = IF s = r THEN Num(0) ELSE ar[s]
    BY <2>2, <2>3, Registers64 DEF Shape
  <2>5. Shape(ar', ram')
    BY <2>3, <2>4 DEF Shape
  <2>6. \A s \in Own \ {"rsp"} : Tame(ar'[s], Entries)
    BY <2>4, TameResult, Registers64 DEF Clearing
  <2>7. k + 1 \in 67 .. 80 /\ k + 1 \in 1 .. 80
    BY <1>3
  <2>8. Clearing(k + 1, ar', ram')
    BY <2>3, <2>6, <2>7 DEF Clearing
  <2> QED
    BY <2>3, <2>5, <2>7, <2>8, Advances
<1>4. CASE k = 80
  <2>1. Does(I, "imm", "rsp", "rax", Stk(0), 0)
    BY <1>1, <1>4, SpotOps
  <2>2. On(Spot(k + 1)) /\ UNCHANGED ram /\ ar' = [ar EXCEPT !["rsp"] = Stk(0)]
    BY <1>1, <2>1, ImmStep DEF Does
  <2>3. /\ DOMAIN ar' = ArchReg
        /\ \A s \in RegName : ar'[s] = IF s = "rsp" THEN Stk(0) ELSE ar[s]
    BY <2>2, Registers64 DEF Shape
  <2>4. Shape(ar', ram')
    BY <2>2, <2>3 DEF Shape
  <2>5. \A s \in Own : Tame(ar'[s], Entries)
    BY <2>3, TameResult, Registers64 DEF Clearing
  <2>6. Ready(ar', ram', Entries)
    BY <2>2, <2>5 DEF Clearing, Ready
  <2>7. Spot(k + 1) = Prologue /\ Prologue \in Entries
    BY <1>4, RipeText, NextPlace
  <2> QED
    BY <2>2, <2>4, <2>6, <2>7, Arrives
<1> QED
  BY <1>2, <1>3, <1>4 DEF Clearing

\* What the program's stack is made of.
LEMMA StackIs ==
  /\ \A l \in Stack : \E k \in 1 .. StackDepth :
        -8 * k \in -StackSpan .. StackSpan /\ l = [tag |-> "stk", val |-> -8 * k]
  /\ \A k \in 1 .. StackDepth :
        -8 * k \in -StackSpan .. StackSpan => [tag |-> "stk", val |-> -8 * k] \in Stack
<1>1. ASSUME NEW l \in Stack
      PROVE  \E k \in 1 .. StackDepth :
               -8 * k \in -StackSpan .. StackSpan /\ l = [tag |-> "stk", val |-> -8 * k]
  <2>1. l.tag = "stk" /\ l \in Loc
    BY DEF Stack
  <2>2. l \notin {Num(a) : a \in HeapAddrs}
    BY <2>1 DEF Num
  <2>3. PICK k \in 1 .. StackDepth : l = Stk(-8 * k)
    BY <2>1, <2>2 DEF Loc
  <2> QED
    BY <2>1, <2>3 DEF Stk, Junk
<1>2. ASSUME NEW k \in 1 .. StackDepth, -8 * k \in -StackSpan .. StackSpan
      PROVE  [tag |-> "stk", val |-> -8 * k] \in Stack
  <2>1. Stk(-8 * k) = [tag |-> "stk", val |-> -8 * k]
    BY <1>2 DEF Stk
  <2> QED
    BY <2>1 DEF Stack, Loc
<1> QED
  BY <1>1, <1>2

\* A slot lies where the one below it says, and so does one between two others.
LEMMA AtBack ==
  /\ \A v \in Stack : At(v, -8) \in Stack => At(At(v, -8), 8) = v /\ At(v, -8) # v
  /\ \A v, E : Tame(v, E) /\ At(v, -8) \in Stack /\ At(v, 16) \in Stack => v \in Stack
<1>1. \A o : o \in -StackSpan .. StackSpan => Stk(o) = [tag |-> "stk", val |-> o]
  BY DEF Stk
<1>2. \A o : Stk(o).tag = "stk" => o \in -StackSpan .. StackSpan
  BY DEF Stk, Junk
<1>3. \A v, d : v.tag = "stk" => At(v, d) = Stk(v.val + d)
  BY DEF At, Offset
<1>4. ASSUME NEW v \in Stack, At(v, -8) \in Stack
      PROVE  At(At(v, -8), 8) = v /\ At(v, -8) # v
  <2>1. PICK k \in 1 .. StackDepth :
          -8 * k \in -StackSpan .. StackSpan /\ v = [tag |-> "stk", val |-> -8 * k]
    BY StackIs
  <2>2. -8 * k \in Int /\ StackSpan \in Int
    BY StackAssumption
  <2>3. At(v, -8) = Stk(-8 * k + -8)
    BY <1>3, <2>1
  <2>4. At(v, -8).tag = "stk"
    BY <1>4 DEF Stack
  <2>5. At(v, -8) = [tag |-> "stk", val |-> -8 * k + -8]
    BY <1>1, <1>2, <2>3, <2>4
  <2>6. At(At(v, -8), 8) = Stk((-8 * k + -8) + 8)
    BY <1>3, <2>5
  <2>7. (-8 * k + -8) + 8 = -8 * k /\ -8 * k + -8 # -8 * k
    BY <2>2
  <2> QED
    BY <1>1, <2>1, <2>5, <2>6, <2>7
<1>5. ASSUME NEW v, NEW E, Tame(v, E), At(v, -8) \in Stack, At(v, 16) \in Stack
      PROVE  v \in Stack
  <2>1. v.tag = "stk"
    <3>1. At(v, -8).tag = "stk" /\ At(v, -8) = Offset(v, -8)
      BY <1>5, TameAt DEF Stack
    <3> QED
      BY <3>1 DEF Offset, Num, Junk
  <2>2. v = [tag |-> "stk", val |-> v.val] /\ v.val \in Int
    BY <1>5, <2>1 DEF Tame
  <2> DEFINE o == v.val
  <2>3. At(v, -8) = Stk(o + -8) /\ At(v, 16) = Stk(o + 16)
    BY <1>3, <2>1
  <2>4. PICK a \in 1 .. StackDepth :
          -8 * a \in -StackSpan .. StackSpan /\ At(v, -8) = [tag |-> "stk", val |-> -8 * a]
    BY <1>5, StackIs
  <2>5. PICK b \in 1 .. StackDepth :
          -8 * b \in -StackSpan .. StackSpan /\ At(v, 16) = [tag |-> "stk", val |-> -8 * b]
    BY <1>5, StackIs
  <2>6. o + -8 \in -StackSpan .. StackSpan /\ o + 16 \in -StackSpan .. StackSpan
    BY <1>2, <2>3, <2>4, <2>5
  <2>7. o + -8 = -8 * a /\ o + 16 = -8 * b
    BY <1>1, <2>3, <2>4, <2>5, <2>6
  <2> HIDE DEF o
  <2>8. o = -8 * (b + 2) /\ o \in Int /\ a = b + 3
    BY <2>7, <2>2 DEF o
  <2>9. b + 2 \in 1 .. StackDepth
    BY <2>8, StackAssumption
  <2>10. -8 * (b + 2) \in -StackSpan .. StackSpan
    BY <2>6, <2>8, StackAssumption
  <2> QED
    BY <2>2, <2>8, <2>9, <2>10, StackIs DEF o
<1> QED
  BY <1>4, <1>5
-----------------------------------------------------------------------------
\* The steps of the stub: the comparison,
LEMMA FromCompare ==
  ASSUME Ripe, Run, Shape(ar, ram), NEW k \in 10 .. 13, ip = Spot(k), InStub(k, ar, ram)
  PROVE  Settles
<1>1. I = OpAt(k) /\ ip + I.len = Spot(k + 1) /\ Seen /\ k \in 1 .. 80
  BY Here DEF Ripe
<1>2. Ready(ar, ram, Entries)
  BY DEF InStub
<1>3. CASE k \in 10 .. 12
  <2>1. Quiet(I)
    <3>1. "r8" \in Own /\ "rsp" \in Own
      BY DEF Own, RegName
    <3>2. k = 10 => Does(I, "load", "r8", "rsp", Junk, 8)
      BY <1>1, StubSpotOps
    <3>3. k = 11 => Does(I, "imm", "rbp", "rax", Num(0), 0)
      BY <1>1, StubSpotOps
    <3>4. k = 12 => Does(I, "CMP", "r8", "rbp", Junk, 0)
      BY <1>1, StubSpotOps
    <3> QED
      BY <1>3, <3>1, <3>2, <3>3, <3>4 DEF Quiet, Does
  <2>2. CASE Lost'
    BY <2>2 DEF Settles
  <2>3. CASE ~Lost'
    <3>1. On(Spot(k + 1)) /\ Shape(ar', ram') /\ Ready(ar', ram', Entries)
      BY <1>1, <1>2, <2>1, <2>3, QuietStep
    <3>2. InStub(k + 1, ar', ram')
      BY <1>3, <3>1 DEF InStub
    <3> QED
      BY <1>3, <3>1, <3>2, Advances
  <2> QED
    BY <2>2, <2>3
<1>4. CASE k = 13
  <2>1. Does(I, "JMPEQ", "rax", "rax", Junk, Bytes(HostPath))
    BY <1>1, <1>4, StubSpotOps
  <2>2. ip + I.len + I.d = Spot(41)
    BY <1>1, <1>4, <2>1, Spots DEF Does
  <2>3. UNCHANGED <<ar, ram>> /\ (On(Spot(41)) \/ On(Spot(14)))
    BY <1>1, <1>4, <2>1, <2>2, JumpStep DEF Does, CondOp
  <2>4. Leaving(41, ar', ram') /\ InStub(14, ar', ram') /\ Shape(ar', ram')
    BY <1>2, <2>3 DEF Leaving, InStub, Ready
  <2> QED
    BY <2>3, <2>4, 14 \in 1 .. 80, 41 \in 1 .. 80, Advances
<1> QED
  BY <1>3, <1>4

\* the addresses that the stub loads,
LEMMA FromStubImm ==
  ASSUME Ripe, Run, Shape(ar, ram), NEW k \in {14, 24, 26, 28, 38}, ip = Spot(k),
         InStub(k, ar, ram)
  PROVE  Settles
<1> DEFINE v == IF k = 26 THEN sys_enter ELSE vm_sp
<1>1. I = OpAt(k) /\ ip + I.len = Spot(k + 1) /\ Seen
  BY Here DEF Ripe
<1>2. Does(I, "imm", "rbp", "rax", v, 0)
  BY <1>1, StubSpotOps
<1> HIDE DEF v
<1>3. On(Spot(k + 1)) /\ UNCHANGED ram /\ ar' = [ar EXCEPT !["rbp"] = v]
  BY <1>1, <1>2, ImmStep DEF Does
<1>4. Ready(ar, ram, Entries)
  BY DEF InStub
<1>5. Shape(ar', ram') /\ Ready(ar', ram', Entries)
  BY <1>3, <1>4, Registers64, ReadyRegister
<1>6. ar'["rbp"] = v /\ ar'["rdi"] = ar["rdi"]
  BY <1>3, Registers64 DEF Shape, RegName
<1>7. InStub(k + 1, ar', ram')
  BY <1>3, <1>5, <1>6 DEF InStub, v
<1> QED
  BY <1>3, <1>5, <1>7, Advances

\* the accesses to vm_sp,
LEMMA FromMember ==
  ASSUME Ripe, Run, Shape(ar, ram), NEW k \in {15, 25, 29, 39}, ip = Spot(k),
         InStub(k, ar, ram)
  PROVE  Settles
<1>1. I = OpAt(k) /\ ip + I.len = Spot(k + 1) /\ Seen
  BY Here DEF Ripe
<1>2. Ready(ar, ram, Entries) /\ ar["rbp"] = vm_sp /\ At(vm_sp, 0) = vm_sp
  BY DEF InStub, At, vm_sp
<1>3. vm_sp \in Within /\ vm_sp \in DOMAIN ram /\ Tame(ram[vm_sp], Entries)
  BY <1>2, MemoryParts DEF Within, Shape, Ready, TameRam
<1>4. CASE Lost'
  BY <1>4 DEF Settles
<1>5. ASSUME ~Lost', NEW r \in {"rsp", "rax"}, Does(I, "store", "rbp", r, Junk, 0)
      PROVE  /\ On(Spot(k + 1)) /\ UNCHANGED ar /\ ram'[vm_sp] = ar[r]
             /\ Shape(ar', ram') /\ Ready(ar', ram', Entries)
  <2>1. On(Spot(k + 1)) /\ UNCHANGED ar /\ ram' = [ram EXCEPT ![vm_sp] = ar[r]]
    BY <1>1, <1>2, <1>5, StoreStep DEF Does
  <2>2. Tame(ar[r], Entries)
    BY <1>2 DEF Ready, Own, RegName
  <2>3. Shape(ar, ram') /\ Ready(ar, ram', Entries)
    BY <1>2, <1>3, <2>1, <2>2, ReadyMemory
  <2> QED
    BY <1>3, <2>1, <2>3
<1>6. ASSUME ~Lost', NEW r \in {"rdi", "rsp"}, Does(I, "load", r, "rbp", Junk, 0)
      PROVE  /\ On(Spot(k + 1)) /\ UNCHANGED ram /\ ar'[r] = ram[vm_sp]
             /\ Shape(ar', ram') /\ Ready(ar', ram', Entries)
  <2>1. On(Spot(k + 1)) /\ UNCHANGED ram /\ ar' = [ar EXCEPT ![r] = ram[vm_sp]]
    BY <1>1, <1>2, <1>6, LoadStep DEF Does
  <2>2. r \in RegName /\ r \in DOMAIN ar
    BY Registers64 DEF RegName, Shape
  <2>3. Shape(ar', ram) /\ Ready(ar', ram, Entries)
    BY <1>2, <1>3, <2>1, <2>2, ReadyRegister
  <2> QED
    BY <2>1, <2>2, <2>3
<1>7. CASE ~Lost' /\ k = 15
  <2>1. Does(I, "store", "rbp", "rsp", Junk, 0)
    BY <1>1, <1>7, StubSpotOps
  <2>2. InStub(16, ar', ram')
    BY <1>5, <1>7, <2>1 DEF InStub
  <2> QED
    BY <1>5, <1>7, <2>1, <2>2, 16 \in 1 .. 80, Advances
<1>8. CASE ~Lost' /\ k = 25
  <2>1. Does(I, "load", "rdi", "rbp", Junk, 0)
    BY <1>1, <1>8, StubSpotOps
  <2>2. InStub(26, ar', ram')
    BY <1>6, <1>8, <2>1 DEF InStub
  <2> QED
    BY <1>6, <1>8, <2>1, <2>2, 26 \in 1 .. 80, Advances
<1>9. CASE ~Lost' /\ k = 29
  <2>1. Does(I, "store", "rbp", "rax", Junk, 0)
    BY <1>1, <1>9, StubSpotOps
  <2>2. InStub(30, ar', ram')
    BY <1>5, <1>9, <2>1 DEF InStub
  <2> QED
    BY <1>5, <1>9, <2>1, <2>2, 30 \in 1 .. 80, Advances
<1>10. CASE ~Lost' /\ k = 39
  <2>1. Does(I, "load", "rsp", "rbp", Junk, 0)
    BY <1>1, <1>10, StubSpotOps
  <2>2. InStub(40, ar', ram')
    BY <1>6, <1>10, <2>1 DEF InStub
  <2> QED
    BY <1>6, <1>10, <2>1, <2>2, 40 \in 1 .. 80, Advances
<1> QED
  BY <1>4, <1>7, <1>8, <1>9, <1>10

\* what it saves of the program's registers,
LEMMA FromStubPush ==
  ASSUME Ripe, Run, Shape(ar, ram), NEW k \in 16 .. 23, ip = Spot(k), InStub(k, ar, ram)
  PROVE  Settles
<1> DEFINE r == Volatile[k - 15]
           l == At(ar["rsp"], -8)
<1>1. I = OpAt(k) /\ ip + I.len = Spot(k + 1) /\ Seen
  BY Here DEF Ripe
<1>2. Does(I, "push", "rax", r, Junk, 0)
  BY <1>1, StubSpotOps
<1>3. r \in Own
  <2>1. \A x \in 1 .. 8 : Volatile[x] \in Own
    BY DEF Volatile, Own, RegName
  <2> QED
    BY <2>1
<1> HIDE DEF r
<1>4. Ready(ar, ram, Entries) /\ Tame(ar[r], Entries)
  BY <1>3 DEF InStub, Ready
<1>5. CASE Lost'
  BY <1>5 DEF Settles
<1>6. CASE ~Lost'
  <2>1. /\ On(Spot(k + 1)) /\ l \in DOMAIN ram
        /\ ar' = [ar EXCEPT !["rsp"] = l] /\ ram' = [ram EXCEPT ![l] = ar[r]]
    BY <1>1, <1>2, <1>6, PushStep DEF Does
  <2>2. Shape(ar', ram') /\ Ready(ar', ram', Entries) /\ l \in Stack
    BY <1>4, <2>1, ReadyPush
  <2>3. At(ram[vm_sp], -8) \in DOMAIN ram
    BY <2>1 DEF InStub
  <2>4. ram'[vm_sp] = ram[vm_sp] /\ DOMAIN ram' = DOMAIN ram
    BY <2>1, <2>2, MemoryParts DEF Shape, Within
  <2>5. InStub(k + 1, ar', ram')
    BY <2>2, <2>3, <2>4 DEF InStub
  <2> QED
    BY <2>1, <2>2, <2>5, Advances
<1> QED
  BY <1>5, <1>6

\* and restores,
LEMMA FromStubPop ==
  ASSUME Ripe, Run, Shape(ar, ram), NEW k \in 30 .. 37, ip = Spot(k), InStub(k, ar, ram)
  PROVE  Settles
<1> DEFINE r == Unspilled[k - 29]
<1>1. I = OpAt(k) /\ ip + I.len = Spot(k + 1) /\ Seen
  BY Here DEF Ripe
<1>2. Does(I, "pop", r, "rax", Junk, 0)
  BY <1>1, StubSpotOps
<1>3. r \in Own
  <2>1. \A x \in 1 .. 8 : Unspilled[x] \in Own
    BY DEF Unspilled, Own, RegName
  <2> QED
    BY <2>1
<1> HIDE DEF r
<1>4. Ready(ar, ram, Entries) /\ Quiet(I)
  BY <1>2, <1>3 DEF InStub, Quiet, Does
<1>5. Lost' \/ (On(Spot(k + 1)) /\ Shape(ar', ram') /\ Ready(ar', ram', Entries))
  BY <1>1, <1>4, QuietStep
<1>6. Ready(ar', ram', Entries) => InStub(k + 1, ar', ram')
  BY DEF InStub
<1> QED
  BY <1>5, <1>6, Advances DEF Settles

\* the host's code, which finds the frame where the program had the top of its stack,
LEMMA FromStubCall ==
  ASSUME Ripe, Run, Shape(ar, ram), ip = Spot(27), InStub(27, ar, ram)
  PROVE  Settles
<1>1. I = OpAt(27) /\ ip + I.len = Spot(28) /\ Seen
  BY Here, 27 \in 1 .. 80 DEF Ripe
<1>2. Does(I, "call", "rax", "rbp", Junk, 0)
  BY <1>1, StubSpotOps
<1>3. /\ Ready(ar, ram, Entries) /\ ar["rbp"] = sys_enter
      /\ ar["rdi"] = ram[vm_sp] /\ At(ram[vm_sp], -8) \in DOMAIN ram
  BY DEF InStub
<1>4. CASE host_abort
  BY <1>1, <1>4, Acts, Going DEF host_abort, Live, Settles
<1>5. ASSUME NEW id, host_sys_enter(id) PROVE Settles
  <2>1. CASE Stray
    BY <1>1, <2>1, Acts, Going DEF Live, Settles
  <2>2. CASE ~Stray
    <3> DEFINE s == ar["rdi"]
               N == Moved(s)
               p == Parameter(s)
               sp == ar["rsp"]
    <3>1. /\ p \in DOMAIN ram /\ ram' = ForgetBelow(N, sp)
          /\ ar' = [r \in ArchReg |-> IF r = "rax" THEN p
                                      ELSE IF r \in CallerSaved THEN Junk ELSE ar[r]]
          /\ Fall
      BY <1>5, <2>2 DEF host_sys_enter, InRoom, Frame
    <3>2. On(Spot(28))
      BY <1>1, <3>1, Acts, Going DEF Live
    <3>3. Tame(s, Entries) /\ Tame(sp, Entries) /\ "rdi" \in Own
      BY <1>3, Registers64 DEF Ready, Own, RegName
    <3>4. p = At(s, 16) /\ p \in Stack /\ Tame(p, Entries)
      BY <1>3, <3>1, <3>3, AccessTame DEF Parameter
    <3>5. At(s, -8) \in Stack
      BY <1>3, <3>3, AccessTame
    <3>6. s \in Stack /\ Tame(ram[s], Entries)
      <4>1. s \in Stack
        BY <3>3, <3>4, <3>5, AtBack
      <4> QED
        BY <1>3, <4>1 DEF Ready, TameRam, Within
    <3>7. N = [ram EXCEPT ![p] = ram[s]]
      BY DEF Moved
    <3> HIDE DEF N, p, s, sp
    <3>8. Shape(ar, N) /\ Ready(ar, N, Entries)
      BY <1>3, <3>4, <3>6, <3>7, ReadyMemory DEF Within
    <3>9. /\ DOMAIN ram' = DOMAIN N
          /\ \A l \in DOMAIN N : ram'[l] = N[l] \/ ram'[l] = Junk
          /\ \A l \in DOMAIN N : l.tag \in {"hst", "member"} => ram'[l] = N[l]
      <4>1. sp.tag # "hst"
        BY <3>3 DEF Tame
      <4> QED
        BY <3>1, <4>1 DEF ForgetBelow
    <3>10. Kept(ram')
      <4>1. /\ host_sp \in DOMAIN N /\ host_sp.tag = "member"
            /\ \A n \in 0 .. 6 : Slot(n) \in DOMAIN N /\ Slot(n).tag = "hst"
        BY <3>8, Slots64, MemoryParts DEF Shape, host_sp
      <4>2. ram'[host_sp] = N[host_sp] /\ \A n \in 0 .. 6 : ram'[Slot(n)] = N[Slot(n)]
        BY <3>9, <4>1
      <4> QED
        BY <3>8, <4>2 DEF Ready, Kept, Backs
    <3>11. Tame(Junk, Entries)
      BY TameResult
    <3>12. TameRam(ram', Entries)
      BY <3>8, <3>9, <3>11, MemoryParts DEF TameRam, Ready, Shape
    <3>13. DOMAIN ar' = ArchReg /\ \A r \in RegName : ar'[r] = p \/ ar'[r] = Junk \/ ar'[r] = ar[r]
      BY <3>1, Registers64
    <3>14. \A r \in Own : Tame(ar'[r], Entries)
      BY <1>3, <3>4, <3>11, <3>13, Registers64 DEF Ready
    <3>15. Shape(ar', ram')
      BY <3>8, <3>9, <3>13 DEF Shape
    <3>16. InStub(28, ar', ram')
      BY <3>10, <3>12, <3>14 DEF InStub, Ready
    <3> QED
      BY <3>2, <3>15, <3>16, 28 \in 1 .. 80, Advances
  <2> QED
    BY <2>1, <2>2
<1> QED
  BY <1>2, <1>3, <1>4, <1>5, Acts DEF Does

\* and the return to the program.
LEMMA ReturnReady ==
  ASSUME Ripe, Run, Shape(ar, ram), I.op = "ret", Ready(ar, ram, Entries)
  PROVE  Settles
<1> DEFINE l == ar["rsp"]
<1>1. CASE Lost'
  BY <1>1 DEF Settles
<1>2. CASE ~Lost'
  <2>1. /\ UNCHANGED ram /\ l \in DOMAIN ram
        /\ ar' = [ar EXCEPT !["rsp"] = At(l, 8)]
        /\ \/ ram[l] # host_return /\ ram[l].tag = "code" /\ On(ram[l].val)
           \/ ram[l] = host_return /\ obs'.status = "exited"
    BY <1>2, RetStep DEF Ripe
  <2>2. Tame(At(l, 8), Entries) /\ Tame(ram[l], Entries)
    BY <2>1, Registers64, AccessTame
  <2> HIDE DEF l
  <2>3. ram[l].tag = "code" /\ On(ram[l].val) /\ ram[l].val \in Entries
    BY <2>1, <2>2 DEF Tame, host_return
  <2>4. Shape(ar', ram') /\ Ready(ar', ram', Entries)
    BY <2>1, <2>2, Registers64, ReadyRegister
  <2> QED
    BY <2>3, <2>4, Arrives
<1> QED
  BY <1>1, <1>2

\* Any step of the stub.
LEMMA FromStub ==
  ASSUME Ripe, Run, Shape(ar, ram), NEW k \in 1 .. 80, ip = Spot(k), InStub(k, ar, ram)
  PROVE  Settles
<1>1. k \in 10 .. 40
  BY DEF InStub
<1>2. CASE k = 40
  <2>1. I = OpAt(40)
    BY <1>2, Here
  <2>2. I.op = "ret"
    BY <2>1, StubSpotOps DEF Does
  <2> QED
    BY <2>2, ReturnReady DEF InStub
<1>3. CASE k = 27
  BY <1>3, FromStubCall
<1>4. CASE k \in {14, 24, 26, 28, 38}
  BY <1>4, FromStubImm
<1>5. CASE k \in {15, 25, 29, 39}
  BY <1>5, FromMember
<1>6. CASE k \in 10 .. 13
  BY <1>6, FromCompare
<1>7. CASE k \in 16 .. 23
  BY <1>7, FromStubPush
<1>8. CASE k \in 30 .. 37
  BY <1>8, FromStubPop
<1> QED
  BY <1>1, <1>2, <1>3, <1>4, <1>5, <1>6, <1>7, <1>8

\* A step on the way back to the host.
LEMMA FromLeaving ==
  ASSUME Ripe, Run, Shape(ar, ram), NEW k \in 1 .. 80, ip = Spot(k), Leaving(k, ar, ram)
  PROVE  Settles
<1>1. I = OpAt(k) /\ ip + I.len = Spot(k + 1) /\ Seen /\ k \in 41 .. 66 /\ Kept(ram)
  BY Here DEF Ripe, Leaving
<1>2. ASSUME NEW v, Does(I, "imm", "rbp", "rax", v, 0)
      PROVE  On(Spot(k + 1)) /\ UNCHANGED ram /\ ar'["rbp"] = v /\ Shape(ar', ram')
  <2>1. On(Spot(k + 1)) /\ UNCHANGED ram /\ ar' = [ar EXCEPT !["rbp"] = v]
    BY <1>1, <1>2, ImmStep DEF Does
  <2> QED
    BY <2>1, Registers64 DEF Shape
<1>3. CASE k = 41
  <2>1. PICK v : Does(I, "imm", "rbp", "rax", v, 0)
    BY <1>1, <1>3, SpotOps
  <2>2. Leaving(42, ar', ram')
    BY <1>1, <1>2, <2>1 DEF Leaving
  <2> QED
    BY <1>2, <1>3, <2>1, <2>2, 42 \in 1 .. 80, Advances
<1>4. CASE k = 42
  <2>1. Does(I, "ADD", "rsp", "rbp", Junk, 0)
    BY <1>1, <1>4, SpotOps
  <2>2. On(Spot(43)) /\ UNCHANGED ram /\ \E v : ar' = [ar EXCEPT !["rsp"] = v]
    BY <1>1, <1>4, <2>1, AluStep DEF Does, MoveOp
  <2>3. Shape(ar', ram')
    BY <2>2 DEF Shape
  <2>4. Leaving(43, ar', ram')
    BY <1>1, <2>2 DEF Leaving
  <2> QED
    BY <2>2, <2>3, <2>4, 43 \in 1 .. 80, Advances
<1>5. CASE k = 43
  <2>1. Does(I, "imm", "rbp", "rax", DumpSlot(0), 0)
    BY <1>1, <1>5, SpotOps
  <2>2. Leaving(44, ar', ram')
    BY <1>1, <1>2, <2>1 DEF Leaving
  <2> QED
    BY <1>2, <1>5, <2>1, <2>2, 44 \in 1 .. 80, Advances
<1>6. CASE k \in 44 .. 57
  <2>1. PICK r, d : Does(I, "store", "rbp", r, Junk, d)
    BY <1>1, <1>6, SpotOps
  <2>2. CASE Lost'
    BY <2>2 DEF Settles
  <2>3. CASE ~Lost'
    <3> DEFINE l == At(DumpSlot(0), d)
    <3>1. ar["rbp"] = DumpSlot(0) /\ l.tag = "dump"
      BY <1>6 DEF Leaving, At, DumpSlot
    <3>2. On(Spot(k + 1)) /\ UNCHANGED ar /\ ram' = [ram EXCEPT ![l] = ar[r]]
      BY <1>1, <2>1, <2>3, <3>1, StoreStep DEF Does
    <3> HIDE DEF l
    <3>3. Shape(ar, ram') /\ Kept(ram')
      BY <1>1, <3>1, <3>2, KeptDump
    <3>4. Leaving(k + 1, ar', ram')
      BY <1>6, <3>1, <3>2, <3>3 DEF Leaving
    <3> QED
      BY <1>6, <3>2, <3>3, <3>4, Advances
  <2> QED
    BY <2>2, <2>3
<1>7. CASE k = 58
  <2>1. Does(I, "imm", "rbp", "rax", host_sp, 0)
    BY <1>1, <1>7, SpotOps
  <2>2. Leaving(59, ar', ram')
    BY <1>1, <1>2, <2>1 DEF Leaving
  <2> QED
    BY <1>2, <1>7, <2>1, <2>2, 59 \in 1 .. 80, Advances
<1>8. CASE k = 59
  <2>1. Does(I, "load", "rsp", "rbp", Junk, 0)
    BY <1>1, <1>8, SpotOps
  <2>2. CASE Lost'
    BY <2>2 DEF Settles
  <2>3. CASE ~Lost'
    <3>1. ar["rbp"] = host_sp /\ At(host_sp, 0) = host_sp /\ ram[host_sp] = Slot(6)
      BY <1>1, <1>8 DEF Leaving, At, host_sp, Kept
    <3>2. On(Spot(60)) /\ UNCHANGED ram /\ ar' = [ar EXCEPT !["rsp"] = Slot(6)]
      BY <1>1, <1>8, <2>1, <2>3, <3>1, LoadStep DEF Does
    <3>3. Shape(ar', ram') /\ ar'["rsp"] = Slot(6)
      BY <3>2, Registers64 DEF Shape
    <3>4. Leaving(60, ar', ram')
      BY <1>1, <3>2, <3>3 DEF Leaving
    <3> QED
      BY <3>2, <3>3, <3>4, 60 \in 1 .. 80, Advances
  <2> QED
    BY <2>2, <2>3
<1>9. CASE k \in 60 .. 65
  <2> DEFINE m == 66 - k
             r == Saved[m]
  <2>1. m \in 1 .. 6 /\ k = 66 - m
    BY <1>9
  <2>2. Does(I, "pop", r, "rax", Junk, 0)
    <3>1. Does(I, "pop", Restored[k - 59], "rax", Junk, 0)
      BY <1>1, <1>9, SpotOps
    <3>2. \A x \in 1 .. 6 : Restored[7 - x] = Saved[x]
      BY DEF Restored, Saved
    <3>3. k - 59 = 7 - m
      BY <2>1
    <3> QED
      BY <2>1, <3>1, <3>2, <3>3
  <2>3. CASE Lost'
    BY <2>3 DEF Settles
  <2>4. CASE ~Lost'
    <3> HIDE DEF m
    <3>1. ar["rsp"] = Slot(m) /\ At(Slot(m), 8) = Slot(m - 1) /\ ram[Slot(m)] = Entry(r)
      BY <1>1, <1>9, <2>1, Slots64 DEF Leaving, m, Kept, Backs
    <3>2. /\ On(Spot(k + 1)) /\ UNCHANGED ram
          /\ ar' = [[ar EXCEPT !["rsp"] = Slot(m - 1)] EXCEPT ![r] = Entry(r)]
      BY <1>1, <2>2, <2>4, <3>1, PopStep DEF Does
    <3>3. /\ DOMAIN ar' = ArchReg /\ ar'["rsp"] = Slot(m - 1) /\ ar'[r] = Entry(r)
          /\ \A s \in RegName \ {"rsp", r} : ar'[s] = ar[s]
      BY <2>1, <3>2, Registers64 DEF Shape
    <3>4. Shape(ar', ram')
      BY <3>2, <3>3 DEF Shape
    <3>5. 66 - (k + 1) = m - 1 /\ k + 1 \in 61 .. 66
      BY <1>9, <2>1
    <3>6. ASSUME NEW n \in 1 .. 6, n > m - 1 PROVE ar'[Saved[n]] = Entry(Saved[n])
      <4>1. CASE n = m
        BY <3>3, <4>1
      <4>2. CASE n # m
        <5>1. Saved[n] # Saved[m]
          BY <2>1, <4>2 DEF Saved
        <5>2. n > m
          BY <2>1, <3>6, <4>2
        <5>3. ar[Saved[n]] = Entry(Saved[n])
          BY <1>9, <5>2 DEF Leaving, m
        <5> QED
          BY <3>3, <5>1, <5>3, Registers64
      <4> QED
        BY <4>1, <4>2
    <3>7. Leaving(k + 1, ar', ram')
      BY <1>1, <3>2, <3>3, <3>5, <3>6 DEF Leaving
    <3> QED
      BY <3>2, <3>4, <3>5, <3>7, Advances
  <2> QED
    BY <2>3, <2>4
<1>10. CASE k = 66
  <2>1. Does(I, "ret", "rax", "rax", Junk, 0)
    BY <1>1, <1>10, SpotOps
  <2>2. CASE Lost'
    BY <2>2 DEF Settles
  <2>3. CASE ~Lost'
    <3>1. /\ ar["rsp"] = Slot(0) /\ ram[Slot(0)] = host_return
          /\ At(Slot(0), 8) = HostSlot(8) /\ \A n \in 1 .. 6 : ar[Saved[n]] = Entry(Saved[n])
      <4>1. 66 - k = 0 /\ \A n \in 1 .. 6 : n > 66 - k
        BY <1>10
      <4> QED
        BY <1>1, <1>10, <4>1, Slots64 DEF Leaving, Kept, Backs
    <3>2. /\ ar' = [ar EXCEPT !["rsp"] = HostSlot(8)] /\ obs'.status = "exited"
      BY <1>1, <2>1, <2>3, <3>1, RetStep DEF Does
    <3>3. /\ ar'["rsp"] = HostSlot(8)
          /\ \A s \in RegName \ {"rsp"} : ar'[s] = ar[s]
      BY <3>2, Registers64 DEF Shape
    <3>4. \A r \in CalleeSaved : \E n \in 1 .. 6 : r = Saved[n]
      <4>1. /\ Saved[1] = "rbp" /\ Saved[2] = "rbx" /\ Saved[3] = "r12" /\ Saved[4] = "r13"
            /\ Saved[5] = "r14" /\ Saved[6] = "r15"
        BY DEF Saved
      <4> QED
        BY <4>1 DEF CalleeSaved
    <3>5. HostBack(ar')
      BY <3>1, <3>3, <3>4, Registers64 DEF HostBack
    <3> QED
      BY <3>2, <3>5 DEF Settles
  <2> QED
    BY <2>2, <2>3
<1> QED
  BY <1>1, <1>3, <1>4, <1>5, <1>6, <1>7, <1>8, <1>9, <1>10

\* Zero is equal to itself.
LEMMA ZeroEqual == Compare(Num(0), Num(0)) = {"EQ"}
<1> DEFINE v == Num(0)
           o == Order(Signed(v.val), Signed(v.val))
<1>1. v.tag = "num" /\ v.val = 0
  BY DEF Num
<1>2. Signed(0) \in Int
  BY HalfPositive DEF Signed
<1>3. o = "EQ"
  BY <1>1, <1>2 DEF Order
<1> HIDE DEF o
<1>4. Compare(v, v) = {o}
  <2> HIDE DEF v
  <2> QED
    BY <1>1 DEF Compare, Both, Apart, o
<1> QED
  BY <1>3, <1>4

\* A step of the stub after the call to exit.
LEMMA FromExiting ==
  ASSUME Ripe, Run, Shape(ar, ram), NEW k \in 1 .. 80, ip = Spot(k), Exiting(k, ar, ram, fl)
  PROVE  Settles
<1>1. I = OpAt(k) /\ ip + I.len = Spot(k + 1) /\ Seen /\ k \in 10 .. 13 /\ Kept(ram)
  BY Here DEF Ripe, Exiting
<1>2. CASE k = 10
  <2>1. Does(I, "load", "r8", "rsp", Junk, 8)
    BY <1>1, <1>2, StubSpotOps
  <2>2. CASE Lost'
    BY <2>2 DEF Settles
  <2>3. CASE ~Lost'
    <3>1. ram[At(ar["rsp"], 8)] = Num(0)
      BY <1>2 DEF Exiting, Exits
    <3>2. On(Spot(11)) /\ UNCHANGED ram /\ ar' = [ar EXCEPT !["r8"] = Num(0)]
      BY <1>1, <1>2, <2>1, <2>3, <3>1, LoadStep DEF Does
    <3>3. Shape(ar', ram') /\ ar'["r8"] = Num(0)
      BY <3>2, Registers64 DEF Shape, RegName
    <3>4. Exiting(11, ar', ram', fl')
      BY <1>1, <3>2, <3>3 DEF Exiting
    <3> QED
      BY <3>2, <3>3, <3>4, 11 \in 1 .. 80, Advances
  <2> QED
    BY <2>2, <2>3
<1>3. CASE k = 11
  <2>1. Does(I, "imm", "rbp", "rax", Num(0), 0)
    BY <1>1, <1>3, StubSpotOps
  <2>2. On(Spot(12)) /\ UNCHANGED ram /\ ar' = [ar EXCEPT !["rbp"] = Num(0)]
    BY <1>1, <1>3, <2>1, ImmStep DEF Does
  <2>3. Shape(ar', ram') /\ ar'["rbp"] = Num(0) /\ ar'["r8"] = ar["r8"]
    BY <2>2, Registers64 DEF Shape, RegName
  <2>4. Exiting(12, ar', ram', fl')
    BY <1>1, <1>3, <2>2, <2>3 DEF Exiting
  <2> QED
    BY <2>2, <2>3, <2>4, 12 \in 1 .. 80, Advances
<1>4. CASE k = 12
  <2>1. Does(I, "CMP", "r8", "rbp", Junk, 0)
    BY <1>1, <1>4, StubSpotOps
  <2>2. On(Spot(13)) /\ UNCHANGED <<ar, ram>> /\ fl' \in Compare(ar["r8"], ar["rbp"])
    BY <1>1, <1>4, <2>1, CmpStep DEF Does
  <2>3. ar["r8"] = Num(0) /\ ar["rbp"] = Num(0)
    BY <1>4 DEF Exiting
  <2>4. fl' = "EQ"
    BY <2>2, <2>3, ZeroEqual
  <2>5. Exiting(13, ar', ram', fl') /\ Shape(ar', ram')
    BY <1>1, <2>2, <2>3, <2>4 DEF Exiting
  <2> QED
    BY <2>2, <2>5, 13 \in 1 .. 80, Advances
<1>5. CASE k = 13
  <2>1. Does(I, "JMPEQ", "rax", "rax", Junk, Bytes(HostPath))
    BY <1>1, <1>5, StubSpotOps
  <2>2. ip + I.len + I.d = Spot(41)
    BY <1>1, <1>5, <2>1, Spots DEF Does
  <2>3. fl \in Holds[I.op] \ {"NONE"}
    BY <1>5, <2>1 DEF Exiting, Does, Holds
  <2>4. UNCHANGED <<ar, ram>> /\ On(Spot(41))
    BY <1>1, <2>1, <2>2, <2>3, JumpStep DEF Does, CondOp
  <2>5. Leaving(41, ar', ram') /\ Shape(ar', ram')
    BY <1>1, <2>4 DEF Leaving
  <2> QED
    BY <2>4, <2>5, 41 \in 1 .. 80, Advances
<1> QED
  BY <1>1, <1>2, <1>3, <1>4, <1>5

\* A step of the code behind the program, which calls exit.
LEMMA FromGuarding ==
  ASSUME Ripe, Run, Shape(ar, ram), NEW k \in 1 .. 4, ip = GuardSpot(k), Guarding(k, ar, ram)
  PROVE  Settles
<1> DEFINE q == emit_vm_exit_syscall_guard
<1>1. /\ I = q[k] /\ Seen
      /\ k <= 3 => ip + I.len = GuardSpot(k + 1)
      /\ Ready(ar, ram, Entries) /\ StubAt = Spot(10)
  BY RipeText, GuardOps DEF Ripe, Guarding, I
<1>2. /\ Does(q[1], "imm", "rbp", "rax", Num(0), 0)
      /\ Does(q[2], "push", "rax", "rbp", Junk, 0)
      /\ Does(q[3], "imm", "rbp", "rax", Code(StubAt), 0)
      /\ Does(q[4], "call", "rax", "rbp", Junk, 0)
  BY RipeText, GuardOps DEF Ripe
<1> HIDE DEF q
<1>3. ASSUME NEW j \in 2 .. 4, On(GuardSpot(j)), Shape(ar', ram'), Guarding(j, ar', ram')
      PROVE  Settles
  <2>1. j \in 1 .. 4
    OBVIOUS
  <2> QED
    BY <1>3, <2>1 DEF Settles, On, Fits
<1>4. ASSUME NEW v, Does(I, "imm", "rbp", "rax", v, 0), k <= 3
      PROVE  /\ On(GuardSpot(k + 1)) /\ UNCHANGED ram /\ ar'["rbp"] = v /\ ar'["rsp"] = ar["rsp"]
             /\ Shape(ar', ram') /\ Ready(ar', ram', Entries)
  <2>1. On(GuardSpot(k + 1)) /\ UNCHANGED ram /\ ar' = [ar EXCEPT !["rbp"] = v]
    BY <1>1, <1>4, ImmStep DEF Does
  <2>2. Shape(ar', ram) /\ Ready(ar', ram, Entries)
    BY <1>1, <2>1, Registers64, ReadyRegister
  <2> QED
    BY <2>1, <2>2, Registers64 DEF Shape, RegName
<1>5. CASE k = 1
  <2>1. Does(I, "imm", "rbp", "rax", Num(0), 0) /\ k <= 3 /\ k + 1 = 2
    BY <1>1, <1>2, <1>5
  <2>2. Guarding(2, ar', ram')
    BY <1>4, <2>1 DEF Guarding
  <2> QED
    BY <1>3, <1>4, <2>1, <2>2, 2 \in 2 .. 4
<1>6. CASE k = 2
  <2> DEFINE l == At(ar["rsp"], -8)
  <2>1. CASE Lost'
    BY <2>1 DEF Settles
  <2>2. CASE ~Lost'
    <3>1. ar["rbp"] = Num(0) /\ Tame(Num(0), Entries)
      BY <1>6, TameResult DEF Guarding
    <3>2. /\ On(GuardSpot(3)) /\ l \in DOMAIN ram
          /\ ar' = [ar EXCEPT !["rsp"] = l] /\ ram' = [ram EXCEPT ![l] = Num(0)]
      BY <1>1, <1>2, <1>6, <2>2, <3>1, PushStep DEF Does
    <3>3. Shape(ar', ram') /\ Ready(ar', ram', Entries) /\ l \in Stack
      BY <1>1, <3>1, <3>2, ReadyPush
    <3>4. ar'["rsp"] = l /\ ram'[l] = Num(0)
      BY <3>2, Registers64 DEF Shape
    <3>5. Guarding(3, ar', ram')
      BY <3>3, <3>4 DEF Guarding, Exits
    <3> QED
      BY <1>3, <3>2, <3>3, <3>5, 3 \in 2 .. 4
  <2> QED
    BY <2>1, <2>2
<1>7. CASE k = 3
  <2>1. Does(I, "imm", "rbp", "rax", Code(StubAt), 0) /\ k <= 3 /\ k + 1 = 4
    BY <1>1, <1>2, <1>7
  <2>2. Exits(ar["rsp"], ram)
    BY <1>7 DEF Guarding
  <2>3. Guarding(4, ar', ram')
    BY <1>4, <2>1, <2>2 DEF Guarding, Exits
  <2> QED
    BY <1>3, <1>4, <2>1, <2>3, 4 \in 2 .. 4
<1>8. CASE k = 4
  <2> DEFINE sp == ar["rsp"]
             l == At(sp, -8)
  <2>1. CASE Lost'
    BY <2>1 DEF Settles
  <2>2. CASE ~Lost'
    <3>1. ar["rbp"] = Code(StubAt) /\ Exits(sp, ram)
      BY <1>8 DEF Guarding
    <3>2. Does(I, "call", "rax", "rbp", Junk, 0)
      BY <1>1, <1>2, <1>8
    <3>3. /\ On(Spot(10)) /\ l \in DOMAIN ram /\ ar' = [ar EXCEPT !["rsp"] = l]
          /\ ram' = [ram EXCEPT ![l] = Code(ip + I.len)]
      BY <1>1, <2>2, <3>1, <3>2, CallStep DEF Does, Code
    <3>4. l \in Stack
      BY <1>1, <3>3, Registers64, AccessTame
    <3>5. At(l, 8) = sp /\ l # sp
      BY <3>1, <3>4, AtBack DEF Exits
    <3> HIDE DEF sp, l
    <3>6. Shape(ar, ram') /\ Kept(ram')
      BY <1>1, <3>3, <3>4, ReadyMemory DEF Within, Ready
    <3>7. ar'["rsp"] = l /\ Shape(ar', ram')
      BY <3>3, <3>6, Registers64 DEF Shape
    <3>8. Exits(sp, ram')
      BY <3>1, <3>3, <3>5, MemoryParts DEF Exits, Shape
    <3>9. Exiting(10, ar', ram', fl')
      BY <3>5, <3>6, <3>7, <3>8 DEF Exiting
    <3> QED
      BY <3>3, <3>7, <3>9, 10 \in 1 .. 80, Advances
  <2> QED
    BY <2>1, <2>2
<1> QED
  BY <1>5, <1>6, <1>7, <1>8
-----------------------------------------------------------------------------
\* The steps of the processor in the program.

\* The code of one native instruction or of two.
LEMMA ShortCode ==
  /\ \A o : Len(<<o>>) = 1 /\ <<o>>[1] = o
  /\ \A o, p : LET q == <<o>> \o <<p>> IN Len(q) = 2 /\ q[1] = o /\ q[2] = p
OBVIOUS

\* The code of an instruction that becomes one native instruction.
LEMMA EmitOne ==
  ASSUME NEW i \in Instr, NEW at \in Nat, NEW to \in Nat \cup {Unmapped}, ~Paired(i)
  PROVE  LET q == X64Emit(i, at, to)
         IN  /\ q \in Long(1) /\ q[1].len = Count(i)
             /\ IF i.op \in CondOp THEN Does(q[1], i.op, "rax", "rax", Junk, (to - at) - 6)
                ELSE IF i.op = "RET" THEN Does(q[1], "ret", "rax", "rax", Junk, 0)
                ELSE Quiet(q[1])
<1> DEFINE d == X64vr2ar[i.dst]
           s == X64vr2ar[i.src]
           q == X64Emit(i, at, to)
           Good(o) == IF i.op \in CondOp THEN Does(o, i.op, "rax", "rax", Junk, (to - at) - 6)
                      ELSE IF i.op = "RET" THEN Does(o, "ret", "rax", "rax", Junk, 0)
                      ELSE Quiet(o)
<1>1. i.op \in Opcode /\ i.am \in Mode /\ i.dst \in Reg /\ i.src \in Reg
  BY DEF Instr
<1>2. d \in Own /\ s \in Own
  <2>1. \A r \in Reg : X64vr2ar[r] \in Own
    BY DEF Reg, GPR, X64vr2ar, Own, RegName
  <2> QED
    BY <1>1, <2>1
<1>3. ASSUME NEW o, q = <<o>>, o.len = Count(i), Good(o)
      PROVE  q \in Long(1) /\ q[1].len = Count(i) /\ Good(q[1])
  <2>1. q \in Code64
    BY EmitBytes
  <2> HIDE DEF q, Good
  <2> QED
    BY <1>3, <2>1, ShortCode DEF Long
<1>4. ASSUME NEW op, NEW v
      PROVE  /\ emit_ret = <<Insn("ret", "rax", "rax", Junk, 0, 1)>>
             /\ emit_push_reg(d) = <<Insn("push", "rax", d, Junk, 0, RexLen(d))>>
             /\ emit_pop_reg(d) = <<Insn("pop", d, "rax", Junk, 0, RexLen(d))>>
             /\ emit_reg_reg(op, d, s) = <<Insn(op, d, s, Junk, 0, 3)>>
             /\ emit_reg_reg(op, d, d) = <<Insn(op, d, d, Junk, 0, 3)>>
             /\ emit_mov_reg_bd(d, s, i.idx, 4)
                  = <<Insn("load", d, s, Junk, i.idx, MemLen(s, 4))>>
             /\ emit_mov_bd_reg(d, i.idx, s, 4)
                  = <<Insn("store", d, s, Junk, i.idx, MemLen(d, 4))>>
             /\ emit_mov_reg_imm(d, v) = <<Insn("imm", d, "rax", MovVal(v), 0, MovLen(v))>>
             /\ emit_jcc_imm32(op, to - at)
                  = <<Insn(op, "rax", "rax", Junk, (to - at) - 6, 6)>>
  <2>1. ASSUME NEW w, NEW r, NEW t, NEW x, NEW n, NEW m
        PROVE  /\ emit_ret = <<Insn("ret", "rax", "rax", Junk, 0, 1)>>
               /\ emit_push_reg(r) = <<Insn("push", "rax", r, Junk, 0, RexLen(r))>>
               /\ emit_pop_reg(r) = <<Insn("pop", r, "rax", Junk, 0, RexLen(r))>>
               /\ emit_reg_reg(w, r, t) = <<Insn(w, r, t, Junk, 0, 3)>>
               /\ emit_mov_reg_bd(r, t, n, m) = <<Insn("load", r, t, Junk, n, MemLen(t, m))>>
               /\ emit_mov_bd_reg(r, n, t, m) = <<Insn("store", r, t, Junk, n, MemLen(r, m))>>
               /\ emit_mov_reg_imm(r, x) = <<Insn("imm", r, "rax", MovVal(x), 0, MovLen(x))>>
               /\ emit_jcc_imm32(w, n) = <<Insn(w, "rax", "rax", Junk, n - 6, 6)>>
    BY Singles
  <2> HIDE DEF d, s, q, Good
  <2> QED
    BY <2>1
<1> HIDE DEF d, s
<1> USE DEF MoveOp, BranchOp, CondOp
<1>5. CASE i.op = "LOAD"
  <2> DEFINE o == Insn("load", d, s, Junk, i.idx, MemLen(s, 4))
  <2>1. q = <<o>> /\ o.len = Count(i) /\ Good(o)
    BY <1>2, <1>4, <1>5 DEF X64Emit, Count, d, s, Insn, Quiet
  <2> QED
    BY <1>3, <2>1
<1>6. CASE i.op = "STORE"
  <2> DEFINE o == Insn("store", d, s, Junk, i.idx, MemLen(d, 4))
  <2>1. q = <<o>> /\ o.len = Count(i) /\ Good(o)
    BY <1>2, <1>4, <1>6 DEF X64Emit, Count, d, s, Insn, Quiet
  <2> QED
    BY <1>3, <2>1
<1>7. CASE i.op \in MoveOp \cup {"CMP"} /\ i.am = "REG"
  <2> DEFINE o == Insn(i.op, d, s, Junk, 0, 3)
  <2>1. q = <<o>>
    <3>1. q = emit_reg_reg(i.op, d, s)
      BY <1>7 DEF X64Emit, d, s
    <3> QED
      BY <1>4, <3>1
  <2>2. o.len = Count(i) /\ Good(o)
    BY <1>2, <1>7 DEF Count, Insn, Quiet
  <2> QED
    BY <1>3, <2>1, <2>2
<1>8. CASE i.op = "MOV" /\ i.am = "IMM"
  <2> DEFINE o == Insn("imm", d, "rax", MovVal(Num(i.imm)), 0, MovLen(Num(i.imm)))
  <2>1. q = <<o>>
    <3>1. q = emit_mov_reg_imm(d, Num(i.imm))
      BY <1>8 DEF X64Emit, d
    <3> QED
      BY <1>4, <3>1
  <2>2. Tame(MovVal(Num(i.imm)), {})
    <3>1. \E w : MovVal(Num(i.imm)) = Num(w)
      BY DEF MovVal
    <3> QED
      BY <3>1, TameResult
  <2>3. o.len = Count(i) /\ Good(o)
    BY <1>2, <1>8, <2>2 DEF Count, Insn, Quiet
  <2> QED
    BY <1>3, <2>1, <2>3
<1>9. CASE i.op = "NOT"
  <2> DEFINE o == Insn("NOT", d, d, Junk, 0, 3)
  <2>1. q = <<o>> /\ o.len = Count(i) /\ Good(o)
    BY <1>2, <1>4, <1>9 DEF X64Emit, Count, d, s, Insn, Quiet
  <2> QED
    BY <1>3, <2>1
<1>10. CASE i.op = "PUSH"
  <2> DEFINE o == Insn("push", "rax", d, Junk, 0, RexLen(d))
  <2>1. q = <<o>> /\ o.len = Count(i) /\ Good(o)
    BY <1>2, <1>4, <1>10 DEF X64Emit, Count, d, s, Insn, Quiet
  <2> QED
    BY <1>3, <2>1
<1>11. CASE i.op = "POP"
  <2> DEFINE o == Insn("pop", d, "rax", Junk, 0, RexLen(d))
  <2>1. q = <<o>> /\ o.len = Count(i) /\ Good(o)
    BY <1>2, <1>4, <1>11 DEF X64Emit, Count, d, s, Insn, Quiet
  <2> QED
    BY <1>3, <2>1
<1>12. CASE i.op = "RET"
  <2> DEFINE o == Insn("ret", "rax", "rax", Junk, 0, 1)
  <2>1. q = <<o>> /\ o.len = Count(i) /\ Good(o)
    BY <1>4, <1>12 DEF X64Emit, Count, Insn, Does
  <2> QED
    BY <1>3, <2>1
<1>13. CASE i.op \in CondOp
  <2> DEFINE o == Insn(i.op, "rax", "rax", Junk, (to - at) - 6, 6)
  <2>1. q = emit_jcc_imm32(i.op, to - at)
    BY <1>13 DEF X64Emit
  <2>2. q = <<o>>
    BY <1>4, <2>1
  <2>3. o.len = Count(i) /\ Good(o)
    BY <1>13 DEF Count, Insn, Does
  <2> QED
    BY <1>3, <2>2, <2>3
<1> QED
  BY <1>1, <1>5, <1>6, <1>7, <1>8, <1>9, <1>10, <1>11, <1>12, <1>13 DEF Opcode, Mode, Paired

\* The code of one that becomes two, with an immediate in rbp.
LEMMA EmitTwo ==
  ASSUME NEW i \in Instr, NEW at \in Nat, NEW to \in Nat \cup {Unmapped}, Paired(i)
  PROVE  LET q == X64Emit(i, at, to)
         IN  /\ q \in Long(2) /\ q[1].len = Count(i) - 3 /\ q[2].len = 3
             /\ IF i.op = "CALL" THEN Does(q[2], "call", "rax", "rbp", Junk, 0)
                ELSE IF i.op = "JMP" THEN Does(q[2], "jmp", "rax", "rbp", Junk, 0)
                ELSE Quiet(q[2])
             /\ \E v : /\ Does(q[1], "imm", "rbp", "rax", v, 0)
                       /\ i.op \in {"CALL", "JMP"} => v = Code(to)
<1> DEFINE d == X64vr2ar[i.dst]
           q == X64Emit(i, at, to)
           Good(o) == IF i.op = "CALL" THEN Does(o, "call", "rax", "rbp", Junk, 0)
                      ELSE IF i.op = "JMP" THEN Does(o, "jmp", "rax", "rbp", Junk, 0)
                      ELSE Quiet(o)
           First(v) == Insn("imm", "rbp", "rax", MovVal(v), 0, MovLen(v))
<1>1. i.dst \in Reg /\ i.imm \in Word
  BY DEF Instr
<1>2. d \in Own
  <2>1. \A r \in Reg : X64vr2ar[r] \in Own
    BY DEF Reg, GPR, X64vr2ar, Own, RegName
  <2> QED
    BY <1>1, <2>1
<1>3. ASSUME NEW o, NEW v, q = <<First(v)>> \o <<o>>, MovLen(v) = Count(i) - 3, o.len = 3,
             Good(o), i.op \in {"CALL", "JMP"} => v = Code(to)
      PROVE  /\ q \in Long(2) /\ q[1].len = Count(i) - 3 /\ q[2].len = 3 /\ Good(q[2])
             /\ \E w : /\ Does(q[1], "imm", "rbp", "rax", w, 0)
                       /\ i.op \in {"CALL", "JMP"} => w = Code(to)
  <2>1. q \in Code64
    BY EmitBytes
  <2> HIDE DEF q, Good, First
  <2>2. Len(q) = 2 /\ q[1] = First(v) /\ q[2] = o
    BY <1>3, ShortCode
  <2>3. Does(First(v), "imm", "rbp", "rax", MovVal(v), 0) /\ First(v).len = MovLen(v)
    BY DEF First, Does, Insn
  <2>4. MovVal(Code(to)) = Code(to)
    BY HostMoves
  <2> QED
    BY <1>3, <2>1, <2>2, <2>3, <2>4 DEF Long
<1>4. ASSUME NEW op, NEW v
      PROVE  /\ emit_reg_imm64(op, d, v) = <<First(v)>> \o <<Insn(op, d, "rbp", Junk, 0, 3)>>
             /\ emit_call_imm64(v) = <<First(v)>> \o <<Insn("call", "rax", "rbp", Junk, 0, 3)>>
             /\ emit_jmp_imm64(v) = <<First(v)>> \o <<Insn("jmp", "rax", "rbp", Junk, 0, 3)>>
  <2>1. /\ emit_mov_reg_imm("rbp", v) = <<First(v)>>
        /\ emit_reg_reg(op, d, "rbp") = <<Insn(op, d, "rbp", Junk, 0, 3)>>
        /\ emit_call_reg("rbp") = <<Insn("call", "rax", "rbp", Junk, 0, 3)>>
        /\ emit_jmp_reg("rbp") = <<Insn("jmp", "rax", "rbp", Junk, 0, 3)>>
    BY Singles
  <2> HIDE DEF First
  <2> QED
    BY <2>1 DEF emit_reg_imm64, emit_call_imm64, emit_jmp_imm64
<1> HIDE DEF d, First
<1> USE DEF MoveOp
<1>5. CASE i.op \in (MoveOp \ {"MOV"}) \cup {"CMP"} /\ i.am = "IMM"
  <2> DEFINE o == Insn(i.op, d, "rbp", Junk, 0, 3)
             v == Num(i.imm)
  <2>1. q = emit_reg_imm64(i.op, d, v)
    BY <1>5 DEF X64Emit, CondOp, d
  <2>2. Count(i) = MovLen(v) + 3
    BY <1>5 DEF Count, CondOp
  <2>3. MovLen(v) \in Int
    BY AddrAssumption DEF MovLen
  <2>4. o.len = 3 /\ Good(o)
    BY <1>2, <1>5 DEF Insn, Quiet
  <2>5. i.op \notin {"CALL", "JMP"}
    BY <1>5
  <2>6. q = <<First(v)>> \o <<o>>
    <3> HIDE DEF v, q
    <3> QED
      BY <1>4, <2>1
  <2> HIDE DEF o, v
  <2>7. MovLen(v) = Count(i) - 3
    BY <2>2, <2>3
  <2> QED
    BY <1>3, <2>4, <2>5, <2>6, <2>7
<1>6. CASE i.op \in {"CALL", "JMP"}
  <2> DEFINE o == Insn(IF i.op = "CALL" THEN "call" ELSE "jmp", "rax", "rbp", Junk, 0, 3)
             v == Code(to)
  <2>1. q = IF i.op = "CALL" THEN emit_call_imm64(v) ELSE emit_jmp_imm64(v)
    BY <1>6 DEF X64Emit, CondOp
  <2>2. Count(i) = AddrLen + 3 /\ MovLen(v) = AddrLen /\ AddrLen \in Int
    BY <1>6, AddrAssumption DEF Count, MovLen, Code, CondOp
  <2>3. o.len = 3 /\ Good(o)
    BY <1>6 DEF Insn, Does
  <2>4. q = <<First(v)>> \o <<o>>
    <3> HIDE DEF v, q
    <3> QED
      BY <1>4, <1>6, <2>1
  <2>5. MovLen(v) = Count(i) - 3
    BY <2>2
  <2> HIDE DEF o
  <2> QED
    BY <1>3, <2>3, <2>4, <2>5
<1> QED
  BY <1>5, <1>6 DEF Paired

\* What the processor finds in the code of an instruction.
LEMMA BlockOps ==
  ASSUME Ripe, NEW a \in Body
  PROVE  LET i == prog.code[a]
             b == block[a]
             q == X64Emit(i, b.at, b.to)
         IN  /\ text[b.at] = q[1]
             /\ Paired(i) => text[b.at + (Count(i) - 3)] = q[2]
<1> DEFINE i == prog.code[a]
           b == block[a]
           q == X64Emit(i, b.at, b.to)
<1>1. i \in Instr /\ b.at \in Nat /\ b.to \in Nat \cup {Unmapped} /\ Placed(text, q, b.at)
  BY BlockText
<1>2. /\ ~Paired(i) => q \in Long(1)
      /\ Paired(i) => q \in Long(2) /\ q[1].len = Count(i) - 3
  <2> HIDE DEF i, b
  <2> QED
    BY <1>1, EmitOne, EmitTwo
<1> HIDE DEF i, b, q
<1>3. CASE ~Paired(i)
  <2>1. Starts(q, b.at)[1] = b.at /\ \A k \in 1 .. 1 : text[Starts(q, b.at)[k]] = q[k]
    <3>1. Runs(1)
      BY LongStarts
    <3> QED
      BY <1>1, <1>2, <1>3, <3>1 DEF Runs
  <2>2. text[b.at] = q[1]
    BY <2>1, 1 \in 1 .. 1
  <2> QED
    BY <1>3, <2>2 DEF i, b, q
<1>4. CASE Paired(i)
  <2>1. /\ Starts(q, b.at)[1] = b.at
        /\ \A k \in 1 .. 2 : Starts(q, b.at)[k + 1] = Starts(q, b.at)[k] + q[k].len
        /\ \A k \in 1 .. 2 : text[Starts(q, b.at)[k]] = q[k]
    <3>1. Runs(2)
      BY LongStarts
    <3>2. q \in Long(2) /\ b.at \in Nat /\ Placed(text, q, b.at)
      BY <1>1, <1>2, <1>4
    <3> QED
      BY <3>1, <3>2 DEF Runs
  <2>2. text[b.at] = q[1] /\ text[b.at + (Count(i) - 3)] = q[2]
    <3>1. Starts(q, b.at)[1 + 1] = b.at + (Count(i) - 3)
      BY <1>2, <1>4, <2>1, 1 \in 1 .. 2
    <3> QED
      BY <2>1, <3>1, 1 \in 1 .. 2, 2 \in 1 .. 2, 1 + 1 = 2
  <2> QED
    BY <2>2 DEF i, b, q
<1> QED
  BY <1>3, <1>4

\* A step into the rest of the slots of an instruction, or behind them.
LEMMA FallsOn ==
  ASSUME Ripe, NEW a \in Body, NEW z \in Int, On(z),
         block[a].at + Count(prog.code[a]) <= z, z <= block[a].at + block[a].len,
         Shape(ar', ram'), Ready(ar', ram', Entries)
  PROVE  Settles
<1>1. Fits(z, ar', ram', fl')
  BY TailFits
<1> QED
  BY <1>1 DEF Settles, On

\* A step from the first native instruction of an instruction.
LEMMA FromFirst ==
  ASSUME Ripe, Run, Shape(ar, ram), NEW a \in Body, ip = block[a].at, Ready(ar, ram, Entries)
  PROVE  Settles
<1> DEFINE i == prog.code[a]
           b == block[a]
           c == Count(i)
           q == X64Emit(i, b.at, b.to)
<1>1. /\ i \in Instr /\ b.at \in Nat /\ b.to \in Nat \cup {Unmapped} /\ b.len \in Nat
      /\ c \in 1 .. 13 /\ c <= b.len
      /\ i.op \in BranchOp => b.to \in Entries /\ b.to \in Nat
  BY BlockText
<1>2. I = q[1] /\ Seen
  BY BlockOps DEF I, Ripe
<1>3. CASE Lost'
  BY <1>3 DEF Settles
<1>4. ASSUME On(b.at + c), Shape(ar', ram'), Ready(ar', ram', Entries) PROVE Settles
  <2>1. b.at + c \in Int /\ b.at + c <= b.at + b.len /\ b.at + c <= b.at + c
    BY <1>1
  <2> QED
    BY <1>4, <2>1, FallsOn
<1>5. CASE ~Lost' /\ ~Paired(i)
  <2>1. /\ q[1].len = c
        /\ IF i.op \in CondOp THEN Does(q[1], i.op, "rax", "rax", Junk, (b.to - b.at) - 6)
           ELSE IF i.op = "RET" THEN Does(q[1], "ret", "rax", "rax", Junk, 0)
           ELSE Quiet(q[1])
    <3> HIDE DEF i, b
    <3> QED
      BY <1>1, <1>5, EmitOne
  <2> HIDE DEF i, b, c, q
  <2>2. CASE i.op \in CondOp
    <3>1. Does(I, i.op, "rax", "rax", Junk, (b.to - b.at) - 6) /\ I.len = c /\ c = 6
      BY <1>2, <2>1, <2>2 DEF c, Count, CondOp, MoveOp
    <3>2. b.to \in Nat /\ b.to \in Entries
      BY <1>1, <2>2 DEF BranchOp
    <3>3. ip + I.len + I.d = b.to
      BY <1>1, <3>1, <3>2 DEF Does, b
    <3>4. UNCHANGED <<ar, ram>> /\ (On(b.to) \/ On(b.at + c))
      BY <1>2, <2>2, <3>1, <3>3, JumpStep DEF Does, b
    <3> QED
      BY <1>4, <3>2, <3>4, Arrives
  <2>3. CASE i.op = "RET"
    <3>1. I.op = "ret"
      BY <1>2, <2>1, <2>3 DEF CondOp, Does
    <3> QED
      BY <3>1, ReturnReady
  <2>4. CASE i.op \notin CondOp \cup {"RET"}
    <3>1. Quiet(I) /\ ip + I.len = b.at + c
      BY <1>2, <2>1, <2>4 DEF b
    <3>2. On(b.at + c) /\ Shape(ar', ram') /\ Ready(ar', ram', Entries)
      BY <1>2, <1>5, <3>1, QuietStep
    <3> QED
      BY <1>4, <3>2
  <2> QED
    BY <2>2, <2>3, <2>4
<1>6. CASE ~Lost' /\ Paired(i)
  <2> DEFINE z == b.at + (c - 3)
  <2>1. PICK v : /\ Does(q[1], "imm", "rbp", "rax", v, 0) /\ q[1].len = c - 3
                 /\ i.op \in {"CALL", "JMP"} => v = Code(b.to)
    <3> HIDE DEF i, b
    <3> QED
      BY <1>1, <1>6, EmitTwo
  <2>2. On(z) /\ UNCHANGED ram /\ ar' = [ar EXCEPT !["rbp"] = v]
    <3>1. ip + I.len = z
      BY <1>2, <2>1
    <3> HIDE DEF z, q
    <3> QED
      BY <1>2, <2>1, <3>1, ImmStep DEF Does
  <2>3. Shape(ar', ram') /\ Ready(ar', ram', Entries)
    BY <2>2, Registers64, ReadyRegister
  <2>4. ar'["rbp"] = v
    BY <2>2, Registers64 DEF Shape
  <2>5. InBlock(z, ar', ram')
    BY <1>6, <2>1, <2>3, <2>4 DEF InBlock
  <2> HIDE DEF z
  <2> QED
    BY <2>2, <2>3, <2>5 DEF Settles, On, Fits
<1> QED
  BY <1>3, <1>5, <1>6

\* A step from the second.
LEMMA FromSecond ==
  ASSUME Ripe, Run, Shape(ar, ram), NEW a \in Body, Ready(ar, ram, Entries),
         Paired(prog.code[a]), ip = block[a].at + (Count(prog.code[a]) - 3),
         prog.code[a].op \in {"CALL", "JMP"} => ar["rbp"] = Code(block[a].to)
  PROVE  Settles
<1> DEFINE i == prog.code[a]
           b == block[a]
           c == Count(i)
           q == X64Emit(i, b.at, b.to)
<1>1. /\ i \in Instr /\ b.at \in Nat /\ b.to \in Nat \cup {Unmapped} /\ b.len \in Nat
      /\ c \in 1 .. 13 /\ c <= b.len /\ Size(i) = c
      /\ i.op \in BranchOp => b.to \in Entries /\ b.to \in Nat
  BY BlockText
<1>2. I = q[2] /\ Seen
  BY BlockOps DEF I, Ripe
<1>3. CASE Lost'
  BY <1>3 DEF Settles
<1>4. /\ q[2].len = 3
      /\ IF i.op = "CALL" THEN Does(q[2], "call", "rax", "rbp", Junk, 0)
         ELSE IF i.op = "JMP" THEN Does(q[2], "jmp", "rax", "rbp", Junk, 0)
         ELSE Quiet(q[2])
  <2> HIDE DEF i, b
  <2> QED
    BY <1>1, EmitTwo DEF i
<1>5. ip + I.len = b.at + c
  BY <1>1, <1>2, <1>4
<1> HIDE DEF q
<1>6. CASE ~Lost' /\ i.op \notin {"CALL", "JMP"}
  <2>1. Quiet(I)
    BY <1>2, <1>4, <1>6
  <2>2. On(b.at + c) /\ Shape(ar', ram') /\ Ready(ar', ram', Entries)
    BY <1>2, <1>5, <1>6, <2>1, QuietStep
  <2>3. b.at + c \in Int /\ b.at + c <= b.at + b.len /\ b.at + c <= b.at + c
    BY <1>1
  <2> QED
    BY <2>2, <2>3, FallsOn
<1>7. CASE ~Lost' /\ i.op = "CALL"
  <2> DEFINE l == At(ar["rsp"], -8)
             v == Code(b.at + c)
  <2>1. Does(I, "call", "rax", "rbp", Junk, 0) /\ ar["rbp"] = Code(b.to)
    BY <1>2, <1>4, <1>7
  <2>2. b.to \in Entries
    BY <1>1, <1>7 DEF BranchOp
  <2>3. /\ On(b.to) /\ l \in DOMAIN ram /\ ar' = [ar EXCEPT !["rsp"] = l]
        /\ ram' = [ram EXCEPT ![l] = v]
    BY <1>2, <1>5, <1>7, <2>1, CallStep DEF Does, Code
  <2>4. Tame(v, Entries)
    <3>1. a \in Calling /\ Behind(a) = b.at + c
      BY <1>1, <1>7 DEF Calling, Behind
    <3>2. b.at + c \in Entries
      BY <3>1 DEF Entries
    <3> QED
      BY <3>2 DEF Tame, Code
  <2> HIDE DEF l, v
  <2>5. Shape(ar', ram') /\ Ready(ar', ram', Entries)
    BY <2>3, <2>4, ReadyPush DEF l
  <2> QED
    BY <2>2, <2>3, <2>5, Arrives
<1>8. CASE i.op = "JMP"
  <2>1. Does(I, "jmp", "rax", "rbp", Junk, 0) /\ ar["rbp"] = Code(b.to)
    BY <1>2, <1>4, <1>8
  <2>2. b.to \in Entries
    BY <1>1, <1>8 DEF BranchOp
  <2>3. On(b.to) /\ UNCHANGED <<ar, ram>>
    BY <1>2, <2>1, JumpStep DEF Does, Code
  <2> QED
    BY <2>2, <2>3, Arrives
<1> QED
  BY <1>3, <1>6, <1>7, <1>8

\* A step in the program.
LEMMA FromBlock ==
  ASSUME Ripe, Run, Shape(ar, ram), InBlock(ip, ar, ram)
  PROVE  Settles
<1>1. PICK a \in Body :
        /\ Ready(ar, ram, Entries)
        /\ \/ ip = block[a].at
           \/ /\ Paired(prog.code[a]) /\ ip = block[a].at + (Count(prog.code[a]) - 3)
              /\ prog.code[a].op \in {"CALL", "JMP"} => ar["rbp"] = Code(block[a].to)
           \/ ip \in block[a].at + Count(prog.code[a]) .. block[a].at + block[a].len - 1
  BY DEF InBlock
<1>2. CASE ip = block[a].at
  BY <1>1, <1>2, FromFirst
<1>3. CASE /\ Paired(prog.code[a]) /\ ip = block[a].at + (Count(prog.code[a]) - 3)
           /\ prog.code[a].op \in {"CALL", "JMP"} => ar["rbp"] = Code(block[a].to)
  BY <1>1, <1>3, FromSecond
<1>4. CASE ip \in block[a].at + Count(prog.code[a]) .. block[a].at + block[a].len - 1
  <2>1. /\ I = Op /\ block[a].at \in Nat /\ block[a].len \in Nat
        /\ Count(prog.code[a]) \in 1 .. 13 /\ Seen
    BY <1>4, BlockText DEF I, Ripe
  <2>2. I.op = "nop" /\ I.len = 1
    BY <2>1 DEF Op
  <2>3. On(ip + 1) /\ UNCHANGED <<ar, ram>>
    BY <2>1, <2>2, ImmStep
  <2>4. /\ ip + 1 \in Int /\ block[a].at + Count(prog.code[a]) <= ip + 1
        /\ ip + 1 <= block[a].at + block[a].len
    BY <1>4, <2>1
  <2> QED
    BY <1>1, <2>3, <2>4, FallsOn
<1> QED
  BY <1>1, <1>2, <1>3, <1>4

\* A step from where the processor may be leads to where it may be, to the host or astray.
LEMMA FitsStep ==
  ASSUME Ripe, Run, Fits(ip, ar, ram, fl)
  PROVE  Settles
<1>1. CASE Around(ip, ar, ram, fl)
  <2>1. PICK k \in 1 .. 80 :
          /\ ip = Spot(k)
          /\ \/ Entering(k, ar, ram) \/ Clearing(k, ar, ram) \/ InStub(k, ar, ram)
             \/ Leaving(k, ar, ram) \/ Exiting(k, ar, ram, fl)
    BY <1>1 DEF Around
  <2>2. Shape(ar, ram) /\ (Entering(k, ar, ram) => k \in 1 .. 8)
    BY DEF Fits, Entering
  <2> QED
    BY <2>1, <2>2, FromEntering, FromClearing, FromStub, FromLeaving, FromExiting
<1>2. CASE \E k \in 1 .. 4 : ip = GuardSpot(k) /\ Guarding(k, ar, ram)
  BY <1>2, FromGuarding DEF Fits
<1>3. CASE InBlock(ip, ar, ram)
  BY <1>3, FromBlock DEF Fits
<1> QED
  BY <1>1, <1>2, <1>3 DEF Fits
-----------------------------------------------------------------------------
\* The invariant holds before the translator starts,
LEMMA HostInvInit == Init => HostInv
<1> SUFFICES ASSUME Init PROVE HostInv
  OBVIOUS
<1>1. phase = "start"
  BY DEF Init, NativeInit, JitInit
<1>2. Untouched /\ Seen
  BY DEF Init, NativeInit, Untouched, Seen
<1> QED
  BY <1>1, <1>2 DEF HostInv

\* and text_mem is called as its first place wants it.
LEMMA UntouchedFits == Untouched => Live /\ Fits(ip, ar, ram, fl)
<1> SUFFICES ASSUME Untouched PROVE Live /\ Fits(ip, ar, ram, fl)
  OBVIOUS
<1>1. Live /\ ip = Spot(1) /\ 1 \in 1 .. 80 /\ 1 \in 1 .. 8 /\ Down(1) = 0
  BY Spots DEF Untouched, Live, Down
<1>2. Shape(ar, ram)
  BY DEF Untouched, Shape
<1>3. ar["rsp"] = Slot(0) /\ \A r \in RegName \ {"rsp"} : ar[r] = Entry(r)
  BY Registers64, Slots64 DEF Untouched
<1>4. /\ ram[Slot(0)] = host_return
      /\ \A l \in DOMAIN ram \ {Slot(0)} : ram[l] = Junk
  BY Slots64 DEF Untouched
<1>5. Backs(ram, 0)
  BY <1>4 DEF Backs
<1>6. TameRam(ram, Entries)
  <2>1. \A l \in Within : ram[l] = Junk
    BY <1>2, <1>4, MemoryParts DEF Shape
  <2> QED
    BY <2>1, TameResult DEF TameRam
<1>7. Entering(1, ar, ram)
  BY <1>1, <1>3, <1>5, <1>6, Registers64 DEF Entering
<1>8. Around(ip, ar, ram, fl)
  BY <1>1, <1>7 DEF Around
<1> QED
  BY <1>1, <1>2, <1>8 DEF Fits

\* Where the processor may be depends on nothing that it changes but itself.
LEMMA FitsKept ==
  ASSUME UNCHANGED jitVars, Fits(ip', ar', ram', fl') PROVE Fits(ip, ar, ram, fl)'
<1>1. UNCHANGED <<prog, block, va2aa, arch, phase>>
  BY DEF jitVars
<1>2. Entries' = Entries /\ GuardAt' = GuardAt
  BY <1>1 DEF Entries, GuardAt, Calling, Behind, Body
<1>3. \A k : GuardSpot(k)' = GuardSpot(k)
  BY <1>2 DEF GuardSpot
<1>4. Shape(ar, ram)' = Shape(ar', ram')
  OBVIOUS
<1>5. \A k : /\ Entering(k, ar', ram') => Entering(k, ar, ram)'
             /\ Clearing(k, ar', ram') => Clearing(k, ar, ram)'
             /\ InStub(k, ar', ram') => InStub(k, ar, ram)'
             /\ Leaving(k, ar', ram') => Leaving(k, ar, ram)'
             /\ Exiting(k, ar', ram', fl') => Exiting(k, ar, ram, fl)'
             /\ Guarding(k, ar', ram') => Guarding(k, ar, ram)'
  BY <1>2 DEF Entering, Clearing, InStub, Guarding
<1>6. InBlock(ip', ar', ram') => InBlock(ip, ar, ram)'
  BY <1>1, <1>2 DEF InBlock, Body
<1>7. Around(ip', ar', ram', fl') => Around(ip, ar, ram, fl)'
  BY <1>5 DEF Around
<1> QED
  BY <1>3, <1>4, <1>5, <1>6, <1>7 DEF Fits

\* Every step keeps it.
LEMMA HostInvStep ==
  ASSUME IsX64, CodeInv, Laid, HostInv, [Next]_vars PROVE HostInv'
<1>1. Seen'
  BY SeenStep DEF HostInv
<1>2. CASE UNCHANGED cpu /\ phase # "done"
  <2>1. Untouched /\ Untouched'
    BY <1>2 DEF HostInv, Untouched, cpu
  <2>2. (Live /\ Fits(ip, ar, ram, fl))'
    BY <2>1, UntouchedFits, PTL
  <2> QED
    BY <1>1, <2>1, <2>2 DEF HostInv
<1>3. CASE UNCHANGED vars
  <2>1. UNCHANGED jitVars /\ UNCHANGED cpu
    BY <1>3 DEF vars
  <2>2. (phase # "done" => Untouched)'
    BY <2>1 DEF HostInv, Untouched, jitVars, cpu
  <2>3. ASSUME (phase = "done")'
        PROVE  (Lost \/ (Live /\ Fits(ip, ar, ram, fl)) \/ (obs.status = "exited" /\ HostBack(ar)))'
    <3>1. Lost \/ (Live /\ Fits(ip, ar, ram, fl)) \/ (obs.status = "exited" /\ HostBack(ar))
      BY <2>1, <2>3 DEF HostInv, jitVars
    <3>2. Fits(ip, ar, ram, fl) => Fits(ip', ar', ram', fl')
      BY <2>1 DEF cpu
    <3>3. Fits(ip, ar, ram, fl) => Fits(ip, ar, ram, fl)'
      BY <2>1, <3>2, FitsKept
    <3>4. UNCHANGED <<obs, ar>>
      BY <2>1 DEF cpu
    <3> QED
      BY <3>1, <3>3, <3>4 DEF Live, Lost, HostBack
  <2> QED
    BY <1>1, <2>2, <2>3 DEF HostInv
<1>4. CASE Run
  <2>1. UNCHANGED jitVars
    BY <1>4, RunKeepsText
  <2>2. phase = "done" /\ Live
    BY <1>4, Acts DEF Live
  <2>3. (Lost \/ (Live /\ Fits(ip, ar, ram, fl)) \/ (obs.status = "exited" /\ HostBack(ar)))'
    <3>1. Ripe
      BY <2>2 DEF HostInv, Ripe
    <3>2. Fits(ip, ar, ram, fl)
      BY <2>2, <3>1 DEF HostInv, Ripe, Live, Lost
    <3>3. Settles
      BY <1>4, <3>1, <3>2, FitsStep
    <3>4. Fits(ip', ar', ram', fl') => Fits(ip, ar, ram, fl)'
      BY <2>1, FitsKept
    <3> QED
      BY <3>3, <3>4 DEF Settles, HostBack
  <2> QED
    BY <1>1, <2>1, <2>2, <2>3 DEF HostInv, jitVars
<1>5. Translate => UNCHANGED cpu /\ phase # "done"
  BY DEF Translate, write_prologue, write_instruction, write_end, write_deferred,
         write_guard, emit_prologue, jit_vm_instruction, end_program, jit_deferred, emit_guard
<1> QED
  BY <1>2, <1>3, <1>4, <1>5 DEF Next

\* The host has its stack and its registers back when the program ends, whatever it did.
THEOREM HostGetsBack == ASSUME IsX64 PROVE Spec => []HostRestored
<1> DEFINE IInv == CodeInv /\ Laid /\ HostInv
<1>1. Init => IInv
  BY CodeInvInit, LaidInit, HostInvInit DEF Init, NativeInit
<1>2. IInv /\ [Next]_vars => IInv'
  <2> SUFFICES ASSUME IInv, [Next]_vars PROVE IInv'
    OBVIOUS
  <2>1. Translate \/ UNCHANGED <<jitVars, text>>
    BY RunKeepsText DEF Next, vars
  <2>2. [JitNext]_jitVars /\ JitInv
    BY <2>1, TranslateSteps DEF CodeInv
  <2>3. CodeInv'
    BY <2>1, X64CodeOK, CodeInvStep
  <2>4. Laid'
    BY <2>2, LaidStep
  <2>5. HostInv'
    BY HostInvStep
  <2> QED
    BY <2>3, <2>4, <2>5
<1>3. IInv => HostRestored
  <2> SUFFICES ASSUME IInv, obs.status = "exited" PROVE HostBack(ar)
    BY DEF HostRestored, HostBack
  <2>1. phase = "done"
    BY DEF HostInv, Untouched
  <2> QED
    BY <2>1 DEF HostInv, Lost, Live
<1> QED
  BY <1>1, <1>2, <1>3, PTL DEF Spec
=============================================================================
