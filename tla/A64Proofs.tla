----------------------------- MODULE A64Proofs -----------------------------
(***************************************************************************)
(* The AArch64 JIT, proved: what the distances of module Jit mean for it,    *)
(* whose emit_b_cond masks the distance of a branch to its field, that the   *)
(* code that the processor finds is the one that was meant, and that it      *)
(* gives the host back what is the host's.                                   *)
(***************************************************************************)
EXTENDS A64, NativeProofs

-----------------------------------------------------------------------------
\* A remainder that nothing is taken off.
LEMMA SmallRemainder ==
  ASSUME NEW m \in Nat, NEW x \in 0 .. m - 1 PROVE x % m = x
  BY SMTT(30)

\* A distance within reach is kept by the field of a branch.
LEMMA InField ==
  ASSUME NEW d \in Int, -CondReach <= d, d < CondReach PROVE Masked(d) = d
<1>1. CondReach \in Nat /\ d + CondReach \in 0 .. (2 * CondReach) - 1 /\ 2 * CondReach \in Nat
  BY ReachAssumption
<1>2. (d + CondReach) % (2 * CondReach) = d + CondReach
  BY <1>1, SmallRemainder
<1> QED
  BY <1>1, <1>2 DEF Masked

\* Both ends of a transfer are in the native code.
LEMMA NearKept == JitInv /\ Near => BranchesKept
<1> SUFFICES ASSUME JitInv, Near, phase = "done", arch < CondReach, NEW a \in Transfer
             PROVE  LET d == block[a].to - block[a].at
                    IN  emit_b_cond(prog.code[a].op, d)[1].d = d
  BY DEF BranchesKept
<1> DEFINE x == block[a].at
           y == block[a].to
<1>1. /\ a \in DOMAIN block /\ a \in Body /\ DOMAIN block = Body
      /\ prog.code[a].tgt \in DOMAIN va2aa /\ y = va2aa[prog.code[a].tgt]
  BY JitInvLinked DEF Linked, Transfer
<1>2. a \in DOMAIN va2aa
  BY <1>1 DEF JitInv, Progress, Body
<1>3. x = va2aa[a]
  BY <1>1 DEF JitInv, EndToEnd
<1>4. x \in 0 .. arch /\ y \in 0 .. arch /\ arch \in Nat
  BY <1>1, <1>2, <1>3 DEF JitInv, JitTypeOK, Near, NearEnd
<1> HIDE DEF x, y
<1>5. Masked(y - x) = y - x
  BY <1>4, InField, ReachAssumption
<1> QED
  BY <1>5 DEF emit_b_cond, A64Nop, x, y
-----------------------------------------------------------------------------
\* The run of the code does not write to it.
LEMMA RunKeepsText == Run => UNCHANGED <<jitVars, text>>
<1> SUFFICES ASSUME Run PROVE UNCHANGED <<jitVars, text>>
  OBVIOUS
<1> USE DEF Fall, Go, GoAstray, Stray, Status, Returns
<1>1. CASE cpu_nop \/ cpu_movz \/ cpu_movk \/ cpu_adr \/ cpu_add \/ cpu_arithmetic
             \/ cpu_cmp \/ cpu_logic
  BY <1>1 DEF cpu_nop, cpu_movz, cpu_movk, cpu_adr, cpu_add, cpu_arithmetic, cpu_cmp,
              cpu_logic, Sets
<1>2. CASE cpu_ldr \/ cpu_str \/ cpu_ldp \/ cpu_stp
  BY <1>2 DEF cpu_ldr, cpu_str, cpu_ldp, cpu_stp
<1>3. CASE cpu_b \/ cpu_br \/ cpu_b_cond \/ cpu_ret \/ return_to_host
  BY <1>3 DEF cpu_b, cpu_br, cpu_b_cond, cpu_ret, return_to_host
<1>4. CASE \/ host_sys_enter(SYSCALL_DISPLAY_SINT) \/ host_sys_enter(SYSCALL_DISPLAY_UINT)
           \/ host_abort
  BY <1>4 DEF host_sys_enter, host_abort
<1> QED
  BY <1>1, <1>2, <1>3, <1>4 DEF Run

\* The JIT that writes native code and runs it does to its positions and mappings what
\* the translator of module Jit does, so that the theorems of that one are of it.
THEOREM Translator == Spec => JitSpec
<1>1. Init => JitInit
  BY DEF Init, NativeInit
<1>2. [Next]_vars => [JitNext]_jitVars
  BY RunKeepsText, TranslateSteps DEF Next, vars
<1> QED
  BY <1>1, <1>2, PTL DEF Spec, JitSpec

\* Every conditional jump of a program whose native code is within reach becomes a
\* branch to its target's code.
THEOREM BranchesReach == Spec => []BranchesKept
<1>1. JitInit => JitInv /\ Near
  BY JitInvInit, NearInit
<1>2. (JitInv /\ Near) /\ [JitNext]_jitVars => (JitInv /\ Near)'
  BY JitInvStep, NearStep
<1> QED
  BY <1>1, <1>2, NearKept, Translator, PTL DEF JitSpec
-----------------------------------------------------------------------------
\* What the constants of modules Jit and Native are for this back end: what a model of it
\* gives them.
IsA64 ==
  /\ vr2ar = A64vr2ar /\ Nop = A64Nop /\ Boot = A64Boot
  /\ StubAt = A64StubAt /\ Prologue = A64Prologue /\ Guard = A64Guard
  /\ \A at \in Nat : GuardCode(at) = emit_vm_exit_syscall_guard(at)
  /\ \A i \in Instr : Size(i) = A64Size(i) /\ Slots(i) = A64Slots(i)
  /\ \A i \in Instr, at \in Nat, to \in Nat \cup {Unmapped} : Emit(i, at, to) = A64Emit(i, at, to)

\* Native instructions by their fields, the names that occur and the operands.
OpName  == CondOp \cup {"nop", "movz", "movk", "adr", "add", "adds", "subs", "and", "orr", "eor",
                        "orn", "ldr", "str", "ldp", "stp", "b", "br", "blr", "ret"}
ModeName == {"offset", "pre", "post"}
Operand == [tag : {"num", "code", "stk", "junk", "fun", "dump"}, val : Int]
A64Ops == [op : OpName, rd : Int, rn : Int, rm : Int, mode : ModeName, val : Operand,
          d : Int, len : {4}]

\* Code of n native instructions.
Codes(n) == {s \in Seq(A64Ops) : Len(s) = n}

\* Every native instruction takes four bytes.
LEMMA Uniform ==
  ASSUME NEW ops \in Seq(A64Ops), NEW at \in Nat
  PROVE  /\ Bytes(ops) = 4 * Len(ops)
         /\ \A k \in 1 .. Len(ops) + 1 : Starts(ops, at)[k] = at + 4 * (k - 1)
<1> DEFINE n == Len(ops)
           s == Starts(ops, at)
<1>0. \A o \in A64Ops : o.len = 4
  BY DEF A64Ops
<1>1. Ops(A64Ops) /\ \A k \in 1 .. n : ops[k].len = 4
  BY <1>0 DEF Ops
<1>2. /\ n \in Nat /\ s \in [1 .. n + 1 -> Nat] /\ s[1] = at
      /\ \A k \in 1 .. n : s[k + 1] = s[k] + ops[k].len
  BY <1>1, StartsRec
<1>3. s[n + 1] = at + Bytes(ops) /\ Bytes(ops) \in Nat
  BY <1>1, StartsWithin
<1> HIDE DEF n, s
<1> DEFINE T == {k \in 1 .. n + 1 : s[k] = at + 4 * (k - 1)}
<1>4. 1 .. n + 1 \subseteq T
  <2>1. 1 \in T
    BY <1>2
  <2>2. ASSUME NEW k \in 1 .. n, k \in T PROVE k + 1 \in T
    <3>1. s[k + 1] = s[k] + 4
      BY <1>1, <1>2
    <3>2. k + 1 \in 1 .. n + 1 /\ k \in Nat
      BY <1>2
    <3> QED
      BY <2>2, <3>1, <3>2
  <2> HIDE DEF T
  <2> QED
    BY <1>2, <2>1, <2>2, IndexInduction
<1>5. Bytes(ops) = 4 * n
  <2>1. n + 1 \in T
    BY <1>2, <1>4
  <2> DEFINE c == Bytes(ops)
  <2> HIDE DEF c
  <2> QED
    BY <1>2, <1>3, <2>1 DEF c
<1> QED
  BY <1>4, <1>5 DEF n, s

\* Code after code.
LEMMA CodesConcat ==
  ASSUME NEW m \in Nat, NEW n \in Nat, NEW q \in Codes(m), NEW r \in Codes(n)
  PROVE  q \o r \in Codes(m + n)
BY DEF Codes

\* Code of one native instruction.
LEMMA CodesOne == ASSUME NEW o \in A64Ops PROVE <<o>> \in Codes(1)
BY DEF Codes

\* The native instruction with these fields.
Insn(op, mode, rd, rn, rm, val, d) ==
  [op |-> op, rd |-> rd, rn |-> rn, rm |-> rm, mode |-> mode, val |-> val, d |-> d, len |-> 4]

\* With fields that occur it is a native instruction.
LEMMA InsnIn ==
  ASSUME NEW op \in OpName, NEW mode \in ModeName, NEW rd \in Int, NEW rn \in Int, NEW rm \in Int,
         NEW val \in Operand, NEW d \in Int
  PROVE  Insn(op, mode, rd, rn, rm, val, d) \in A64Ops
BY DEF Insn, A64Ops

\* What each emit function of one native instruction writes.
LEMMA Singles ==
  ASSUME NEW w, NEW mode, NEW rd, NEW rn, NEW rm, NEW val, NEW d
  PROVE  /\ emit_rrr(w, rd, rn, rm) = <<Insn(w, "offset", rd, rn, rm, Junk, 0)>>
         /\ emit_add(rd, rn, d) = <<Insn("add", "offset", rd, rn, 0, Junk, d)>>
         /\ emit_adr(rd, d) = <<Insn("adr", "offset", rd, 0, 0, Junk, d)>>
         /\ emit_ls(w, mode, rd, rn, d) = <<Insn(w, mode, rd, rn, 0, Junk, d)>>
         /\ emit_stp_pre_idx(rd, rm, rn, d) = <<Insn("stp", "pre", rd, rn, rm, Junk, d)>>
         /\ emit_ldp_post_idx(rd, rm, rn, d) = <<Insn("ldp", "post", rd, rn, rm, Junk, d)>>
         /\ emit_to_reg(w, rn) = <<Insn(w, "offset", 0, rn, 0, Junk, 0)>>
         /\ emit_b(d) = <<Insn("b", "offset", 0, 0, 0, Junk, d)>>
         /\ A64Nop = Insn("nop", "offset", 0, 0, 0, Junk, 0)
<1>1. emit_rrr(w, rd, rn, rm) = <<Insn(w, "offset", rd, rn, rm, Junk, 0)>>
  <2> DEFINE o == [A64Nop EXCEPT !.op = w, !.rd = rd, !.rn = rn, !.rm = rm]
  <2>1. o \in [op : {w}, rd : {rd}, rn : {rn}, rm : {rm}, mode : {"offset"}, val : {Junk},
              d : {0}, len : {4}]
    BY DEF A64Nop
  <2>2. <<o>> = emit_rrr(w, rd, rn, rm)
    BY DEF emit_rrr
  <2> HIDE DEF o
  <2>3. o = Insn(w, "offset", rd, rn, rm, Junk, 0)
    BY <2>1 DEF Insn
  <2> QED
    BY <2>2, <2>3
<1>2. emit_add(rd, rn, d) = <<Insn("add", "offset", rd, rn, 0, Junk, d)>>
  <2> DEFINE o == [A64Nop EXCEPT !.op = "add", !.rd = rd, !.rn = rn, !.d = d]
  <2>1. o \in [op : {"add"}, rd : {rd}, rn : {rn}, rm : {0}, mode : {"offset"}, val : {Junk},
              d : {d}, len : {4}]
    BY DEF A64Nop
  <2>2. <<o>> = emit_add(rd, rn, d)
    BY DEF emit_add
  <2> HIDE DEF o
  <2>3. o = Insn("add", "offset", rd, rn, 0, Junk, d)
    BY <2>1 DEF Insn
  <2> QED
    BY <2>2, <2>3
<1>3. emit_adr(rd, d) = <<Insn("adr", "offset", rd, 0, 0, Junk, d)>>
  <2> DEFINE o == [A64Nop EXCEPT !.op = "adr", !.rd = rd, !.d = d]
  <2>1. o \in [op : {"adr"}, rd : {rd}, rn : {0}, rm : {0}, mode : {"offset"}, val : {Junk},
              d : {d}, len : {4}]
    BY DEF A64Nop
  <2>2. <<o>> = emit_adr(rd, d)
    BY DEF emit_adr
  <2> HIDE DEF o
  <2>3. o = Insn("adr", "offset", rd, 0, 0, Junk, d)
    BY <2>1 DEF Insn
  <2> QED
    BY <2>2, <2>3
<1>4. emit_ls(w, mode, rd, rn, d) = <<Insn(w, mode, rd, rn, 0, Junk, d)>>
  <2> DEFINE o == [A64Nop EXCEPT !.op = w, !.mode = mode, !.rd = rd, !.rn = rn, !.d = d]
  <2>1. o \in [op : {w}, rd : {rd}, rn : {rn}, rm : {0}, mode : {mode}, val : {Junk},
              d : {d}, len : {4}]
    BY DEF A64Nop
  <2>2. <<o>> = emit_ls(w, mode, rd, rn, d)
    BY DEF emit_ls
  <2> HIDE DEF o
  <2>3. o = Insn(w, mode, rd, rn, 0, Junk, d)
    BY <2>1 DEF Insn
  <2> QED
    BY <2>2, <2>3
<1>5. emit_stp_pre_idx(rd, rm, rn, d) = <<Insn("stp", "pre", rd, rn, rm, Junk, d)>>
  <2> DEFINE o == [A64Nop EXCEPT !.op = "stp", !.mode = "pre", !.rd = rd, !.rm = rm, !.rn = rn,
                  !.d = d]
  <2>1. o \in [op : {"stp"}, rd : {rd}, rn : {rn}, rm : {rm}, mode : {"pre"}, val : {Junk},
              d : {d}, len : {4}]
    BY DEF A64Nop
  <2>2. <<o>> = emit_stp_pre_idx(rd, rm, rn, d)
    BY DEF emit_stp_pre_idx
  <2> HIDE DEF o
  <2>3. o = Insn("stp", "pre", rd, rn, rm, Junk, d)
    BY <2>1 DEF Insn
  <2> QED
    BY <2>2, <2>3
<1>6. emit_ldp_post_idx(rd, rm, rn, d) = <<Insn("ldp", "post", rd, rn, rm, Junk, d)>>
  <2> DEFINE o == [A64Nop EXCEPT !.op = "ldp", !.mode = "post", !.rd = rd, !.rm = rm, !.rn = rn,
                  !.d = d]
  <2>1. o \in [op : {"ldp"}, rd : {rd}, rn : {rn}, rm : {rm}, mode : {"post"}, val : {Junk},
              d : {d}, len : {4}]
    BY DEF A64Nop
  <2>2. <<o>> = emit_ldp_post_idx(rd, rm, rn, d)
    BY DEF emit_ldp_post_idx
  <2> HIDE DEF o
  <2>3. o = Insn("ldp", "post", rd, rn, rm, Junk, d)
    BY <2>1 DEF Insn
  <2> QED
    BY <2>2, <2>3
<1>7. emit_to_reg(w, rn) = <<Insn(w, "offset", 0, rn, 0, Junk, 0)>>
  <2> DEFINE o == [A64Nop EXCEPT !.op = w, !.rn = rn]
  <2>1. o \in [op : {w}, rd : {0}, rn : {rn}, rm : {0}, mode : {"offset"}, val : {Junk},
              d : {0}, len : {4}]
    BY DEF A64Nop
  <2>2. <<o>> = emit_to_reg(w, rn)
    BY DEF emit_to_reg
  <2> HIDE DEF o
  <2>3. o = Insn(w, "offset", 0, rn, 0, Junk, 0)
    BY <2>1 DEF Insn
  <2> QED
    BY <2>2, <2>3
<1>8. emit_b(d) = <<Insn("b", "offset", 0, 0, 0, Junk, d)>>
  <2> DEFINE o == [A64Nop EXCEPT !.op = "b", !.d = d]
  <2>1. o \in [op : {"b"}, rd : {0}, rn : {0}, rm : {0}, mode : {"offset"}, val : {Junk},
              d : {d}, len : {4}]
    BY DEF A64Nop
  <2>2. <<o>> = emit_b(d)
    BY DEF emit_b
  <2> HIDE DEF o
  <2>3. o = Insn("b", "offset", 0, 0, 0, Junk, d)
    BY <2>1 DEF Insn
  <2> QED
    BY <2>2, <2>3
<1>9. A64Nop = Insn("nop", "offset", 0, 0, 0, Junk, 0)
  BY DEF A64Nop, Insn
<1> QED
  BY <1>1, <1>2, <1>3, <1>4, <1>5, <1>6, <1>7, <1>8, <1>9

\* The distance that a field keeps is a number.
LEMMA MaskedInt == ASSUME NEW d \in Int PROVE Masked(d) \in Int
<1>1. CondReach \in Nat /\ CondReach > 0 /\ 2 * CondReach \in Nat /\ 2 * CondReach > 0
  BY ReachAssumption
<1> DEFINE m == 2 * CondReach
           x == d + CondReach
<1>2. m \in Nat /\ m > 0 /\ x \in Int
  BY <1>1
<1>3. Masked(d) = (x % m) - CondReach
  BY DEF Masked
<1> HIDE DEF m, x
<1>4. x % m \in Int
  BY <1>2
<1> QED
  BY <1>1, <1>3, <1>4

\* An immediate of an instruction, a host address or a native address.
Imm(v) == v \in Operand /\ (v.tag = "num" => v.val \in Word)

\* So is a word read as a signed number.
LEMMA SignedInt == ASSUME NEW w \in Word PROVE Signed(w) \in Int
<1>1. WordMod \in Nat
  BY WidthAssumption DEF WordMod
<1> QED
  BY <1>1 DEF Signed, Word

\* A chunk has room for a bit.
LEMMA ChunkPositive == ChunkMod \in Nat /\ ChunkMod > 0
<1>1. ChunkMod \in Nat /\ ChunkMod * ChunkMod = HalfMod /\ HalfMod > 2
  BY ChunkAssumption, WidthAssumption
<1>2. ChunkMod # 0
  BY <1>1
<1> QED
  BY <1>1, <1>2

\* A chunk of a word is a number.
LEMMA ChunkInt == ASSUME NEW w \in Word, NEW k \in 0 .. 3 PROVE Chunk(w, k) \in Int
<1>1. ChunkMod \in Nat /\ ChunkMod > 0 /\ HalfMod \in Nat /\ HalfMod > 0 /\ WordMod \in Nat
  BY ChunkPositive, WidthAssumption DEF WordMod
<1>2. HalfMod * ChunkMod \in Nat /\ HalfMod * ChunkMod > 0
  BY <1>1, SMTT(30)
<1> DEFINE x == Weight[k + 1]
<1>3. x \in Nat /\ x > 0
  <2>1. k = 0 \/ k = 1 \/ k = 2 \/ k = 3
    OBVIOUS
  <2> QED
    BY <1>1, <1>2, <2>1 DEF Weight
<1> HIDE DEF x
<1>4. w \div x \in Int
  BY <1>1, <1>3 DEF Word
<1> DEFINE y == w \div x
<1> HIDE DEF y
<1>5. y % ChunkMod \in Int
  BY <1>1, <1>4 DEF y
<1> QED
  BY <1>5 DEF Chunk, x, y

\* It takes from one to four words.
LEMMA PartsRange == ASSUME NEW v, Imm(v) PROVE Parts(v) \in 1 .. 4
<1>1. CASE v.tag # "num"
  BY <1>1, PartsAssumption DEF Parts
<1>2. CASE v.tag = "num"
  <2> DEFINE q(n) == Signed(v.val) \div Weight[n + 1]
             ok(n) == (n < 4 => q(n) = 0) /\ \A k \in 1 .. n - 1 : q(k) # 0
  <2>1. Parts(v) = CHOOSE n \in 1 .. 4 : ok(n)
    BY <1>2 DEF Parts
  <2>2. \E n \in 1 .. 4 : ok(n)
    <3> HIDE DEF q
    <3>1. CASE q(1) = 0
      BY <3>1
    <3>2. CASE q(1) # 0 /\ q(2) = 0
      BY <3>2
    <3>3. CASE q(1) # 0 /\ q(2) # 0 /\ q(3) = 0
      <4>1. \A k \in 1 .. 3 - 1 : k = 1 \/ k = 2
        OBVIOUS
      <4>2. ok(3)
        BY <3>3, <4>1
      <4> QED
        BY <4>2
    <3>4. CASE q(1) # 0 /\ q(2) # 0 /\ q(3) # 0
      <4>1. \A k \in 1 .. 4 - 1 : k = 1 \/ k = 2 \/ k = 3
        OBVIOUS
      <4>2. ok(4)
        BY <3>4, <4>1
      <4> QED
        BY <4>2
    <3> QED
      BY <3>1, <3>2, <3>3, <3>4
  <2> HIDE DEF ok
  <2> QED
    BY <2>1, <2>2
<1> QED
  BY <1>1, <1>2

\* What it writes of v with its word k.
MovOp(k)     == IF k = 1 THEN "movz" ELSE "movk"
MovVal(v, k) == IF v.tag = "num" THEN Num(Chunk(v.val, k - 1)) ELSE v

\* The movz and the movk of an immediate.
LEMMA MovCode ==
  ASSUME NEW r \in Int, NEW v, Imm(v)
  PROVE  /\ emit_mov_reg_imm(r, v) \in Codes(Parts(v))
         /\ \A k \in 1 .. Parts(v) :
               emit_mov_reg_imm(r, v)[k] = Insn(MovOp(k), "offset", r, 0, 0, MovVal(v, k), k - 1)
<1> DEFINE n == Parts(v)
           m == emit_mov_reg_imm(r, v)
<1>1. n \in 1 .. 4
  BY PartsRange
<1>2. m = [k \in 1 .. n |-> Insn(MovOp(k), "offset", r, 0, 0, MovVal(v, k), k - 1)]
  <2>1. \A k : [A64Nop EXCEPT !.op = MovOp(k), !.rd = r, !.d = k - 1, !.val = MovVal(v, k)]
                 = Insn(MovOp(k), "offset", r, 0, 0, MovVal(v, k), k - 1)
    <3> TAKE k
    <3> DEFINE w == MovOp(k)
               x == MovVal(v, k)
               d == k - 1
    <3> DEFINE o == [A64Nop EXCEPT !.op = w, !.rd = r, !.d = d, !.val = x]
    <3> HIDE DEF w, x, d
    <3>1. o \in [op : {w}, rd : {r}, rn : {0}, rm : {0}, mode : {"offset"}, val : {x}, d : {d},
                len : {4}]
      BY DEF A64Nop
    <3> HIDE DEF o
    <3>2. o = Insn(w, "offset", r, 0, 0, x, d)
      BY <3>1 DEF Insn
    <3> QED
      BY <3>2 DEF o, w, x, d
  <2> QED
    BY <2>1 DEF emit_mov_reg_imm, MovOp, MovVal
<1>3. ASSUME NEW k \in 1 .. n
      PROVE  Insn(MovOp(k), "offset", r, 0, 0, MovVal(v, k), k - 1) \in A64Ops
  <2>1. MovOp(k) \in OpName /\ "offset" \in ModeName
    BY DEF MovOp, OpName, ModeName
  <2>2. MovVal(v, k) \in Operand
    <3>1. CASE v.tag = "num"
      <4>1. Chunk(v.val, k - 1) \in Int
        BY <1>1, <3>1, ChunkInt DEF Imm
      <4> QED
        BY <3>1, <4>1 DEF MovVal, Num, Operand
    <3>2. CASE v.tag # "num"
      BY <3>2 DEF MovVal, Imm
    <3> QED
      BY <3>1, <3>2
  <2>3. k - 1 \in Int
    BY <1>1
  <2> QED
    BY <2>1, <2>2, <2>3, InsnIn
<1> HIDE DEF m, n
<1> QED
  BY <1>1, <1>2, <1>3 DEF Codes, m, n

\* The registers of the VM are none of those that the code keeps for itself.
LEMMA RegNumber ==
  ASSUME NEW r \in Reg PROVE A64vr2ar[r] \in 12 .. 28 /\ (A64vr2ar[r] = 28 <=> r = "SP")
BY DEF A64vr2ar, Reg, GPR

\* What wraps is a word.
LEMMA WrapWord == ASSUME NEW n \in Int PROVE Wrap(n) \in Word
<1>1. WordMod \in Nat /\ WordMod > 0
  <2>1. HalfMod \in Nat /\ HalfMod > 0
    BY WidthAssumption
  <2> QED
    BY <2>1, SMTT(30) DEF WordMod
<1> DEFINE m == WordMod
<1> HIDE DEF m
<1>2. n % m \in 0 .. m - 1
  BY <1>1 DEF m
<1> QED
  BY <1>2 DEF Wrap, Word, m

\* A word is an immediate.
LEMMA NumImm == ASSUME NEW w \in Word PROVE Imm(Num(w))
BY DEF Imm, Num, Operand, Word

\* A native address is an immediate, which takes AddrParts words whatever it is.
LEMMA CodeImm == ASSUME NEW x \in Int PROVE Imm(Code(x)) /\ Parts(Code(x)) = AddrParts
BY DEF Imm, Code, Operand, Parts

\* How many words the code of the instruction i takes.
Count(i) ==
  CASE i.op \in {"LOAD", "STORE"} -> Parts(Num(Wrap(i.idx))) + 2
    [] i.op = "MOV" /\ i.am = "IMM" -> Parts(Num(i.imm))
    [] i.op \in (MoveOp \ {"MOV"}) \cup {"CMP"} /\ i.am = "IMM" -> Parts(Num(i.imm)) + 1
    [] i.op \in MoveOp \cup {"CMP"} /\ i.am = "REG" -> 1
    [] i.op = "CALL" -> 7
    [] i.op = "RET"  -> 2
    [] i.op = "JMP"  -> AddrParts + 1
    [] i.op \in CondOp \cup {"NOT", "PUSH", "POP"} -> 1

\* The emit functions of one native instruction.
LEMMA OneCode ==
  ASSUME NEW op \in OpName, NEW mode \in ModeName, NEW rd \in Int, NEW rn \in Int, NEW rm \in Int,
         NEW d \in Int
  PROVE  /\ emit_rrr(op, rd, rn, rm) \in Codes(1)
         /\ emit_add(rd, rn, d) \in Codes(1)
         /\ emit_adr(rd, d) \in Codes(1)
         /\ emit_ls(op, mode, rd, rn, d) \in Codes(1)
         /\ emit_stp_pre_idx(rd, rm, rn, d) \in Codes(1)
         /\ emit_ldp_post_idx(rd, rm, rn, d) \in Codes(1)
         /\ emit_to_reg(op, rn) \in Codes(1)
         /\ emit_b(d) \in Codes(1)
         /\ A64Nop \in A64Ops
<1>1. /\ Junk \in Operand /\ "offset" \in ModeName /\ "pre" \in ModeName /\ "post" \in ModeName
      /\ {"add", "adr", "stp", "ldp", "b", "nop"} \subseteq OpName
  BY DEF Junk, Operand, ModeName, OpName
<1>2. /\ emit_rrr(op, rd, rn, rm) = <<Insn(op, "offset", rd, rn, rm, Junk, 0)>>
      /\ emit_add(rd, rn, d) = <<Insn("add", "offset", rd, rn, 0, Junk, d)>>
      /\ emit_adr(rd, d) = <<Insn("adr", "offset", rd, 0, 0, Junk, d)>>
      /\ emit_ls(op, mode, rd, rn, d) = <<Insn(op, mode, rd, rn, 0, Junk, d)>>
      /\ emit_stp_pre_idx(rd, rm, rn, d) = <<Insn("stp", "pre", rd, rn, rm, Junk, d)>>
      /\ emit_ldp_post_idx(rd, rm, rn, d) = <<Insn("ldp", "post", rd, rn, rm, Junk, d)>>
      /\ emit_to_reg(op, rn) = <<Insn(op, "offset", 0, rn, 0, Junk, 0)>>
      /\ emit_b(d) = <<Insn("b", "offset", 0, 0, 0, Junk, d)>>
      /\ A64Nop = Insn("nop", "offset", 0, 0, 0, Junk, 0)
  BY Singles
<1>3. /\ Insn(op, "offset", rd, rn, rm, Junk, 0) \in A64Ops
      /\ Insn("add", "offset", rd, rn, 0, Junk, d) \in A64Ops
      /\ Insn("adr", "offset", rd, 0, 0, Junk, d) \in A64Ops
      /\ Insn(op, mode, rd, rn, 0, Junk, d) \in A64Ops
      /\ Insn("stp", "pre", rd, rn, rm, Junk, d) \in A64Ops
      /\ Insn("ldp", "post", rd, rn, rm, Junk, d) \in A64Ops
      /\ Insn(op, "offset", 0, rn, 0, Junk, 0) \in A64Ops
      /\ Insn("b", "offset", 0, 0, 0, Junk, d) \in A64Ops
      /\ Insn("nop", "offset", 0, 0, 0, Junk, 0) \in A64Ops
  BY <1>1, InsnIn
<1> QED
  BY <1>2, <1>3, CodesOne

\* A conditional branch.
LEMMA CondCode ==
  ASSUME NEW op \in CondOp, NEW d \in Int
  PROVE  /\ emit_b_cond(op, d) = <<Insn(op, "offset", 0, 0, 0, Junk, Masked(d))>>
         /\ emit_b_cond(op, d) \in Codes(1)
<1> DEFINE x == Masked(d)
           o == [A64Nop EXCEPT !.op = op, !.d = x]
<1>1. emit_b_cond(op, d) = <<o>> /\ x \in Int
  BY MaskedInt DEF emit_b_cond
<1> HIDE DEF x
<1>2. o \in [op : {op}, rd : {0}, rn : {0}, rm : {0}, mode : {"offset"}, val : {Junk}, d : {x},
             len : {4}]
  BY DEF A64Nop
<1> HIDE DEF o
<1>3. o = Insn(op, "offset", 0, 0, 0, Junk, x)
  BY <1>2 DEF Insn
<1>4. o \in A64Ops
  <2>1. op \in OpName /\ "offset" \in ModeName /\ Junk \in Operand
    BY DEF OpName, ModeName, Operand, Junk
  <2> QED
    BY <1>1, <1>3, <2>1, InsnIn
<1> QED
  BY <1>1, <1>3, <1>4, CodesOne DEF x

\* A CALL is seven words long whatever its target.
LEMMA CallCodes ==
  ASSUME NEW to \in Int PROVE emit_call(Code(to)) \in Codes(7)
<1> DEFINE m == emit_mov_reg_imm(Scratch, Code(to))
           n == [k \in 1 .. 4 - Len(m) |-> A64Nop]
<1>1. /\ Imm(Code(to)) /\ Parts(Code(to)) = AddrParts /\ AddrParts \in 1 .. 4
      /\ Scratch \in Int /\ VmSP \in Int
  BY CodeImm, PartsAssumption DEF Scratch, VmSP, A64vr2ar
<1>2. m \in Codes(AddrParts) /\ Len(m) = AddrParts
  BY <1>1, MovCode DEF Codes
<1> HIDE DEF m
<1>3. n \in Codes(4 - AddrParts)
  <2>1. A64Nop \in A64Ops
    BY OneCode DEF OpName, ModeName
  <2> QED
    BY <1>1, <1>2, <2>1 DEF Codes
<1> HIDE DEF n
<1>4. /\ emit_adr(Scratch, 28) \in Codes(1) /\ emit_push_reg(Scratch) \in Codes(1)
      /\ emit_to_reg("br", Scratch) \in Codes(1)
  <2>1. {"br", "str"} \subseteq OpName /\ "pre" \in ModeName
    BY DEF OpName, ModeName
  <2> QED
    BY <1>1, <2>1, OneCode DEF emit_push_reg
<1>5. emit_adr(Scratch, 28) \o emit_push_reg(Scratch) \in Codes(1 + 1)
  BY <1>4, CodesConcat
<1>6. (emit_adr(Scratch, 28) \o emit_push_reg(Scratch)) \o m \in Codes(2 + AddrParts)
  BY <1>1, <1>2, <1>5, CodesConcat
<1>7. ((emit_adr(Scratch, 28) \o emit_push_reg(Scratch)) \o m) \o n \in Codes(6)
  <2>1. 2 + AddrParts \in Nat /\ 4 - AddrParts \in Nat
        /\ (2 + AddrParts) + (4 - AddrParts) = 6
    BY <1>1
  <2> QED
    BY <1>3, <1>6, <2>1, CodesConcat
<1>8. (((emit_adr(Scratch, 28) \o emit_push_reg(Scratch)) \o m) \o n)
         \o emit_to_reg("br", Scratch) \in Codes(6 + 1)
  BY <1>4, <1>7, CodesConcat
<1> QED
  BY <1>8 DEF emit_call, m, n

\* The code of an instruction takes as many words wherever it is and wherever it goes.
LEMMA EmitCodes ==
  ASSUME NEW i \in Instr, NEW at \in Nat, NEW to \in Nat \cup {Unmapped}
  PROVE  A64Emit(i, at, to) \in Codes(Count(i)) /\ Count(i) \in 1 .. 7
<1> DEFINE d == A64vr2ar[i.dst]
           s == A64vr2ar[i.src]
<1>1. /\ d \in Int /\ s \in Int /\ i.idx \in Int /\ i.imm \in Word /\ i.op \in Opcode
      /\ i.am \in Mode /\ to \in Int /\ to - at \in Int
      /\ Scratch \in Int /\ VmSP \in Int /\ ZR \in Int /\ LR \in Int
  BY RegNumber DEF Instr, Unmapped, Scratch, VmSP, ZR, LR, A64vr2ar
<1>2. /\ Imm(Num(Wrap(i.idx))) /\ Imm(Num(i.imm)) /\ Imm(Code(to))
      /\ Parts(Num(Wrap(i.idx))) \in 1 .. 4 /\ Parts(Num(i.imm)) \in 1 .. 4
      /\ Parts(Code(to)) = AddrParts /\ AddrParts \in 1 .. 4
  BY <1>1, NumImm, CodeImm, WrapWord, PartsRange, PartsAssumption
<1>3. /\ {"adds", "subs", "and", "orr", "eor", "orn", "ldr", "str", "br", "ret"} \subseteq OpName
      /\ ModeName = {"offset", "pre", "post"}
  BY DEF OpName, ModeName
<1>0. /\ "orn" \in OpName /\ "subs" \in OpName /\ "str" \in OpName /\ "ldr" \in OpName
      /\ "offset" \in ModeName /\ "pre" \in ModeName /\ "post" \in ModeName
      /\ -8 \in Int /\ 8 \in Int
  BY <1>3
<1> USE DEF MoveOp, CondOp, Operation
<1>4. CASE i.op = "LOAD" \/ i.op = "STORE"
  <2> DEFINE x == Parts(Num(Wrap(i.idx)))
  <2>1. /\ emit_mov_reg_imm(Scratch, Num(Wrap(i.idx))) \in Codes(x)
        /\ \A b \in Int : emit_rrr("adds", Scratch, b, Scratch) \in Codes(1)
        /\ x \in Nat
    <3>1. emit_mov_reg_imm(Scratch, Num(Wrap(i.idx))) \in Codes(x)
      BY <1>1, <1>2, MovCode
    <3>2. \A b \in Int : emit_rrr("adds", Scratch, b, Scratch) \in Codes(1)
      BY <1>1, <1>3, OneCode
    <3> QED
      BY <1>2, <3>1, <3>2
  <2>2. \A b \in Int : Address(b, i.idx) \in Codes(x + 1)
    BY <2>1, CodesConcat DEF Address
  <2>3. \A op \in OpName, r \in Int : emit_ls(op, "offset", r, Scratch, 0) \in Codes(1)
    BY <1>1, <1>3, OneCode
  <2>4. \A b \in Int, op \in OpName, r \in Int :
           Address(b, i.idx) \o emit_ls(op, "offset", r, Scratch, 0) \in Codes((x + 1) + 1)
    BY <2>1, <2>2, <2>3, CodesConcat
  <2>5. (x + 1) + 1 = x + 2 /\ x + 2 \in 1 .. 7
    BY <1>2
  <2>6. Count(i) = x + 2
    BY <1>4 DEF Count
  <2> HIDE DEF x
  <2>7. CASE i.op = "LOAD"
    <3>1. A64Emit(i, at, to) = Address(s, i.idx) \o emit_ls("ldr", "offset", d, Scratch, 0)
      BY <2>7 DEF A64Emit
    <3> QED
      BY <1>1, <1>3, <2>4, <2>5, <2>6, <3>1
  <2>8. CASE i.op = "STORE"
    <3>1. A64Emit(i, at, to) = Address(d, i.idx) \o emit_ls("str", "offset", s, Scratch, 0)
      BY <2>8 DEF A64Emit
    <3> QED
      BY <1>1, <1>3, <2>4, <2>5, <2>6, <3>1
  <2> QED
    BY <1>4, <2>7, <2>8
<1>5. CASE i.op \in MoveOp \cup {"CMP"} /\ i.am = "REG"
  <2>1. Count(i) = 1
    BY <1>5 DEF Count
  <2>2. CASE i.op = "MOV"
    <3>1. A64Emit(i, at, to) = emit_rrr("orr", d, ZR, s)
      BY <1>5, <2>2 DEF A64Emit, emit_mov_reg_reg
    <3>2. emit_rrr("orr", d, ZR, s) \in Codes(1)
      BY <1>1, <1>3, OneCode
    <3> QED
      BY <2>1, <3>1, <3>2
  <2>3. CASE i.op = "CMP"
    <3>1. A64Emit(i, at, to) = emit_rrr("subs", ZR, d, s)
      BY <1>5, <2>3 DEF A64Emit
    <3>2. emit_rrr("subs", ZR, d, s) \in Codes(1)
      BY <1>0, <1>1, OneCode
    <3> QED
      BY <2>1, <3>1, <3>2
  <2>4. CASE i.op \notin {"MOV", "CMP"}
    <3>1. /\ i.op \in DOMAIN Operation /\ Operation[i.op] \in OpName
          /\ A64Emit(i, at, to) = emit_rrr(Operation[i.op], d, d, s)
      BY <1>5, <2>4, <1>3 DEF A64Emit
    <3> QED
      BY <1>1, <1>3, <2>1, <3>1, OneCode
  <2> QED
    BY <2>2, <2>3, <2>4
<1>6. CASE i.op \in MoveOp \cup {"CMP"} /\ i.am = "IMM"
  <2> DEFINE x == Parts(Num(i.imm))
  <2>1. \A r \in Int : emit_mov_reg_imm(r, Num(i.imm)) \in Codes(x)
    BY <1>2, MovCode
  <2>2. x \in 1 .. 4
    BY <1>2
  <2>3. CASE i.op = "MOV"
    <3>1. Count(i) = x /\ A64Emit(i, at, to) = emit_mov_reg_imm(d, Num(i.imm))
      BY <1>6, <2>3 DEF A64Emit, Count
    <3> HIDE DEF x
    <3> QED
      BY <1>1, <2>1, <2>2, <3>1
  <2>4. CASE i.op # "MOV"
    <3>1. Count(i) = x + 1
      BY <1>6, <2>4 DEF Count
    <3>2. \E op \in OpName, r \in Int, q \in Int :
             A64Emit(i, at, to) = emit_mov_reg_imm(Scratch, Num(i.imm))
                                    \o emit_rrr(op, r, q, Scratch)
      <4>1. CASE i.op = "CMP"
        <5>1. A64Emit(i, at, to) = emit_mov_reg_imm(Scratch, Num(i.imm))
                                    \o emit_rrr("subs", ZR, d, Scratch)
          BY <1>6, <4>1 DEF A64Emit, emit_cmp_reg_imm
        <5> QED
          BY <1>1, <1>3, <5>1
      <4>2. CASE i.op # "CMP"
        <5>1. /\ i.op \in DOMAIN Operation /\ Operation[i.op] \in OpName
              /\ A64Emit(i, at, to) = emit_mov_reg_imm(Scratch, Num(i.imm))
                                        \o emit_rrr(Operation[i.op], d, d, Scratch)
          BY <1>6, <2>4, <4>2, <1>3 DEF A64Emit
        <5> QED
          BY <1>1, <5>1
      <4> QED
        BY <4>1, <4>2
    <3>3. PICK op \in OpName, r \in Int, q \in Int :
             A64Emit(i, at, to) = emit_mov_reg_imm(Scratch, Num(i.imm))
                                    \o emit_rrr(op, r, q, Scratch)
      BY <3>2
    <3>4. emit_rrr(op, r, q, Scratch) \in Codes(1)
      BY <1>1, <1>3, OneCode
    <3> HIDE DEF x
    <3>5. x \in Nat /\ x + 1 \in 1 .. 7
      BY <2>2
    <3> QED
      BY <1>1, <2>1, <3>1, <3>3, <3>4, <3>5, CodesConcat
  <2> QED
    BY <2>3, <2>4
<1>7. CASE i.op = "NOT" \/ i.op = "PUSH" \/ i.op = "POP"
  <2>1. Count(i) = 1
    BY <1>7 DEF Count
  <2>2. \/ A64Emit(i, at, to) = emit_rrr("orn", d, ZR, d)
        \/ A64Emit(i, at, to) = emit_ls("str", "pre", d, VmSP, -8)
        \/ A64Emit(i, at, to) = emit_ls("ldr", "post", d, VmSP, 8)
    BY <1>7 DEF A64Emit, emit_push_reg, emit_pop_reg
  <2>3. /\ emit_rrr("orn", d, ZR, d) \in Codes(1)
        /\ emit_ls("str", "pre", d, VmSP, -8) \in Codes(1)
        /\ emit_ls("ldr", "post", d, VmSP, 8) \in Codes(1)
    BY <1>0, <1>1, OneCode
  <2> QED
    BY <2>1, <2>2, <2>3
<1>8. CASE i.op = "CALL"
  <2>1. Count(i) = 7 /\ A64Emit(i, at, to) = emit_call(Code(to))
    BY <1>8 DEF Count, A64Emit
  <2> QED
    BY <1>1, <2>1, CallCodes
<1>9. CASE i.op = "RET"
  <2>1. Count(i) = 2
    BY <1>9 DEF Count
  <2>2. A64Emit(i, at, to) = emit_ls("ldr", "post", LR, VmSP, 8) \o emit_to_reg("ret", LR)
    BY <1>9 DEF A64Emit, emit_pop_reg, emit_ret
  <2>3. /\ emit_ls("ldr", "post", LR, VmSP, 8) \in Codes(1)
        /\ emit_to_reg("ret", LR) \in Codes(1)
    BY <1>1, <1>3, OneCode
  <2>4. A64Emit(i, at, to) \in Codes(1 + 1)
    BY <2>2, <2>3, CodesConcat
  <2> QED
    BY <2>1, <2>4
<1>10. CASE i.op = "JMP"
  <2>1. Count(i) = AddrParts + 1
    BY <1>10 DEF Count
  <2>2. A64Emit(i, at, to) = emit_mov_reg_imm(Scratch, Code(to)) \o emit_to_reg("br", Scratch)
    BY <1>10 DEF A64Emit
  <2>3. /\ emit_mov_reg_imm(Scratch, Code(to)) \in Codes(AddrParts)
        /\ emit_to_reg("br", Scratch) \in Codes(1) /\ AddrParts \in Nat
        /\ AddrParts + 1 \in 1 .. 7
    BY <1>1, <1>2, <1>3, OneCode, MovCode
  <2> QED
    BY <2>1, <2>2, <2>3, CodesConcat
<1>11. CASE i.op \in CondOp
  <2>1. Count(i) = 1 /\ A64Emit(i, at, to) = emit_b_cond(i.op, to - at)
    BY <1>11 DEF Count, A64Emit
  <2> QED
    BY <1>1, <1>11, <2>1, CondCode
<1> QED
  BY <1>1, <1>4, <1>5, <1>6, <1>7, <1>8, <1>9, <1>10, <1>11 DEF Opcode, BranchOp, Mode
-----------------------------------------------------------------------------
\* The code of the words f, one of each of rs.
StorePairs == [k \in 1 .. 5 |->
                 Insn("stp", "pre", EntryPairs[k][1], HostSP, EntryPairs[k][2], Junk, -16)]
LoadPairs  == [k \in 1 .. 5 |->
                 Insn("ldp", "post", ExitPairs[k][1], HostSP, ExitPairs[k][2], Junk, 16)]
DumpStores == [k \in 1 .. 14 |-> Insn("str", "post", A64vr2ar[DumpOrder[k]], Scratch, 0, Junk, 8)]
Clears     == [k \in 1 .. 13 |-> Insn("movz", "offset", A64vr2ar[DumpOrder[k]], 0, 0, Num(0), 0)]

\* The pairs of the host's registers that are stored and loaded.
LEMMA PairCodes ==
  /\ StorePairs \in Codes(5) /\ Each(Stored, EntryPairs) = StorePairs
  /\ LoadPairs \in Codes(5) /\ Each(Loaded, ExitPairs) = LoadPairs
<1>1. /\ EntryPairs \in Seq(Seq(Int)) /\ Len(EntryPairs) = 5 /\ DOMAIN EntryPairs = 1 .. 5
      /\ ExitPairs \in Seq(Seq(Int)) /\ Len(ExitPairs) = 5 /\ DOMAIN ExitPairs = 1 .. 5
      /\ \A k \in 1 .. 5 : /\ EntryPairs[k][1] \in Int /\ EntryPairs[k][2] \in Int
                           /\ ExitPairs[k][1] \in Int /\ ExitPairs[k][2] \in Int
  BY DEF EntryPairs, ExitPairs
<1>2. /\ Junk \in Operand /\ HostSP \in Int /\ {"stp", "ldp"} \subseteq OpName
      /\ {"pre", "post"} \subseteq ModeName
  BY DEF Junk, Operand, HostSP, OpName, ModeName
<1>3. ASSUME NEW k \in 1 .. 5
      PROVE  /\ Insn("stp", "pre", EntryPairs[k][1], HostSP, EntryPairs[k][2], Junk, -16) \in A64Ops
             /\ Insn("ldp", "post", ExitPairs[k][1], HostSP, ExitPairs[k][2], Junk, 16) \in A64Ops
  <2>1. /\ EntryPairs[k][1] \in Int /\ EntryPairs[k][2] \in Int
        /\ ExitPairs[k][1] \in Int /\ ExitPairs[k][2] \in Int 
    BY <1>1
  <2>2. -16 \in Int /\ 16 \in Int
    OBVIOUS
  <2>3. "stp" \in OpName /\ "ldp" \in OpName /\ "pre" \in ModeName /\ "post" \in ModeName
    BY <1>2
  <2> QED
    BY <1>2, <2>1, <2>2, <2>3, InsnIn
<1>4. StorePairs \in Codes(5) /\ LoadPairs \in Codes(5)
  BY <1>3 DEF StorePairs, LoadPairs, Codes
<1>5. \A k \in 1 .. 5 : Stored(EntryPairs[k]) = <<StorePairs[k]>>
  BY SMTT(30), Singles DEF Stored, StorePairs
<1>6. \A k \in 1 .. 5 : Loaded(ExitPairs[k]) = <<LoadPairs[k]>>
  BY SMTT(30), Singles DEF Loaded, LoadPairs
<1> DEFINE p == [k \in DOMAIN EntryPairs |-> Stored(EntryPairs[k])]
           q == [k \in DOMAIN ExitPairs |-> Loaded(ExitPairs[k])]
<1>7. Len(p) = 5 /\ \A k \in 1 .. 5 : p[k] = <<StorePairs[k]>>
  BY <1>1, <1>5
<1>8. Len(q) = 5 /\ \A k \in 1 .. 5 : q[k] = <<LoadPairs[k]>>
  BY <1>1, <1>6
<1>9. Each(Stored, EntryPairs) = Joined(p) /\ Each(Loaded, ExitPairs) = Joined(q)
  BY DEF Each
<1> HIDE DEF p, q
<1>10. Joined(p) = StorePairs /\ Joined(q) = LoadPairs
  BY <1>4, <1>7, <1>8, JoinedOnes DEF Codes
<1> QED
  BY <1>4, <1>9, <1>10

\* The fourteen registers of reg_dump_area.
LEMMA DumpNames == /\ Len(DumpOrder) = 14 /\ DOMAIN DumpOrder = 1 .. 14
                   /\ \A k \in 1 .. 14 : DumpOrder[k] \in Reg
                   /\ Len(SubSeq(DumpOrder, 1, 13)) = 13
                   /\ DOMAIN SubSeq(DumpOrder, 1, 13) = 1 .. 13
                   /\ \A k \in 1 .. 13 : SubSeq(DumpOrder, 1, 13)[k] = DumpOrder[k]
<1>1. /\ Len(DumpOrder) = 14 /\ DOMAIN DumpOrder = 1 .. 14
      /\ \A k \in 1 .. 14 : DumpOrder[k] \in Reg
  BY DEF DumpOrder, Reg, GPR
<1>2. DumpOrder \in Seq(Reg)
  BY DEF DumpOrder, Reg, GPR
<1> QED
  BY <1>1, <1>2

\* No chunk counts for nothing.
LEMMA WeightPositive == \A k \in 1 .. 4 : Weight[k] \in Nat /\ Weight[k] > 0
<1>1. ChunkMod \in Nat /\ ChunkMod > 0 /\ HalfMod \in Nat /\ HalfMod > 0
  BY ChunkPositive, WidthAssumption
<1>2. HalfMod * ChunkMod \in Nat /\ HalfMod * ChunkMod > 0
  BY <1>1, SMTT(30)
<1> SUFFICES ASSUME NEW k \in 1 .. 4 PROVE Weight[k] \in Nat /\ Weight[k] > 0
  OBVIOUS
<1>3. k = 1 \/ k = 2 \/ k = 3 \/ k = 4
  OBVIOUS
<1> QED
  BY <1>1, <1>2, <1>3 DEF Weight

\* Zero takes one word.
LEMMA ZeroPart == Imm(Num(0)) /\ Parts(Num(0)) = 1
<1>1. 0 \in Word
  <2>1. HalfMod \in Nat /\ HalfMod > 0
    BY WidthAssumption
  <2>2. HalfMod * HalfMod > 0
    BY <2>1, SMTT(30)
  <2> QED
    BY <2>1, <2>2 DEF Word, WordMod
<1>2. Imm(Num(0))
  BY <1>1, NumImm
<1>3. Signed(0) = 0
  <2>1. WordMod \in Nat /\ WordMod >= 2
    <3>1. HalfMod \in Nat /\ HalfMod > 2
      BY WidthAssumption
    <3>2. HalfMod * HalfMod >= 2
      BY <3>1, SMTT(30)
    <3> QED
      BY <3>1, <3>2 DEF WordMod
  <2> DEFINE w == WordMod
  <2> HIDE DEF w
  <2>2. 0 < w \div 2
    BY <2>1 DEF w
  <2> QED
    BY <2>2 DEF Signed, w
<1>4. ASSUME NEW k \in 1 .. 3 PROVE 0 \div Weight[k + 1] = 0
  <2>1. Weight[k + 1] \in Nat /\ Weight[k + 1] > 0
    BY WeightPositive
  <2> DEFINE w == Weight[k + 1]
  <2> HIDE DEF w
  <2>2. 0 \div w = 0
    BY <2>1 DEF w
  <2> QED
    BY <2>2 DEF w
<1>5. Num(0).tag = "num" /\ Num(0).val = 0
  BY DEF Num
<1> DEFINE ok(n) == /\ n < 4 => Signed(Num(0).val) \div Weight[n + 1] = 0
                    /\ \A k \in 1 .. n - 1 : Signed(Num(0).val) \div Weight[k + 1] # 0
<1>6. ok(1)
  BY <1>3, <1>4, <1>5
<1>7. ASSUME NEW n \in 1 .. 4, ok(n) PROVE n = 1
  <2>1. CASE n = 1
    BY <2>1
  <2>2. CASE n # 1
    <3>1. 1 \in 1 .. n - 1 /\ 1 \in 1 .. 3
      BY <2>2
    <3> QED
      BY <1>3, <1>4, <1>5, <1>7, <3>1
  <2> QED
    BY <2>1, <2>2
<1>8. Parts(Num(0)) = CHOOSE n \in 1 .. 4 : ok(n)
  BY <1>5 DEF Parts
<1> HIDE DEF ok
<1>9. Parts(Num(0)) = 1
  BY <1>6, <1>7, <1>8
<1> QED
  BY <1>2, <1>9

\* The registers of the VM saved to reg_dump_area, and cleared.
LEMMA ClearCodes ==
  /\ DumpStores \in Codes(14) /\ emit_vm_reg_save_seq =
                                   emit_mov_reg_imm(Scratch, DumpSlot(0)) \o DumpStores
  /\ Clears \in Codes(13) /\ emit_reg_init = Clears \o emit_mov_reg_imm(VmSP, Stk(0))
<1>1. ASSUME NEW k \in 1 .. 14
      PROVE  /\ Insn("str", "post", A64vr2ar[DumpOrder[k]], Scratch, 0, Junk, 8) \in A64Ops
             /\ Insn("movz", "offset", A64vr2ar[DumpOrder[k]], 0, 0, Num(0), 0) \in A64Ops
             /\ A64vr2ar[DumpOrder[k]] \in Int
  <2>1. A64vr2ar[DumpOrder[k]] \in Int /\ Scratch \in Int
    BY DumpNames, RegNumber DEF Scratch
  <2>2. /\ Junk \in Operand /\ Num(0) \in Operand /\ "str" \in OpName /\ "movz" \in OpName
        /\ "post" \in ModeName /\ "offset" \in ModeName
    BY DEF Junk, Num, Operand, OpName, ModeName
  <2> QED
    BY <2>1, <2>2, InsnIn
<1>2. DumpStores \in Codes(14) /\ Clears \in Codes(13)
  BY <1>1 DEF DumpStores, Clears, Codes
<1> DEFINE st(r) == emit_ls("str", "post", A64vr2ar[r], Scratch, 8)
           cl(r) == emit_mov_reg_imm(A64vr2ar[r], Num(0))
           p == [k \in 1 .. 14 |-> st(DumpOrder[k])]
           q == [k \in 1 .. 13 |-> cl(SubSeq(DumpOrder, 1, 13)[k])]
<1>3. ASSUME NEW k \in 1 .. 14 PROVE p[k] = <<DumpStores[k]>>
  <2>1. p[k] = emit_ls("str", "post", A64vr2ar[DumpOrder[k]], Scratch, 8)
    OBVIOUS
  <2> HIDE DEF p
  <2>2. p[k] = <<Insn("str", "post", A64vr2ar[DumpOrder[k]], Scratch, 0, Junk, 8)>>
    BY <2>1, Singles
  <2> QED
    BY <2>2 DEF DumpStores
<1>4. ASSUME NEW k \in 1 .. 13 PROVE q[k] = <<Clears[k]>>
  <2> DEFINE r == A64vr2ar[DumpOrder[k]]
  <2>1. q[k] = emit_mov_reg_imm(r, Num(0))
    BY DumpNames
  <2>2. /\ emit_mov_reg_imm(r, Num(0)) \in Codes(1)
        /\ emit_mov_reg_imm(r, Num(0))[1]
             = Insn(MovOp(1), "offset", r, 0, 0, MovVal(Num(0), 1), 1 - 1)
    BY <1>1, ZeroPart, MovCode
  <2>3. MovOp(1) = "movz" /\ MovVal(Num(0), 1) = Num(0)
    <3>1. Chunk(0, 0) = 0
      <4>1. 0 \div 1 = 0 /\ Weight[1] = 1
        BY DEF Weight
      <4>2. 0 % ChunkMod = 0
        BY ChunkPositive
      <4> QED
        BY <4>1, <4>2 DEF Chunk
    <3> QED
      BY <3>1 DEF MovOp, MovVal, Num
  <2> HIDE DEF r, q
  <2>4. q[k] = <<Insn("movz", "offset", r, 0, 0, Num(0), 0)>>
    BY <2>1, <2>2, <2>3 DEF Codes
  <2> QED
    BY <2>4 DEF Clears, r
<1>5. Len(p) = 14 /\ Len(q) = 13
  OBVIOUS
<1>6. /\ emit_vm_reg_save_seq = emit_mov_reg_imm(Scratch, DumpSlot(0)) \o Joined(p)
      /\ emit_reg_init = Joined(q) \o emit_mov_reg_imm(VmSP, Stk(0))
  BY DumpNames, Zenon DEF emit_vm_reg_save_seq, emit_reg_init, Each
<1> HIDE DEF p, q
<1>7. Joined(p) = DumpStores /\ Joined(q) = Clears
  BY <1>2, <1>3, <1>4, <1>5, JoinedOnes DEF Codes
<1> QED
  BY <1>2, <1>6, <1>7
-----------------------------------------------------------------------------
\* Code after code, of a length that is known.
LEMMA Joining ==
  ASSUME NEW m \in Nat, NEW n \in Nat, NEW q \in Codes(m), NEW r \in Codes(n), NEW k, k = m + n
  PROVE  q \o r \in Codes(k)
BY CodesConcat

\* The host addresses that the code has as immediates.
LEMMA HostValues ==
  /\ Imm(sys_enter) /\ Parts(sys_enter) = AddrParts
  /\ Imm(DumpSlot(0)) /\ Parts(DumpSlot(0)) = AddrParts
  /\ Imm(Stk(0)) /\ Parts(Stk(0)) = AddrParts /\ Stk(0) = [tag |-> "stk", val |-> 0]
<1>1. Stk(0) = [tag |-> "stk", val |-> 0]
  BY StackAssumption DEF Stk
<1> QED
  BY <1>1 DEF Imm, Operand, Parts, sys_enter, DumpSlot

\* The registers that an instruction names, and the operations, the modes and the
\* displacements of the code around the program.
LEMMA Names ==
  /\ Scratch = 11 /\ VmSP = 28 /\ FP = 29 /\ LR = 30 /\ HostSP = 31 /\ ZR = 32
  /\ {"add", "subs", "orr", "ldr", "str", "b", "br", "blr", "ret", "adr"} \subseteq OpName
  /\ "offset" \in ModeName /\ "pre" \in ModeName /\ "post" \in ModeName
BY DEF Scratch, VmSP, FP, LR, HostSP, ZR, A64vr2ar, OpName, ModeName

\* The call of sys_enter.
LEMMA HostPathCodes ==
  /\ emit_non_vm_sub_entry_seq_to_host \in Codes(2)
  /\ emit_non_vm_sub_exit_seq_to_host \in Codes(2)
  /\ emit_sys_enter_call \in Codes(3 + AddrParts)
  /\ HostPath \in Codes(9 + AddrParts)
<1> DEFINE P == AddrParts
           x == emit_non_vm_sub_entry_seq_to_host
           y == emit_sys_enter_call
           z == emit_non_vm_sub_exit_seq_to_host
           u == emit_pop_reg(LR)
           v == emit_ret
<1>0. P \in Nat
  BY PartsAssumption
<1>1. x \in Codes(2)
  <2>1. Stored(<<14, 15>>) \in Codes(1) /\ Stored(<<12, 13>>) \in Codes(1)
    BY Names, OneCode DEF Stored
  <2> QED
    BY <2>1, Joining DEF emit_non_vm_sub_entry_seq_to_host
<1>2. z \in Codes(2)
  <2>1. Loaded(<<14, 15>>) \in Codes(1) /\ Loaded(<<12, 13>>) \in Codes(1)
    BY Names, OneCode DEF Loaded
  <2> QED
    BY <2>1, Joining DEF emit_non_vm_sub_exit_seq_to_host
<1>3. y \in Codes(3 + P)
  <2> DEFINE a == emit_mov_reg_reg(0, VmSP)
             b == emit_mov_reg_imm(Scratch, sys_enter)
             c == emit_to_reg("blr", Scratch)
             d == emit_mov_reg_reg(VmSP, 0)
  <2>1. a \in Codes(1) /\ c \in Codes(1) /\ d \in Codes(1)
    BY Names, OneCode DEF emit_mov_reg_reg
  <2>2. b \in Codes(P)
    BY Names, HostValues, MovCode
  <2>3. y = ((a \o b) \o c) \o d
    BY DEF emit_sys_enter_call
  <2> HIDE DEF a, b, c, d, P
  <2>4. a \o b \in Codes(1 + P)
    BY <1>0, <2>1, <2>2, Joining
  <2>5. (a \o b) \o c \in Codes(2 + P)
    BY <1>0, <2>1, <2>4, Joining
  <2> QED
    BY <1>0, <2>1, <2>3, <2>5, Joining
<1>4. u \in Codes(1) /\ v \in Codes(1)
  BY Names, OneCode DEF emit_pop_reg, emit_ret
<1>5. HostPath = (((x \o y) \o z) \o u) \o v
  BY DEF HostPath
<1>6. HostPath \in Codes(9 + P)
  <2> HIDE DEF x, y, z, u, v, P
  <2>1. x \o y \in Codes(5 + P)
    BY <1>0, <1>1, <1>3, Joining
  <2>2. (x \o y) \o z \in Codes(7 + P)
    BY <1>0, <1>2, <2>1, Joining
  <2>3. ((x \o y) \o z) \o u \in Codes(8 + P)
    BY <1>0, <1>4, <2>2, Joining
  <2> QED
    BY <1>0, <1>4, <1>5, <2>3, Joining
<1> QED
  BY <1>1, <1>2, <1>3, <1>6

\* The way back to the host.
LEMMA ExitPathCodes ==
  /\ emit_vm_reg_save_seq \in Codes(14 + AddrParts)
  /\ emit_vm_sub_exit_seq_to_host \in Codes(7)
  /\ ExitPath \in Codes(22 + AddrParts)
<1> DEFINE P == AddrParts
           w == emit_vm_reg_save_seq
           x == emit_vm_sub_exit_seq_to_host
<1>0. P \in Nat
  BY PartsAssumption
<1>1. w \in Codes(14 + P)
  <2> DEFINE a == emit_mov_reg_imm(Scratch, DumpSlot(0))
  <2>1. a \in Codes(P)
    BY Names, HostValues, MovCode
  <2>2. w = a \o DumpStores /\ DumpStores \in Codes(14)
    BY ClearCodes
  <2> HIDE DEF a, w, P
  <2> QED
    BY <1>0, <2>1, <2>2, Joining
<1>2. x \in Codes(7)
  <2> DEFINE b == Loaded(<<FP, LR>>)
             c == emit_ret
  <2>1. b \in Codes(1) /\ c \in Codes(1)
    BY Names, OneCode DEF Loaded, emit_ret
  <2>2. x = (LoadPairs \o b) \o c /\ LoadPairs \in Codes(5)
    BY PairCodes DEF emit_vm_sub_exit_seq_to_host
  <2> HIDE DEF b, c, x
  <2>3. LoadPairs \o b \in Codes(6)
    BY <2>1, <2>2, Joining
  <2> QED
    BY <2>1, <2>2, <2>3, Joining
<1>3. emit_add(VmSP, VmSP, 16) \in Codes(1)
  BY Names, OneCode
<1>4. ExitPath \in Codes(22 + P)
  <2> DEFINE a == emit_add(VmSP, VmSP, 16)
  <2>1. ExitPath = (a \o w) \o x
    BY DEF ExitPath
  <2> HIDE DEF a, w, x, P
  <2>2. a \o w \in Codes(15 + P)
    BY <1>0, <1>1, <1>3, Joining DEF a
  <2> QED
    BY <1>0, <1>2, <2>1, <2>2, Joining
<1> QED
  BY <1>1, <1>2, <1>4

\* The stub.
LEMMA StubCodes ==
  /\ emit_ls("ldr", "offset", 27, VmSP, 8) \in Codes(1)
  /\ emit_cmp_reg_imm(27, Num(0)) \in Codes(2)
  /\ Bytes(HostPath) = 4 * (9 + AddrParts)
  /\ emit_b_cond("JMPEQ", 4 + Bytes(HostPath)) \in Codes(1)
  /\ emit_sys_enter_stub \in Codes(35 + 2 * AddrParts)
<1> DEFINE P == AddrParts
           a == emit_ls("ldr", "offset", 27, VmSP, 8)
           b == emit_cmp_reg_imm(27, Num(0))
           c == emit_b_cond("JMPEQ", 4 + Bytes(HostPath))
<1>0. P \in Nat
  BY PartsAssumption
<1>1. a \in Codes(1)
  BY Names, OneCode
<1>2. b \in Codes(2)
  <2>1. emit_mov_reg_imm(Scratch, Num(0)) \in Codes(1)
    BY Names, ZeroPart, MovCode
  <2>2. emit_rrr("subs", ZR, 27, Scratch) \in Codes(1)
    BY Names, OneCode
  <2> QED
    BY <2>1, <2>2, Joining DEF emit_cmp_reg_imm
<1>3. Bytes(HostPath) = 4 * (9 + P)
  <2>1. HostPath \in Seq(A64Ops) /\ Len(HostPath) = 9 + P
    BY HostPathCodes DEF Codes
  <2> QED
    BY <2>1, Uniform, 0 \in Nat
<1>4. c \in Codes(1)
  <2>1. 4 + Bytes(HostPath) \in Int /\ "JMPEQ" \in CondOp
    BY <1>0, <1>3 DEF CondOp
  <2> QED
    BY <2>1, CondCode
<1>5. emit_sys_enter_stub = (((a \o b) \o c) \o HostPath) \o ExitPath
  BY DEF emit_sys_enter_stub
<1>6. emit_sys_enter_stub \in Codes(35 + 2 * P)
  <2> HIDE DEF a, b, c
  <2>1. a \o b \in Codes(3)
    BY <1>1, <1>2, Joining
  <2>2. (a \o b) \o c \in Codes(4)
    BY <1>4, <2>1, Joining
  <2>3. ((a \o b) \o c) \o HostPath \in Codes(13 + P)
    BY <1>0, <2>2, HostPathCodes, Joining
  <2> QED
    BY <1>0, <1>5, <2>3, ExitPathCodes, Joining
<1> QED
  BY <1>1, <1>2, <1>3, <1>4, <1>6

\* All the code before the program.
LEMMA BootCodes ==
  /\ emit_vm_sub_entry_seq_from_host \in Codes(7)
  /\ Bytes(emit_sys_enter_stub) = 4 * (35 + 2 * AddrParts)
  /\ A64Prelude \in Codes(8) /\ A64StubAt = 32
  /\ emit_reg_init \in Codes(13 + AddrParts)
  /\ A64Boot \in Codes(56 + 3 * AddrParts) /\ A64Prologue = 4 * (56 + 3 * AddrParts)
<1> DEFINE P == AddrParts
           e == emit_vm_sub_entry_seq_from_host
           b == emit_b(4 + Bytes(emit_sys_enter_stub))
<1>0. P \in Nat
  BY PartsAssumption
<1>1. e \in Codes(7)
  <2> DEFINE x == Stored(<<FP, LR>>)
             y == emit_mov_reg_sp(FP, HostSP)
  <2>1. x \in Codes(1) /\ y \in Codes(1)
    BY Names, OneCode DEF Stored, emit_mov_reg_sp
  <2>2. e = (x \o y) \o StorePairs /\ StorePairs \in Codes(5)
    BY PairCodes DEF emit_vm_sub_entry_seq_from_host
  <2> HIDE DEF x, y, e
  <2>3. x \o y \in Codes(2)
    BY <2>1, Joining
  <2> QED
    BY <2>2, <2>3, Joining
<1>2. Bytes(emit_sys_enter_stub) = 4 * (35 + 2 * P)
  <2>1. emit_sys_enter_stub \in Seq(A64Ops) /\ Len(emit_sys_enter_stub) = 35 + 2 * P
    BY StubCodes DEF Codes
  <2> QED
    BY <2>1, Uniform, 0 \in Nat
<1>3. b \in Codes(1)
  <2>1. 4 + Bytes(emit_sys_enter_stub) \in Int
    BY <1>0, <1>2
  <2> QED
    BY <2>1, Names, OneCode
<1>4. A64Prelude \in Codes(8)
  <2> HIDE DEF e, b
  <2> QED
    BY <1>1, <1>3, Joining DEF A64Prelude, e, b
<1>5. A64StubAt = 32
  <2> DEFINE x == A64Prelude
  <2>1. x \in Seq(A64Ops) /\ Len(x) = 8
    BY <1>4 DEF Codes
  <2> HIDE DEF x
  <2>2. Bytes(x) = 4 * Len(x)
    BY <2>1, Uniform, 0 \in Nat
  <2> QED
    BY <2>1, <2>2 DEF A64StubAt, x
<1>6. emit_reg_init \in Codes(13 + P)
  <2>1. emit_mov_reg_imm(VmSP, Stk(0)) \in Codes(P)
    BY Names, HostValues, MovCode
  <2> QED
    BY <1>0, <2>1, ClearCodes, Joining
<1>7. A64Boot \in Codes(56 + 3 * P)
  <2>1. A64Prelude \o emit_sys_enter_stub \in Codes(43 + 2 * P)
    BY <1>0, <1>4, StubCodes, Joining
  <2> QED
    BY <1>0, <1>6, <2>1, Joining DEF A64Boot
<1>8. A64Prologue = 4 * (56 + 3 * P)
  <2>1. A64Boot \in Seq(A64Ops) /\ Len(A64Boot) = 56 + 3 * P
    BY <1>7 DEF Codes
  <2> QED
    BY <2>1, Uniform, 0 \in Nat DEF A64Prologue
<1> QED
  BY <1>1, <1>2, <1>4, <1>5, <1>6, <1>7, <1>8
-----------------------------------------------------------------------------
\* The code after the program.
LEMMA GuardCodes ==
  ASSUME NEW at \in Nat
  PROVE  /\ emit_vm_exit_syscall_guard(at) \in Codes(5)
         /\ Bytes(emit_vm_exit_syscall_guard(at)) = 20
<1> DEFINE a == emit_mov_reg_imm(27, Num(0))
           b == emit_push_reg(27)
           c == emit_adr(Scratch, 12)
           d == emit_push_reg(Scratch)
           call == ((a \o b) \o c) \o d
           g == emit_vm_exit_syscall_guard(at)
<1>1. a \in Codes(1)
  BY ZeroPart, MovCode
<1>2. b \in Codes(1) /\ c \in Codes(1) /\ d \in Codes(1)
  BY Names, OneCode DEF emit_push_reg
<1>3. call \in Codes(4)
  <2> HIDE DEF a, b, c, d
  <2>1. a \o b \in Codes(2)
    BY <1>1, <1>2, Joining
  <2>2. (a \o b) \o c \in Codes(3)
    BY <1>2, <2>1, Joining
  <2> QED
    BY <1>2, <2>2, Joining
<1>4. Bytes(call) \in Nat
  <2> HIDE DEF call
  <2>1. call \in Seq(A64Ops)
    BY <1>3 DEF Codes
  <2>2. Len(call) \in Nat /\ Bytes(call) = 4 * Len(call)
    BY <2>1, Uniform, 0 \in Nat
  <2> QED
    BY <2>2
<1>5. g = call \o emit_b(A64StubAt - (at + Bytes(call)))
  BY DEF emit_vm_exit_syscall_guard
<1>6. emit_b(A64StubAt - (at + Bytes(call))) \in Codes(1)
  <2> HIDE DEF call
  <2>1. A64StubAt - (at + Bytes(call)) \in Int
    BY <1>4, BootCodes
  <2> QED
    BY <2>1, Names, OneCode
<1>7. g \in Codes(5)
  <2> HIDE DEF call, g
  <2> QED
    BY <1>3, <1>5, <1>6, Joining
<1>8. Bytes(g) = 20
  <2> HIDE DEF g
  <2>1. g \in Seq(A64Ops) /\ Len(g) = 5
    BY <1>7 DEF Codes
  <2>2. Bytes(g) = 4 * Len(g)
    BY <2>1, Uniform, 0 \in Nat
  <2> QED
    BY <2>1, <2>2
<1> QED
  BY <1>7, <1>8

\* What the code of an instruction takes, and the slots that are reserved for it.
LEMMA EmitBytes ==
  ASSUME NEW i \in Instr, NEW at \in Nat, NEW to \in Nat \cup {Unmapped}
  PROVE  /\ A64Emit(i, at, to) \in Seq(A64Ops) /\ Len(A64Emit(i, at, to)) = Count(i)
         /\ Bytes(A64Emit(i, at, to)) = 4 * Count(i) /\ A64Size(i) = 4 * Count(i)
<1>1. /\ A64Emit(i, at, to) \in Seq(A64Ops) /\ Len(A64Emit(i, at, to)) = Count(i)
      /\ A64Emit(i, 0, 0) \in Seq(A64Ops) /\ Len(A64Emit(i, 0, 0)) = Count(i)
  BY EmitCodes, 0 \in Nat DEF Codes
<1> DEFINE x == A64Emit(i, at, to)
           y == A64Emit(i, 0, 0)
<1> HIDE DEF x, y
<1>2. Bytes(x) = 4 * Len(x) /\ Bytes(y) = 4 * Len(y)
  BY <1>1, Uniform, 0 \in Nat DEF x, y
<1> QED
  BY <1>1, <1>2 DEF A64Size, x, y

\* Every instruction becomes code that its reserved slots hold, and the text grows by at
\* most eight bytes of native code for each byte of the program: what the translator is
\* told of its back end is so whatever the program.
THEOREM SizesFit ==
  ASSUME IsA64, Expansion = 8, NEW i \in Instr PROVE Sized(i)
<1>1. Size(i) = 4 * Count(i) /\ Count(i) \in 1 .. 7 /\ Slots(i) = A64Slots(i)
  BY EmitBytes, EmitCodes, 0 \in Nat DEF IsA64
<1>2. i.op \in Opcode
  BY DEF Instr
<1>3. CASE i.op \in BranchOp
  <2>1. InstrLen(i) = 9
    BY <1>3 DEF InstrLen, BranchOp, CondOp, MoveOp
  <2>2. Count(i) = IF i.op = "CALL" THEN 7 ELSE IF i.op = "JMP" THEN AddrParts + 1 ELSE 1
    BY <1>3 DEF Count, BranchOp, CondOp, MoveOp
  <2> QED
    BY <1>1, <2>1, <2>2, PartsAssumption DEF Sized, A64Slots
<1>4. CASE i.op \notin BranchOp
  <2>1. /\ i.idx \in Int /\ i.imm \in Word /\ i.am \in Mode
    BY DEF Instr
  <2>2. Parts(Num(Wrap(i.idx))) \in 1 .. 4 /\ Parts(Num(i.imm)) \in 1 .. 4
    BY <2>1, NumImm, WrapWord, PartsRange
  <2>3. CASE i.op \in {"LOAD", "STORE"}
    <3>1. Count(i) = Parts(Num(Wrap(i.idx))) + 2
      BY <2>3 DEF Count, MoveOp, BranchOp, CondOp
    <3>2. InstrLen(i) = 4
      BY <2>3 DEF InstrLen, MoveOp, BranchOp, CondOp
    <3> QED
      BY <1>1, <1>4, <2>2, <3>1, <3>2 DEF Sized
  <2>4. CASE i.op \in MoveOp \cup {"CMP"}
    <3>1. CASE i.am = "REG"
      <4>1. Count(i) = 1
        BY <2>4, <3>1 DEF Count, MoveOp, BranchOp, CondOp
      <4>2. InstrLen(i) = 2
        BY <2>4, <3>1 DEF InstrLen, MoveOp, BranchOp, CondOp
      <4> QED
        BY <1>1, <1>4, <4>1, <4>2 DEF Sized
    <3>2. CASE i.am = "IMM"
      <4>1. Count(i) = Parts(Num(i.imm)) \/ Count(i) = Parts(Num(i.imm)) + 1
        BY <2>4, <3>2 DEF Count, MoveOp, BranchOp, CondOp
      <4>2. InstrLen(i) = 10
        BY <2>4, <3>2 DEF InstrLen, MoveOp, BranchOp, CondOp
      <4> QED
        BY <1>1, <1>4, <2>2, <4>1, <4>2 DEF Sized
    <3> QED
      BY <2>1, <3>1, <3>2 DEF Mode
  <2>5. CASE i.op \in {"NOT", "PUSH", "POP"}
    <3>1. Count(i) = 1
      BY <2>5 DEF Count, MoveOp, BranchOp, CondOp
    <3>2. InstrLen(i) = 2
      BY <2>5 DEF InstrLen, MoveOp, BranchOp, CondOp
    <3> QED
      BY <1>1, <1>4, <3>1, <3>2 DEF Sized
  <2>6. CASE i.op = "RET"
    <3>1. Count(i) = 2 /\ InstrLen(i) = 1
      BY <2>6 DEF Count, InstrLen, MoveOp, BranchOp, CondOp
    <3> QED
      BY <1>1, <1>4, <3>1 DEF Sized
  <2> QED
    BY <1>2, <1>4, <2>3, <2>4, <2>5, <2>6 DEF Opcode
<1> QED
  BY <1>3, <1>4

\* This back end's code is what module NativeProofs asks of a back end's.
LEMMA A64CodeOK == IsA64 => CodeOK(A64Ops)
<1> SUFFICES ASSUME IsA64 PROVE CodeOK(A64Ops)
  OBVIOUS
<1>1. A64Ops # {} /\ \A o \in A64Ops : o.len = 4
  BY Names, OneCode DEF A64Ops
<1>2. Ops(A64Ops)
  BY <1>1 DEF Ops
<1>3. Nop \in A64Ops /\ Nop.len = 4
  BY <1>1, Names, OneCode, 0 \in Int DEF IsA64
<1>4. Boot \in Seq(A64Ops) /\ Bytes(Boot) = Prologue
  BY BootCodes DEF IsA64, Codes, A64Prologue
<1>5. \A at \in Nat : GuardCode(at) \in Seq(A64Ops) /\ Bytes(GuardCode(at)) = Guard
  BY GuardCodes, 0 \in Nat DEF IsA64, Codes, A64Guard
<1>6. \A i \in Instr, at \in Nat, to \in Nat \cup {Unmapped} :
         Emit(i, at, to) \in Seq(A64Ops) /\ Bytes(Emit(i, at, to)) = Size(i)
  BY EmitBytes DEF IsA64
<1>7. ASSUME NEW i \in Instr, i.op \in BranchOp PROVE Slots(i) % Nop.len = 0
  <2>1. Slots(i) \in {28, 20, 4}
    BY DEF IsA64, A64Slots
  <2>2. 28 % 4 = 0 /\ 20 % 4 = 0 /\ 4 % 4 = 0
    OBVIOUS
  <2> QED
    BY <1>3, <2>1, <2>2
<1> QED
  BY <1>2, <1>3, <1>4, <1>5, <1>6, <1>7 DEF CodeOK

\* The code that the processor finds is that which the translator means it to find.
THEOREM CodeInPlace == ASSUME IsA64 PROVE Spec => []InPlace
<1>1. Init => CodeInv
  BY CodeInvInit DEF Init, NativeInit
<1>2. CodeInv /\ [Next]_vars => CodeInv'
  <2>1. [Next]_vars => Translate \/ UNCHANGED <<jitVars, text>>
    BY RunKeepsText DEF Next, vars
  <2> QED
    BY <2>1, A64CodeOK, CodeInvStep
<1>3. CodeInv => InPlace
  BY CodeInvInPlace
<1> QED
  BY <1>1, <1>2, <1>3, PTL DEF Spec
-----------------------------------------------------------------------------
(***************************************************************************)
(* The host gets back what is its own from the code of the AArch64 JIT: the *)
(* proof of HostRestored of module A64. It follows the processor through    *)
(* the native code, with an invariant that says for each place where it may *)
(* be what the registers and the memory hold there. The program may send it *)
(* to the start of an instruction, to the stub and behind its own end, and  *)
(* it cannot reach the part of the host's stack that has the host's values. *)
(***************************************************************************)

\* Where the processor finds the instructions of code that is placed.
LEMMA PlacedAt ==
  ASSUME NEW m \in Nat, NEW q \in Codes(m), NEW at \in Nat, NEW t, Placed(t, q, at)
  PROVE  \A k \in 1 .. m : t[at + 4 * (k - 1)] = q[k]
<1>1. q \in Seq(A64Ops) /\ Len(q) = m /\ DOMAIN q = 1 .. m
  BY DEF Codes
<1>2. \A k \in 1 .. m + 1 : Starts(q, at)[k] = at + 4 * (k - 1)
  BY <1>1, Uniform
<1> TAKE k \in 1 .. m
<1>3. k \in 1 .. m + 1
  OBVIOUS
<1>4. Starts(q, at)[k] = at + 4 * (k - 1)
  BY <1>2, <1>3
<1>5. t[Starts(q, at)[k]] = q[k]
  BY <1>1 DEF Placed
<1> QED
  BY <1>4, <1>5

\* Code after code is placed when each is placed where it comes.
LEMMA PlacedApart ==
  ASSUME NEW m \in Nat, NEW n \in Nat, NEW q \in Codes(m), NEW r \in Codes(n), NEW at \in Nat,
         NEW t, Placed(t, q \o r, at)
  PROVE  Placed(t, q, at) /\ Placed(t, r, at + 4 * m)
<1>1. q \in Seq(A64Ops) /\ r \in Seq(A64Ops) /\ Len(q) = m
  BY DEF Codes
<1>2. Bytes(q) = 4 * m
  BY <1>1, Uniform
<1>3. Ops(A64Ops)
  BY DEF Ops, A64Ops
<1>4. Placed(t, q, at) /\ Placed(t, r, at + Bytes(q))
  BY <1>1, <1>3, PlacedConcat
<1> QED
  BY <1>2, <1>4

\* One native instruction.
LEMMA PlacedOne ==
  ASSUME NEW o, <<o>> \in Codes(1), NEW at \in Nat, NEW t, Placed(t, <<o>>, at)
  PROVE  t[at] = o
<1> DEFINE q == <<o>>
<1>1. q[1] = o /\ 1 \in 1 .. 1 /\ at + 4 * (1 - 1) = at
  OBVIOUS
<1> HIDE DEF q
<1>2. \A k \in 1 .. 1 : t[at + 4 * (k - 1)] = q[k]
  BY PlacedAt DEF q
<1> QED
  BY <1>1, <1>2

\* An immediate, in as many native instructions as it takes.
LEMMA PlacedMov ==
  ASSUME NEW r \in Int, NEW v, Imm(v), NEW at \in Nat, NEW t,
         Placed(t, emit_mov_reg_imm(r, v), at)
  PROVE  \A k \in 1 .. Parts(v) :
            t[at + 4 * (k - 1)] = Insn(MovOp(k), "offset", r, 0, 0, MovVal(v, k), k - 1)
<1> DEFINE m == emit_mov_reg_imm(r, v)
<1>1. m \in Codes(Parts(v)) /\ Parts(v) \in Nat
  BY MovCode, PartsRange
<1>2. \A k \in 1 .. Parts(v) : m[k] = Insn(MovOp(k), "offset", r, 0, 0, MovVal(v, k), k - 1)
  BY MovCode
<1> HIDE DEF m
<1>3. \A k \in 1 .. Parts(v) : t[at + 4 * (k - 1)] = m[k]
  BY <1>1, PlacedAt DEF m
<1> QED
  BY <1>2, <1>3

-----------------------------------------------------------------------------
\* What the program may have in a register or in memory while A are the registers and M
\* is the memory: nothing of the host's stack, no way back to the host, and no address of
\* the code but those in E.
Tame(v, E) ==
  /\ v = [tag |-> v.tag, val |-> v.val]
  /\ \/ v.tag \in {"num", "stk", "dump", "junk", "host"}
     \/ v = sys_enter
     \/ v.tag = "code" /\ v.val \in E

\* The host's registers in the order of its stack, and what was in them.
SavedReg  == <<30, 29, 20, 19, 22, 21, 24, 23, 26, 25, 28, 27>>
OfHost(r) == IF r = LR THEN host_return ELSE HostVal(r)

\* The host's stack, n slots deep, has its registers.
Deep(A, M, n) ==
  /\ A[HostSP] = HostSlot(-8 * n)
  /\ \A k \in 1 .. 12 : k <= n => M[HostSlot(-8 * k)] = OfHost(SavedReg[k])

Shape(A, M) == DOMAIN A = ArchReg /\ DOMAIN M = Stack \cup HostLoc

\* So it is, and the program has the rest.
Ready(A, M, E, n) ==
  /\ Deep(A, M, n)
  /\ \A r \in 0 .. 28 : Tame(A[r], E)
  /\ \A l \in DOMAIN M \ {HostSlot(-8)} : Tame(M[l], E)

\* Addresses computed from what is tame are, and are not of the host's stack.
LEMMA TameAt ==
  ASSUME NEW v, NEW E, Tame(v, E), NEW d
  PROVE  Tame(At(v, d), E) /\ At(v, d).tag # "hst" /\ v.tag # "hst"
<1>1. Tame(Offset(v, d), E) /\ Offset(v, d).tag # "hst"
  BY DEF Tame, Offset, Num, Stk, Junk, sys_enter
<1>2. v.tag # "hst"
  BY DEF Tame, sys_enter
<1>3. CASE v.tag = "dump"
  <2>1. At(v, d) = [tag |-> "dump", val |-> v.val + d]
    BY <1>3 DEF At, Tame
  <2> QED
    BY <1>2, <2>1 DEF Tame
<1>4. CASE v.tag # "dump"
  <2>1. At(v, d) = v \/ At(v, d) = Offset(v, d)
    BY <1>2, <1>4 DEF At
  <2> QED
    BY <1>1, <1>2, <2>1
<1> QED
  BY <1>3, <1>4

\* So is what arithmetic computes, whatever from.
LEMMA TameResult ==
  ASSUME NEW v, NEW w, NEW d, NEW E
  PROVE  /\ Tame(Offset(v, d), E) /\ Tame(Plus(v, w), E) /\ Tame(Minus(v, w), E)
         /\ Tame(Invert(v), E) /\ Tame(Num(d), E) /\ Tame(Junk, E)
         /\ Tame(Bits(BitAnd, v, w), E) /\ Tame(Bits(BitOr, v, w), E)
         /\ Tame(Bits(BitXor, v, w), E)
<1>1. \A x, n : Tame(Offset(x, n), E)
  BY DEF Tame, Offset, Num, Stk, Junk
<1>2. Tame(Junk, E) /\ \A n : Tame(Num(n), E)
  BY DEF Tame, Num, Junk
<1>3. Tame(Plus(v, w), E) /\ Tame(Minus(v, w), E)
  BY <1>1, <1>2 DEF Plus, Minus
<1>4. Tame(Invert(v), E)
  BY <1>2 DEF Invert
<1>5. /\ Tame(Bits(BitAnd, v, w), E) /\ Tame(Bits(BitOr, v, w), E)
      /\ Tame(Bits(BitXor, v, w), E)
  BY <1>2 DEF Bits
<1> QED
  BY <1>1, <1>2, <1>3, <1>4, <1>5

\* A register of the program changes.
LEMMA ReadyRegister ==
  ASSUME NEW A, NEW M, NEW E, NEW n, Shape(A, M), NEW r \in 0 .. 28, NEW v
  PROVE  LET B == [A EXCEPT ![r] = v]
         IN  /\ Shape(B, M)
             /\ Deep(A, M, n) => Deep(B, M, n)
             /\ Ready(A, M, E, n) /\ Tame(v, E) => Ready(B, M, E, n)
<1> DEFINE B == [A EXCEPT ![r] = v]
<1>1. /\ DOMAIN B = DOMAIN A /\ B[HostSP] = A[HostSP]
      /\ \A s \in 0 .. 28 : B[s] = IF s = r THEN v ELSE A[s]
  BY DEF Shape, ArchReg, HostSP
<1> HIDE DEF B
<1>2. Deep(A, M, n) => Deep(B, M, n)
  BY <1>1 DEF Deep
<1>3. Shape(B, M)
  BY <1>1 DEF Shape
<1>4. Ready(A, M, E, n) /\ Tame(v, E) => Ready(B, M, E, n)
  BY <1>1, <1>2 DEF Ready
<1> QED
  BY <1>2, <1>3, <1>4 DEF B

\* A place of the memory that is not of the host's stack changes.
LEMMA ReadyMemory ==
  ASSUME NEW A, NEW M, NEW E, NEW n, Shape(A, M), NEW l \in DOMAIN M, l.tag # "hst", NEW v
  PROVE  LET N == [M EXCEPT ![l] = v]
         IN  /\ Shape(A, N)
             /\ Deep(A, M, n) => Deep(A, N, n)
             /\ Ready(A, M, E, n) /\ Tame(v, E) => Ready(A, N, E, n)
<1> DEFINE N == [M EXCEPT ![l] = v]
<1>1. DOMAIN N = DOMAIN M /\ \A s \in DOMAIN M : N[s] = IF s = l THEN v ELSE M[s]
  OBVIOUS
<1> HIDE DEF N
<1>2. Shape(A, N)
  BY <1>1 DEF Shape
<1>3. \A k \in 1 .. 12 : HostSlot(-8 * k) \in DOMAIN M /\ HostSlot(-8 * k) # l
  BY DEF Shape, HostLoc, HostSlot
<1>4. Deep(A, M, n) => Deep(A, N, n)
  BY <1>1, <1>3 DEF Deep
<1>5. Ready(A, M, E, n) /\ Tame(v, E) => Ready(A, N, E, n)
  BY <1>1, <1>4 DEF Ready
<1> QED
  BY <1>2, <1>4, <1>5 DEF N
-----------------------------------------------------------------------------
\* The action that runs a native instruction is that of its operation.
LEMMA Acts ==
  ASSUME Run
  PROVE  /\ phase = "done" /\ obs.status \in {"ready", "running"}
         /\ I.op = "nop" => cpu_nop
         /\ I.op = "movz" => cpu_movz
         /\ I.op = "movk" => cpu_movk
         /\ I.op = "adr" => cpu_adr
         /\ I.op = "add" => cpu_add
         /\ I.op \in {"adds", "subs"} /\ I.rd # ZR => cpu_arithmetic
         /\ I.op = "subs" /\ I.rd = ZR => cpu_cmp
         /\ I.op \in {"and", "orr", "eor", "orn"} => cpu_logic
         /\ I.op = "ldr" => cpu_ldr
         /\ I.op = "str" => cpu_str
         /\ I.op = "ldp" => cpu_ldp
         /\ I.op = "stp" => cpu_stp
         /\ I.op = "b" => cpu_b
         /\ I.op = "br" => cpu_br
         /\ I.op \in CondOp => cpu_b_cond
         /\ I.op = "ret" => cpu_ret \/ return_to_host
         /\ I.op = "blr" => \/ host_abort
                            \/ \E id \in {SYSCALL_DISPLAY_SINT, SYSCALL_DISPLAY_UINT} :
                                  host_sys_enter(id)
<1> USE DEF Executes, CondOp
<1>1. CASE cpu_nop \/ cpu_movz \/ cpu_movk \/ cpu_adr \/ cpu_add
  BY <1>1 DEF cpu_nop, cpu_movz, cpu_movk, cpu_adr, cpu_add
<1>2. CASE cpu_arithmetic \/ cpu_cmp
  BY <1>2 DEF cpu_arithmetic, cpu_cmp
<1>3. CASE cpu_logic \/ cpu_ldr \/ cpu_str \/ cpu_ldp \/ cpu_stp
  BY <1>3 DEF cpu_logic, cpu_ldr, cpu_str, cpu_ldp, cpu_stp
<1>4. CASE cpu_b \/ cpu_br \/ cpu_b_cond
  BY <1>4 DEF cpu_b, cpu_br, cpu_b_cond
<1>5. CASE cpu_ret \/ return_to_host
  BY <1>5 DEF cpu_ret, return_to_host
<1>6. CASE \E id \in {SYSCALL_DISPLAY_SINT, SYSCALL_DISPLAY_UINT} : host_sys_enter(id)
  BY <1>6 DEF host_sys_enter, Calls
<1>7. CASE host_abort
  BY <1>7 DEF host_abort, Calls
<1> QED
  BY <1>1, <1>2, <1>3, <1>4, <1>5, <1>6, <1>7 DEF Run

\* Whether the program runs on, at z, or is lost.
Live == obs.status \in {"ready", "running"}
Lost == obs.status \in {"wild", "aborted"}
On(z) == ip' = z /\ Live'
Seen == "status" \in DOMAIN obs

\* It does after most native instructions.
LEMMA Going ==
  ASSUME Live, Seen
  PROVE  /\ \A z : Go(z) => On(z)
         /\ Fall => On(ip + I.len)
         /\ GoAstray => Lost'
         /\ Stray => Lost'
         /\ Status("aborted") => Lost'
<1>1. \A z : Go(z) => On(z)
  BY DEF Go, On, Live, Shows
<1>2. GoAstray \/ Stray \/ Status("aborted") => Lost'
  BY DEF GoAstray, Stray, Status, Lost, Shows, Seen
<1> QED
  BY <1>1, <1>2 DEF Fall

\* What the program sees keeps its fields.
LEMMA SeenStep == Seen /\ [Next]_vars => Seen'
<1> SUFFICES ASSUME Seen, [Next]_vars PROVE Seen'
  OBVIOUS
<1>1. ASSUME NEW z, Go(z) PROVE Seen'
  BY <1>1 DEF Go, Shows, Seen
<1>2. Fall \/ GoAstray \/ Stray \/ Status("aborted") \/ Returns => Seen'
  <2>1. Fall => Seen'
    BY <1>1 DEF Fall
  <2>2. GoAstray => Seen'
    BY DEF GoAstray, Shows, Seen
  <2>3. Stray \/ Status("aborted") => Seen'
    BY DEF Stray, Status, Seen
  <2>4. Returns => Seen'
    BY DEF Returns, Seen
  <2> QED
    BY <2>1, <2>2, <2>3, <2>4
<1>3. CASE Translate \/ UNCHANGED vars
  BY <1>3 DEF Translate, write_prologue, write_instruction, write_end, write_deferred,
              write_guard, vars, cpu, Seen
<1>4. CASE Run
  <2>1. CASE \/ cpu_nop \/ cpu_movz \/ cpu_movk \/ cpu_adr \/ cpu_add \/ cpu_arithmetic
             \/ cpu_cmp \/ cpu_logic \/ cpu_ldr \/ cpu_str \/ cpu_ldp \/ cpu_stp
    BY <1>2, <2>1 DEF cpu_nop, cpu_movz, cpu_movk, cpu_adr, cpu_add, cpu_arithmetic,
              cpu_cmp, cpu_logic, Sets, cpu_ldr, cpu_str, cpu_ldp, cpu_stp
  <2>2. CASE cpu_b \/ cpu_br \/ cpu_b_cond \/ cpu_ret \/ return_to_host
    BY <1>1, <1>2, <2>2 DEF cpu_b, cpu_br, cpu_b_cond, cpu_ret, return_to_host
  <2>3. CASE \/ host_sys_enter(SYSCALL_DISPLAY_SINT) \/ host_sys_enter(SYSCALL_DISPLAY_UINT)
             \/ host_abort
    BY <1>2, <2>3 DEF host_sys_enter, host_abort
  <2> QED
    BY <1>4, <2>1, <2>2, <2>3 DEF Run
<1> QED
  BY <1>3, <1>4 DEF Next

-----------------------------------------------------------------------------
\* What a native instruction does to the registers and the memory that the program goes
\* on with. First those that the program is made of, in a state that is ready for it.

\* An instruction without an effect.
LEMMA NopStep ==
  ASSUME Run, Seen, I.op = "nop" PROVE On(ip + I.len) /\ UNCHANGED <<ar, ram>>
BY Acts, Going DEF cpu_nop, Live

\* One that computes a register.
LEMMA MovStep ==
  ASSUME Run, Seen, I.op \in {"movz", "movk"}
  PROVE  /\ On(ip + I.len) /\ UNCHANGED ram
         /\ \E v : /\ ar' = [ar EXCEPT ![I.rd] = v]
                   /\ \/ v = I.val
                      \/ I.val.tag = "num" /\ v = Num(v.val)
                   /\ I.op = "movz" => v = I.val
BY Acts, Going DEF cpu_movz, cpu_movk, Sets, Num, Live

\* An addition to an address.
LEMMA AddStep ==
  ASSUME Run, Seen, I.op = "add"
  PROVE  /\ On(ip + I.len) /\ UNCHANGED ram
         /\ ar' = [ar EXCEPT ![I.rd] = At(ar[I.rn], I.d)]
BY Acts, Going DEF cpu_add, Sets, Live

\* The address of native code.
LEMMA AdrStep ==
  ASSUME Run, Seen, I.op = "adr"
  PROVE  /\ On(ip + I.len) /\ UNCHANGED ram
         /\ ar' = [ar EXCEPT ![I.rd] = Code(ip + I.d)]
BY Acts, Going DEF cpu_adr, Sets, Live

\* An addition or a subtraction, after which the register has nothing of the host.
LEMMA ArithmeticStep ==
  ASSUME Run, Seen, I.op \in {"adds", "subs"}, I.rd # ZR
  PROVE  /\ On(ip + I.len) /\ UNCHANGED ram
         /\ \E v : ar' = [ar EXCEPT ![I.rd] = v] /\ \A E : Tame(v, E)
<1>1. cpu_arithmetic /\ Live
  BY Acts DEF Live
<1>2. On(ip + I.len) /\ UNCHANGED ram
  BY <1>1, Going DEF cpu_arithmetic, Sets
<1>3. PICK v \in {Plus(ar[I.rn], ar[I.rm]), Minus(ar[I.rn], ar[I.rm])} :
         ar' = [ar EXCEPT ![I.rd] = v]
  BY <1>1 DEF cpu_arithmetic, Sets
<1>4. \A E : Tame(v, E)
  BY <1>3, TameResult
<1> QED
  BY <1>2, <1>3, <1>4

\* A comparison.
LEMMA CmpStep ==
  ASSUME Run, Seen, I.op = "subs", I.rd = ZR
  PROVE  On(ip + I.len) /\ UNCHANGED <<ar, ram>> /\ fl' \in Compare(ar[I.rn], ar[I.rm])
BY Acts, Going DEF cpu_cmp, Live

\* A bitwise operation.
LEMMA LogicStep ==
  ASSUME Run, Seen, I.op \in {"and", "orr", "eor", "orn"}
  PROVE  /\ On(ip + I.len) /\ UNCHANGED ram
         /\ \E v : /\ ar' = [ar EXCEPT ![I.rd] = v]
                   /\ v = ar[I.rm] \/ \A E : Tame(v, E)
                   /\ I.op = "orr" /\ I.rn = ZR => v = ar[I.rm]
<1>1. cpu_logic /\ Live
  BY Acts DEF Live
<1>2. On(ip + I.len) /\ UNCHANGED ram /\ ar' = [ar EXCEPT ![I.rd] = Logic(ar[I.rm])]
  BY <1>1, Going DEF cpu_logic, Sets
<1>3. I.op = "orr" /\ I.rn = ZR => Logic(ar[I.rm]) = ar[I.rm]
  BY DEF Logic
<1>4. ~(I.op = "orr" /\ I.rn = ZR) => \A E : Tame(Logic(ar[I.rm]), E)
  BY TameResult DEF Logic
<1> QED
  BY <1>2, <1>3, <1>4

\* The accesses to memory.
LEMMA LdrStep ==
  ASSUME Run, Seen, I.op = "ldr"
  PROVE  \/ Lost'
         \/ /\ On(ip + I.len) /\ UNCHANGED ram /\ Accessed \in DOMAIN ram
            /\ \E v \in {ram[Accessed], Indexed, Junk} :
                  /\ ar' = [Based EXCEPT ![I.rd] = v]
                  /\ ~Unclear => v = ram[Accessed]
BY Acts, Going DEF cpu_ldr, Live

\* A store.
LEMMA StrStep ==
  ASSUME Run, Seen, I.op = "str"
  PROVE  \/ Lost'
         \/ /\ On(ip + I.len) /\ ar' = Based /\ Accessed \in DOMAIN ram
            /\ \E v \in {ar[I.rd], Indexed, Junk} :
                  /\ ram' = [ram EXCEPT ![Accessed] = v]
                  /\ ~Unclear => v = ar[I.rd]
BY Acts, Going DEF cpu_str, Live

\* A load of a pair of registers,
LEMMA LdpStep ==
  ASSUME Run, Seen, I.op = "ldp"
  PROVE  /\ On(ip + I.len) /\ UNCHANGED ram
         /\ ar' = [[Based EXCEPT ![I.rd] = ram[Accessed]] EXCEPT ![I.rm] = ram[Second]]
BY Acts, Going DEF cpu_ldp, Live

\* and a store of one.
LEMMA StpStep ==
  ASSUME Run, Seen, I.op = "stp"
  PROVE  /\ On(ip + I.len) /\ ar' = Based
         /\ ram' = [[ram EXCEPT ![Accessed] = ar[I.rd]] EXCEPT ![Second] = ar[I.rm]]
BY Acts, Going DEF cpu_stp, Live

\* The transfers.
LEMMA BranchStep ==
  ASSUME Run, Seen
  PROVE  /\ I.op = "b" => On(ip + I.d) /\ UNCHANGED <<ar, ram>>
         /\ I.op = "br" => On(ar[I.rn].val) /\ UNCHANGED <<ar, ram>>
         /\ I.op \in CondOp => /\ UNCHANGED <<ar, ram>>
                               /\ On(ip + I.d) \/ On(ip + I.len)
                               /\ fl \in Holds[I.op] \ {"NONE"} => On(ip + I.d)
<1>1. I.op = "b" => On(ip + I.d) /\ UNCHANGED <<ar, ram>>
  BY Acts, Going DEF cpu_b, Live
<1>2. I.op = "br" => On(ar[I.rn].val) /\ UNCHANGED <<ar, ram>>
  BY Acts, Going DEF cpu_br, Live
<1>3. ASSUME I.op \in CondOp
      PROVE  /\ UNCHANGED <<ar, ram>>
             /\ On(ip + I.d) \/ On(ip + I.len)
             /\ fl \in Holds[I.op] \ {"NONE"} => On(ip + I.d)
  BY <1>3, Acts, Going DEF cpu_b_cond, Live
<1> QED
  BY <1>1, <1>2, <1>3

\* A return, to the host or to the address in the register.
LEMMA RetStep ==
  ASSUME Run, Seen, I.op = "ret"
  PROVE  /\ UNCHANGED <<ar, ram>>
         /\ ar[I.rn] # host_return =>
               Lost' \/ (ar[I.rn].tag = "code" /\ On(ar[I.rn].val))
         /\ ar[I.rn] = host_return => obs'.status = "exited"
<1>1. Live /\ (cpu_ret \/ return_to_host)
  BY Acts DEF Live
<1>2. CASE cpu_ret
  BY <1>1, <1>2, Going DEF cpu_ret
<1>3. CASE return_to_host
  <2>1. obs'.status = "exited"
    <3> DEFINE x == [obs EXCEPT !.regs = [r \in Reg |-> AsVM(ram[DumpOf(r)])]]
               y == [x EXCEPT !.mem = Memory]
    <3>1. obs' = [y EXCEPT !.status = "exited"]
      BY <1>3 DEF return_to_host, Returns
    <3>2. DOMAIN y = DOMAIN obs
      OBVIOUS
    <3> HIDE DEF y
    <3> QED
      BY <3>1, <3>2 DEF Seen
  <2> QED
    BY <1>3, <2>1 DEF return_to_host, Returns
<1> QED
  BY <1>1, <1>2, <1>3

\* The call of sys_enter, below whose stack nothing of the entry sequence is.
LEMMA BlrStep ==
  ASSUME Run, Seen, I.op = "blr", NEW E, Shape(ar, ram), Ready(ar, ram, E, 16)
  PROVE  Lost' \/ (On(ip + I.len) /\ Shape(ar', ram') /\ Ready(ar', ram', E, 16))
<1>1. CASE host_abort
  BY <1>1, Acts, Going DEF host_abort, Live
<1>2. ASSUME NEW id, host_sys_enter(id)
      PROVE  Lost' \/ (On(ip + I.len) /\ Shape(ar', ram') /\ Ready(ar', ram', E, 16))
  <2>1. CASE Stray
    BY <2>1, Acts, Going DEF Live
  <2>2. CASE ~Stray
    <3> DEFINE N == Moved(Frame)
               p == Parameter(Frame)
    <3>1. /\ Frame \in DOMAIN ram /\ p \in DOMAIN ram /\ ram' = ForgetBelow(N, ar[HostSP])
          /\ ar' = [r \in ArchReg |-> IF r = 0 THEN p
                                      ELSE IF r \in CallerSaved THEN Junk ELSE ar[r]]
          /\ Fall
      BY <1>2, <2>2 DEF host_sys_enter, InRoom
    <3>2. On(ip + I.len)
      BY <3>1, Acts, Going DEF Live
    <3>3. Tame(Frame, E) /\ Frame.tag # "hst" /\ Tame(p, E) /\ p.tag # "hst"
      BY TameAt DEF Ready, Frame, Parameter
    <3>4. Tame(ram[Frame], E)
      BY <3>1, <3>3 DEF Ready, HostSlot
    <3>5. Shape(ar, N) /\ Ready(ar, N, E, 16)
      BY <3>1, <3>3, <3>4, ReadyMemory DEF Moved
    <3> HIDE DEF N, p
    <3>6. ar[HostSP] = HostSlot(-128)
      BY DEF Ready, Deep
    <3>7. /\ DOMAIN ram' = DOMAIN N
          /\ \A l \in DOMAIN N : ram'[l] = N[l] \/ ram'[l] = Junk
      BY <3>1 DEF ForgetBelow
    <3>8. ASSUME NEW k \in 1 .. 12 PROVE ram'[HostSlot(-8 * k)] = N[HostSlot(-8 * k)]
      <4>1. HostSlot(-8 * k) \in DOMAIN N
        BY <3>5 DEF Shape, HostLoc
      <4>2. ~(-8 * k < -128)
        OBVIOUS
      <4> QED
        BY <3>1, <3>6, <4>1, <4>2 DEF ForgetBelow, HostSlot
    <3>9. /\ DOMAIN ar' = ArchReg /\ ar'[HostSP] = ar[HostSP]
          /\ \A r \in 0 .. 28 : ar'[r] = p \/ ar'[r] = Junk \/ ar'[r] = ar[r]
      BY <3>1 DEF ArchReg, HostSP, CallerSaved, LR
    <3>10. Deep(ar', ram', 16)
      BY <3>5, <3>8, <3>9 DEF Ready, Deep
    <3>11. Tame(Junk, E)
      BY TameResult
    <3>12. \A r \in 0 .. 28 : Tame(ar'[r], E)
      BY <3>3, <3>9, <3>11 DEF Ready
    <3>13. \A l \in DOMAIN ram' \ {HostSlot(-8)} : Tame(ram'[l], E)
      BY <3>5, <3>7, <3>11 DEF Ready
    <3>14. Shape(ar', ram')
      BY <3>5, <3>7, <3>9 DEF Shape
    <3> QED
      BY <3>2, <3>10, <3>12, <3>13, <3>14 DEF Ready
  <2> QED
    BY <2>1, <2>2
<1> QED
  BY <1>1, <1>2, Acts

-----------------------------------------------------------------------------
\* A native instruction that works on the registers of the VM and the scratch register
\* and what they point to, and goes on with the next. A load may be of the link register.
Quiet(o) ==
  /\ o.len = 4
  /\ \/ o.op = "nop"
     \/ o.op \in {"movz", "movk"} /\ o.rd \in 0 .. 28 /\ Tame(o.val, {})
     \/ o.op = "add" /\ o.rd \in 0 .. 28 /\ o.rn \in 0 .. 28
     \/ o.op \in {"adds", "subs"} /\ o.rd \in 0 .. 28
     \/ o.op = "subs" /\ o.rd = ZR
     \/ o.op \in {"and", "orr", "eor", "orn"} /\ o.rd \in 0 .. 28 /\ o.rm \in 0 .. 28
     \/ o.op = "ldr" /\ o.rd \in 0 .. 28 \cup {LR} /\ o.rn \in 0 .. 28
     \/ o.op = "str" /\ o.rd \in 0 .. 28 /\ o.rn \in 0 .. 28

\* Where a program accesses memory, and what it finds there.
LEMMA AccessTame ==
  ASSUME NEW E, NEW n, Shape(ar, ram), Ready(ar, ram, E, n), I.rn \in 0 .. 28
  PROVE  /\ Accessed.tag # "hst" /\ Tame(Indexed, E)
         /\ Accessed \in DOMAIN ram => Tame(ram[Accessed], E)
         /\ Shape(Based, ram) /\ Ready(Based, ram, E, n)
<1>1. Tame(ar[I.rn], E)
  BY DEF Ready
<1>2. Accessed.tag # "hst" /\ Tame(Indexed, E)
  BY <1>1, TameAt DEF Accessed, Indexed
<1>3. Accessed \in DOMAIN ram => Tame(ram[Accessed], E)
  BY <1>2 DEF Ready, HostSlot
<1>4. PICK v : Tame(v, E) /\ Based = [ar EXCEPT ![I.rn] = v]
  BY <1>1, <1>2 DEF Based
<1>5. Shape(Based, ram) /\ Ready(Based, ram, E, n)
  <2> DEFINE B == [ar EXCEPT ![I.rn] = v]
  <2>1. Shape(B, ram) /\ Ready(B, ram, E, n)
    BY <1>4, ReadyRegister
  <2> HIDE DEF B
  <2> QED
    BY <1>4, <2>1 DEF B
<1> QED
  BY <1>2, <1>3, <1>5

\* It leaves the program ready, for the addresses in E, unless it loses it.
LEMMA QuietStep ==
  ASSUME Run, Seen, Quiet(I), NEW E, NEW n, Shape(ar, ram), Ready(ar, ram, E, n)
  PROVE  Lost' \/ (On(ip + 4) /\ Shape(ar', ram') /\ Ready(ar', ram', E, n))
<1> DEFINE Fine == On(ip + 4) /\ Shape(ar', ram') /\ Ready(ar', ram', E, n)
<1>0. I.len = 4
  BY DEF Quiet
<1>1. ASSUME On(ip + 4), UNCHANGED ram, I.rd \in 0 .. 28,
             NEW v, Tame(v, E), ar' = [ar EXCEPT ![I.rd] = v]
      PROVE  Fine
  BY <1>1, ReadyRegister
<1>2. CASE I.op = "nop"
  BY <1>0, <1>2, NopStep
<1>3. CASE I.op \in {"movz", "movk"} /\ I.rd \in 0 .. 28 /\ Tame(I.val, {})
  <2>1. Tame(I.val, E) /\ \A x : Tame(Num(x), E)
    BY <1>3, TameResult DEF Tame
  <2> QED
    BY <1>0, <1>1, <1>3, <2>1, MovStep
<1>4. CASE I.op = "add" /\ I.rd \in 0 .. 28 /\ I.rn \in 0 .. 28
  <2>1. Tame(At(ar[I.rn], I.d), E)
    BY <1>4, TameAt DEF Ready
  <2> QED
    BY <1>0, <1>1, <1>4, <2>1, AddStep
<1>5. CASE I.op \in {"adds", "subs"} /\ I.rd \in 0 .. 28
  <2>1. I.rd # ZR
    BY <1>5 DEF ZR
  <2> QED
    BY <1>0, <1>1, <1>5, <2>1, ArithmeticStep
<1>6. CASE I.op = "subs" /\ I.rd = ZR
  BY <1>0, <1>6, CmpStep
<1>7. CASE I.op \in {"and", "orr", "eor", "orn"} /\ I.rd \in 0 .. 28 /\ I.rm \in 0 .. 28
  <2>1. Tame(ar[I.rm], E)
    BY <1>7 DEF Ready
  <2> QED
    BY <1>0, <1>1, <1>7, <2>1, LogicStep
<1>8. CASE I.op = "ldr" /\ I.rd \in 0 .. 28 \cup {LR} /\ I.rn \in 0 .. 28
  <2>1. CASE Lost'
    BY <2>1
  <2>2. CASE ~Lost'
    <3>1. PICK v \in {ram[Accessed], Indexed, Junk} : ar' = [Based EXCEPT ![I.rd] = v]
      BY <1>8, <2>2, LdrStep
    <3>2. On(ip + 4) /\ UNCHANGED ram /\ Accessed \in DOMAIN ram
      BY <1>0, <1>8, <2>2, LdrStep
    <3>3. Tame(v, E) /\ Shape(Based, ram) /\ Ready(Based, ram, E, n)
      BY <1>8, <3>1, <3>2, AccessTame, TameResult
    <3>4. CASE I.rd \in 0 .. 28
      BY <3>1, <3>2, <3>3, <3>4, ReadyRegister
    <3>5. CASE I.rd = LR
      <4>1. DOMAIN ar' = DOMAIN Based /\ \A r \in ArchReg \ {LR} : ar'[r] = Based[r]
        BY <3>1, <3>3, <3>5 DEF Shape
      <4>2. 0 .. 28 \subseteq ArchReg \ {LR} /\ HostSP \in ArchReg \ {LR}
        BY DEF ArchReg, LR, HostSP
      <4> QED
        BY <3>2, <3>3, <4>1, <4>2 DEF Shape, Ready, Deep
    <3> QED
      BY <1>8, <3>4, <3>5
  <2> QED
    BY <2>1, <2>2
<1>9. CASE I.op = "str" /\ I.rd \in 0 .. 28 /\ I.rn \in 0 .. 28
  <2>1. CASE Lost'
    BY <2>1
  <2>2. CASE ~Lost'
    <3>1. PICK v \in {ar[I.rd], Indexed, Junk} : ram' = [ram EXCEPT ![Accessed] = v]
      BY <1>9, <2>2, StrStep
    <3>2. On(ip + 4) /\ ar' = Based /\ Accessed \in DOMAIN ram
      BY <1>0, <1>9, <2>2, StrStep
    <3>3. /\ Tame(v, E) /\ Accessed.tag # "hst"
          /\ Shape(Based, ram) /\ Ready(Based, ram, E, n)
      BY <1>9, <3>1, AccessTame, TameResult DEF Ready
    <3>4. Shape(Based, ram') /\ Ready(Based, ram', E, n)
      BY <3>1, <3>2, <3>3, ReadyMemory
    <3> QED
      BY <3>2, <3>4
  <2> QED
    BY <2>1, <2>2
<1> QED
  BY <1>2, <1>3, <1>4, <1>5, <1>6, <1>7, <1>8, <1>9 DEF Quiet

-----------------------------------------------------------------------------
\* Where the processor finds the native instructions around the program.

\* Code after code, at offsets that are known.
LEMMA PlacedSplit ==
  ASSUME NEW m \in Nat, NEW n \in Nat, NEW q \in Codes(m), NEW r \in Codes(n), NEW at \in Nat,
         NEW t, Placed(t, q \o r, at), NEW b, b = at + 4 * m
  PROVE  Placed(t, q, at) /\ Placed(t, r, b)
BY PlacedApart

\* The parts of the code before the program.
LEMMA BootParts ==
  ASSUME NEW t, Placed(t, A64Boot, 0)
  PROVE  /\ Placed(t, emit_vm_sub_entry_seq_from_host, 0)
         /\ t[28] = Insn("b", "offset", 0, 0, 0, Junk, 4 + 4 * (35 + 2 * AddrParts))
         /\ Placed(t, emit_sys_enter_stub, 32)
         /\ Placed(t, emit_reg_init, 172 + 8 * AddrParts)
<1> DEFINE P == AddrParts
           x == A64Prelude
           y == emit_sys_enter_stub
           z == emit_reg_init
           e == emit_vm_sub_entry_seq_from_host
           d == 4 + Bytes(emit_sys_enter_stub)
           b == emit_b(d)
<1>0. P \in Nat /\ 0 \in Nat /\ 28 \in Nat
  BY PartsAssumption
<1>1. /\ x \in Codes(8) /\ y \in Codes(35 + 2 * P) /\ z \in Codes(13 + P) /\ e \in Codes(7)
      /\ d = 4 + 4 * (35 + 2 * P)
  BY BootCodes, StubCodes
<1>2. A64Boot = (x \o y) \o z /\ x = e \o b
  BY DEF A64Boot, A64Prelude
<1>3. b = <<Insn("b", "offset", 0, 0, 0, Junk, d)>>
  BY Singles
<1>4. d \in Int
  BY <1>0, <1>1
<1> HIDE DEF x, y, z, e, d, b
<1>5. b \in Codes(1)
  <2>1. emit_b(d) \in Codes(1)
    BY <1>4, Names, OneCode, 0 \in Int
  <2> QED
    BY <2>1 DEF b
<1>6. x \o y \in Codes(43 + 2 * P)
  BY <1>0, <1>1, Joining
<1>7. Placed(t, x \o y, 0) /\ Placed(t, z, 172 + 8 * P)
  <2>1. 43 + 2 * P \in Nat /\ 13 + P \in Nat /\ 172 + 8 * P = 0 + 4 * (43 + 2 * P)
    BY <1>0
  <2> HIDE DEF P
  <2> QED
    BY <1>0, <1>1, <1>2, <1>6, <2>1, PlacedSplit
<1>8. Placed(t, x, 0) /\ Placed(t, y, 32)
  <2>1. 35 + 2 * P \in Nat /\ 32 = 0 + 4 * 8
    BY <1>0
  <2> HIDE DEF P
  <2> QED
    BY <1>0, <1>1, <1>7, <2>1, PlacedSplit
<1>9. Placed(t, e, 0) /\ Placed(t, b, 28)
  <2>1. 28 = 0 + 4 * 7
    OBVIOUS
  <2> QED
    BY <1>0, <1>1, <1>2, <1>5, <1>8, <2>1, PlacedSplit
<1>10. t[28] = Insn("b", "offset", 0, 0, 0, Junk, d)
  BY <1>0, <1>3, <1>5, <1>9, PlacedOne
<1> QED
  BY <1>1, <1>7, <1>8, <1>9, <1>10 DEF y, z, e

\* The entry from the host.
LEMMA EntryText ==
  ASSUME NEW t, Placed(t, A64Boot, 0)
  PROVE  /\ t[0] = Insn("stp", "pre", 29, 31, 30, Junk, -16)
         /\ t[4] = Insn("add", "offset", 29, 31, 0, Junk, 0)
         /\ \A k \in 1 .. 5 : t[8 + 4 * (k - 1)] = StorePairs[k]
<1> DEFINE x == Stored(<<FP, LR>>)
           y == emit_mov_reg_sp(FP, HostSP)
           z == StorePairs
<1>1. x \in Codes(1) /\ y \in Codes(1)
  BY Names, OneCode DEF Stored, emit_mov_reg_sp
<1>2. z \in Codes(5) /\ emit_vm_sub_entry_seq_from_host = (x \o y) \o z
  BY PairCodes DEF emit_vm_sub_entry_seq_from_host
<1>3. x = <<Insn("stp", "pre", 29, 31, 30, Junk, -16)>>
  BY Names, Singles DEF Stored
<1>4. y = <<Insn("add", "offset", 29, 31, 0, Junk, 0)>>
  BY Names, Singles DEF emit_mov_reg_sp
<1>5. Placed(t, emit_vm_sub_entry_seq_from_host, 0)
  BY BootParts
<1> HIDE DEF x, y, z
<1>6. x \o y \in Codes(2) /\ 8 = 0 + 4 * 2 /\ 4 = 0 + 4 * 1
  BY <1>1, Joining
<1>7. Placed(t, x \o y, 0) /\ Placed(t, z, 8)
  BY <1>2, <1>5, <1>6, PlacedSplit
<1>8. Placed(t, x, 0) /\ Placed(t, y, 4)
  BY <1>1, <1>6, <1>7, PlacedSplit
<1>9. t[0] = Insn("stp", "pre", 29, 31, 30, Junk, -16)
  BY <1>1, <1>3, <1>8, PlacedOne
<1>10. t[4] = Insn("add", "offset", 29, 31, 0, Junk, 0)
  BY <1>1, <1>4, <1>8, PlacedOne
<1>11. \A k \in 1 .. 5 : t[8 + 4 * (k - 1)] = z[k]
  BY <1>2, <1>7, PlacedAt
<1> QED
  BY <1>9, <1>10, <1>11 DEF z

\* The low chunk of zero.
LEMMA ZeroChunk == Chunk(0, 0) = 0
<1>1. 0 \div 1 = 0 /\ Weight[1] = 1
  BY DEF Weight
<1>2. 0 % ChunkMod = 0
  BY ChunkPositive
<1> QED
  BY <1>1, <1>2 DEF Chunk

\* The stub: what it tells the call to exit from the others by.
LEMMA StubText ==
  ASSUME NEW t, Placed(t, A64Boot, 0)
  PROVE  /\ t[32] = Insn("ldr", "offset", 27, 28, 0, Junk, 8)
         /\ t[36] = Insn("movz", "offset", 11, 0, 0, Num(0), 0)
         /\ t[40] = Insn("subs", "offset", 32, 27, 11, Junk, 0)
         /\ t[44] = Insn("JMPEQ", "offset", 0, 0, 0, Junk, Masked(4 + 4 * (9 + AddrParts)))
         /\ Placed(t, HostPath, 48)
         /\ Placed(t, ExitPath, 84 + 4 * AddrParts)
<1> DEFINE P == AddrParts
           a == emit_ls("ldr", "offset", 27, VmSP, 8)
           m == emit_mov_reg_imm(Scratch, Num(0))
           s == emit_rrr("subs", ZR, 27, Scratch)
           b == emit_cmp_reg_imm(27, Num(0))
           c == emit_b_cond("JMPEQ", 4 + Bytes(HostPath))
           h == HostPath
           x == ExitPath
<1>0. P \in Nat /\ 9 + P \in Nat /\ 22 + P \in Nat /\ 84 + 4 * P \in Nat
  BY PartsAssumption
<1>1. /\ a \in Codes(1) /\ b \in Codes(2) /\ c \in Codes(1)
      /\ h \in Codes(9 + P) /\ x \in Codes(22 + P)
  BY StubCodes, HostPathCodes, ExitPathCodes
<1>2. m \in Codes(1) /\ s \in Codes(1) /\ b = m \o s
  <2>1. m \in Codes(1)
    BY Names, ZeroPart, MovCode
  <2>2. s \in Codes(1)
    BY Names, OneCode
  <2> QED
    BY <2>1, <2>2 DEF emit_cmp_reg_imm
<1>3. a = <<Insn("ldr", "offset", 27, 28, 0, Junk, 8)>>
  BY Names, Singles
<1>4. s = <<Insn("subs", "offset", 32, 27, 11, Junk, 0)>>
  BY Names, Singles
<1>5. c = <<Insn("JMPEQ", "offset", 0, 0, 0, Junk, Masked(4 + 4 * (9 + P)))>>
  <2>1. 4 + Bytes(HostPath) = 4 + 4 * (9 + P) /\ 4 + 4 * (9 + P) \in Int /\ "JMPEQ" \in CondOp
    BY <1>0, StubCodes DEF CondOp
  <2> QED
    BY <2>1, CondCode
<1>6. emit_sys_enter_stub = (((a \o b) \o c) \o h) \o x
  BY DEF emit_sys_enter_stub
<1>7. Placed(t, emit_sys_enter_stub, 32)
  BY BootParts
<1>8. Placed(t, m, 36) => t[36] = Insn("movz", "offset", 11, 0, 0, Num(0), 0)
  <2> SUFFICES ASSUME Placed(t, m, 36) PROVE t[36] = Insn("movz", "offset", 11, 0, 0, Num(0), 0)
    OBVIOUS
  <2>1. /\ 11 \in Int /\ 36 \in Nat /\ Imm(Num(0)) /\ Parts(Num(0)) = 1
        /\ m = emit_mov_reg_imm(11, Num(0))
    BY Names, ZeroPart
  <2> HIDE DEF m
  <2>2. t[36 + 4 * (1 - 1)] = Insn(MovOp(1), "offset", 11, 0, 0, MovVal(Num(0), 1), 1 - 1)
    BY <2>1, PlacedMov
  <2>3. MovOp(1) = "movz" /\ MovVal(Num(0), 1) = Num(0)
    BY ZeroChunk DEF MovOp, MovVal, Num
  <2> QED
    BY <2>2, <2>3
<1> HIDE DEF a, b, c, h, x, m, s, P
<1>9. a \o b \in Codes(3)
  BY <1>1, Joining
<1>10. (a \o b) \o c \in Codes(4)
  BY <1>1, <1>9, Joining
<1>11. ((a \o b) \o c) \o h \in Codes(13 + P) /\ 13 + P \in Nat
  BY <1>0, <1>1, <1>10, Joining
<1>12. Placed(t, ((a \o b) \o c) \o h, 32) /\ Placed(t, x, 84 + 4 * P)
  <2>1. 84 + 4 * P = 32 + 4 * (13 + P)
    BY <1>0
  <2> QED
    BY <1>0, <1>1, <1>6, <1>7, <1>11, <2>1, PlacedSplit
<1>13. Placed(t, (a \o b) \o c, 32) /\ Placed(t, h, 48)
  <2>1. 48 = 32 + 4 * 4
    OBVIOUS
  <2> QED
    BY <1>0, <1>1, <1>10, <1>12, <2>1, PlacedSplit
<1>14. Placed(t, a \o b, 32) /\ Placed(t, c, 44)
  <2>1. 44 = 32 + 4 * 3
    OBVIOUS
  <2> QED
    BY <1>1, <1>9, <1>13, <2>1, PlacedSplit
<1>15. Placed(t, a, 32) /\ Placed(t, b, 36)
  <2>1. 36 = 32 + 4 * 1
    OBVIOUS
  <2> QED
    BY <1>1, <1>14, <2>1, PlacedSplit
<1>16. Placed(t, m, 36) /\ Placed(t, s, 40)
  <2>1. 40 = 36 + 4 * 1
    OBVIOUS
  <2> QED
    BY <1>2, <1>15, <2>1, PlacedSplit
<1>17. t[32] = Insn("ldr", "offset", 27, 28, 0, Junk, 8)
  BY <1>1, <1>3, <1>15, PlacedOne
<1>18. t[40] = Insn("subs", "offset", 32, 27, 11, Junk, 0)
  BY <1>2, <1>4, <1>16, PlacedOne
<1>19. t[44] = Insn("JMPEQ", "offset", 0, 0, 0, Junk, Masked(4 + 4 * (9 + P)))
  BY <1>1, <1>5, <1>14, PlacedOne
<1> QED
  BY <1>8, <1>12, <1>13, <1>16, <1>17, <1>18, <1>19 DEF h, x, P

\* An immediate that is no number is the value of each of its movz and movk.
LEMMA AddressText ==
  ASSUME NEW r \in Int, NEW v, Imm(v), Parts(v) = AddrParts, v.tag # "num", NEW at \in Nat, NEW t,
         Placed(t, emit_mov_reg_imm(r, v), at)
  PROVE  /\ emit_mov_reg_imm(r, v) \in Codes(AddrParts)
         /\ \A k \in 1 .. AddrParts :
               t[at + 4 * (k - 1)] = Insn(MovOp(k), "offset", r, 0, 0, v, k - 1)
BY PlacedMov, MovCode DEF MovVal

\* A pair on the host's stack.
LEMMA PairOne ==
  ASSUME NEW r, NEW s
  PROVE  /\ Stored(<<r, s>>) = <<Insn("stp", "pre", r, 31, s, Junk, -16)>>
         /\ Loaded(<<r, s>>) = <<Insn("ldp", "post", r, 31, s, Junk, 16)>>
<1> DEFINE p == <<r, s>>
<1>1. p[1] = r /\ p[2] = s /\ HostSP = 31
  BY Names
<1> HIDE DEF p
<1>2. Stored(p) = emit_stp_pre_idx(r, s, 31, -16) /\ Loaded(p) = emit_ldp_post_idx(r, s, 31, 16)
  BY <1>1 DEF Stored, Loaded
<1>3. emit_stp_pre_idx(r, s, 31, -16) = <<Insn("stp", "pre", r, 31, s, Junk, -16)>>
  BY Singles
<1>4. emit_ldp_post_idx(r, s, 31, 16) = <<Insn("ldp", "post", r, 31, s, Junk, 16)>>
  BY Singles
<1> QED
  BY <1>2, <1>3, <1>4 DEF p

\* The stub's way to sys_enter and back.
LEMMA HostPathText ==
  ASSUME NEW t, Placed(t, A64Boot, 0)
  PROVE  LET p == 4 * AddrParts
         IN  /\ t[48] = Insn("stp", "pre", 14, 31, 15, Junk, -16)
             /\ t[52] = Insn("stp", "pre", 12, 31, 13, Junk, -16)
             /\ t[56] = Insn("orr", "offset", 0, 32, 28, Junk, 0)
             /\ \A k \in 1 .. AddrParts :
                   t[60 + 4 * (k - 1)] = Insn(MovOp(k), "offset", 11, 0, 0, sys_enter, k - 1)
             /\ t[60 + p] = Insn("blr", "offset", 0, 11, 0, Junk, 0)
             /\ t[64 + p] = Insn("orr", "offset", 28, 32, 0, Junk, 0)
             /\ t[68 + p] = Insn("ldp", "post", 12, 31, 13, Junk, 16)
             /\ t[72 + p] = Insn("ldp", "post", 14, 31, 15, Junk, 16)
             /\ t[76 + p] = Insn("ldr", "post", 30, 28, 0, Junk, 8)
             /\ t[80 + p] = Insn("ret", "offset", 0, 30, 0, Junk, 0)
<1> DEFINE P == AddrParts
           a == Stored(<<14, 15>>)
           b == Stored(<<12, 13>>)
           c == emit_mov_reg_reg(0, VmSP)
           m == emit_mov_reg_imm(Scratch, sys_enter)
           d == emit_to_reg("blr", Scratch)
           e == emit_mov_reg_reg(VmSP, 0)
           f == Loaded(<<12, 13>>)
           g == Loaded(<<14, 15>>)
           u == emit_pop_reg(LR)
           v == emit_ret
           x == emit_non_vm_sub_entry_seq_to_host
           y == emit_sys_enter_call
           z == emit_non_vm_sub_exit_seq_to_host
<1>0. P \in Nat /\ 3 + P \in Nat
  BY PartsAssumption
<1>1. /\ a = <<Insn("stp", "pre", 14, 31, 15, Junk, -16)>>
      /\ b = <<Insn("stp", "pre", 12, 31, 13, Junk, -16)>>
      /\ f = <<Insn("ldp", "post", 12, 31, 13, Junk, 16)>>
      /\ g = <<Insn("ldp", "post", 14, 31, 15, Junk, 16)>>
  BY PairOne
<1>2. /\ c = <<Insn("orr", "offset", 0, 32, 28, Junk, 0)>>
      /\ e = <<Insn("orr", "offset", 28, 32, 0, Junk, 0)>>
      /\ d = <<Insn("blr", "offset", 0, 11, 0, Junk, 0)>>
  BY Names, Singles DEF emit_mov_reg_reg
<1>3. /\ u = <<Insn("ldr", "post", 30, 28, 0, Junk, 8)>>
      /\ v = <<Insn("ret", "offset", 0, 30, 0, Junk, 0)>>
  BY SMTT(30), Names, Singles DEF emit_pop_reg, emit_ret
<1>4. a \in Codes(1) /\ b \in Codes(1) /\ f \in Codes(1) /\ g \in Codes(1)
  BY SMTT(30), Names, OneCode DEF Stored, Loaded
<1>5. c \in Codes(1) /\ d \in Codes(1) /\ e \in Codes(1)
  BY Names, OneCode DEF emit_mov_reg_reg
<1>6. u \in Codes(1) /\ v \in Codes(1)
  BY Names, OneCode DEF emit_pop_reg, emit_ret
<1>7. m \in Codes(P)
  BY Names, HostValues, MovCode
<1>8. x \in Codes(2) /\ y \in Codes(3 + P) /\ z \in Codes(2)
  BY HostPathCodes
<1>9. x = a \o b /\ y = ((c \o m) \o d) \o e /\ z = f \o g
  BY DEF emit_non_vm_sub_entry_seq_to_host, emit_sys_enter_call,
         emit_non_vm_sub_exit_seq_to_host
<1>10. HostPath = (((x \o y) \o z) \o u) \o v /\ Placed(t, HostPath, 48)
  BY StubText DEF HostPath
<1>11. Placed(t, m, 60) =>
         \A k \in 1 .. P :
            t[60 + 4 * (k - 1)] = Insn(MovOp(k), "offset", 11, 0, 0, sys_enter, k - 1)
  <2>1. 11 \in Int /\ 60 \in Nat /\ m = emit_mov_reg_imm(11, sys_enter) /\ sys_enter.tag # "num"
    BY Names DEF sys_enter
  <2> QED
    BY <2>1, HostValues, AddressText
<1> HIDE DEF a, b, c, d, e, f, g, u, v, x, y, z, m, P
<1>12. /\ x \o y \in Codes(5 + P) /\ 5 + P \in Nat
       /\ (x \o y) \o z \in Codes(7 + P) /\ 7 + P \in Nat
       /\ ((x \o y) \o z) \o u \in Codes(8 + P) /\ 8 + P \in Nat
  <2>1. x \o y \in Codes(5 + P) /\ 5 + P \in Nat
    BY <1>0, <1>8, Joining
  <2>2. (x \o y) \o z \in Codes(7 + P) /\ 7 + P \in Nat
    BY <1>0, <1>8, <2>1, Joining
  <2>3. ((x \o y) \o z) \o u \in Codes(8 + P) /\ 8 + P \in Nat
    BY <1>0, <1>6, <2>2, Joining
  <2> QED
    BY <2>1, <2>2, <2>3
<1>13. Placed(t, ((x \o y) \o z) \o u, 48) /\ Placed(t, v, 80 + 4 * P)
  <2>1. 80 + 4 * P = 48 + 4 * (8 + P)
    BY <1>0
  <2> QED
    BY <1>6, <1>10, <1>12, <2>1, PlacedSplit
<1>14. Placed(t, (x \o y) \o z, 48) /\ Placed(t, u, 76 + 4 * P)
  <2>1. 76 + 4 * P = 48 + 4 * (7 + P)
    BY <1>0
  <2> QED
    BY <1>6, <1>12, <1>13, <2>1, PlacedSplit
<1>15. Placed(t, x \o y, 48) /\ Placed(t, z, 68 + 4 * P)
  <2>1. 68 + 4 * P = 48 + 4 * (5 + P)
    BY <1>0
  <2> QED
    BY <1>8, <1>12, <1>14, <2>1, PlacedSplit
<1>16. Placed(t, x, 48) /\ Placed(t, y, 56)
  <2>1. 56 = 48 + 4 * 2
    OBVIOUS
  <2> QED
    BY <1>0, <1>8, <1>15, <2>1, PlacedSplit
<1>17. Placed(t, a, 48) /\ Placed(t, b, 52)
  <2>1. 52 = 48 + 4 * 1
    OBVIOUS
  <2> QED
    BY <1>4, <1>9, <1>16, <2>1, PlacedSplit
<1>18. Placed(t, f, 68 + 4 * P) /\ Placed(t, g, 72 + 4 * P)
  <2>1. 72 + 4 * P = (68 + 4 * P) + 4 * 1 /\ 68 + 4 * P \in Nat
    BY <1>0
  <2> QED
    BY <1>4, <1>9, <1>15, <2>1, PlacedSplit
<1>19. /\ c \o m \in Codes(1 + P) /\ 1 + P \in Nat
       /\ (c \o m) \o d \in Codes(2 + P) /\ 2 + P \in Nat
  <2>1. c \o m \in Codes(1 + P) /\ 1 + P \in Nat
    BY <1>0, <1>5, <1>7, Joining
  <2>2. (c \o m) \o d \in Codes(2 + P) /\ 2 + P \in Nat
    BY <1>0, <1>5, <2>1, Joining
  <2> QED
    BY <2>1, <2>2
<1>20. Placed(t, (c \o m) \o d, 56) /\ Placed(t, e, 64 + 4 * P)
  <2>1. 64 + 4 * P = 56 + 4 * (2 + P)
    BY <1>0
  <2> QED
    BY <1>5, <1>9, <1>16, <1>19, <2>1, PlacedSplit
<1>21. Placed(t, c \o m, 56) /\ Placed(t, d, 60 + 4 * P)
  <2>1. 60 + 4 * P = 56 + 4 * (1 + P)
    BY <1>0
  <2> QED
    BY <1>5, <1>19, <1>20, <2>1, PlacedSplit
<1>22. Placed(t, c, 56) /\ Placed(t, m, 60)
  <2>1. 60 = 56 + 4 * 1
    OBVIOUS
  <2> QED
    BY <1>0, <1>5, <1>7, <1>21, <2>1, PlacedSplit
<1>23. /\ t[48] = Insn("stp", "pre", 14, 31, 15, Junk, -16)
       /\ t[52] = Insn("stp", "pre", 12, 31, 13, Junk, -16)
  BY <1>1, <1>4, <1>17, PlacedOne
<1>24. /\ t[56] = Insn("orr", "offset", 0, 32, 28, Junk, 0)
       /\ t[60 + 4 * P] = Insn("blr", "offset", 0, 11, 0, Junk, 0)
       /\ t[64 + 4 * P] = Insn("orr", "offset", 28, 32, 0, Junk, 0)
  <2>1. 60 + 4 * P \in Nat /\ 64 + 4 * P \in Nat
    BY <1>0
  <2> QED
    BY <1>2, <1>5, <1>20, <1>21, <1>22, <2>1, PlacedOne
<1>25. /\ t[68 + 4 * P] = Insn("ldp", "post", 12, 31, 13, Junk, 16)
       /\ t[72 + 4 * P] = Insn("ldp", "post", 14, 31, 15, Junk, 16)
  <2>1. 68 + 4 * P \in Nat /\ 72 + 4 * P \in Nat
    BY <1>0
  <2> QED
    BY <1>1, <1>4, <1>18, <2>1, PlacedOne
<1>26. /\ t[76 + 4 * P] = Insn("ldr", "post", 30, 28, 0, Junk, 8)
       /\ t[80 + 4 * P] = Insn("ret", "offset", 0, 30, 0, Junk, 0)
  <2>1. 76 + 4 * P \in Nat /\ 80 + 4 * P \in Nat
    BY <1>0
  <2> QED
    BY <1>3, <1>6, <1>13, <1>14, <2>1, PlacedOne
<1> QED
  BY <1>11, <1>22, <1>23, <1>24, <1>25, <1>26 DEF P

\* The way back to the host.
LEMMA ExitPathText ==
  ASSUME NEW t, Placed(t, A64Boot, 0)
  PROVE  LET p == 4 * AddrParts
         IN  /\ t[84 + p] = Insn("add", "offset", 28, 28, 0, Junk, 16)
             /\ \A k \in 1 .. AddrParts :
                   t[88 + p + 4 * (k - 1)] = Insn(MovOp(k), "offset", 11, 0, 0, DumpSlot(0), k - 1)
             /\ \A k \in 1 .. 14 : t[88 + 2 * p + 4 * (k - 1)] = DumpStores[k]
             /\ \A k \in 1 .. 5 : t[144 + 2 * p + 4 * (k - 1)] = LoadPairs[k]
             /\ t[164 + 2 * p] = Insn("ldp", "post", 29, 31, 30, Junk, 16)
             /\ t[168 + 2 * p] = Insn("ret", "offset", 0, 30, 0, Junk, 0)
<1> DEFINE P == AddrParts
           a == emit_add(VmSP, VmSP, 16)
           m == emit_mov_reg_imm(Scratch, DumpSlot(0))
           s == DumpStores
           w == emit_vm_reg_save_seq
           l == LoadPairs
           f == Loaded(<<FP, LR>>)
           v == emit_ret
           x == emit_vm_sub_exit_seq_to_host
<1>0. P \in Nat
  BY PartsAssumption
<1>1. /\ a = <<Insn("add", "offset", 28, 28, 0, Junk, 16)>>
      /\ f = <<Insn("ldp", "post", 29, 31, 30, Junk, 16)>>
      /\ v = <<Insn("ret", "offset", 0, 30, 0, Junk, 0)>>
  <2>1. a = <<Insn("add", "offset", 28, 28, 0, Junk, 16)>>
    BY Names, Singles
  <2>2. f = <<Insn("ldp", "post", 29, 31, 30, Junk, 16)>>
    BY Names, PairOne
  <2>3. v = <<Insn("ret", "offset", 0, 30, 0, Junk, 0)>>
    BY Names, Singles DEF emit_ret
  <2> QED
    BY <2>1, <2>2, <2>3
<1>2. a \in Codes(1) /\ f \in Codes(1) /\ v \in Codes(1)
  BY Names, OneCode DEF Loaded, emit_ret
<1>3. m \in Codes(P)
  BY Names, HostValues, MovCode
<1>4. s \in Codes(14) /\ w = m \o s /\ w \in Codes(14 + P)
  BY ClearCodes, ExitPathCodes
<1>5. l \in Codes(5) /\ x = (l \o f) \o v /\ x \in Codes(7)
  BY PairCodes, ExitPathCodes DEF emit_vm_sub_exit_seq_to_host
<1>6. ExitPath = (a \o w) \o x /\ Placed(t, ExitPath, 84 + 4 * P)
  BY StubText DEF ExitPath
<1>7. Placed(t, m, 88 + 4 * P) =>
         \A k \in 1 .. P :
            t[88 + 4 * P + 4 * (k - 1)] = Insn(MovOp(k), "offset", 11, 0, 0, DumpSlot(0), k - 1)
  <2>1. /\ 11 \in Int /\ 88 + 4 * P \in Nat /\ m = emit_mov_reg_imm(11, DumpSlot(0))
        /\ DumpSlot(0).tag # "num"
    BY <1>0, Names DEF DumpSlot
  <2> QED
    BY <2>1, HostValues, AddressText
<1> HIDE DEF a, m, s, w, l, f, v, x, P
<1>8. a \o w \in Codes(15 + P) /\ 15 + P \in Nat /\ 14 + P \in Nat /\ l \o f \in Codes(6)
  <2>1. a \o w \in Codes(15 + P) /\ 15 + P \in Nat /\ 14 + P \in Nat
    BY <1>0, <1>2, <1>4, Joining
  <2>2. l \o f \in Codes(6)
    BY <1>2, <1>5, Joining
  <2> QED
    BY <2>1, <2>2
<1>9. Placed(t, a \o w, 84 + 4 * P) /\ Placed(t, x, 144 + 8 * P)
  <2>1. 144 + 8 * P = (84 + 4 * P) + 4 * (15 + P) /\ 84 + 4 * P \in Nat
    BY <1>0
  <2> QED
    BY <1>5, <1>6, <1>8, <2>1, PlacedSplit
<1>10. Placed(t, a, 84 + 4 * P) /\ Placed(t, w, 88 + 4 * P)
  <2>1. 88 + 4 * P = (84 + 4 * P) + 4 * 1 /\ 84 + 4 * P \in Nat
    BY <1>0
  <2> QED
    BY <1>2, <1>4, <1>8, <1>9, <2>1, PlacedSplit
<1>11. Placed(t, m, 88 + 4 * P) /\ Placed(t, s, 88 + 8 * P)
  <2>1. 88 + 8 * P = (88 + 4 * P) + 4 * P /\ 88 + 4 * P \in Nat
    BY <1>0
  <2> QED
    BY <1>0, <1>3, <1>4, <1>10, <2>1, PlacedSplit
<1>12. Placed(t, l \o f, 144 + 8 * P) /\ Placed(t, v, 168 + 8 * P)
  <2>1. 168 + 8 * P = (144 + 8 * P) + 4 * 6 /\ 144 + 8 * P \in Nat
    BY <1>0
  <2> QED
    BY <1>2, <1>5, <1>8, <1>9, <2>1, PlacedSplit
<1>13. Placed(t, l, 144 + 8 * P) /\ Placed(t, f, 164 + 8 * P)
  <2>1. 164 + 8 * P = (144 + 8 * P) + 4 * 5 /\ 144 + 8 * P \in Nat
    BY <1>0
  <2> QED
    BY <1>2, <1>5, <1>12, <2>1, PlacedSplit
<1>14. /\ t[84 + 4 * P] = Insn("add", "offset", 28, 28, 0, Junk, 16)
       /\ t[164 + 8 * P] = Insn("ldp", "post", 29, 31, 30, Junk, 16)
       /\ t[168 + 8 * P] = Insn("ret", "offset", 0, 30, 0, Junk, 0)
  <2>1. 84 + 4 * P \in Nat /\ 164 + 8 * P \in Nat /\ 168 + 8 * P \in Nat
    BY <1>0
  <2> QED
    BY <1>1, <1>2, <1>10, <1>12, <1>13, <2>1, PlacedOne
<1>15. /\ \A k \in 1 .. 14 : t[88 + 8 * P + 4 * (k - 1)] = s[k]
       /\ \A k \in 1 .. 5 : t[144 + 8 * P + 4 * (k - 1)] = l[k]
  <2>1. 88 + 8 * P \in Nat /\ 144 + 8 * P \in Nat
    BY <1>0
  <2>2. \A k \in 1 .. 14 : t[88 + 8 * P + 4 * (k - 1)] = s[k]
    BY <1>4, <1>11, <2>1, PlacedAt
  <2>3. \A k \in 1 .. 5 : t[144 + 8 * P + 4 * (k - 1)] = l[k]
    BY <1>5, <1>13, <2>1, PlacedAt
  <2> QED
    BY <2>2, <2>3
<1>16. 2 * (4 * P) = 8 * P
  BY <1>0
<1> QED
  BY <1>7, <1>11, <1>14, <1>15, <1>16 DEF s, l, P

\* The registers of the program before it starts.
LEMMA InitText ==
  ASSUME NEW t, Placed(t, A64Boot, 0)
  PROVE  LET p == 4 * AddrParts
         IN  /\ \A k \in 1 .. 13 : t[172 + 2 * p + 4 * (k - 1)] = Clears[k]
             /\ \A k \in 1 .. AddrParts :
                   t[224 + 2 * p + 4 * (k - 1)] = Insn(MovOp(k), "offset", 28, 0, 0, Stk(0), k - 1)
<1> DEFINE P == AddrParts
           c == Clears
           m == emit_mov_reg_imm(VmSP, Stk(0))
           z == emit_reg_init
<1>0. P \in Nat /\ 172 + 8 * P \in Nat /\ 224 + 8 * P \in Nat /\ 2 * (4 * P) = 8 * P
  BY PartsAssumption
<1>1. c \in Codes(13) /\ m \in Codes(P) /\ z = c \o m
  BY Names, HostValues, MovCode, ClearCodes
<1>2. Placed(t, z, 172 + 8 * P)
  BY BootParts
<1>3. Placed(t, m, 224 + 8 * P) =>
         \A k \in 1 .. P :
            t[224 + 8 * P + 4 * (k - 1)] = Insn(MovOp(k), "offset", 28, 0, 0, Stk(0), k - 1)
  <2>1. 28 \in Int /\ m = emit_mov_reg_imm(28, Stk(0)) /\ Stk(0).tag # "num"
    BY Names, HostValues
  <2> QED
    BY <1>0, <2>1, HostValues, AddressText
<1> HIDE DEF c, m, z, P
<1>4. Placed(t, c, 172 + 8 * P) /\ Placed(t, m, 224 + 8 * P)
  <2>1. 224 + 8 * P = (172 + 8 * P) + 4 * 13
    BY <1>0
  <2> QED
    BY <1>0, <1>1, <1>2, <2>1, PlacedSplit
<1>5. \A k \in 1 .. 13 : t[172 + 8 * P + 4 * (k - 1)] = c[k]
  <2> DEFINE b == 172 + 8 * P
  <2>1. b \in Nat /\ Placed(t, c, b)
    BY <1>0, <1>4
  <2> HIDE DEF b
  <2>2. \A k \in 1 .. 13 : t[b + 4 * (k - 1)] = c[k]
    <3>1. 13 \in Nat /\ c \in Codes(13)
      BY <1>1
    <3> QED
      BY SMTT(30), <2>1, <3>1, PlacedAt
  <2> QED
    BY <2>2 DEF b
<1> QED
  BY <1>0, <1>3, <1>4, <1>5 DEF c, P

\* The exit after the program.
LEMMA GuardText ==
  ASSUME NEW at \in Nat, NEW t, Placed(t, emit_vm_exit_syscall_guard(at), at)
  PROVE  /\ t[at] = Insn("movz", "offset", 27, 0, 0, Num(0), 0)
         /\ t[at + 4] = Insn("str", "pre", 27, 28, 0, Junk, -8)
         /\ t[at + 8] = Insn("adr", "offset", 11, 0, 0, Junk, 12)
         /\ t[at + 12] = Insn("str", "pre", 11, 28, 0, Junk, -8)
         /\ t[at + 16] = Insn("b", "offset", 0, 0, 0, Junk, 32 - (at + 16))
<1> DEFINE a == emit_mov_reg_imm(27, Num(0))
           b == emit_push_reg(27)
           c == emit_adr(Scratch, 12)
           d == emit_push_reg(Scratch)
           call == ((a \o b) \o c) \o d
           n == 32 - (at + 16)
           e == emit_b(n)
           g == emit_vm_exit_syscall_guard(at)
<1>0. /\ at + 4 \in Nat /\ at + 8 \in Nat /\ at + 12 \in Nat /\ at + 16 \in Nat /\ n \in Int
      /\ at + 4 = at + 4 * 1 /\ at + 8 = at + 4 * 2 /\ at + 12 = at + 4 * 3 /\ at + 16 = at + 4 * 4
  OBVIOUS
<1>1. a \in Codes(1)
  BY ZeroPart, MovCode
<1>2. b \in Codes(1) /\ c \in Codes(1) /\ d \in Codes(1)
  BY Names, OneCode DEF emit_push_reg
<1>3. b = <<Insn("str", "pre", 27, 28, 0, Junk, -8)>>
  BY Names, Singles DEF emit_push_reg
<1>4. c = <<Insn("adr", "offset", 11, 0, 0, Junk, 12)>>
  BY Names, Singles
<1>5. d = <<Insn("str", "pre", 11, 28, 0, Junk, -8)>>
  BY Names, Singles DEF emit_push_reg
<1>6. Placed(t, a, at) => t[at] = Insn("movz", "offset", 27, 0, 0, Num(0), 0)
  <2> SUFFICES ASSUME Placed(t, a, at) PROVE t[at] = Insn("movz", "offset", 27, 0, 0, Num(0), 0)
    OBVIOUS
  <2>1. t[at + 4 * (1 - 1)] = Insn(MovOp(1), "offset", 27, 0, 0, MovVal(Num(0), 1), 1 - 1)
    BY ZeroPart, PlacedMov
  <2>2. MovOp(1) = "movz" /\ MovVal(Num(0), 1) = Num(0)
    BY ZeroChunk DEF MovOp, MovVal, Num
  <2> QED
    BY <2>1, <2>2
<1> HIDE DEF a, b, c, d, e
<1>7. a \o b \in Codes(2) /\ (a \o b) \o c \in Codes(3) /\ call \in Codes(4)
  <2>1. a \o b \in Codes(2)
    BY <1>1, <1>2, Joining
  <2>2. (a \o b) \o c \in Codes(3)
    BY <1>2, <2>1, Joining
  <2> QED
    BY <1>2, <2>1, <2>2, Joining
<1>8. Bytes(call) = 16
  <2> HIDE DEF call
  <2>1. call \in Seq(A64Ops) /\ Len(call) = 4
    BY <1>7 DEF Codes
  <2>2. Bytes(call) = 4 * Len(call)
    BY <2>1, Uniform, 0 \in Nat
  <2> QED
    BY <2>1, <2>2
<1>9. g = call \o e
  <2>1. g = call \o emit_b(A64StubAt - (at + Bytes(call)))
    BY DEF emit_vm_exit_syscall_guard, a, b, c, d
  <2> HIDE DEF call
  <2> QED
    BY <1>8, <2>1, BootCodes DEF e
<1> HIDE DEF n
<1>10. e = <<Insn("b", "offset", 0, 0, 0, Junk, n)>> /\ e \in Codes(1)
  <2>1. emit_b(n) = <<Insn("b", "offset", 0, 0, 0, Junk, n)>>
    BY Singles
  <2>2. emit_b(n) \in Codes(1)
    BY <1>0, Names, OneCode, 0 \in Int
  <2> QED
    BY <2>1, <2>2 DEF e
<1>11. Placed(t, call, at) /\ Placed(t, e, at + 16)
  <2> HIDE DEF call, g
  <2>1. Placed(t, call \o e, at)
    BY <1>9 DEF g
  <2> QED
    BY <1>0, <1>7, <1>10, <2>1, PlacedSplit
<1>12. Placed(t, (a \o b) \o c, at) /\ Placed(t, d, at + 12)
  BY <1>0, <1>2, <1>7, <1>11, PlacedSplit
<1>13. Placed(t, a \o b, at) /\ Placed(t, c, at + 8)
  BY <1>0, <1>2, <1>7, <1>12, PlacedSplit
<1>14. Placed(t, a, at) /\ Placed(t, b, at + 4)
  BY <1>0, <1>1, <1>2, <1>13, PlacedSplit
<1>15. t[at + 4] = Insn("str", "pre", 27, 28, 0, Junk, -8)
  BY <1>0, <1>2, <1>3, <1>14, PlacedOne
<1>16. t[at + 8] = Insn("adr", "offset", 11, 0, 0, Junk, 12)
  BY <1>0, <1>2, <1>4, <1>13, PlacedOne
<1>17. t[at + 12] = Insn("str", "pre", 11, 28, 0, Junk, -8)
  BY <1>0, <1>2, <1>5, <1>12, PlacedOne
<1>18. t[at + 16] = Insn("b", "offset", 0, 0, 0, Junk, n)
  BY <1>0, <1>10, <1>11, PlacedOne
<1> QED
  BY <1>6, <1>14, <1>15, <1>16, <1>17, <1>18 DEF n

-----------------------------------------------------------------------------
\* The native instructions of the program's.

\* Code of quiet instructions only.
Calm(n) == {q \in Codes(n) : \A k \in 1 .. n : Quiet(q[k])}

\* Code that goes on from one quiet native instruction to the next, joined.
LEMMA CalmConcat ==
  ASSUME NEW m \in Nat, NEW n \in Nat, NEW q \in Calm(m), NEW r \in Calm(n), NEW k, k = m + n
  PROVE  q \o r \in Calm(k)
<1>1. /\ q \in Codes(m) /\ r \in Codes(n) /\ q \o r \in Codes(m + n)
      /\ Len(q) = m /\ Len(r) = n /\ q \in Seq(A64Ops) /\ r \in Seq(A64Ops)
  BY CodesConcat DEF Calm, Codes
<1>2. ASSUME NEW j \in 1 .. m + n PROVE Quiet((q \o r)[j])
  <2>0. j <= m \/ j > m
    OBVIOUS
  <2>1. CASE j <= m
    <3>1. (q \o r)[j] = q[j] /\ j \in 1 .. m
      BY <1>1, <2>1
    <3> QED
      BY <3>1 DEF Calm
  <2>2. CASE j > m
    <3>1. (q \o r)[j] = r[j - m] /\ j - m \in 1 .. n
      BY <1>1, <2>2
    <3> QED
      BY <3>1 DEF Calm
  <2> QED
    BY <2>0, <2>1, <2>2
<1> QED
  BY <1>1, <1>2 DEF Calm

\* An immediate is quiet, when it is no address of the code.
LEMMA CalmMov ==
  ASSUME NEW r \in 0 .. 28, NEW w \in Word
  PROVE  emit_mov_reg_imm(r, Num(w)) \in Calm(Parts(Num(w)))
<1> DEFINE v == Num(w)
           m == emit_mov_reg_imm(r, v)
<1>1. Imm(v) /\ v.tag = "num"
  BY NumImm DEF Num
<1>2. ASSUME NEW k \in 1 .. Parts(v)
      PROVE  Quiet(Insn(MovOp(k), "offset", r, 0, 0, MovVal(v, k), k - 1))
  <2>1. Tame(MovVal(v, k), {})
    BY <1>1, TameResult DEF MovVal
  <2> QED
    BY <2>1 DEF Quiet, Insn, MovOp
<1>3. m \in Codes(Parts(v)) /\ \A k \in 1 .. Parts(v) : Quiet(m[k])
  BY <1>1, <1>2, MovCode
<1> QED
  BY <1>3 DEF Calm

\* So are these, one by one.
LEMMA CalmOnes ==
  ASSUME NEW r \in 0 .. 28, NEW s \in 0 .. 28, NEW mode \in ModeName, NEW n \in Int
  PROVE  /\ \A op \in {"adds", "subs", "and", "orr", "eor"} : emit_rrr(op, r, r, s) \in Calm(1)
         /\ emit_rrr("adds", Scratch, r, Scratch) \in Calm(1)
         /\ emit_rrr("orr", r, ZR, s) \in Calm(1) /\ emit_rrr("orn", r, ZR, s) \in Calm(1)
         /\ emit_rrr("subs", ZR, r, s) \in Calm(1)
         /\ emit_ls("ldr", mode, r, s, n) \in Calm(1)
         /\ emit_ls("str", mode, r, s, n) \in Calm(1)
<1>0. /\ r \in Int /\ s \in Int /\ Scratch \in 0 .. 28 /\ Scratch \in Int /\ ZR \in Int
      /\ \A o, k : k \in 1 .. 1 => <<o>>[k] = o
  BY DEF Scratch, ZR
<1>1. ASSUME NEW o, Quiet(o), <<o>> \in Codes(1) PROVE <<o>> \in Calm(1)
  BY <1>0, <1>1 DEF Calm
<1>2. ASSUME NEW op \in {"adds", "subs", "and", "orr", "eor"}
      PROVE  emit_rrr(op, r, r, s) \in Calm(1)
  <2>1. emit_rrr(op, r, r, s) = <<Insn(op, "offset", r, r, s, Junk, 0)>>
    BY Singles
  <2>2. emit_rrr(op, r, r, s) \in Codes(1)
    <3>1. op \in OpName /\ "offset" \in ModeName
      BY DEF OpName, ModeName
    <3> QED
      BY <1>0, <3>1, OneCode, 0 \in Int
  <2>3. Quiet(Insn(op, "offset", r, r, s, Junk, 0))
    BY DEF Quiet, Insn
  <2> QED
    BY <1>1, <2>1, <2>2, <2>3
<1>3. emit_rrr("adds", Scratch, r, Scratch) \in Calm(1)
  <2>1. emit_rrr("adds", Scratch, r, Scratch)
          = <<Insn("adds", "offset", Scratch, r, Scratch, Junk, 0)>>
    BY Singles
  <2>2. emit_rrr("adds", Scratch, r, Scratch) \in Codes(1)
    <3>1. "adds" \in OpName /\ "offset" \in ModeName
      BY DEF OpName, ModeName
    <3> QED
      BY <1>0, <3>1, OneCode, 0 \in Int
  <2>3. Quiet(Insn("adds", "offset", Scratch, r, Scratch, Junk, 0))
    BY <1>0 DEF Quiet, Insn
  <2> QED
    BY <1>1, <2>1, <2>2, <2>3
<1>4. ASSUME NEW op \in {"orr", "orn"} PROVE emit_rrr(op, r, ZR, s) \in Calm(1)
  <2>1. emit_rrr(op, r, ZR, s) = <<Insn(op, "offset", r, ZR, s, Junk, 0)>>
    BY Singles
  <2>2. emit_rrr(op, r, ZR, s) \in Codes(1)
    <3>1. op \in OpName /\ "offset" \in ModeName
      BY DEF OpName, ModeName
    <3> QED
      BY <1>0, <3>1, OneCode, 0 \in Int
  <2>3. Quiet(Insn(op, "offset", r, ZR, s, Junk, 0))
    BY DEF Quiet, Insn
  <2> QED
    BY <1>1, <2>1, <2>2, <2>3
<1>5. emit_rrr("subs", ZR, r, s) \in Calm(1)
  <2>1. emit_rrr("subs", ZR, r, s) = <<Insn("subs", "offset", ZR, r, s, Junk, 0)>>
    BY Singles
  <2>2. emit_rrr("subs", ZR, r, s) \in Codes(1)
    <3>1. "subs" \in OpName /\ "offset" \in ModeName
      BY DEF OpName, ModeName
    <3> QED
      BY <1>0, <3>1, OneCode, 0 \in Int
  <2>3. Quiet(Insn("subs", "offset", ZR, r, s, Junk, 0))
    BY DEF Quiet, Insn
  <2> QED
    BY <1>1, <2>1, <2>2, <2>3
<1>6. ASSUME NEW op \in {"ldr", "str"} PROVE emit_ls(op, mode, r, s, n) \in Calm(1)
  <2>1. emit_ls(op, mode, r, s, n) = <<Insn(op, mode, r, s, 0, Junk, n)>>
    BY Singles
  <2>2. emit_ls(op, mode, r, s, n) \in Codes(1)
    <3>1. op \in OpName
      BY DEF OpName
    <3> QED
      BY <1>0, <3>1, OneCode, 0 \in Int
  <2>3. Quiet(Insn(op, mode, r, s, 0, Junk, n))
    BY DEF Quiet, Insn
  <2> QED
    BY <1>1, <2>1, <2>2, <2>3
<1> QED
  BY <1>2, <1>3, <1>4, <1>5, <1>6

\* All the code of an instruction that is no transfer is quiet.
LEMMA EmitCalm ==
  ASSUME NEW i \in Instr, NEW at \in Nat, NEW to \in Nat \cup {Unmapped},
         i.op \notin BranchOp \cup {"RET"}
  PROVE  A64Emit(i, at, to) \in Calm(Count(i))
<1> DEFINE d == A64vr2ar[i.dst]
           s == A64vr2ar[i.src]
<1>1. /\ d \in 0 .. 28 /\ s \in 0 .. 28 /\ i.idx \in Int /\ i.imm \in Word /\ i.op \in Opcode
      /\ i.am \in Mode /\ Scratch \in 0 .. 28 /\ VmSP \in 0 .. 28
      /\ "offset" \in ModeName /\ "pre" \in ModeName /\ "post" \in ModeName
  BY RegNumber DEF Instr, Scratch, VmSP, A64vr2ar, ModeName
<1>2. /\ Parts(Num(Wrap(i.idx))) \in Nat /\ Parts(Num(i.imm)) \in Nat
      /\ Wrap(i.idx) \in Word
  <2>1. Wrap(i.idx) \in Word
    BY <1>1, WrapWord
  <2> QED
    BY <1>1, <2>1, NumImm, PartsRange
<1>0. -8 \in Int /\ 8 \in Int /\ 0 \in Int
  OBVIOUS
<1> USE DEF MoveOp, CondOp, Operation
<1>3. CASE i.op = "LOAD" \/ i.op = "STORE"
  <2> DEFINE x == Parts(Num(Wrap(i.idx)))
             m == emit_mov_reg_imm(Scratch, Num(Wrap(i.idx)))
  <2>1. m \in Calm(x) /\ x \in Nat
    BY <1>1, <1>2, CalmMov
  <2>2. Count(i) = x + 2
    BY <1>3 DEF Count
  <2> HIDE DEF x, m
  <2>3. ASSUME NEW b \in 0 .. 28, NEW f \in Calm(1)
        PROVE  (m \o emit_rrr("adds", Scratch, b, Scratch)) \o f \in Calm(x + 2)
    <3> DEFINE a == emit_rrr("adds", Scratch, b, Scratch)
    <3>1. a \in Calm(1)
      BY <1>0, <1>1, <2>3, CalmOnes
    <3> HIDE DEF a
    <3>2. m \o a \in Calm(x + 1) /\ x + 1 \in Nat
      BY <2>1, <3>1, CalmConcat
    <3>3. (m \o a) \o f \in Calm(x + 2)
      BY <2>1, <2>3, <3>2, CalmConcat
    <3> QED
      BY <3>3 DEF a
  <2>4. CASE i.op = "LOAD"
    <3> DEFINE f == emit_ls("ldr", "offset", d, Scratch, 0)
    <3>1. A64Emit(i, at, to) = (m \o emit_rrr("adds", Scratch, s, Scratch)) \o f
      BY <2>4 DEF A64Emit, Address, m
    <3>2. f \in Calm(1)
      BY <1>0, <1>1, CalmOnes
    <3> HIDE DEF f
    <3> QED
      BY <1>1, <2>2, <2>3, <3>1, <3>2
  <2>5. CASE i.op = "STORE"
    <3> DEFINE f == emit_ls("str", "offset", s, Scratch, 0)
    <3>1. A64Emit(i, at, to) = (m \o emit_rrr("adds", Scratch, d, Scratch)) \o f
      BY <2>5 DEF A64Emit, Address, m
    <3>2. f \in Calm(1)
      BY <1>0, <1>1, CalmOnes
    <3> HIDE DEF f
    <3> QED
      BY <1>1, <2>2, <2>3, <3>1, <3>2
  <2> QED
    BY <1>3, <2>4, <2>5
<1>4. CASE i.op \in MoveOp \cup {"CMP"} /\ i.am = "REG"
  <2>1. Count(i) = 1
    BY <1>4 DEF Count
  <2>2. CASE i.op = "MOV"
    <3>1. A64Emit(i, at, to) = emit_rrr("orr", d, ZR, s)
      BY <1>4, <2>2 DEF A64Emit, emit_mov_reg_reg
    <3> QED
      BY <1>0, <1>1, <2>1, <3>1, CalmOnes
  <2>3. CASE i.op = "CMP"
    <3>1. A64Emit(i, at, to) = emit_rrr("subs", ZR, d, s)
      BY <1>4, <2>3 DEF A64Emit
    <3> QED
      BY <1>0, <1>1, <2>1, <3>1, CalmOnes
  <2>4. CASE i.op \in MoveOp \ {"MOV"}
    <3>1. /\ A64Emit(i, at, to) = emit_rrr(Operation[i.op], d, d, s)
          /\ Operation[i.op] \in {"adds", "subs", "and", "orr", "eor"}
      BY <1>4, <2>4 DEF A64Emit
    <3> DEFINE op == Operation[i.op]
    <3> HIDE DEF op
    <3>2. op \in {"adds", "subs", "and", "orr", "eor"}
      BY <3>1 DEF op
    <3>3. \A o \in {"adds", "subs", "and", "orr", "eor"} : emit_rrr(o, d, d, s) \in Calm(1)
      <4>1. 0 \in Int
        OBVIOUS
      <4> QED
        BY <1>0, <1>1, <4>1, CalmOnes
    <3> QED
      BY <2>1, <3>1, <3>2, <3>3 DEF op
  <2> QED
    BY <1>4, <2>2, <2>3, <2>4
<1>5. CASE i.op = "MOV" /\ i.am = "IMM"
  <2>1. Count(i) = Parts(Num(i.imm)) /\ A64Emit(i, at, to) = emit_mov_reg_imm(d, Num(i.imm))
    BY <1>5 DEF Count, A64Emit
  <2> QED
    BY <1>1, <2>1, CalmMov
<1>6. CASE i.op \in (MoveOp \ {"MOV"}) \cup {"CMP"} /\ i.am = "IMM"
  <2> DEFINE x == Parts(Num(i.imm))
             m == emit_mov_reg_imm(Scratch, Num(i.imm))
  <2>1. m \in Calm(x) /\ x \in Nat
    BY <1>1, <1>2, CalmMov
  <2>2. Count(i) = x + 1
    BY <1>6 DEF Count
  <2>3. PICK f \in Calm(1) : A64Emit(i, at, to) = m \o f
    <3>1. CASE i.op = "CMP"
      <4>1. A64Emit(i, at, to) = m \o emit_rrr("subs", ZR, d, Scratch)
        BY <1>6, <3>1 DEF A64Emit, emit_cmp_reg_imm
      <4> QED
        BY <1>0, <1>1, <4>1, CalmOnes
    <3>2. CASE i.op # "CMP"
      <4>1. /\ A64Emit(i, at, to) = m \o emit_rrr(Operation[i.op], d, d, Scratch)
            /\ Operation[i.op] \in {"adds", "subs", "and", "orr", "eor"}
        BY <1>6, <3>2 DEF A64Emit
      <4> QED
        BY <1>0, <1>1, <4>1, CalmOnes
    <3> QED
      BY <3>1, <3>2
  <2> HIDE DEF x, m
  <2> QED
    BY <2>1, <2>2, <2>3, CalmConcat
<1>7. CASE i.op \in {"NOT", "PUSH", "POP"}
  <2>1. Count(i) = 1
    BY <1>7 DEF Count
  <2>2. CASE i.op = "NOT"
    <3>1. A64Emit(i, at, to) = emit_rrr("orn", d, ZR, d)
      BY <2>2 DEF A64Emit
    <3> QED
      BY <1>0, <1>1, <2>1, <3>1, CalmOnes
  <2>3. CASE i.op = "PUSH"
    <3>1. A64Emit(i, at, to) = emit_ls("str", "pre", d, VmSP, -8)
      BY <2>3 DEF A64Emit, emit_push_reg
    <3> DEFINE n == -8
    <3>2. n \in Int
      OBVIOUS
    <3> HIDE DEF n
    <3>3. emit_ls("str", "pre", d, VmSP, n) \in Calm(1)
      BY <1>1, <3>2, CalmOnes
    <3> QED
      BY <2>1, <3>1, <3>3 DEF n
  <2>4. CASE i.op = "POP"
    <3>1. A64Emit(i, at, to) = emit_ls("ldr", "post", d, VmSP, 8)
      BY <2>4 DEF A64Emit, emit_pop_reg
    <3> DEFINE n == 8
    <3>2. n \in Int
      OBVIOUS
    <3> HIDE DEF n
    <3>3. emit_ls("ldr", "post", d, VmSP, n) \in Calm(1)
      BY <1>1, <3>2, CalmOnes
    <3> QED
      BY <2>1, <3>1, <3>3 DEF n
  <2> QED
    BY <1>7, <2>2, <2>3, <2>4
<1> QED
  BY <1>1, <1>3, <1>4, <1>5, <1>6, <1>7 DEF Opcode, BranchOp, Mode

\* The code of a CALL.
LEMMA CallText ==
  ASSUME NEW to \in Int, NEW at \in Nat, NEW t, Placed(t, emit_call(Code(to)), at)
  PROVE  /\ t[at] = Insn("adr", "offset", 11, 0, 0, Junk, 28)
         /\ t[at + 4] = Insn("str", "pre", 11, 28, 0, Junk, -8)
         /\ \A k \in 1 .. AddrParts :
               t[at + 8 + 4 * (k - 1)] = Insn(MovOp(k), "offset", 11, 0, 0, Code(to), k - 1)
         /\ \A k \in AddrParts + 1 .. 4 : t[at + 8 + 4 * (k - 1)] = A64Nop
         /\ t[at + 24] = Insn("br", "offset", 0, 11, 0, Junk, 0)
<1> DEFINE P == AddrParts
           a == emit_adr(Scratch, 28)
           b == emit_push_reg(Scratch)
           m == emit_mov_reg_imm(Scratch, Code(to))
           n == [k \in 1 .. 4 - Len(m) |-> A64Nop]
           e == emit_to_reg("br", Scratch)
<1>0. /\ P \in 1 .. 4 /\ P \in Nat /\ 4 - P \in Nat /\ 2 + P \in Nat /\ Scratch = 11
      /\ Imm(Code(to)) /\ Parts(Code(to)) = P /\ Code(to).tag # "num"
  BY PartsAssumption, Names, CodeImm DEF Code
<1>1. /\ a = <<Insn("adr", "offset", 11, 0, 0, Junk, 28)>>
      /\ e = <<Insn("br", "offset", 0, 11, 0, Junk, 0)>>
  BY <1>0, Singles
<1>2. b = <<Insn("str", "pre", 11, 28, 0, Junk, -8)>>
  BY Names, Singles DEF emit_push_reg
<1>3. a \in Codes(1) /\ b \in Codes(1) /\ e \in Codes(1)
  BY Names, OneCode DEF emit_push_reg
<1>4. m \in Codes(P) /\ Len(m) = P
  BY <1>0, MovCode DEF Codes
<1>5. n \in Codes(4 - P) /\ \A k \in 1 .. 4 - P : n[k] = A64Nop
  <2>1. A64Nop \in A64Ops
    BY OneCode DEF OpName, ModeName
  <2> HIDE DEF m
  <2> QED
    BY <1>0, <1>4, <2>1 DEF Codes
<1>6. emit_call(Code(to)) = (((a \o b) \o m) \o n) \o e
  BY DEF emit_call
<1>7. ASSUME NEW x \in Nat, Placed(t, m, x)
      PROVE  \A k \in 1 .. P :
               t[x + 4 * (k - 1)] = Insn(MovOp(k), "offset", 11, 0, 0, Code(to), k - 1)
  <2>1. 11 \in Int /\ m = emit_mov_reg_imm(11, Code(to))
    BY <1>0
  <2> HIDE DEF m
  <2>2. Placed(t, emit_mov_reg_imm(11, Code(to)), x)
    BY <1>7, <2>1
  <2> QED
    BY <1>0, <2>1, <2>2, AddressText
<1> HIDE DEF a, b, m, n, e, P
<1>8. a \o b \in Codes(2)
  BY <1>3, Joining
<1>9. (a \o b) \o m \in Codes(2 + P)
  BY <1>0, <1>4, <1>8, Joining
<1>10. ((a \o b) \o m) \o n \in Codes(6)
  <2>1. 6 = (2 + P) + (4 - P)
    BY <1>0
  <2> QED
    BY <1>0, <1>5, <1>9, <2>1, Joining
<1> DEFINE x == at + 8
           y == x + 4 * P
<1>11. x \in Nat /\ y \in Nat /\ x = at + 4 * 2 /\ y = at + 4 * (2 + P)
  BY <1>0
<1>12. Placed(t, ((a \o b) \o m) \o n, at) /\ Placed(t, e, at + 24)
  <2>1. at + 24 = at + 4 * 6
    OBVIOUS
  <2> QED
    BY <1>3, <1>6, <1>10, <2>1, PlacedSplit
<1>13. Placed(t, (a \o b) \o m, at) /\ Placed(t, n, y)
  <2> HIDE DEF x, y
  <2> QED
    BY <1>0, <1>5, <1>9, <1>11, <1>12, PlacedSplit
<1>14. Placed(t, a \o b, at) /\ Placed(t, m, x)
  <2> HIDE DEF x, y
  <2> QED
    BY <1>0, <1>4, <1>8, <1>11, <1>13, PlacedSplit
<1>15. Placed(t, a, at) /\ Placed(t, b, at + 4)
  <2>1. at + 4 = at + 4 * 1
    OBVIOUS
  <2> QED
    BY <1>3, <1>14, <2>1, PlacedSplit
<1>16. t[at] = Insn("adr", "offset", 11, 0, 0, Junk, 28)
  BY <1>1, <1>3, <1>15, PlacedOne
<1>17. t[at + 4] = Insn("str", "pre", 11, 28, 0, Junk, -8)
  BY <1>2, <1>3, <1>15, PlacedOne
<1>18. t[at + 24] = Insn("br", "offset", 0, 11, 0, Junk, 0)
  BY <1>1, <1>3, <1>12, PlacedOne
<1>19. \A k \in 1 .. P : t[x + 4 * (k - 1)] = Insn(MovOp(k), "offset", 11, 0, 0, Code(to), k - 1)
  <2> HIDE DEF x
  <2> QED
    BY <1>7, <1>11, <1>14
<1>20. ASSUME NEW k \in P + 1 .. 4 PROVE t[at + 8 + 4 * (k - 1)] = A64Nop
  <2> DEFINE j == k - P
  <2>1. j \in 1 .. 4 - P /\ y + 4 * (j - 1) = at + 8 + 4 * (k - 1)
    BY <1>0
  <2> HIDE DEF j, y, x
  <2>2. \A l \in 1 .. 4 - P : t[y + 4 * (l - 1)] = n[l]
    BY <1>0, <1>5, <1>11, <1>13, PlacedAt
  <2>3. t[y + 4 * (j - 1)] = n[j]
    BY <2>1, <2>2
  <2> QED
    BY <1>5, <2>1, <2>3
<1> QED
  BY <1>16, <1>17, <1>18, <1>19, <1>20 DEF P

\* The code of the other transfers.
LEMMA TransferText ==
  ASSUME NEW i \in Instr, NEW at \in Nat, NEW to \in Nat \cup {Unmapped}, NEW t,
         Placed(t, A64Emit(i, at, to), at)
  PROVE  /\ i.op = "CALL" => Placed(t, emit_call(Code(to)), at)
         /\ i.op = "RET" => /\ t[at] = Insn("ldr", "post", 30, 28, 0, Junk, 8)
                            /\ t[at + 4] = Insn("ret", "offset", 0, 30, 0, Junk, 0)
         /\ i.op = "JMP" =>
               /\ \A k \in 1 .. AddrParts :
                     t[at + 4 * (k - 1)] = Insn(MovOp(k), "offset", 11, 0, 0, Code(to), k - 1)
               /\ t[at + 4 * AddrParts] = Insn("br", "offset", 0, 11, 0, Junk, 0)
         /\ i.op \in CondOp => t[at] = Insn(i.op, "offset", 0, 0, 0, Junk, Masked(to - at))
<1>1. i.op = "CALL" => Placed(t, emit_call(Code(to)), at)
  BY DEF A64Emit, MoveOp, CondOp, Operation
<1>2. ASSUME i.op = "RET"
      PROVE  /\ t[at] = Insn("ldr", "post", 30, 28, 0, Junk, 8)
             /\ t[at + 4] = Insn("ret", "offset", 0, 30, 0, Junk, 0)
  <2> DEFINE u == emit_pop_reg(LR)
             v == emit_ret
  <2>1. A64Emit(i, at, to) = u \o v
    BY <1>2 DEF A64Emit, MoveOp, CondOp, Operation
  <2>2. /\ u = <<Insn("ldr", "post", 30, 28, 0, Junk, 8)>>
        /\ v = <<Insn("ret", "offset", 0, 30, 0, Junk, 0)>>
    BY Names, Singles DEF emit_pop_reg, emit_ret
  <2>3. u \in Codes(1) /\ v \in Codes(1)
    BY Names, OneCode DEF emit_pop_reg, emit_ret
  <2> HIDE DEF u, v
  <2>4. Placed(t, u, at) /\ Placed(t, v, at + 4)
    <3>1. at + 4 = at + 4 * 1
      OBVIOUS
    <3> QED
      BY <2>1, <2>3, <3>1, PlacedSplit
  <2>5. t[at] = Insn("ldr", "post", 30, 28, 0, Junk, 8)
    BY <2>2, <2>3, <2>4, PlacedOne
  <2>6. t[at + 4] = Insn("ret", "offset", 0, 30, 0, Junk, 0)
    BY <2>2, <2>3, <2>4, PlacedOne
  <2> QED
    BY <2>5, <2>6
<1>3. ASSUME i.op = "JMP"
      PROVE  /\ \A k \in 1 .. AddrParts :
                   t[at + 4 * (k - 1)] = Insn(MovOp(k), "offset", 11, 0, 0, Code(to), k - 1)
             /\ t[at + 4 * AddrParts] = Insn("br", "offset", 0, 11, 0, Junk, 0)
  <2> DEFINE P == AddrParts
             m == emit_mov_reg_imm(11, Code(to))
             e == emit_to_reg("br", Scratch)
  <2>0. P \in Nat /\ at + 4 * P \in Nat /\ Scratch = 11 /\ to \in Int /\ 11 \in Int
    BY PartsAssumption, Names DEF Unmapped
  <2>1. A64Emit(i, at, to) = m \o e
    BY <1>3, <2>0 DEF A64Emit, MoveOp, CondOp, Operation
  <2>2. e = <<Insn("br", "offset", 0, 11, 0, Junk, 0)>> /\ e \in Codes(1)
    <3>1. e = <<Insn("br", "offset", 0, 11, 0, Junk, 0)>>
      BY <2>0, Singles
    <3>2. e \in Codes(1)
      BY Names, OneCode
    <3> QED
      BY <3>1, <3>2
  <2>3. Imm(Code(to)) /\ Parts(Code(to)) = P /\ Code(to).tag # "num"
    BY <2>0, CodeImm DEF Code
  <2>4. m \in Codes(P)
    BY <2>0, <2>3, MovCode
  <2>5. Placed(t, m, at) =>
          \A k \in 1 .. P :
             t[at + 4 * (k - 1)] = Insn(MovOp(k), "offset", 11, 0, 0, Code(to), k - 1)
    BY <2>0, <2>3, AddressText
  <2> HIDE DEF P, m, e
  <2>6. Placed(t, m, at) /\ Placed(t, e, at + 4 * P)
    BY <2>0, <2>1, <2>2, <2>4, PlacedSplit
  <2>7. t[at + 4 * P] = Insn("br", "offset", 0, 11, 0, Junk, 0)
    BY <2>0, <2>2, <2>6, PlacedOne
  <2> QED
    BY <2>5, <2>6, <2>7 DEF P
<1>4. ASSUME i.op \in CondOp
      PROVE  t[at] = Insn(i.op, "offset", 0, 0, 0, Junk, Masked(to - at))
  <2> DEFINE n == to - at
  <2>1. A64Emit(i, at, to) = emit_b_cond(i.op, n)
    BY <1>4 DEF A64Emit, MoveOp, CondOp, Operation
  <2>2. n \in Int
    BY DEF Unmapped
  <2> HIDE DEF n
  <2>3. /\ emit_b_cond(i.op, n) = <<Insn(i.op, "offset", 0, 0, 0, Junk, Masked(n))>>
        /\ emit_b_cond(i.op, n) \in Codes(1)
    BY <1>4, <2>2, CondCode
  <2>4. t[at] = Insn(i.op, "offset", 0, 0, 0, Junk, Masked(n))
    BY <2>1, <2>3, PlacedOne
  <2> QED
    BY <2>4 DEF n
<1> QED
  BY <1>1, <1>2, <1>3, <1>4

-----------------------------------------------------------------------------
\* Pairs on the host's stack.

\* What a native instruction is, by its fields.
LEMMA Fields ==
  ASSUME NEW op, NEW mode, NEW rd, NEW rn, NEW rm, NEW val, NEW d,
         I = Insn(op, mode, rd, rn, rm, val, d)
  PROVE  /\ I.op = op /\ I.mode = mode /\ I.rd = rd /\ I.rn = rn /\ I.rm = rm /\ I.val = val
         /\ I.d = d /\ I.len = 4
BY DEF Insn

\* A pair is stored and the stack is deeper,
LEMMA PushPair ==
  ASSUME Run, Seen, Shape(ar, ram), NEW r \in ArchReg, NEW s \in ArchReg,
         I = Insn("stp", "pre", r, 31, s, Junk, -16),
         NEW n \in 0 .. 14, ar[HostSP] = HostSlot(-8 * n)
  PROVE  /\ On(ip + 4) /\ Shape(ar', ram')
         /\ ar'[HostSP] = HostSlot(-8 * (n + 2))
         /\ \A q \in ArchReg \ {HostSP} : ar'[q] = ar[q]
         /\ ram'[HostSlot(-8 * (n + 2))] = ar[r] /\ ram'[HostSlot(-8 * (n + 1))] = ar[s]
         /\ \A l \in DOMAIN ram : l \notin {HostSlot(-8 * (n + 1)), HostSlot(-8 * (n + 2))} =>
               ram'[l] = ram[l]
<1> DEFINE x == HostSlot(-8 * (n + 2))
           y == HostSlot(-8 * (n + 1))
<1>1. /\ I.op = "stp" /\ I.mode = "pre" /\ I.rd = r /\ I.rm = s /\ I.rn = HostSP /\ I.d = -16
      /\ I.len = 4
  BY Fields DEF HostSP
<1>2. Accessed = x /\ Indexed = x
  <2>1. At(HostSlot(-8 * n), -16) = HostSlot(-8 * n + -16)
    BY DEF At, HostSlot
  <2>2. -8 * n + -16 = -8 * (n + 2)
    OBVIOUS
  <2> QED
    BY <1>1, <2>1, <2>2 DEF Accessed, Indexed
<1>3. Second = y
  <2>1. At(HostSlot(-8 * (n + 2)), 8) = HostSlot(-8 * (n + 2) + 8)
    BY DEF At, HostSlot
  <2>2. -8 * (n + 2) + 8 = -8 * (n + 1)
    OBVIOUS
  <2> QED
    BY <1>2, <2>1, <2>2 DEF Second
<1>4. x \in DOMAIN ram /\ y \in DOMAIN ram /\ x # y
  <2>1. n + 2 \in 1 .. 16 /\ n + 1 \in 1 .. 16 /\ -8 * (n + 2) # -8 * (n + 1)
    OBVIOUS
  <2> QED
    BY <2>1 DEF Shape, HostLoc, HostSlot
<1>5. Based = [ar EXCEPT ![HostSP] = x]
  BY <1>1, <1>2 DEF Based
<1> HIDE DEF x, y
<1>6. /\ On(ip + 4) /\ ar' = [ar EXCEPT ![HostSP] = x]
      /\ ram' = [[ram EXCEPT ![x] = ar[r]] EXCEPT ![y] = ar[s]]
  BY <1>1, <1>2, <1>3, <1>5, StpStep
<1>7. /\ DOMAIN ar' = ArchReg /\ ar'[HostSP] = x
      /\ \A q \in ArchReg \ {HostSP} : ar'[q] = ar[q]
  BY <1>6 DEF Shape, ArchReg, HostSP
<1>8. /\ DOMAIN ram' = DOMAIN ram /\ ram'[x] = ar[r] /\ ram'[y] = ar[s]
      /\ \A l \in DOMAIN ram : l # x /\ l # y => ram'[l] = ram[l]
  BY <1>4, <1>6
<1> QED
  BY <1>6, <1>7, <1>8 DEF Shape, x, y

\* and the other way round.
LEMMA PopPair ==
  ASSUME Run, Seen, Shape(ar, ram), NEW r \in 0 .. 30, NEW s \in 0 .. 30, r # s,
         I = Insn("ldp", "post", r, 31, s, Junk, 16),
         NEW n \in 2 .. 16, ar[HostSP] = HostSlot(-8 * n)
  PROVE  /\ On(ip + 4) /\ Shape(ar', ram') /\ UNCHANGED ram
         /\ ar'[HostSP] = HostSlot(-8 * (n - 2))
         /\ ar'[r] = ram[HostSlot(-8 * n)] /\ ar'[s] = ram[HostSlot(-8 * (n - 1))]
         /\ \A q \in 0 .. 30 : q # r /\ q # s => ar'[q] = ar[q]
<1> DEFINE x == HostSlot(-8 * n)
           y == HostSlot(-8 * (n - 1))
           z == HostSlot(-8 * (n - 2))
<1>1. /\ I.op = "ldp" /\ I.mode = "post" /\ I.rd = r /\ I.rm = s /\ I.rn = HostSP /\ I.d = 16
      /\ I.len = 4
  BY Fields DEF HostSP
<1>2. Accessed = x
  BY <1>1 DEF Accessed
<1>3. Second = y /\ Indexed = z
  <2>1. At(x, 8) = HostSlot(-8 * n + 8) /\ At(x, 16) = HostSlot(-8 * n + 16)
    BY DEF At, HostSlot
  <2>2. -8 * n + 8 = -8 * (n - 1) /\ -8 * n + 16 = -8 * (n - 2)
    OBVIOUS
  <2> QED
    BY <1>1, <1>2, <2>1, <2>2 DEF Second, Indexed
<1>4. Based = [ar EXCEPT ![HostSP] = z]
  BY <1>1, <1>3 DEF Based
<1> HIDE DEF x, y, z
<1>5. /\ On(ip + 4) /\ UNCHANGED ram
      /\ ar' = [[[ar EXCEPT ![HostSP] = z] EXCEPT ![r] = ram[x]] EXCEPT ![s] = ram[y]]
  BY <1>1, <1>2, <1>3, <1>4, LdpStep
<1>6. /\ DOMAIN ar' = ArchReg /\ ar'[HostSP] = z /\ ar'[r] = ram[x] /\ ar'[s] = ram[y]
      /\ \A q \in 0 .. 30 : q # r /\ q # s => ar'[q] = ar[q]
  BY <1>5 DEF Shape, ArchReg, HostSP
<1> QED
  BY <1>5, <1>6 DEF Shape, x, y, z

\* A pair of the program's goes onto the host's stack, above what is there.
LEMMA ReadyPush ==
  ASSUME Run, Seen, Shape(ar, ram), NEW r \in 0 .. 28, NEW s \in 0 .. 28,
         I = Insn("stp", "pre", r, 31, s, Junk, -16),
         NEW E, NEW n \in 12 .. 14, Ready(ar, ram, E, n)
  PROVE  On(ip + 4) /\ Shape(ar', ram') /\ Ready(ar', ram', E, n + 2)
<1>0. /\ r \in ArchReg /\ s \in ArchReg /\ n \in 0 .. 14 /\ ar[HostSP] = HostSlot(-8 * n)
      /\ \A q \in 0 .. 28 : q \in ArchReg \ {HostSP}
  BY DEF ArchReg, HostSP, Ready, Deep
<1> DEFINE x == HostSlot(-8 * (n + 2))
           y == HostSlot(-8 * (n + 1))
<1>1. /\ On(ip + 4) /\ Shape(ar', ram') /\ ar'[HostSP] = x
      /\ \A q \in 0 .. 28 : ar'[q] = ar[q]
      /\ ram'[x] = ar[r] /\ ram'[y] = ar[s]
      /\ \A l \in DOMAIN ram : l \notin {y, x} => ram'[l] = ram[l]
  <2>1. /\ On(ip + 4) /\ Shape(ar', ram') /\ ar'[HostSP] = x
        /\ \A q \in ArchReg \ {HostSP} : ar'[q] = ar[q]
        /\ ram'[x] = ar[r] /\ ram'[y] = ar[s]
        /\ \A l \in DOMAIN ram : l \notin {y, x} => ram'[l] = ram[l]
    BY <1>0, PushPair
  <2> HIDE DEF x, y
  <2> QED
    BY <1>0, <2>1
<1>2. \A k \in 1 .. 12 : HostSlot(-8 * k) \in DOMAIN ram /\ HostSlot(-8 * k) \notin {y, x}
  BY DEF Shape, HostLoc, HostSlot
<1>3. HostSlot(-8) \notin {y, x}
  BY DEF HostSlot
<1> HIDE DEF y
<1>4. Deep(ar', ram', n + 2)
  BY <1>1, <1>2 DEF Ready, Deep
<1>5. \A l \in DOMAIN ram' \ {HostSlot(-8)} : Tame(ram'[l], E)
  BY <1>1 DEF Ready, Shape
<1> HIDE DEF x
<1> QED
  BY <1>1, <1>4, <1>5 DEF Ready

\* And comes back.
LEMMA ReadyPop ==
  ASSUME Run, Seen, Shape(ar, ram), NEW r \in 0 .. 28, NEW s \in 0 .. 28, r # s,
         I = Insn("ldp", "post", r, 31, s, Junk, 16),
         NEW E, NEW n \in 14 .. 16, Ready(ar, ram, E, n)
  PROVE  On(ip + 4) /\ Shape(ar', ram') /\ Ready(ar', ram', E, n - 2)
<1>0. r \in 0 .. 30 /\ s \in 0 .. 30 /\ n \in 2 .. 16 /\ ar[HostSP] = HostSlot(-8 * n)
  BY DEF Ready, Deep
<1> DEFINE x == HostSlot(-8 * n)
           y == HostSlot(-8 * (n - 1))
<1>1. /\ On(ip + 4) /\ Shape(ar', ram') /\ UNCHANGED ram
      /\ ar'[HostSP] = HostSlot(-8 * (n - 2))
      /\ ar'[r] = ram[x] /\ ar'[s] = ram[y]
      /\ \A q \in 0 .. 30 : q # r /\ q # s => ar'[q] = ar[q]
  BY <1>0, PopPair
<1>2. x \in DOMAIN ram \ {HostSlot(-8)} /\ y \in DOMAIN ram \ {HostSlot(-8)}
  <2>1. n \in 1 .. 16 /\ n - 1 \in 1 .. 16 /\ -8 * n # -8 /\ -8 * (n - 1) # -8
    OBVIOUS
  <2> QED
    BY <2>1 DEF Shape, HostLoc, HostSlot
<1> HIDE DEF x, y
<1>3. \A q \in 0 .. 28 : Tame(ar'[q], E)
  BY <1>1, <1>2 DEF Ready
<1>4. Deep(ar', ram', n - 2)
  BY <1>1 DEF Ready, Deep
<1> QED
  BY <1>1, <1>3, <1>4 DEF Ready

-----------------------------------------------------------------------------
\* Where the processor may be once the translator is done, with the registers A, the
\* memory M and the flags f: at p, in the code around the program and that of the
\* program itself.

\* Where a program may have itself sent, and how much an address takes.
Entries == {va2aa[a] : a \in DOMAIN va2aa} \cup {GuardAt}
Room    == 4 * AddrParts

\* In the entry sequence from the host, whose registers have not changed.
Depth(j) == IF j = 0 THEN 0 ELSE IF j = 1 THEN 2 ELSE 2 * (j - 1)
Entering(p, A, M) ==
  \E j \in 0 .. 7 :
    /\ p = 4 * j
    /\ Ready(A, M, Entries, Depth(j))
    /\ \A r \in 0 .. 28 : A[r] = HostVal(r)
    /\ j = 0 => A[FP] = HostVal(FP) /\ A[LR] = host_return

\* In the stub, up to its return to the program.
InStub(p, A, M) ==
  \/ p \in {32, 36, 40, 44, 48, 76 + Room} /\ Ready(A, M, Entries, 12)
  \/ p \in {52, 72 + Room} /\ Ready(A, M, Entries, 14)
  \/ /\ \E j \in 0 .. AddrParts + 3 : p = 56 + 4 * j
     /\ Ready(A, M, Entries, 16)
  \/ p = 80 + Room /\ Ready(A, M, Entries, 12) /\ Tame(A[LR], Entries)

\* Where it stores the registers of the VM for the host.
Saving(p, A, M) ==
  \E j \in 0 .. AddrParts + 14 :
    /\ p = 84 + Room + 4 * j
    /\ Deep(A, M, 12)
    /\ j >= 2 => A[Scratch] = DumpSlot(A[Scratch].val)

\* In the exit sequence to the host, which has some of its registers back.
Leaving(p, A, M) ==
  \E j \in 0 .. 6 :
    /\ p = 144 + 2 * Room + 4 * j
    /\ Deep(A, M, 12 - 2 * j)
    /\ \A k \in 1 .. 12 : k > 12 - 2 * j => A[SavedReg[k]] = OfHost(SavedReg[k])

\* Before the program.
Clearing(p, A, M) ==
  /\ \E j \in 0 .. AddrParts + 12 : p = 172 + 2 * Room + 4 * j
  /\ Ready(A, M, Entries, 12)

\* After it: the call to exit, which the stub must not take for another.
Exits(v, M)  == v.tag # "hst" /\ v \in DOMAIN M /\ M[v] = Num(0)
Guarding(p, A, M) ==
  \/ p = GuardAt /\ Ready(A, M, Entries, 12)
  \/ p = GuardAt + 4 /\ Ready(A, M, Entries, 12) /\ A[27] = Num(0)
  \/ p = GuardAt + 8 /\ Ready(A, M, Entries, 12) /\ Exits(A[VmSP], M)
  \/ p = GuardAt + 12 /\ Deep(A, M, 12) /\ Exits(A[VmSP], M)
  \/ p = GuardAt + 16 /\ Deep(A, M, 12) /\ A[VmSP].tag # "hst" /\ Exits(At(A[VmSP], 8), M)

\* In the stub again, for that call.
Exiting(p, A, M, f) ==
  /\ Deep(A, M, 12)
  /\ \/ p = 32 /\ A[VmSP].tag # "hst" /\ Exits(At(A[VmSP], 8), M)
     \/ p = 36 /\ A[27] = Num(0)
     \/ p = 40 /\ A[27] = Num(0) /\ A[Scratch] = Num(0)
     \/ p = 44 /\ f = "EQ"

\* In the program, where a transfer's code has its target before it goes there.
Aims(i, b, j, A) ==
  /\ i.op = "CALL" /\ j >= 3 => A[Scratch] = Code(b.to)
  /\ i.op = "JMP" /\ j \in 1 .. AddrParts => A[Scratch] = Code(b.to)
  /\ i.op = "RET" /\ j >= 1 => Tame(A[LR], Entries)
InBlock(p, A, M) ==
  \E a \in Body, j \in Nat :
    /\ p = block[a].at + 4 * j
    /\ 4 * j < block[a].len
    /\ Ready(A, M, Entries, 12)
    /\ Aims(prog.code[a], block[a], j, A)

Fits(p, A, M, f) ==
  /\ Shape(A, M)
  /\ \/ Entering(p, A, M) \/ InStub(p, A, M) \/ Saving(p, A, M) \/ Leaving(p, A, M)
     \/ Clearing(p, A, M) \/ Guarding(p, A, M) \/ Exiting(p, A, M, f) \/ InBlock(p, A, M)

Restored(A) == A[HostSP] = HostSlot(0) /\ \A r \in CalleeSaved : A[r] = HostVal(r)

\* Before that the state is as text_mem's caller leaves it.
Untouched ==
  /\ ip = 0 /\ obs.status = "ready"
  /\ ar = [r \in ArchReg |-> IF r = HostSP THEN HostSlot(0)
                             ELSE IF r = LR THEN host_return ELSE HostVal(r)]
  /\ ram = [l \in Stack \cup HostLoc |-> Junk]

HostInv ==
  /\ Seen
  /\ phase # "done" => Untouched
  /\ phase = "done" /\ arch < CondReach =>
       \/ Lost
       \/ Live /\ Fits(ip, ar, ram, fl)
       \/ obs.status = "exited" /\ Restored(ar)

\* When the processor runs and every branch reaches.
Ripe == IsA64 /\ CodeInv /\ Near /\ Laid /\ phase = "done" /\ arch < CondReach /\ Seen

\* What a step leads to.
Settles == \/ Lost'
           \/ Live' /\ Fits(ip', ar', ram', fl')
           \/ obs'.status = "exited" /\ Restored(ar')
-----------------------------------------------------------------------------
\* What the processor finds then.
LEMMA RipeText ==
  ASSUME Ripe
  PROVE  /\ Placed(text, A64Boot, 0)
         /\ Placed(text, emit_vm_exit_syscall_guard(GuardAt), GuardAt)
         /\ GuardAt \in Nat /\ StubAt = 32 /\ Prologue = 224 + 3 * Room
         /\ AddrParts \in 1 .. 4 /\ Room = 4 * AddrParts
         /\ End = GuardAt
<1>1. /\ StubAt = 32 /\ Prologue = 4 * (56 + 3 * AddrParts) /\ AddrParts \in 1 .. 4
      /\ Boot = A64Boot /\ Guard = 20
  BY BootCodes, GuardCodes, PartsAssumption, 0 \in Nat DEF Ripe, IsA64, A64Guard
<1>2. End = GuardAt /\ GuardAt = arch - Guard
  BY DEF Ripe, End, GuardAt
<1>3. Prologue <= End /\ End \in Int
  <2>1. Prologue <= End
    BY DEF Ripe, CodeInv, Disjoint
  <2>2. arch \in Nat
    BY DEF Ripe, CodeInv, JitInv, JitTypeOK
  <2> QED
    BY <1>1, <1>2, <2>1, <2>2
<1>4. GuardAt \in Nat
  BY <1>1, <1>2, <1>3
<1>5. GuardCode(GuardAt) = emit_vm_exit_syscall_guard(GuardAt)
  BY <1>4 DEF Ripe, IsA64
<1>6. /\ Placed(text, Boot, 0)
      /\ Placed(text, GuardCode(arch - Guard), arch - Guard)
  BY DEF Ripe, CodeInv, TextInv
<1> QED
  BY <1>1, <1>2, <1>4, <1>5, <1>6 DEF Room

\* The places where a program may have itself sent: it arrives there as it should.
LEMMA Lands ==
  ASSUME Ripe, NEW z \in Entries, NEW A, NEW M, NEW f, Shape(A, M), Ready(A, M, Entries, 12)
  PROVE  Fits(z, A, M, f)
<1>1. CASE z = GuardAt
  BY <1>1 DEF Fits, Guarding
<1>2. ASSUME NEW a \in DOMAIN va2aa, z = va2aa[a] PROVE Fits(z, A, M, f)
  <2>1. CASE a = SYS_ENTER_ADDR
    <3>1. z = 32
      BY <1>2, <2>1, RipeText DEF Ripe, Laid
    <3> QED
      BY <3>1 DEF Fits, InStub
  <2>2. CASE a # SYS_ENTER_ADDR
    <3>1. /\ DOMAIN block = Body /\ DOMAIN va2aa \subseteq DOMAIN prog.code /\ prog \in Programs
          /\ \A c \in DOMAIN block : block[c] \in [at : Nat, len : Nat, to : Nat \cup {Unmapped}]
      BY JitInvLinked DEF Ripe, CodeInv, JitInv, JitTypeOK, Linked
    <3>2. a \in DOMAIN block /\ a \in Body /\ a \in DOMAIN prog.code
      BY <2>2, <3>1 DEF Body
    <3>3. block[a].at = z /\ Size(prog.code[a]) <= block[a].len
      BY <1>2, <3>2 DEF Ripe, CodeInv, JitInv, EndToEnd
    <3>4. Size(prog.code[a]) > 0 /\ Size(prog.code[a]) \in Nat
      BY <3>1, <3>2, ProgramStep DEF Sized
    <3>5. block[a].at \in Nat /\ block[a].len \in Nat
      BY <3>1, <3>2
    <3>6. z = block[a].at + 4 * 0 /\ 4 * 0 < block[a].len /\ 0 \in Nat /\ 0 \notin 1 .. AddrParts
      BY <3>3, <3>4, <3>5, RipeText
    <3>7. Aims(prog.code[a], block[a], 0, A)
      BY <3>6 DEF Aims
    <3> QED
      BY <3>2, <3>6, <3>7 DEF Fits, InBlock
  <2> QED
    BY <2>1, <2>2
<1> QED
  BY <1>1, <1>2 DEF Entries

\* The end of a block is such a place, and so is that of the code before the program.
LEMMA NextPlace ==
  ASSUME Ripe
  PROVE  /\ \A a \in Body : block[a].at + block[a].len \in Entries
         /\ Prologue \in Entries
         /\ 32 \in Entries
<1>1. /\ DOMAIN block = Body /\ prog \in Programs /\ vm = prog.size
      /\ DOMAIN va2aa = {c \in DOMAIN prog.code : c < vm}
  BY JitInvLinked DEF Ripe, CodeInv, JitInv, JitTypeOK, Linked, PassOrder, Progress
<1>2. \A a \in Body : a \in DOMAIN va2aa
  BY <1>1, ProgramStep DEF Body
<1>3. ASSUME NEW a \in Body PROVE block[a].at + block[a].len \in Entries
  <2> DEFINE b == a + InstrLen(prog.code[a])
  <2>1. IF b \in DOMAIN block THEN block[b].at = block[a].at + block[a].len
                              ELSE block[a].at + block[a].len = GuardAt
    BY <1>1 DEF Ripe, CodeInv, JitInv, EndToEnd, GuardAt
  <2> HIDE DEF b
  <2>2. CASE b \in DOMAIN block
    <3>1. block[b].at = va2aa[b] /\ b \in DOMAIN va2aa
      BY <1>1, <1>2, <2>2 DEF Ripe, CodeInv, JitInv, EndToEnd
    <3> QED
      BY <2>1, <2>2, <3>1 DEF Entries
  <2> QED
    BY <2>1, <2>2 DEF Entries
<1>4. Prologue \in Entries
  <2>1. CASE FirstAddr \in DOMAIN block
    <3>1. block[FirstAddr].at = Prologue /\ block[FirstAddr].at = va2aa[FirstAddr]
      BY <2>1 DEF Ripe, Laid, CodeInv, JitInv, EndToEnd
    <3> QED
      BY <1>1, <1>2, <2>1, <3>1 DEF Entries
  <2>2. CASE FirstAddr \notin DOMAIN block
    <3>1. End = Prologue
      BY <2>2 DEF Ripe, Laid
    <3> QED
      BY <3>1, RipeText DEF Entries
  <2> QED
    BY <2>1, <2>2
<1>5. 32 \in Entries
  <2>1. SYS_ENTER_ADDR \in DOMAIN prog.code /\ SYS_ENTER_ADDR < vm
    BY <1>1, FirstStep DEF SYS_ENTER_ADDR, Ripe, CodeInv, JitInv, Progress
  <2>2. va2aa[SYS_ENTER_ADDR] = 32
    BY RipeText DEF Ripe, Laid
  <2> QED
    BY <1>1, <2>1, <2>2 DEF Entries
<1> QED
  BY <1>3, <1>4, <1>5

\* A step to such a place is one that the program goes on from.
LEMMA Arrives ==
  ASSUME Ripe, NEW z \in Entries, On(z), Shape(ar', ram'), Ready(ar', ram', Entries, 12)
  PROVE  Settles
<1>1. Fits(z, ar', ram', fl')
  BY Lands
<1> QED
  BY <1>1 DEF Settles, On

-----------------------------------------------------------------------------
\* The steps from each place. A pair of the host's registers goes onto its stack.
LEMMA EntryPush ==
  ASSUME Run, Seen, Shape(ar, ram), NEW E, NEW n \in {2, 4, 6, 8, 10}, Ready(ar, ram, E, n),
         \A q \in 0 .. 28 : ar[q] = HostVal(q),
         I = Insn("stp", "pre", SavedReg[n + 2], 31, SavedReg[n + 1], Junk, -16)
  PROVE  /\ On(ip + 4) /\ Shape(ar', ram') /\ Ready(ar', ram', E, n + 2)
         /\ \A q \in 0 .. 28 : ar'[q] = HostVal(q)
<1> DEFINE r == SavedReg[n + 2]
           s == SavedReg[n + 1]
           x == HostSlot(-8 * (n + 2))
           y == HostSlot(-8 * (n + 1))
<1>0. /\ r \in 19 .. 28 /\ s \in 19 .. 28 /\ n \in 0 .. 14 /\ n + 1 \in 3 .. 12 /\ n + 2 \in 3 .. 12
      /\ r # LR /\ s # LR
  BY DEF SavedReg, LR
<1>1. /\ r \in ArchReg /\ s \in ArchReg /\ \A q \in 0 .. 28 : q \in ArchReg \ {HostSP}
      /\ r \in 0 .. 28 /\ s \in 0 .. 28 /\ ar[HostSP] = HostSlot(-8 * n)
  BY <1>0 DEF ArchReg, HostSP, Ready, Deep
<1>2. I = Insn("stp", "pre", r, 31, s, Junk, -16)
  OBVIOUS
<1> HIDE DEF r, s
<1>3. /\ On(ip + 4) /\ Shape(ar', ram') /\ ar'[HostSP] = x
      /\ \A q \in ArchReg \ {HostSP} : ar'[q] = ar[q]
      /\ ram'[x] = ar[r] /\ ram'[y] = ar[s]
      /\ \A l \in DOMAIN ram : l \notin {y, x} => ram'[l] = ram[l]
  BY SMTT(30), <1>0, <1>1, <1>2, PushPair
<1>4. \A q \in 0 .. 28 : ar'[q] = HostVal(q)
  BY <1>1, <1>3
<1>5. ram'[x] = HostVal(r) /\ ram'[y] = HostVal(s) /\ DOMAIN ram' = DOMAIN ram
  BY <1>1, <1>3 DEF Shape
<1>6. ASSUME NEW k \in 1 .. 12, k <= n + 2
      PROVE  ram'[HostSlot(-8 * k)] = OfHost(SavedReg[k])
  <2>1. CASE k = n + 2
    BY <1>0, <1>5, <2>1 DEF OfHost, r
  <2>2. CASE k = n + 1
    BY <1>0, <1>5, <2>2 DEF OfHost, s
  <2>3. CASE k <= n
    <3>1. HostSlot(-8 * k) \in DOMAIN ram /\ HostSlot(-8 * k) \notin {y, x}
      BY <2>3 DEF Shape, HostLoc, HostSlot
    <3> QED
      BY <1>3, <2>3, <3>1 DEF Ready, Deep
  <2> QED
    BY <1>0, <1>6, <2>1, <2>2, <2>3
<1>7. Deep(ar', ram', n + 2)
  BY <1>3, <1>6 DEF Deep
<1>8. \A q : Tame(HostVal(q), E)
  BY DEF Tame, HostVal
<1> HIDE DEF x, y
<1>9. \A l \in DOMAIN ram' \ {HostSlot(-8)} : Tame(ram'[l], E)
  BY <1>3, <1>5, <1>8 DEF Ready
<1> QED
  BY <1>3, <1>4, <1>7, <1>8, <1>9 DEF Ready

\* The step from a place in the entry sequence.
LEMMA FromEntering ==
  ASSUME Ripe, Run, Shape(ar, ram), Entering(ip, ar, ram) PROVE Settles
<1>1. PICK j \in 0 .. 7 : /\ ip = 4 * j
                          /\ Ready(ar, ram, Entries, Depth(j))
                          /\ \A r \in 0 .. 28 : ar[r] = HostVal(r)
                          /\ j = 0 => ar[FP] = HostVal(FP) /\ ar[LR] = host_return
  BY DEF Entering
<1>2. Seen /\ Placed(text, A64Boot, 0)
  BY RipeText DEF Ripe
<1>3. ASSUME NEW k \in 1 .. 7, On(4 * k), Shape(ar', ram'), Ready(ar', ram', Entries, Depth(k)),
             \A r \in 0 .. 28 : ar'[r] = HostVal(r)
      PROVE  Settles
  <2>1. Entering(4 * k, ar', ram')
    BY <1>3 DEF Entering
  <2> QED
    BY <1>3, <2>1 DEF Settles, On, Fits
<1>4. CASE j = 0
  <2>1. ip = 0 /\ ip + 4 = 4 * 1 /\ Depth(0) = 0 /\ Depth(1) = 2
    BY <1>1, <1>4 DEF Depth
  <2>2. I = Insn("stp", "pre", 29, 31, 30, Junk, -16)
    BY <1>2, <2>1, EntryText DEF I
  <2>3. /\ 29 \in ArchReg /\ 30 \in ArchReg /\ 0 \in 0 .. 14 /\ ar[HostSP] = HostSlot(-8 * 0)
        /\ \A q \in 0 .. 28 : q \in ArchReg \ {HostSP}
    BY <1>1, <1>4, <2>1 DEF ArchReg, HostSP, Ready, Deep
  <2> DEFINE x == HostSlot(-8 * (0 + 2))
             y == HostSlot(-8 * (0 + 1))
  <2>4. /\ On(ip + 4) /\ Shape(ar', ram') /\ ar'[HostSP] = x
        /\ \A q \in ArchReg \ {HostSP} : ar'[q] = ar[q]
        /\ ram'[x] = ar[29] /\ ram'[y] = ar[30]
        /\ \A l \in DOMAIN ram : l \notin {y, x} => ram'[l] = ram[l]
    BY <1>2, <2>2, <2>3, PushPair
  <2>5. ram'[x] = HostVal(29) /\ ram'[y] = host_return
    BY <1>1, <1>4, <2>4 DEF FP, LR
  <2>6. x = HostSlot(-16) /\ y = HostSlot(-8)
    OBVIOUS
  <2> HIDE DEF x, y
  <2>7. Deep(ar', ram', 2)
    <3>1. SavedReg[1] = 30 /\ SavedReg[2] = 29
      BY DEF SavedReg
    <3>2. \A k \in 1 .. 12 : k <= 2 => k = 1 \/ k = 2
      OBVIOUS
    <3>3. -8 * 1 = -8 /\ -8 * 2 = -16
      OBVIOUS
    <3> QED
      BY <2>4, <2>5, <2>6, <3>1, <3>2, <3>3 DEF Deep, OfHost, LR
  <2>8. \A q : Tame(HostVal(q), Entries)
    BY DEF Tame, HostVal
  <2>9. \A r \in 0 .. 28 : ar'[r] = HostVal(r)
    BY <1>1, <2>3, <2>4
  <2>10. \A l \in DOMAIN ram' \ {HostSlot(-8)} : Tame(ram'[l], Entries)
    BY <1>1, <2>4, <2>5, <2>6, <2>8 DEF Ready, Shape
  <2>11. Ready(ar', ram', Entries, 2)
    BY <2>7, <2>8, <2>9, <2>10 DEF Ready
  <2> QED
    BY <1>3, <2>1, <2>4, <2>9, <2>11
<1>5. CASE j = 1
  <2>1. ip = 4 /\ ip + 4 = 4 * 2 /\ Depth(1) = 2 /\ Depth(2) = 2
    BY <1>1, <1>5 DEF Depth
  <2>2. I = Insn("add", "offset", 29, 31, 0, Junk, 0)
    BY <1>2, <2>1, EntryText DEF I
  <2>3. I.op = "add" /\ I.rd = 29 /\ I.len = 4
    BY <2>2, Fields
  <2>4. On(ip + 4) /\ UNCHANGED ram /\ ar' = [ar EXCEPT ![29] = At(ar[I.rn], I.d)]
    BY <1>2, <2>3, AddStep
  <2>5. DOMAIN ar' = DOMAIN ar /\ \A r \in ArchReg \ {29} : ar'[r] = ar[r]
    BY <2>4 DEF Shape
  <2>6. 0 .. 28 \subseteq ArchReg \ {29} /\ HostSP \in ArchReg \ {29}
    BY DEF ArchReg, HostSP
  <2>7. Shape(ar', ram') /\ Ready(ar', ram', Entries, 2) /\ \A r \in 0 .. 28 : ar'[r] = HostVal(r)
    BY <1>1, <1>5, <2>1, <2>4, <2>5, <2>6 DEF Shape, Ready, Deep
  <2> QED
    BY <1>3, <2>1, <2>4, <2>7
<1>6. CASE j \in 2 .. 6
  <2> DEFINE n == 2 * (j - 1)
  <2>1. /\ Depth(j) = n /\ Depth(j + 1) = n + 2 /\ n \in {2, 4, 6, 8, 10}
        /\ ip = 8 + 4 * ((j - 1) - 1) /\ ip + 4 = 4 * (j + 1) /\ j + 1 \in 1 .. 7
        /\ j - 1 \in 1 .. 5
    BY <1>1, <1>6 DEF Depth
  <2>2. I = StorePairs[j - 1]
    BY <1>2, <2>1, EntryText DEF I
  <2>3. StorePairs[j - 1] = Insn("stp", "pre", SavedReg[n + 2], 31, SavedReg[n + 1], Junk, -16)
    <3>1. EntryPairs[j - 1][1] = SavedReg[n + 2] /\ EntryPairs[j - 1][2] = SavedReg[n + 1]
      BY <1>6 DEF EntryPairs, SavedReg
    <3> QED
      BY <2>1, <3>1 DEF StorePairs, HostSP
  <2> HIDE DEF n
  <2>4. /\ On(ip + 4) /\ Shape(ar', ram') /\ Ready(ar', ram', Entries, n + 2)
        /\ \A q \in 0 .. 28 : ar'[q] = HostVal(q)
    BY <1>1, <1>2, <2>1, <2>2, <2>3, EntryPush
  <2> QED
    BY <1>3, <2>1, <2>4
<1>7. CASE j = 7
  <2>1. ip = 28 /\ Depth(7) = 12
    BY <1>1, <1>7 DEF Depth
  <2>2. I = Insn("b", "offset", 0, 0, 0, Junk, 4 + 4 * (35 + 2 * AddrParts))
    BY <1>2, <2>1, BootParts DEF I
  <2> DEFINE d == 4 + 4 * (35 + 2 * AddrParts)
  <2>3. I.op = "b" /\ I.d = d
    BY <2>2, Fields
  <2>4. On(ip + d) /\ UNCHANGED <<ar, ram>>
    BY <1>2, <2>3, BranchStep
  <2>5. ip + d = 172 + 2 * Room + 4 * 0 /\ 0 \in 0 .. AddrParts + 12
    BY <2>1, RipeText
  <2> HIDE DEF d
  <2>6. Clearing(ip + d, ar', ram')
    BY <1>1, <1>7, <2>1, <2>4, <2>5 DEF Clearing
  <2> QED
    BY <2>4, <2>6 DEF Settles, On, Fits, Shape
<1> QED
  BY <1>1, <1>4, <1>5, <1>6, <1>7

\* The stub is within the reach of its own branch.
LEMMA StubReach ==
  ASSUME Ripe PROVE Masked(4 + 4 * (9 + AddrParts)) = 4 + 4 * (9 + AddrParts)
<1> DEFINE d == 4 + 4 * (9 + AddrParts)
<1>1. Prologue <= GuardAt /\ GuardAt \in Nat
  BY RipeText DEF Ripe, CodeInv, Disjoint
<1>2. /\ arch < CondReach /\ CondReach \in Nat /\ arch \in Nat
      /\ GuardAt = arch - Guard /\ Guard \in Nat
  BY ReachAssumption, LayoutAssumption DEF Ripe, CodeInv, JitInv, JitTypeOK, GuardAt
<1>3. Prologue = 224 + 3 * Room /\ Room = 4 * AddrParts /\ AddrParts \in 1 .. 4
  BY RipeText
<1>4. d \in Int /\ -CondReach <= d /\ d < CondReach
  BY <1>1, <1>2, <1>3
<1> HIDE DEF d
<1>5. Masked(d) = d
  BY <1>4, InField
<1> QED
  BY <1>5 DEF d

\* The link register is loaded from the program's stack.
LEMMA LinkLoad ==
  ASSUME Run, Seen, NEW E, NEW n, Shape(ar, ram), Ready(ar, ram, E, n),
         I = Insn("ldr", "post", 30, 28, 0, Junk, 8)
  PROVE  Lost' \/ (On(ip + 4) /\ Shape(ar', ram') /\ Ready(ar', ram', E, n) /\ Tame(ar'[LR], E))
<1>1. /\ I.op = "ldr" /\ I.mode = "post" /\ I.rd = LR /\ I.rn = 28 /\ I.len = 4
      /\ I.rd \in 0 .. 28 \cup {LR} /\ I.rn \in 0 .. 28
  BY Fields DEF LR
<1>2. Quiet(I)
  BY <1>1 DEF Quiet
<1>3. Lost' \/ (On(ip + 4) /\ Shape(ar', ram') /\ Ready(ar', ram', E, n))
  BY <1>2, QuietStep
<1>4. ASSUME ~Lost' PROVE Tame(ar'[LR], E)
  <2>1. PICK v \in {ram[Accessed], Indexed, Junk} : ar' = [Based EXCEPT ![I.rd] = v]
    BY <1>1, <1>4, LdrStep
  <2>2. Accessed \in DOMAIN ram
    BY <1>1, <1>4, LdrStep
  <2>3. Tame(v, E) /\ Shape(Based, ram)
    BY <1>1, <2>1, <2>2, AccessTame, TameResult
  <2>4. LR \in DOMAIN Based
    BY <2>3 DEF Shape, ArchReg, LR, HostSP
  <2> QED
    BY <1>1, <2>1, <2>3, <2>4
<1> QED
  BY <1>3, <1>4

\* A return to an address of the program's goes there.
LEMMA LinkReturn ==
  ASSUME Ripe, Run, Shape(ar, ram), Ready(ar, ram, Entries, 12), Tame(ar[LR], Entries),
         I = Insn("ret", "offset", 0, 30, 0, Junk, 0)
  PROVE  Settles
<1>1. I.op = "ret" /\ I.rn = LR /\ Seen
  BY Fields DEF LR, Ripe
<1>2. ar[LR] # host_return
  BY DEF Tame, host_return, sys_enter
<1>3. UNCHANGED <<ar, ram>> /\ (Lost' \/ (ar[LR].tag = "code" /\ On(ar[LR].val)))
  BY <1>1, <1>2, RetStep
<1>4. CASE Lost'
  BY <1>4 DEF Settles
<1>5. CASE ar[LR].tag = "code" /\ On(ar[LR].val)
  <2>1. ar[LR].val \in Entries
    BY <1>5 DEF Tame, sys_enter
  <2>2. Shape(ar', ram') /\ Ready(ar', ram', Entries, 12)
    BY <1>3
  <2> QED
    BY <1>5, <2>1, <2>2, Arrives
<1> QED
  BY <1>3, <1>4, <1>5

\* The native instructions of the stub that are quiet.
LEMMA StubQuiet ==
  ASSUME Ripe,
         \/ ip \in {32, 36, 40}
         \/ \E j \in 0 .. AddrParts + 2 : j # AddrParts + 1 /\ ip = 56 + 4 * j
  PROVE  Quiet(I)
<1>0. Placed(text, A64Boot, 0) /\ AddrParts \in 1 .. 4
  BY RipeText
<1>1. CASE ip = 32
  <2>1. I = Insn("ldr", "offset", 27, 28, 0, Junk, 8)
    BY <1>0, <1>1, StubText DEF I
  <2> QED
    BY <2>1 DEF Quiet, Insn
<1>2. CASE ip = 36
  <2>1. I = Insn("movz", "offset", 11, 0, 0, Num(0), 0) /\ Tame(Num(0), {})
    BY <1>0, <1>2, StubText, TameResult DEF I
  <2> QED
    BY <2>1 DEF Quiet, Insn
<1>3. CASE ip = 40
  <2>1. I = Insn("subs", "offset", 32, 27, 11, Junk, 0)
    BY <1>0, <1>3, StubText DEF I
  <2> QED
    BY <2>1 DEF Quiet, Insn, ZR
<1>4. ASSUME NEW j \in 0 .. AddrParts + 2, j # AddrParts + 1, ip = 56 + 4 * j PROVE Quiet(I)
  <2>1. CASE j = 0
    <3>1. I = Insn("orr", "offset", 0, 32, 28, Junk, 0)
      BY <1>0, <1>4, <2>1, HostPathText DEF I
    <3> QED
      BY <3>1 DEF Quiet, Insn
  <2>2. CASE j \in 1 .. AddrParts
    <3>1. ip = 60 + 4 * (j - 1)
      BY <1>0, <1>4, <2>2
    <3>2. I = Insn(MovOp(j), "offset", 11, 0, 0, sys_enter, j - 1)
      BY <1>0, <2>2, <3>1, HostPathText DEF I
    <3>3. Tame(sys_enter, {})
      BY DEF Tame, sys_enter
    <3> QED
      BY <3>2, <3>3 DEF Quiet, Insn, MovOp
  <2>3. CASE j = AddrParts + 2
    <3>1. ip = 64 + 4 * AddrParts
      BY <1>0, <1>4, <2>3
    <3>2. I = Insn("orr", "offset", 28, 32, 0, Junk, 0)
      BY <1>0, <3>1, HostPathText DEF I
    <3> QED
      BY <3>2 DEF Quiet, Insn
  <2> QED
    BY <1>0, <1>4, <2>1, <2>2, <2>3
<1> QED
  BY <1>1, <1>2, <1>3, <1>4

\* A step in the stub to a place in it.
LEMMA InStubStep ==
  ASSUME On(ip + 4), Shape(ar', ram'), InStub(ip + 4, ar', ram')
  PROVE  Settles
BY DEF Settles, On, Fits

\* The step from a place in the stub.
LEMMA FromStub ==
  ASSUME Ripe, Run, Shape(ar, ram), InStub(ip, ar, ram) PROVE Settles
<1>0. /\ Seen /\ Placed(text, A64Boot, 0) /\ AddrParts \in 1 .. 4 /\ Room = 4 * AddrParts
  BY RipeText DEF Ripe
<1>1. CASE ip \in {32, 36, 40} /\ Ready(ar, ram, Entries, 12)
  <2>1. Lost' \/ (On(ip + 4) /\ Shape(ar', ram') /\ Ready(ar', ram', Entries, 12))
    BY <1>0, <1>1, StubQuiet, QuietStep
  <2>2. ip + 4 \in {36, 40, 44}
    BY <1>1
  <2> QED
    BY <2>1, <2>2, InStubStep DEF InStub, Settles
<1>2. CASE ip = 44 /\ Ready(ar, ram, Entries, 12)
  <2> DEFINE d == 4 + 4 * (9 + AddrParts)
  <2>1. I = Insn("JMPEQ", "offset", 0, 0, 0, Junk, Masked(d))
    BY <1>0, <1>2, StubText DEF I
  <2>2. I.op = "JMPEQ" /\ I.d = Masked(d) /\ I.len = 4
    BY <2>1, Fields
  <2>3. UNCHANGED <<ar, ram>> /\ (On(ip + Masked(d)) \/ On(ip + 4))
    BY <1>0, <2>2, BranchStep DEF CondOp
  <2>4. CASE On(ip + 4)
    BY <1>2, <2>3, <2>4, InStubStep DEF InStub
  <2>5. CASE On(ip + Masked(d))
    <3>1. Masked(d) = d
      BY StubReach
    <3>2. ip + Masked(d) = 84 + Room + 4 * 0 /\ 0 \in 0 .. AddrParts + 14 /\ ~(0 >= 2)
      BY <1>0, <1>2, <3>1
    <3>3. Saving(ip + Masked(d), ar', ram')
      BY <1>2, <2>3, <3>2 DEF Saving, Ready
    <3> HIDE DEF d
    <3> QED
      BY <2>3, <2>5, <3>3 DEF Settles, On, Fits
  <2> QED
    BY <2>3, <2>4, <2>5
<1>3. CASE ip = 48 /\ Ready(ar, ram, Entries, 12)
  <2>1. I = Insn("stp", "pre", 14, 31, 15, Junk, -16)
    BY <1>0, <1>3, HostPathText DEF I
  <2>2. On(ip + 4) /\ Shape(ar', ram') /\ Ready(ar', ram', Entries, 12 + 2)
    BY <1>0, <1>3, <2>1, ReadyPush
  <2> QED
    BY <1>3, <2>2, InStubStep DEF InStub
<1>4. CASE ip = 52 /\ Ready(ar, ram, Entries, 14)
  <2>1. I = Insn("stp", "pre", 12, 31, 13, Junk, -16)
    BY <1>0, <1>4, HostPathText DEF I
  <2>2. On(ip + 4) /\ Shape(ar', ram') /\ Ready(ar', ram', Entries, 14 + 2)
    BY SMTT(30), <1>0, <1>4, <2>1, ReadyPush
  <2>3. ip + 4 = 56 + 4 * 0 /\ 0 \in 0 .. AddrParts + 3
    BY <1>0, <1>4
  <2> QED
    BY <2>2, <2>3, InStubStep DEF InStub
<1>5. ASSUME NEW j \in 0 .. AddrParts + 3, ip = 56 + 4 * j, Ready(ar, ram, Entries, 16)
      PROVE  Settles
  <2>1. ASSUME j # AddrParts + 3,
               Lost' \/ (On(ip + 4) /\ Shape(ar', ram') /\ Ready(ar', ram', Entries, 16))
        PROVE  Settles
    <3>1. j + 1 \in 0 .. AddrParts + 3 /\ ip + 4 = 56 + 4 * (j + 1)
      BY <1>0, <1>5, <2>1
    <3> QED
      BY <2>1, <3>1, InStubStep DEF InStub, Settles
  <2>2. CASE j = AddrParts + 1
    <3>1. ip = 60 + 4 * AddrParts /\ j # AddrParts + 3
      BY <1>0, <1>5, <2>2
    <3>2. I = Insn("blr", "offset", 0, 11, 0, Junk, 0)
      BY <1>0, <3>1, HostPathText DEF I
    <3>3. I.op = "blr" /\ I.len = 4
      BY <3>2, Fields
    <3> QED
      BY <1>0, <1>5, <2>1, <3>1, <3>3, BlrStep
  <2>3. CASE j = AddrParts + 3
    <3>1. ip = 68 + 4 * AddrParts /\ ip + 4 = 72 + Room
      BY <1>0, <1>5, <2>3
    <3>2. I = Insn("ldp", "post", 12, 31, 13, Junk, 16)
      BY <1>0, <3>1, HostPathText DEF I
    <3>3. On(ip + 4) /\ Shape(ar', ram') /\ Ready(ar', ram', Entries, 16 - 2)
      <4>1. 12 \in 0 .. 28 /\ 13 \in 0 .. 28 /\ 12 # 13 /\ 16 \in 14 .. 16
        OBVIOUS
      <4>2. Ready(ar, ram, Entries, 16) /\ Seen /\ Shape(ar, ram)
        BY <1>0, <1>5
      <4> QED
        BY SMTT(30), <3>2, <4>1, <4>2, ReadyPop
    <3> QED
      BY <3>1, <3>3, InStubStep DEF InStub
  <2>4. CASE j \notin {AddrParts + 1, AddrParts + 3}
    <3>1. j \in 0 .. AddrParts + 2 /\ j # AddrParts + 1
      BY <1>0, <2>4
    <3>2. Quiet(I)
      BY <1>5, <3>1, StubQuiet
    <3>3. Lost' \/ (On(ip + 4) /\ Shape(ar', ram') /\ Ready(ar', ram', Entries, 16))
      BY <1>0, <1>5, <3>2, QuietStep
    <3> QED
      BY <2>1, <2>4, <3>3
  <2> QED
    BY <2>2, <2>3, <2>4
<1>6. CASE ip = 72 + Room /\ Ready(ar, ram, Entries, 14)
  <2>1. I = Insn("ldp", "post", 14, 31, 15, Junk, 16)
    BY <1>0, <1>6, HostPathText DEF I
  <2>2. On(ip + 4) /\ Shape(ar', ram') /\ Ready(ar', ram', Entries, 14 - 2)
    BY <1>0, <1>6, <2>1, ReadyPop
  <2>3. ip + 4 = 76 + Room
    BY <1>0, <1>6
  <2> QED
    BY <2>2, <2>3, InStubStep DEF InStub
<1>7. CASE ip = 76 + Room /\ Ready(ar, ram, Entries, 12)
  <2>1. I = Insn("ldr", "post", 30, 28, 0, Junk, 8)
    BY <1>0, <1>7, HostPathText DEF I
  <2>2. \/ Lost'
        \/ /\ On(ip + 4) /\ Shape(ar', ram') /\ Ready(ar', ram', Entries, 12)
           /\ Tame(ar'[LR], Entries)
    BY <1>0, <1>7, <2>1, LinkLoad
  <2>3. ip + 4 = 80 + Room
    BY <1>0, <1>7
  <2> QED
    BY <2>2, <2>3, InStubStep DEF InStub, Settles
<1>8. CASE ip = 80 + Room /\ Ready(ar, ram, Entries, 12) /\ Tame(ar[LR], Entries)
  <2>1. I = Insn("ret", "offset", 0, 30, 0, Junk, 0)
    BY <1>0, <1>8, HostPathText DEF I
  <2> QED
    BY <1>8, <2>1, LinkReturn
<1> QED
  BY <1>1, <1>2, <1>3, <1>4, <1>5, <1>6, <1>7, <1>8 DEF InStub

\* Other registers change than the host's stack pointer.
LEMMA DeepRegisters ==
  ASSUME NEW A, NEW M, NEW n, Shape(A, M), Deep(A, M, n),
         NEW B, DOMAIN B = DOMAIN A, B[HostSP] = A[HostSP]
  PROVE  Shape(B, M) /\ Deep(B, M, n)
BY DEF Deep, Shape

\* The registers of the VM go to where the host looks for them: its stack is not touched.
LEMMA FromSaving ==
  ASSUME Ripe, Run, Shape(ar, ram), Saving(ip, ar, ram) PROVE Settles
<1>0. /\ Seen /\ Placed(text, A64Boot, 0) /\ AddrParts \in 1 .. 4 /\ Room = 4 * AddrParts
  BY RipeText DEF Ripe
<1>1. PICK j \in 0 .. AddrParts + 14 : /\ ip = 84 + Room + 4 * j
                                       /\ Deep(ar, ram, 12)
                                       /\ j >= 2 => ar[Scratch] = DumpSlot(ar[Scratch].val)
  BY DEF Saving
<1>2. ASSUME On(ip + 4), Shape(ar', ram'), Deep(ar', ram', 12),
             j >= 1 => ar'[Scratch] = DumpSlot(ar'[Scratch].val)
      PROVE  Settles
  <2>1. CASE j < AddrParts + 14
    <3>1. j + 1 \in 0 .. AddrParts + 14 /\ ip + 4 = 84 + Room + 4 * (j + 1)
      BY <1>0, <1>1, <2>1
    <3>2. j + 1 >= 2 => ar'[Scratch] = DumpSlot(ar'[Scratch].val)
      BY <1>2
    <3>3. Saving(ip + 4, ar', ram')
      BY <1>2, <3>1, <3>2 DEF Saving
    <3> QED
      BY <1>2, <3>3 DEF Settles, On, Fits
  <2>2. CASE j = AddrParts + 14
    <3>1. ip + 4 = 144 + 2 * Room + 4 * 0 /\ 12 - 2 * 0 = 12
      BY <1>0, <1>1, <2>2
    <3>2. \A k \in 1 .. 12 : ~(k > 12)
      OBVIOUS
    <3>3. Leaving(ip + 4, ar', ram')
      BY <1>2, <3>1, <3>2 DEF Leaving
    <3> QED
      BY <1>2, <3>3 DEF Settles, On, Fits
  <2> QED
    BY <1>0, <2>1, <2>2
<1>3. CASE j = 0
  <2>1. ip = 84 + 4 * AddrParts
    BY <1>0, <1>1, <1>3
  <2>2. I = Insn("add", "offset", 28, 28, 0, Junk, 16)
    BY <1>0, <2>1, ExitPathText DEF I
  <2>3. I.op = "add" /\ I.rd = 28 /\ I.len = 4
    BY <2>2, Fields
  <2>4. On(ip + 4) /\ UNCHANGED ram /\ ar' = [ar EXCEPT ![28] = At(ar[I.rn], I.d)]
    BY <1>0, <2>3, AddStep
  <2>5. Shape(ar', ram') /\ Deep(ar', ram', 12)
    <3>1. DOMAIN ar' = DOMAIN ar /\ ar'[HostSP] = ar[HostSP]
      BY <2>4 DEF Shape, ArchReg, HostSP
    <3>2. Shape(ar', ram) /\ Deep(ar', ram, 12)
      BY <1>1, <3>1, DeepRegisters
    <3> QED
      BY <2>4, <3>2
  <2> QED
    BY <1>2, <1>3, <2>4, <2>5
<1>4. CASE j \in 1 .. AddrParts
  <2>1. ip = 88 + 4 * AddrParts + 4 * (j - 1)
    BY <1>0, <1>1, <1>4
  <2>2. I = Insn(MovOp(j), "offset", 11, 0, 0, DumpSlot(0), j - 1)
    BY <1>0, <1>4, <2>1, ExitPathText DEF I
  <2>3. I.op \in {"movz", "movk"} /\ I.rd = 11 /\ I.val = DumpSlot(0) /\ I.len = 4
    BY <2>2, Fields DEF MovOp
  <2>4. I.val.tag # "num"
    BY <2>3 DEF DumpSlot
  <2>5. On(ip + 4) /\ UNCHANGED ram /\ ar' = [ar EXCEPT ![11] = DumpSlot(0)]
    BY <1>0, <2>3, <2>4, MovStep
  <2>6. Shape(ar', ram') /\ Deep(ar', ram', 12)
    <3>1. DOMAIN ar' = DOMAIN ar /\ ar'[HostSP] = ar[HostSP]
      BY <2>5 DEF Shape, ArchReg, HostSP
    <3>2. Shape(ar', ram) /\ Deep(ar', ram, 12)
      BY <1>1, <3>1, DeepRegisters
    <3> QED
      BY <2>5, <3>2
  <2>7. ar'[Scratch] = DumpSlot(0) /\ DumpSlot(0) = DumpSlot(DumpSlot(0).val)
    BY <2>5 DEF Scratch, Shape, ArchReg, HostSP, DumpSlot
  <2> QED
    BY <1>2, <2>5, <2>6, <2>7
<1>5. CASE j > AddrParts
  <2> DEFINE k == j - AddrParts
             r == A64vr2ar[DumpOrder[k]]
  <2>1. k \in 1 .. 14 /\ ip = 88 + 2 * (4 * AddrParts) + 4 * (k - 1) /\ j >= 2
    BY <1>0, <1>1, <1>5
  <2>2. I = DumpStores[k]
    <3> HIDE DEF k
    <3> QED
      BY <1>0, <2>1, ExitPathText DEF I
  <2>3. DumpOrder[k] \in Reg
    <3> HIDE DEF k
    <3> QED
      BY <2>1, DumpNames
  <2>4. r # Scratch
    <3> HIDE DEF k
    <3>1. \A q \in Reg : A64vr2ar[q] \in 12 .. 28
      BY RegNumber
    <3> QED
      BY <2>3, <3>1 DEF Scratch
  <2>5. I = Insn("str", "post", r, Scratch, 0, Junk, 8)
    <3> HIDE DEF k
    <3> QED
      BY <2>1, <2>2 DEF DumpStores
  <2> HIDE DEF k, r
  <2>6. I.op = "str" /\ I.mode = "post" /\ I.rd = r /\ I.rn = Scratch /\ I.d = 8 /\ I.len = 4
    BY <2>5, Fields
  <2> DEFINE u == ar[Scratch].val
  <2>7. ar[Scratch] = DumpSlot(u)
    BY <1>1, <2>1
  <2>8. Accessed = DumpSlot(u) /\ Indexed = DumpSlot(u + 8) /\ DumpSlot(u).tag # "hst"
    BY <2>6, <2>7 DEF Accessed, Indexed, At, DumpSlot
  <2> HIDE DEF u
  <2>9. Based = [ar EXCEPT ![Scratch] = DumpSlot(u + 8)]
    BY <2>6, <2>8 DEF Based
  <2>10. CASE Lost'
    BY <2>10 DEF Settles
  <2>11. CASE ~Lost'
    <3>1. PICK v \in {ar[I.rd], Indexed, Junk} : ram' = [ram EXCEPT ![Accessed] = v]
      BY <1>0, <2>6, <2>11, StrStep
    <3>2. On(ip + 4) /\ ar' = Based /\ Accessed \in DOMAIN ram
      BY <1>0, <2>6, <2>11, StrStep
    <3>3. Scratch \in 0 .. 28
      BY DEF Scratch
    <3>4. Shape(ar', ram) /\ Deep(ar', ram, 12)
      <4>1. DOMAIN ar' = DOMAIN ar /\ ar'[HostSP] = ar[HostSP]
      BY <2>9, <3>2 DEF Shape, ArchReg, HostSP, Scratch
    <4> QED
      BY <1>1, <4>1, DeepRegisters
    <3>5. Shape(ar', ram') /\ Deep(ar', ram', 12)
      BY <2>8, <3>1, <3>2, <3>4, ReadyMemory
    <3>6. ar'[Scratch] = DumpSlot(u + 8) /\ DumpSlot(u + 8) = DumpSlot(DumpSlot(u + 8).val)
      BY <2>9, <3>2, <3>3 DEF Shape, ArchReg, HostSP, DumpSlot
    <3> QED
      BY <1>2, <3>2, <3>5, <3>6
  <2> QED
    BY <2>10, <2>11
<1> QED
  BY <1>0, <1>1, <1>3, <1>4, <1>5

\* The registers that are on the host's stack are all different.
LEMMA SavedApart ==
  /\ \A k \in 1 .. 12 : SavedReg[k] \in 19 .. 30
  /\ \A k, l \in 1 .. 12 : SavedReg[k] = SavedReg[l] => k = l
  /\ \A r \in 19 .. 30 : \E k \in 1 .. 12 : r = SavedReg[k]
<1>1. \A k \in 1 .. 12 : SavedReg[k] \in 19 .. 30
  BY DEF SavedReg
<1>2. \A k, l \in 1 .. 12 : SavedReg[k] = SavedReg[l] => k = l
  BY SMTT(30) DEF SavedReg
<1>3. /\ SavedReg[1] = 30 /\ SavedReg[2] = 29 /\ SavedReg[3] = 20 /\ SavedReg[4] = 19
      /\ SavedReg[5] = 22 /\ SavedReg[6] = 21 /\ SavedReg[7] = 24 /\ SavedReg[8] = 23
      /\ SavedReg[9] = 26 /\ SavedReg[10] = 25 /\ SavedReg[11] = 28 /\ SavedReg[12] = 27
  BY DEF SavedReg
<1>4. \A r \in 19 .. 30 : \E k \in 1 .. 12 : r = SavedReg[k]
  <2> TAKE r \in 19 .. 30
  <2>1. r \in {19, 20, 21, 22, 23, 24, 25, 26, 27, 28, 29, 30}
    OBVIOUS
  <2>2. CASE r \in {19, 20, 21, 22, 23, 24}
    BY <1>3, <2>2
  <2>3. CASE r \in {25, 26, 27, 28, 29, 30}
    BY <1>3, <2>3
  <2> QED
    BY <2>1, <2>2, <2>3
<1> QED
  BY <1>1, <1>2, <1>4

\* The host's registers come back, pair by pair, and with them the way to the host.
LEMMA FromLeaving ==
  ASSUME Ripe, Run, Shape(ar, ram), Leaving(ip, ar, ram) PROVE Settles
<1>0. /\ Seen /\ Placed(text, A64Boot, 0) /\ AddrParts \in 1 .. 4 /\ Room = 4 * AddrParts
  BY RipeText DEF Ripe
<1>1. PICK j \in 0 .. 6 :
         /\ ip = 144 + 2 * Room + 4 * j
         /\ Deep(ar, ram, 12 - 2 * j)
         /\ \A k \in 1 .. 12 : k > 12 - 2 * j => ar[SavedReg[k]] = OfHost(SavedReg[k])
  BY DEF Leaving
<1> DEFINE n == 12 - 2 * j
<1>2. CASE j < 6
  <2> DEFINE r == SavedReg[n]
             s == SavedReg[n - 1]
  <2>1. /\ n \in 2 .. 12 /\ n \in 2 .. 16 /\ n \in 1 .. 12 /\ n - 1 \in 1 .. 12 /\ n # n - 1
        /\ ip + 4 = 144 + 2 * Room + 4 * (j + 1) /\ j + 1 \in 0 .. 6 /\ n - 2 = 12 - 2 * (j + 1)
    BY <1>0, <1>1, <1>2
  <2>2. I = Insn("ldp", "post", r, 31, s, Junk, 16)
    <3>1. CASE j = 5
      <4>1. ip = 164 + 2 * (4 * AddrParts)
        BY <1>0, <1>1, <3>1
      <4>2. SavedReg[n] = 29 /\ SavedReg[n - 1] = 30
        BY <3>1 DEF SavedReg
      <4> QED
        BY <1>0, <4>1, <4>2, ExitPathText DEF I
    <3>2. CASE j # 5
      <4>1. j + 1 \in 1 .. 5 /\ ip = 144 + 2 * (4 * AddrParts) + 4 * ((j + 1) - 1)
        BY <1>0, <1>1, <1>2, <3>2
      <4>2. I = LoadPairs[j + 1]
        BY <1>0, <4>1, ExitPathText DEF I
      <4>3. ExitPairs[j + 1][1] = SavedReg[n] /\ ExitPairs[j + 1][2] = SavedReg[n - 1]
        BY <4>1 DEF ExitPairs, SavedReg
      <4> QED
        BY <4>1, <4>2, <4>3 DEF LoadPairs, HostSP
    <3> QED
      BY <3>1, <3>2
  <2>3. /\ r \in 0 .. 30 /\ s \in 0 .. 30 /\ r # s /\ ar[HostSP] = HostSlot(-8 * n)
        /\ Deep(ar, ram, n)
        /\ \A k \in 1 .. 12 : k > n => /\ ar[SavedReg[k]] = OfHost(SavedReg[k])
                                       /\ SavedReg[k] \in 0 .. 30
                                       /\ SavedReg[k] # r /\ SavedReg[k] # s
    <3>1. ar[HostSP] = HostSlot(-8 * n) /\ Deep(ar, ram, n)
      BY <1>1 DEF Deep
    <3>2. r \in 0 .. 30 /\ s \in 0 .. 30 /\ r # s
      <4> HIDE DEF n
      <4> QED
        BY <2>1, SavedApart
    <3>3. ASSUME NEW k \in 1 .. 12, k > n
          PROVE  /\ ar[SavedReg[k]] = OfHost(SavedReg[k]) /\ SavedReg[k] \in 0 .. 30
                 /\ SavedReg[k] # r /\ SavedReg[k] # s
      <4>1. ar[SavedReg[k]] = OfHost(SavedReg[k]) /\ k # n /\ k # n - 1
        BY <1>1, <2>1, <3>3
      <4> HIDE DEF n
      <4> QED
        BY <2>1, <4>1, SavedApart
    <3> QED
      BY <3>1, <3>2, <3>3
  <2>4. n - 2 = 12 - 2 * (j + 1)
    BY <2>1
  <2> HIDE DEF r, s, n
  <2>5. /\ On(ip + 4) /\ Shape(ar', ram') /\ UNCHANGED ram
        /\ ar'[HostSP] = HostSlot(-8 * (n - 2))
        /\ ar'[r] = ram[HostSlot(-8 * n)] /\ ar'[s] = ram[HostSlot(-8 * (n - 1))]
        /\ \A q \in 0 .. 30 : q # r /\ q # s => ar'[q] = ar[q]
    BY <1>0, <2>1, <2>2, <2>3, PopPair
  <2>6. /\ ar'[r] = OfHost(SavedReg[n]) /\ ar'[s] = OfHost(SavedReg[n - 1])
    BY <2>1, <2>3, <2>5 DEF Deep
  <2>7. Deep(ar', ram', n - 2)
    BY <2>1, <2>3, <2>5 DEF Deep
  <2>8. ASSUME NEW k \in 1 .. 12, k > n - 2 PROVE ar'[SavedReg[k]] = OfHost(SavedReg[k])
    <3>1. CASE k = n
      BY <2>6, <3>1 DEF r
    <3>2. CASE k = n - 1
      BY <2>6, <3>2 DEF s
    <3>3. CASE k > n
      BY <2>3, <2>5, <3>3
    <3> QED
      BY <2>1, <2>8, <3>1, <3>2, <3>3
  <2>9. Leaving(ip + 4, ar', ram')
    BY <2>1, <2>4, <2>7, <2>8 DEF Leaving
  <2> QED
    BY <2>5, <2>9 DEF Settles, On, Fits
<1>3. CASE j = 6
  <2>1. ip = 168 + 2 * (4 * AddrParts) /\ n = 0
    BY <1>0, <1>1, <1>3
  <2>2. I = Insn("ret", "offset", 0, 30, 0, Junk, 0)
    BY <1>0, <2>1, ExitPathText DEF I
  <2>3. I.op = "ret" /\ I.rn = 30
    BY <2>2, Fields
  <2>4. ar[HostSP] = HostSlot(0)
    <3>1. ar[HostSP] = HostSlot(-8 * n) /\ n \in Int
      BY <1>1, <2>1 DEF Deep
    <3> HIDE DEF n
    <3>2. -8 * n = 0 - 8 * n
      BY <3>1
    <3>3. 0 - 8 * n = 0
      BY <2>1
    <3> QED
      BY <3>1, <3>2, <3>3
  <2>5. \A r \in 19 .. 30 : ar[r] = OfHost(r)
    <3> TAKE r \in 19 .. 30
    <3>1. PICK k \in 1 .. 12 : r = SavedReg[k]
      BY SavedApart
    <3> QED
      BY <1>1, <2>1, <3>1
  <2>6. ar[30] = host_return /\ \A r \in CalleeSaved : ar[r] = HostVal(r)
    BY <2>5 DEF OfHost, LR, CalleeSaved, FP
  <2>7. obs'.status = "exited" /\ UNCHANGED ar
    BY <1>0, <2>3, <2>6, RetStep
  <2> QED
    BY <2>4, <2>6, <2>7 DEF Settles, Restored
<1> QED
  BY <1>1, <1>2, <1>3

\* The registers of the program are set before it starts.
LEMMA FromClearing ==
  ASSUME Ripe, Run, Shape(ar, ram), Clearing(ip, ar, ram) PROVE Settles
<1>0. /\ Seen /\ Placed(text, A64Boot, 0) /\ AddrParts \in 1 .. 4 /\ Room = 4 * AddrParts
      /\ Prologue = 224 + 3 * Room
  BY RipeText DEF Ripe
<1>1. PICK j \in 0 .. AddrParts + 12 : ip = 172 + 2 * Room + 4 * j
  BY DEF Clearing
<1>2. Ready(ar, ram, Entries, 12)
  BY DEF Clearing
<1>3. Quiet(I)
  <2>1. CASE j < 13
    <3> DEFINE k == j + 1
               r == A64vr2ar[DumpOrder[k]]
    <3>1. k \in 1 .. 13 /\ k \in 1 .. 14 /\ ip = 172 + 2 * (4 * AddrParts) + 4 * (k - 1)
      BY <1>0, <1>1, <2>1
    <3> HIDE DEF k
    <3>2. I = Insn("movz", "offset", r, 0, 0, Num(0), 0)
      BY <1>0, <3>1, InitText DEF I, Clears
    <3>3. DumpOrder[k] \in Reg
      BY <3>1, DumpNames
    <3>4. r \in 0 .. 28
      BY <3>3, RegNumber
    <3>5. Tame(Num(0), {})
      BY TameResult
    <3> QED
      BY <3>2, <3>4, <3>5 DEF Quiet, Insn
  <2>2. CASE j >= 13
    <3> DEFINE k == j - 12
    <3>1. k \in 1 .. AddrParts /\ ip = 224 + 2 * (4 * AddrParts) + 4 * (k - 1)
      BY <1>0, <1>1, <2>2
    <3> HIDE DEF k
    <3>2. I = Insn(MovOp(k), "offset", 28, 0, 0, Stk(0), k - 1)
      BY <1>0, <3>1, InitText DEF I
    <3>3. Tame(Stk(0), {})
      BY HostValues DEF Tame
    <3> QED
      BY <3>2, <3>3 DEF Quiet, Insn, MovOp
  <2> QED
    BY <1>0, <2>1, <2>2
<1>4. Lost' \/ (On(ip + 4) /\ Shape(ar', ram') /\ Ready(ar', ram', Entries, 12))
  BY <1>0, <1>2, <1>3, QuietStep
<1>5. CASE Lost'
  BY <1>5 DEF Settles
<1>6. CASE On(ip + 4) /\ Shape(ar', ram') /\ Ready(ar', ram', Entries, 12)
  <2>1. CASE j < AddrParts + 12
    <3>1. j + 1 \in 0 .. AddrParts + 12 /\ ip + 4 = 172 + 2 * Room + 4 * (j + 1)
      BY <1>0, <1>1, <2>1
    <3>2. Clearing(ip + 4, ar', ram')
      BY <1>6, <3>1 DEF Clearing
    <3> QED
      BY <1>6, <3>2 DEF Settles, On, Fits
  <2>2. CASE j = AddrParts + 12
    <3>1. ip + 4 = Prologue
      BY <1>0, <1>1, <2>2
    <3>2. ip + 4 \in Entries
      BY <3>1, NextPlace
    <3> QED
      BY <1>6, <3>2, Arrives
  <2> QED
    BY <1>0, <2>1, <2>2
<1> QED
  BY <1>4, <1>5, <1>6

\* The way back from a place above another in memory.
LEMMA AtBack ==
  ASSUME NEW v \in Stack \cup HostLoc, v.tag # "hst", At(v, -8) \in Stack \cup HostLoc
  PROVE  At(At(v, -8), 8) = v /\ At(v, -8) # v /\ At(v, -8).tag # "hst"
<1> DEFINE n == v.val
<1>1. CASE v \in Stack
  <2>1. v.tag = "stk" /\ v \in Loc
    BY <1>1 DEF Stack
  <2>2. PICK k \in 1 .. StackDepth : v = Stk(-8 * k)
    BY <2>1 DEF Loc, Num
  <2>3. -8 * k \in -StackSpan .. StackSpan /\ v = [tag |-> "stk", val |-> -8 * k]
    BY <2>1, <2>2 DEF Stk, Junk
  <2>4. n \in Int /\ n \in -StackSpan .. StackSpan /\ v = [tag |-> "stk", val |-> n]
    BY <2>3
  <2> HIDE DEF n
  <2>5. At(v, -8) = Stk(n + -8)
    BY <2>4 DEF At, Offset
  <2>6. Junk \notin Stack \cup HostLoc
    BY DEF Stack, HostLoc, HostSlot, DumpArea, DumpOf, DumpSlot, Junk
  <2>7. Stk(n + -8) = [tag |-> "stk", val |-> n + -8]
    BY <2>5, <2>6 DEF Stk
  <2>8. At(At(v, -8), 8) = Stk(n + -8 + 8)
    BY <2>5, <2>7 DEF At, Offset
  <2>9. n + -8 + 8 = n /\ n + -8 # n
    BY <2>4
  <2> QED
    BY <2>4, <2>5, <2>7, <2>8, <2>9 DEF Stk
<1>2. CASE v \in DumpArea
  <2>1. PICK r \in Reg : v = DumpOf(r)
    BY <1>2 DEF DumpArea
  <2>2. \E k \in DOMAIN DumpOrder : DumpOrder[k] = r
    BY DEF DumpOrder, Reg, GPR
  <2> DEFINE c == CHOOSE k \in DOMAIN DumpOrder : DumpOrder[k] = r
  <2>3. c \in 1 .. 14 /\ v = DumpSlot(8 * (c - 1))
    BY <2>1, <2>2, DumpNames DEF DumpOf
  <2> HIDE DEF c
  <2>4. n \in Int /\ v = DumpSlot(n)
    BY <2>3 DEF DumpSlot
  <2> HIDE DEF n
  <2>5. At(v, -8) = DumpSlot(n + -8)
    BY <2>4 DEF At, DumpSlot
  <2>6. At(DumpSlot(n + -8), 8) = DumpSlot(n + -8 + 8)
    BY DEF At, DumpSlot
  <2>7. n + -8 + 8 = n /\ n + -8 # n
    BY <2>4
  <2>8. DumpSlot(n + -8) # DumpSlot(n) /\ DumpSlot(n + -8).tag = "dump"
    BY <2>7 DEF DumpSlot
  <2> QED
    BY <2>4, <2>5, <2>6, <2>7, <2>8
<1>3. CASE v \in HostLoc \ DumpArea
  BY <1>3 DEF HostLoc, HostSlot
<1> QED
  BY <1>1, <1>2, <1>3

\* The program's push of the word that tells the exit, or of the address after it.
LEMMA ExitPush ==
  ASSUME Run, Seen, Shape(ar, ram), NEW r \in {11, 27}, ar[VmSP].tag # "hst",
         I = Insn("str", "pre", r, 28, 0, Junk, -8)
  PROVE  \/ Lost'
         \/ /\ On(ip + 4) /\ At(ar[VmSP], -8) \in DOMAIN ram
            /\ ar' = [ar EXCEPT ![VmSP] = At(ar[VmSP], -8)]
            /\ ram' = [ram EXCEPT ![At(ar[VmSP], -8)] = ar[r]]
<1>1. /\ I.op = "str" /\ I.mode = "pre" /\ I.rd = r /\ I.rn = VmSP /\ I.d = -8 /\ I.len = 4
      /\ VmSP = 28
  BY Fields, Names
<1>2. ~Unclear
  BY <1>1 DEF Unclear
<1>3. Accessed = At(ar[VmSP], -8) /\ Based = [ar EXCEPT ![VmSP] = At(ar[VmSP], -8)]
  BY <1>1 DEF Accessed, Indexed, Based
<1> QED
  BY <1>1, <1>2, <1>3, StrStep

\* The call to exit after the program.
LEMMA FromGuarding ==
  ASSUME Ripe, Run, Shape(ar, ram), Guarding(ip, ar, ram) PROVE Settles
<1> DEFINE g == GuardAt
<1>0. /\ Seen /\ Placed(text, emit_vm_exit_syscall_guard(g), g) /\ g \in Nat
      /\ VmSP = 28 /\ VmSP \in 0 .. 28 /\ VmSP \in ArchReg /\ VmSP # HostSP
      /\ HostSP \in ArchReg
  BY RipeText, Names DEF Ripe, ArchReg
<1>1. /\ text[g] = Insn("movz", "offset", 27, 0, 0, Num(0), 0)
      /\ text[g + 4] = Insn("str", "pre", 27, 28, 0, Junk, -8)
      /\ text[g + 8] = Insn("adr", "offset", 11, 0, 0, Junk, 12)
      /\ text[g + 12] = Insn("str", "pre", 11, 28, 0, Junk, -8)
      /\ text[g + 16] = Insn("b", "offset", 0, 0, 0, Junk, 32 - (g + 16))
  BY <1>0, GuardText
<1>2. /\ g + 4 + 4 = g + 8 /\ g + 8 + 4 = g + 12 /\ g + 12 + 4 = g + 16
      /\ g + 16 + (32 - (g + 16)) = 32
  BY <1>0
<1>3. ASSUME On(ip + 4), Shape(ar', ram'), Guarding(ip + 4, ar', ram') PROVE Settles
  BY <1>3 DEF Settles, On, Fits
<1>4. CASE ip = g /\ Ready(ar, ram, Entries, 12)
  <2>1. I = Insn("movz", "offset", 27, 0, 0, Num(0), 0) /\ Tame(Num(0), {})
    BY <1>1, <1>4, TameResult DEF I
  <2>2. I.op = "movz" /\ I.rd = 27 /\ I.val = Num(0) /\ I.len = 4
    BY <2>1, Fields
  <2>3. Quiet(I)
    BY <2>1, <2>2 DEF Quiet
  <2>4. On(ip + 4) /\ ar' = [ar EXCEPT ![27] = Num(0)]
    BY <1>0, <2>2, MovStep
  <2>5. Lost' \/ (Shape(ar', ram') /\ Ready(ar', ram', Entries, 12))
    BY <1>0, <1>4, <2>3, QuietStep
  <2>6. ar'[27] = Num(0)
    BY <2>4 DEF Shape, ArchReg, HostSP
  <2> QED
    BY <1>3, <1>4, <2>4, <2>5, <2>6 DEF Guarding, Settles
<1>5. CASE ip = g + 4 /\ Ready(ar, ram, Entries, 12) /\ ar[27] = Num(0)
  <2> DEFINE w == At(ar[VmSP], -8)
  <2>1. I = Insn("str", "pre", 27, 28, 0, Junk, -8)
    BY <1>1, <1>5 DEF I
  <2>2. Quiet(I)
    BY <2>1 DEF Quiet, Insn
  <2>3. Tame(ar[VmSP], Entries)
    BY <1>0, <1>5 DEF Ready
  <2>4. ar[VmSP].tag # "hst" /\ w.tag # "hst"
    <3> DEFINE n == -8
    <3> HIDE DEF n
    <3>1. At(ar[VmSP], n).tag # "hst" /\ ar[VmSP].tag # "hst"
      BY <2>3, TameAt
    <3> QED
      BY <3>1 DEF n
  <2> HIDE DEF w
  <2>5. \/ Lost'
        \/ /\ On(ip + 4) /\ w \in DOMAIN ram
           /\ ar' = [ar EXCEPT ![VmSP] = w] /\ ram' = [ram EXCEPT ![w] = ar[27]]
    <3>1. 27 \in {11, 27}
      OBVIOUS
    <3> QED
      BY <1>0, <2>1, <2>4, <3>1, ExitPush DEF w
  <2>6. Lost' \/ (Shape(ar', ram') /\ Ready(ar', ram', Entries, 12))
    BY <1>0, <1>5, <2>2, QuietStep
  <2>7. ASSUME ~Lost' PROVE Exits(ar'[VmSP], ram')
    <3>1. ar'[VmSP] = w
      BY <1>0, <2>5, <2>7 DEF Shape
    <3>2. w \in DOMAIN ram' /\ ram'[w] = Num(0)
      BY <1>5, <2>5, <2>7
    <3> QED
      BY <2>4, <3>1, <3>2 DEF Exits
  <2>8. CASE Lost'
    BY <2>8 DEF Settles
  <2>9. CASE ~Lost'
    <3>1. Guarding(g + 8, ar', ram')
      BY <2>6, <2>7, <2>9 DEF Guarding
    <3> QED
      BY <1>2, <1>3, <1>5, <2>5, <2>6, <2>9, <3>1
  <2> QED
    BY <2>8, <2>9
<1>6. CASE ip = g + 8 /\ Ready(ar, ram, Entries, 12) /\ Exits(ar[VmSP], ram)
  <2>1. I = Insn("adr", "offset", 11, 0, 0, Junk, 12)
    BY <1>1, <1>6 DEF I
  <2>2. I.op = "adr" /\ I.rd = 11 /\ I.d = 12 /\ I.len = 4
    BY <2>1, Fields
  <2>3. On(ip + 4) /\ UNCHANGED ram /\ ar' = [ar EXCEPT ![11] = Code(ip + I.d)]
    BY <1>0, <2>2, AdrStep
  <2>4. DOMAIN ar' = DOMAIN ar /\ ar'[HostSP] = ar[HostSP] /\ ar'[VmSP] = ar[VmSP]
    BY <1>0, <2>3, Names DEF Shape
  <2>5. Shape(ar', ram) /\ Deep(ar', ram, 12)
    BY <1>6, <2>4, DeepRegisters DEF Ready
  <2>6. Guarding(g + 12, ar', ram')
    BY <1>6, <2>3, <2>4, <2>5 DEF Guarding
  <2> QED
    BY <1>2, <1>3, <1>6, <2>3, <2>5, <2>6
<1>7. CASE ip = g + 12 /\ Deep(ar, ram, 12) /\ Exits(ar[VmSP], ram)
  <2> DEFINE v == ar[VmSP]
             w == At(v, -8)
  <2>1. I = Insn("str", "pre", 11, 28, 0, Junk, -8)
    BY <1>1, <1>7 DEF I
  <2>2. v.tag # "hst" /\ v \in DOMAIN ram /\ ram[v] = Num(0)
    BY <1>7 DEF Exits
  <2>3. \/ Lost'
        \/ /\ On(ip + 4) /\ w \in DOMAIN ram
           /\ ar' = [ar EXCEPT ![VmSP] = w] /\ ram' = [ram EXCEPT ![w] = ar[11]]
    <3>1. 11 \in {11, 27}
      OBVIOUS
    <3> QED
      BY <1>0, <2>1, <2>2, <3>1, ExitPush
  <2>4. w \in DOMAIN ram => At(w, 8) = v /\ w # v /\ w.tag # "hst"
    BY <2>2, AtBack DEF Shape
  <2> HIDE DEF v, w
  <2>5. CASE Lost'
    BY <2>5 DEF Settles
  <2>6. CASE ~Lost'
    <3>1. DOMAIN ar' = DOMAIN ar /\ ar'[HostSP] = ar[HostSP] /\ ar'[VmSP] = w
      BY <1>0, <2>3, <2>6 DEF Shape
    <3>2. Shape(ar', ram) /\ Deep(ar', ram, 12)
      BY <1>7, <3>1, DeepRegisters
    <3>3. DOMAIN ram' = DOMAIN ram /\ \A l \in DOMAIN ram : l # w => ram'[l] = ram[l]
      BY <2>3, <2>6
    <3>4. \A k \in 1 .. 12 : HostSlot(-8 * k) \in DOMAIN ram /\ HostSlot(-8 * k) # w
      BY <2>3, <2>4, <2>6 DEF Shape, HostLoc, HostSlot
    <3>5. Shape(ar', ram') /\ Deep(ar', ram', 12)
      BY <3>2, <3>3, <3>4 DEF Shape, Deep
    <3>6. Exits(At(w, 8), ram') /\ w.tag # "hst"
      BY <2>2, <2>3, <2>4, <2>6, <3>3 DEF Exits
    <3>7. Guarding(g + 16, ar', ram')
      BY <3>1, <3>5, <3>6 DEF Guarding
    <3> QED
      BY <1>2, <1>3, <1>7, <2>3, <2>6, <3>5, <3>7
  <2> QED
    BY <2>5, <2>6
<1>8. CASE ip = g + 16 /\ Deep(ar, ram, 12) /\ ar[VmSP].tag # "hst" /\ Exits(At(ar[VmSP], 8), ram)
  <2> DEFINE d == 32 - (g + 16)
  <2>1. I = Insn("b", "offset", 0, 0, 0, Junk, d)
    BY <1>1, <1>8 DEF I
  <2> HIDE DEF d
  <2>2. I.op = "b" /\ I.d = d
    BY <2>1, Fields
  <2>3. On(ip + d) /\ UNCHANGED <<ar, ram>>
    BY <1>0, <2>2, BranchStep
  <2>4. ip + d = 32
    BY <1>2, <1>8 DEF d
  <2>5. Exiting(32, ar', ram', fl')
    BY <1>8, <2>3 DEF Exiting
  <2> QED
    BY <2>3, <2>4, <2>5 DEF Settles, On, Fits
<1> QED
  BY <1>4, <1>5, <1>6, <1>7, <1>8 DEF Guarding

\* The stub knows that call, and goes to the exit path.
LEMMA FromExiting ==
  ASSUME Ripe, Run, Shape(ar, ram), Exiting(ip, ar, ram, fl) PROVE Settles
<1>0. /\ Seen /\ Placed(text, A64Boot, 0) /\ AddrParts \in 1 .. 4 /\ Room = 4 * AddrParts
      /\ Scratch = 11 /\ VmSP = 28 /\ HostSP = 31
      /\ 11 \in ArchReg /\ 27 \in ArchReg /\ 28 \in ArchReg
  BY RipeText, Names DEF Ripe, ArchReg
<1>1. Deep(ar, ram, 12)
  BY DEF Exiting
<1>2. ASSUME On(ip + 4), UNCHANGED ram, DOMAIN ar' = DOMAIN ar, ar'[HostSP] = ar[HostSP],
             \/ ip = 32 /\ ar'[27] = Num(0)
             \/ ip = 36 /\ ar'[27] = Num(0) /\ ar'[Scratch] = Num(0)
             \/ ip = 40 /\ fl' = "EQ"
      PROVE  Settles
  <2>1. Shape(ar', ram) /\ Deep(ar', ram, 12)
    BY <1>1, <1>2, DeepRegisters
  <2>2. Exiting(ip + 4, ar', ram', fl')
    BY <1>2, <2>1 DEF Exiting
  <2> QED
    BY <1>2, <2>1, <2>2 DEF Settles, On, Fits
<1>3. CASE ip = 32 /\ ar[VmSP].tag # "hst" /\ Exits(At(ar[VmSP], 8), ram)
  <2>1. I = Insn("ldr", "offset", 27, 28, 0, Junk, 8)
    BY <1>0, <1>3, StubText DEF I
  <2>2. /\ I.op = "ldr" /\ I.mode = "offset" /\ I.rd = 27 /\ I.rn = VmSP /\ I.d = 8 /\ I.len = 4
    BY <1>0, <2>1, Fields
  <2>3. Accessed = At(ar[VmSP], 8) /\ ram[Accessed] = Num(0) /\ ~Unclear
    BY <1>3, <2>2 DEF Accessed, Indexed, Exits, Unclear
  <2>4. Lost' \/ (On(ip + 4) /\ UNCHANGED ram /\ ar' = [Based EXCEPT ![27] = Num(0)])
    BY <1>0, <2>2, <2>3, LdrStep
  <2>5. DOMAIN Based = DOMAIN ar /\ Based[HostSP] = ar[HostSP]
    BY <1>0, <2>2 DEF Based, Shape
  <2>6. ASSUME ~Lost'
        PROVE  DOMAIN ar' = DOMAIN ar /\ ar'[HostSP] = ar[HostSP] /\ ar'[27] = Num(0)
    <3>1. ar' = [Based EXCEPT ![27] = Num(0)]
      BY <2>4, <2>6
    <3>2. 27 \in DOMAIN Based /\ HostSP \in DOMAIN Based /\ HostSP # 27
      BY <1>0, <2>5 DEF Shape, ArchReg
    <3> QED
      BY <2>5, <3>1, <3>2
  <2> QED
    BY <1>2, <1>3, <2>4, <2>6 DEF Settles
<1>4. CASE ip = 36 /\ ar[27] = Num(0)
  <2>1. I = Insn("movz", "offset", 11, 0, 0, Num(0), 0)
    BY <1>0, <1>4, StubText DEF I
  <2>2. I.op = "movz" /\ I.rd = 11 /\ I.val = Num(0) /\ I.len = 4
    BY <2>1, Fields
  <2>3. On(ip + 4) /\ UNCHANGED ram /\ ar' = [ar EXCEPT ![11] = Num(0)]
    BY <1>0, <2>2, MovStep
  <2>4. /\ DOMAIN ar' = DOMAIN ar /\ ar'[HostSP] = ar[HostSP] /\ ar'[27] = Num(0)
        /\ ar'[Scratch] = Num(0)
    BY <1>0, <1>4, <2>3 DEF Shape
  <2> QED
    BY <1>2, <1>4, <2>3, <2>4
<1>5. CASE ip = 40 /\ ar[27] = Num(0) /\ ar[Scratch] = Num(0)
  <2>1. I = Insn("subs", "offset", 32, 27, 11, Junk, 0)
    BY <1>0, <1>5, StubText DEF I
  <2>2. I.op = "subs" /\ I.rd = ZR /\ I.rn = 27 /\ I.rm = 11 /\ I.len = 4
    BY <2>1, Fields, Names
  <2>3. On(ip + 4) /\ UNCHANGED <<ar, ram>> /\ fl' \in Compare(ar[27], ar[11])
    BY <1>0, <2>2, CmpStep
  <2>4. Compare(Num(0), Num(0)) = {"EQ"}
    <3>1. 0 \in Word
      BY ZeroPart DEF Imm, Num
    <3>2. Signed(0) \in Int
      BY <3>1, SignedInt
    <3>3. Order(Signed(0), Signed(0)) = "EQ"
      BY <3>2 DEF Order
    <3> DEFINE v == Num(0)
               o == Order(Signed(v.val), Signed(v.val))
    <3>4. v.tag = "num" /\ v.val = 0
      BY DEF Num
    <3>5. Compare(v, v) = {o}
      <4> HIDE DEF v
      <4> QED
        BY <3>4 DEF Compare, Both, Apart
    <3> HIDE DEF v
    <3>6. o = "EQ"
      BY <3>3, <3>4
    <3> QED
      BY <3>5, <3>6 DEF v
  <2>5. fl' = "EQ"
    BY <1>0, <1>5, <2>3, <2>4
  <2> QED
    BY <1>2, <1>5, <2>3, <2>5
<1>6. CASE ip = 44 /\ fl = "EQ"
  <2> DEFINE d == 4 + 4 * (9 + AddrParts)
  <2>1. I = Insn("JMPEQ", "offset", 0, 0, 0, Junk, d)
    BY <1>0, <1>6, StubText, StubReach DEF I
  <2>2. I.op = "JMPEQ" /\ I.d = d
    BY <2>1, Fields
  <2>3. fl \in Holds["JMPEQ"] \ {"NONE"} /\ "JMPEQ" \in CondOp
    BY <1>6 DEF Holds, CondOp
  <2>4. On(ip + d) /\ UNCHANGED <<ar, ram>>
    BY <1>0, <2>2, <2>3, BranchStep
  <2>5. ip + d = 84 + Room + 4 * 0 /\ 0 \in 0 .. AddrParts + 14 /\ ~(0 >= 2)
    BY <1>0, <1>6
  <2>6. Saving(ip + d, ar', ram')
    BY <1>1, <2>4, <2>5 DEF Saving
  <2> HIDE DEF d
  <2> QED
    BY <2>4, <2>6 DEF Settles, On, Fits
<1> QED
  BY <1>3, <1>4, <1>5, <1>6 DEF Exiting

-----------------------------------------------------------------------------
\* The steps in the program. Where the code of an instruction is, and what it is.
LEMMA BlockText ==
  ASSUME Ripe, NEW a \in Body
  PROVE  LET i == prog.code[a]
             b == block[a]
         IN  /\ i \in Instr /\ b.at \in Nat /\ b.to \in Nat \cup {Unmapped}
             /\ b.len \in Nat /\ \E n \in Nat : b.len = 4 * n
             /\ Placed(text, A64Emit(i, b.at, b.to), b.at)
             /\ Nops(text, b.at + 4 * Count(i), b.at + b.len, b.at)
             /\ Count(i) \in 1 .. 7
             /\ \/ b.len = 4 * Count(i)
                \/ i.op \in BranchOp /\ b.len = A64Slots(i)
             /\ i.op \in BranchOp => b.to \in Entries /\ b.to \in Nat
<1> DEFINE i == prog.code[a]
           b == block[a]
<1>1. /\ DOMAIN block = Body /\ prog \in Programs /\ a \in DOMAIN prog.code
      /\ \A c \in DOMAIN va2aa : va2aa[c] \in Nat
  BY JitInvLinked DEF Ripe, CodeInv, JitInv, JitTypeOK, Linked, Body
<1>2. b \in [at : Nat, len : Nat, to : Nat \cup {Unmapped}]
  BY <1>1 DEF Ripe, CodeInv, JitInv, JitTypeOK
<1>3. i \in Instr
  BY <1>1, ProgramStep
<1>4. i.op \in BranchOp => b.to \in Entries /\ b.to \in Nat
  <2> SUFFICES ASSUME i.op \in BranchOp PROVE b.to \in Entries /\ b.to \in Nat
    OBVIOUS
  <2>1. a \in Transfer
    BY DEF Transfer
  <2>2. i.tgt \in DOMAIN va2aa /\ b.to = va2aa[i.tgt]
    BY <2>1, JitInvLinked DEF Ripe, CodeInv, Linked
  <2> HIDE DEF i, b
  <2> QED
    BY <1>1, <2>2 DEF Entries
<1>5. CodeIn(text, i, b)
  BY <1>1 DEF Ripe, CodeInv, TextInv
<1>6. b.len = Size(i) \/ (i.op \in BranchOp /\ b.len = Slots(i))
  BY <1>1 DEF Ripe, Laid
<1> HIDE DEF i, b
<1>7. b.at \in Nat /\ b.len \in Nat /\ b.to \in Nat \cup {Unmapped}
  BY <1>2
<1>8. /\ Size(i) = A64Size(i) /\ Slots(i) = A64Slots(i)
      /\ Emit(i, b.at, b.to) = A64Emit(i, b.at, b.to)
  BY <1>3, <1>7 DEF Ripe, IsA64
<1>9. Size(i) = 4 * Count(i) /\ Count(i) \in 1 .. 7
  BY <1>3, <1>7, <1>8, EmitBytes, EmitCodes
<1>10. /\ Placed(text, A64Emit(i, b.at, b.to), b.at)
       /\ Nops(text, b.at + 4 * Count(i), b.at + b.len, b.at)
  <2>1. ~(i.op \in BranchOp /\ b.to = Unmapped)
    BY <1>4 DEF Unmapped
  <2> QED
    BY <1>5, <1>8, <1>9, <2>1 DEF CodeIn
<1>11. A64Slots(i) \in {4 * 7, 4 * 5, 4 * 1}
  BY DEF A64Slots
<1>12. \E n \in Nat : b.len = 4 * n
  BY <1>6, <1>8, <1>9, <1>11
<1> QED
  BY <1>3, <1>4, <1>6, <1>7, <1>8, <1>9, <1>10, <1>12 DEF i, b

\* On with the next native instruction of the block, or with the next block.
LEMMA BlockNext ==
  ASSUME Ripe, NEW a \in Body, NEW j \in Nat, 4 * j < block[a].len, ip = block[a].at + 4 * j,
         On(ip + 4), Shape(ar', ram'), Ready(ar', ram', Entries, 12),
         Aims(prog.code[a], block[a], j + 1, ar')
  PROVE  Settles
<1> DEFINE at == block[a].at
           len == block[a].len
<1>1. PICK n \in Nat : len = 4 * n
  BY BlockText
<1>2. at \in Nat /\ ip = at + 4 * j /\ 4 * j < len
  BY BlockText
<1>3. at + len \in Entries
  BY NextPlace
<1> HIDE DEF at, len
<1>4. CASE j + 1 = n
  <2>1. ip + 4 = at + len
    BY <1>1, <1>2, <1>4
  <2> QED
    BY <1>3, <2>1, Arrives
<1>5. CASE j + 1 # n
  <2>1. j + 1 \in Nat /\ 4 * (j + 1) < len /\ ip + 4 = at + 4 * (j + 1)
    BY <1>1, <1>2, <1>5
  <2>2. InBlock(ip + 4, ar', ram')
    BY <2>1 DEF InBlock, at, len
  <2> QED
    BY <2>2 DEF Settles, On, Fits
<1> QED
  BY <1>4, <1>5

\* A nop of the slots that a transfer left.
LEMMA FromSlots ==
  ASSUME Ripe, Run, Shape(ar, ram), NEW a \in Body, NEW j \in Nat, 4 * j < block[a].len,
         ip = block[a].at + 4 * j, Ready(ar, ram, Entries, 12), j >= Count(prog.code[a])
  PROVE  Settles
<1> DEFINE i == prog.code[a]
           at == block[a].at
           len == block[a].len
           n == Count(i)
<1>1. /\ at \in Nat /\ len \in Nat /\ n \in 1 .. 7 /\ Nops(text, at + 4 * n, at + len, at)
      /\ len = 4 * n \/ (i.op \in BranchOp /\ len = A64Slots(i))
      /\ ip = at + 4 * j /\ 4 * j < len /\ j >= n
  BY BlockText
<1>2. i.op \notin {"CALL", "RET"} /\ (i.op = "JMP" => n = AddrParts + 1)
  <2>1. i.op = "CALL" => n = 7 /\ A64Slots(i) = 28
    BY DEF Count, MoveOp, CondOp, A64Slots
  <2>2. i.op # "RET"
    <3>1. i.op \in BranchOp
      <4> HIDE DEF i, at, len, n
      <4> QED
        BY <1>1
    <3> QED
      BY <3>1 DEF BranchOp, CondOp
  <2>3. i.op = "JMP" => n = AddrParts + 1
    BY DEF Count, MoveOp, CondOp
  <2> HIDE DEF i, at, len, n
  <2> QED
    BY <1>1, <2>1, <2>2, <2>3
<1> HIDE DEF n, at, len
<1>3. Aims(i, block[a], j + 1, ar')
  <2>1. i.op = "JMP" => j + 1 \notin 1 .. AddrParts
    BY <1>1, <1>2, RipeText
  <2> QED
    BY <1>2, <2>1 DEF Aims
<1>4. I = Nop /\ Nop = A64Nop /\ A64Nop.op = "nop" /\ A64Nop.len = 4
  <2>1. Nop = A64Nop /\ A64Nop.op = "nop" /\ A64Nop.len = 4
    BY DEF Ripe, IsA64, A64Nop
  <2>2. ip \in (at + 4 * n) .. (at + len) - 1
    BY <1>1
  <2>3. Aligned(ip, at)
    <3>1. ip - at = 4 * j /\ (4 * j) % 4 = 0
      BY <1>1
    <3> QED
      BY <2>1, <3>1 DEF Aligned
  <2> QED
    BY <1>1, <2>1, <2>2, <2>3 DEF Nops, I
<1>5. On(ip + 4) /\ UNCHANGED <<ar, ram>>
  BY <1>4, NopStep DEF Ripe
<1> QED
  BY <1>3, <1>5, BlockNext

\* An instruction that is no transfer.
LEMMA FromCalm ==
  ASSUME Ripe, Run, Shape(ar, ram), NEW a \in Body, NEW j \in Nat, 4 * j < block[a].len,
         ip = block[a].at + 4 * j, Ready(ar, ram, Entries, 12), j < Count(prog.code[a]),
         prog.code[a].op \notin BranchOp \cup {"RET"}
  PROVE  Settles
<1> DEFINE i == prog.code[a]
           at == block[a].at
           to == block[a].to
           n == Count(i)
           e == A64Emit(i, at, to)
           k == j + 1
<1>1. /\ i \in Instr /\ at \in Nat /\ to \in Nat \cup {Unmapped} /\ n \in 1 .. 7
      /\ Placed(text, e, at)
  BY BlockText
<1>2. e \in Calm(n)
  BY <1>1, EmitCalm
<1>3. k \in 1 .. n /\ n \in Nat /\ ip = at + 4 * (k - 1)
  BY <1>1
<1>4. Aims(i, block[a], j + 1, ar')
  BY DEF Aims, BranchOp
<1> HIDE DEF e, k, n
<1>5. Quiet(e[k]) /\ e \in Codes(n)
  BY <1>2, <1>3 DEF Calm
<1>6. \A m \in 1 .. n : text[at + 4 * (m - 1)] = e[m]
  BY <1>1, <1>3, <1>5, PlacedAt
<1>7. I = e[k]
  BY <1>3, <1>6 DEF I
<1>8. Lost' \/ (On(ip + 4) /\ Shape(ar', ram') /\ Ready(ar', ram', Entries, 12))
  BY <1>5, <1>7, QuietStep DEF Ripe
<1> QED
  BY <1>4, <1>8, BlockNext DEF Settles

\* The address of a transfer's target goes into the scratch register,
LEMMA AimStep ==
  ASSUME Run, Seen, Shape(ar, ram), NEW E, Ready(ar, ram, E, 12), NEW k, NEW to \in E,
         I = Insn(MovOp(k), "offset", 11, 0, 0, Code(to), k - 1)
  PROVE  /\ On(ip + 4) /\ Shape(ar', ram') /\ Ready(ar', ram', E, 12)
         /\ ar'[Scratch] = Code(to)
<1>1. I.op \in {"movz", "movk"} /\ I.rd = 11 /\ I.val = Code(to) /\ I.len = 4
  BY Fields DEF MovOp
<1>2. I.val.tag # "num"
  BY <1>1 DEF Code
<1>3. On(ip + 4) /\ UNCHANGED ram /\ ar' = [ar EXCEPT ![11] = Code(to)]
  BY <1>1, <1>2, MovStep
<1>4. Tame(Code(to), E)
  BY DEF Tame, Code
<1>5. 11 \in 0 .. 28 /\ Scratch = 11 /\ 11 \in ArchReg
  BY Names DEF ArchReg, HostSP
<1>6. Shape(ar', ram) /\ Ready(ar', ram, E, 12)
  BY <1>3, <1>4, <1>5, ReadyRegister
<1> QED
  BY <1>3, <1>5, <1>6 DEF Shape

\* and the transfer goes there.
LEMMA AimedStep ==
  ASSUME Ripe, Run, Shape(ar, ram), Ready(ar, ram, Entries, 12), NEW to \in Entries,
         ar[Scratch] = Code(to), I = Insn("br", "offset", 0, 11, 0, Junk, 0)
  PROVE  Settles
<1>1. I.op = "br" /\ I.rn = Scratch
  BY Fields, Names
<1>2. ar[Scratch].val = to
  BY DEF Code
<1>3. On(to) /\ UNCHANGED <<ar, ram>>
  BY <1>1, <1>2, BranchStep DEF Ripe
<1> QED
  BY <1>3, Arrives

\* The steps of a CALL, which leave the address after it on the program's stack,
LEMMA FromCall ==
  ASSUME Ripe, Run, Shape(ar, ram), NEW a \in Body, NEW j \in Nat, 4 * j < block[a].len,
         ip = block[a].at + 4 * j, Ready(ar, ram, Entries, 12),
         Aims(prog.code[a], block[a], j, ar), j < Count(prog.code[a]),
         prog.code[a].op = "CALL"
  PROVE  Settles
<1> DEFINE i == prog.code[a]
           at == block[a].at
           to == block[a].to
           P == AddrParts
<1>1. /\ i \in Instr /\ at \in Nat /\ to \in Entries /\ to \in Nat
      /\ Placed(text, A64Emit(i, at, to), at)
      /\ block[a].len = 4 * Count(i) \/ block[a].len = A64Slots(i)
  BY BlockText DEF BranchOp
<1>2. Count(i) = 7 /\ A64Slots(i) = 28 /\ block[a].len = 28
  <2>1. Count(i) = 7 /\ A64Slots(i) = 28
    BY DEF Count, A64Slots, MoveOp, CondOp
  <2> QED
    BY <1>1, <2>1
<1>3. j \in 0 .. 6 /\ P \in 1 .. 4 /\ Scratch = 11 /\ Seen /\ ip = at + 4 * j
  BY <1>2, RipeText, Names DEF Ripe
<1>4. /\ text[at] = Insn("adr", "offset", 11, 0, 0, Junk, 28)
      /\ text[at + 4] = Insn("str", "pre", 11, 28, 0, Junk, -8)
      /\ \A k \in 1 .. P :
            text[at + 8 + 4 * (k - 1)] = Insn(MovOp(k), "offset", 11, 0, 0, Code(to), k - 1)
      /\ \A k \in P + 1 .. 4 : text[at + 8 + 4 * (k - 1)] = A64Nop
      /\ text[at + 24] = Insn("br", "offset", 0, 11, 0, Junk, 0)
  <2>1. Placed(text, emit_call(Code(to)), at)
    BY <1>1, TransferText
  <2> QED
    BY <1>1, <2>1, CallText
<1>5. ASSUME On(ip + 4), Shape(ar', ram'), Ready(ar', ram', Entries, 12),
             j >= 2 => ar'[Scratch] = Code(to)
      PROVE  Settles
  <2>1. Aims(i, block[a], j + 1, ar')
    BY <1>3, <1>5 DEF Aims
  <2> QED
    BY <1>5, <2>1, BlockNext
<1>6. CASE j = 0
  <2>1. I = Insn("adr", "offset", 11, 0, 0, Junk, 28)
    BY <1>1, <1>3, <1>4, <1>6 DEF I
  <2>2. I.op = "adr" /\ I.rd = 11 /\ I.len = 4 /\ I.d = 28
    BY <2>1, Fields
  <2>3. On(ip + 4) /\ UNCHANGED ram /\ ar' = [ar EXCEPT ![11] = Code(ip + 28)]
    BY <1>3, <2>2, AdrStep
  <2>4. ip + 28 \in Entries
    BY <1>1, <1>2, <1>3, <1>6, NextPlace
  <2>5. Tame(Code(ip + 28), Entries)
    BY <2>4 DEF Tame, Code
  <2>6. Shape(ar', ram) /\ Ready(ar', ram, Entries, 12)
    <3> DEFINE v == Code(ip + 28)
    <3> HIDE DEF v
    <3>1. 11 \in 0 .. 28 /\ Tame(v, Entries) /\ ar' = [ar EXCEPT ![11] = v]
      BY <2>3, <2>5 DEF v
    <3> QED
      BY <3>1, ReadyRegister
  <2> QED
    BY <1>5, <1>6, <2>3, <2>6
<1>7. CASE j = 1
  <2>1. I = Insn("str", "pre", 11, 28, 0, Junk, -8)
    BY <1>1, <1>3, <1>4, <1>7 DEF I
  <2>2. I.op = "str" /\ I.rd = 11 /\ I.rn = 28 /\ I.len = 4
    BY <2>1, Fields
  <2>3. Quiet(I)
    BY <2>2 DEF Quiet
  <2>4. Lost' \/ (On(ip + 4) /\ Shape(ar', ram') /\ Ready(ar', ram', Entries, 12))
    BY <1>3, <2>3, QuietStep
  <2> QED
    BY <1>5, <1>7, <2>4 DEF Settles
<1>8. CASE j \in 2 .. P + 1
  <2> DEFINE k == j - 1
  <2>1. k \in 1 .. P /\ ip = at + 8 + 4 * (k - 1)
    BY <1>1, <1>3, <1>8
  <2> HIDE DEF k
  <2>2. I = Insn(MovOp(k), "offset", 11, 0, 0, Code(to), k - 1)
    BY <1>4, <2>1 DEF I
  <2>3. On(ip + 4) /\ Shape(ar', ram') /\ Ready(ar', ram', Entries, 12) /\ ar'[Scratch] = Code(to)
    BY <1>1, <1>3, <2>2, AimStep
  <2> QED
    BY <1>5, <2>3
<1>9. CASE j \in P + 2 .. 5
  <2> DEFINE k == j - 1
  <2>1. k \in P + 1 .. 4 /\ ip = at + 8 + 4 * (k - 1)
    BY <1>1, <1>3, <1>9
  <2> HIDE DEF k
  <2>2. I = A64Nop
    BY <1>4, <2>1 DEF I
  <2>3. On(ip + 4) /\ UNCHANGED <<ar, ram>>
    BY <1>3, <2>2, NopStep DEF A64Nop
  <2>4. ar[Scratch] = Code(to)
    BY <1>3, <1>9 DEF Aims
  <2> QED
    BY <1>5, <2>3, <2>4
<1>10. CASE j = 6
  <2>1. I = Insn("br", "offset", 0, 11, 0, Junk, 0)
    BY <1>1, <1>3, <1>4, <1>10 DEF I
  <2>2. ar[Scratch] = Code(to)
    BY <1>10 DEF Aims
  <2> QED
    BY <1>1, <2>1, <2>2, AimedStep
<1> QED
  BY <1>3, <1>6, <1>7, <1>8, <1>9, <1>10

\* of a RET, which goes to one,
LEMMA FromRet ==
  ASSUME Ripe, Run, Shape(ar, ram), NEW a \in Body, NEW j \in Nat, 4 * j < block[a].len,
         ip = block[a].at + 4 * j, Ready(ar, ram, Entries, 12),
         Aims(prog.code[a], block[a], j, ar), j < Count(prog.code[a]),
         prog.code[a].op = "RET"
  PROVE  Settles
<1> DEFINE i == prog.code[a]
           at == block[a].at
           to == block[a].to
<1>1. /\ i \in Instr /\ at \in Nat /\ to \in Nat \cup {Unmapped}
      /\ Placed(text, A64Emit(i, at, to), at)
  BY BlockText
<1>2. j \in {0, 1} /\ Seen /\ ip = at + 4 * j
  BY DEF Count, Ripe
<1>3. /\ text[at] = Insn("ldr", "post", 30, 28, 0, Junk, 8)
      /\ text[at + 4] = Insn("ret", "offset", 0, 30, 0, Junk, 0)
  <2>1. i.op = "RET"
    OBVIOUS
  <2> HIDE DEF i, at, to
  <2> QED
    BY <1>1, <2>1, TransferText
<1>4. CASE j = 0
  <2>1. I = Insn("ldr", "post", 30, 28, 0, Junk, 8)
    BY <1>1, <1>2, <1>3, <1>4 DEF I
  <2>2. \/ Lost'
        \/ /\ On(ip + 4) /\ Shape(ar', ram') /\ Ready(ar', ram', Entries, 12)
           /\ Tame(ar'[LR], Entries)
    BY <1>2, <2>1, LinkLoad
  <2>3. CASE Lost'
    BY <2>3 DEF Settles
  <2>4. CASE ~Lost'
    <3>1. Aims(i, block[a], j + 1, ar')
      BY <2>2, <2>4 DEF Aims
    <3> QED
      BY <2>2, <2>4, <3>1, BlockNext
  <2> QED
    BY <2>3, <2>4
<1>5. CASE j = 1
  <2>1. I = Insn("ret", "offset", 0, 30, 0, Junk, 0)
    BY <1>1, <1>2, <1>3, <1>5 DEF I
  <2>2. Tame(ar[LR], Entries)
    BY <1>5 DEF Aims
  <2> QED
    BY <2>1, <2>2, LinkReturn
<1> QED
  BY <1>2, <1>4, <1>5

\* of a JMP,
LEMMA FromJmp ==
  ASSUME Ripe, Run, Shape(ar, ram), NEW a \in Body, NEW j \in Nat, 4 * j < block[a].len,
         ip = block[a].at + 4 * j, Ready(ar, ram, Entries, 12),
         Aims(prog.code[a], block[a], j, ar), j < Count(prog.code[a]),
         prog.code[a].op = "JMP"
  PROVE  Settles
<1> DEFINE i == prog.code[a]
           at == block[a].at
           to == block[a].to
           P == AddrParts
<1>1. /\ i \in Instr /\ at \in Nat /\ to \in Entries /\ to \in Nat
      /\ Placed(text, A64Emit(i, at, to), at)
  BY BlockText DEF BranchOp
<1>2. j \in 0 .. P /\ P \in 1 .. 4 /\ Seen /\ ip = at + 4 * j
  <2>1. Count(i) = P + 1
    BY DEF Count, MoveOp, CondOp
  <2> QED
    BY <2>1, RipeText DEF Ripe
<1>3. /\ \A k \in 1 .. P :
            text[at + 4 * (k - 1)] = Insn(MovOp(k), "offset", 11, 0, 0, Code(to), k - 1)
      /\ text[at + 4 * P] = Insn("br", "offset", 0, 11, 0, Junk, 0)
  BY <1>1, TransferText
<1>4. CASE j < P
  <2> DEFINE k == j + 1
  <2>1. k \in 1 .. P /\ ip = at + 4 * (k - 1)
    BY <1>1, <1>2, <1>4
  <2> HIDE DEF k
  <2>2. I = Insn(MovOp(k), "offset", 11, 0, 0, Code(to), k - 1)
    BY <1>3, <2>1 DEF I
  <2>3. On(ip + 4) /\ Shape(ar', ram') /\ Ready(ar', ram', Entries, 12) /\ ar'[Scratch] = Code(to)
    BY <1>1, <1>2, <2>2, AimStep
  <2>4. Aims(i, block[a], j + 1, ar')
    BY <2>3 DEF Aims
  <2> QED
    BY <2>3, <2>4, BlockNext
<1>5. CASE j = P
  <2>1. I = Insn("br", "offset", 0, 11, 0, Junk, 0)
    BY <1>3, <1>5 DEF I
  <2>2. ar[Scratch] = Code(to)
    BY <1>2, <1>5 DEF Aims
  <2> QED
    BY <1>1, <2>1, <2>2, AimedStep
<1> QED
  BY <1>2, <1>4, <1>5

\* and of a conditional one, whose target is in reach.
LEMMA FromCond ==
  ASSUME Ripe, Run, Shape(ar, ram), NEW a \in Body, NEW j \in Nat, 4 * j < block[a].len,
         ip = block[a].at + 4 * j, Ready(ar, ram, Entries, 12), j < Count(prog.code[a]),
         prog.code[a].op \in CondOp
  PROVE  Settles
<1> DEFINE i == prog.code[a]
           at == block[a].at
           to == block[a].to
           d == to - at
<1>1. /\ i \in Instr /\ at \in Nat /\ to \in Entries /\ to \in Nat
      /\ Placed(text, A64Emit(i, at, to), at)
  BY BlockText DEF BranchOp
<1>2. j = 0 /\ Seen /\ ip = at
  <2>1. Count(i) = 1
    BY DEF Count, MoveOp, CondOp
  <2> QED
    BY <1>1, <2>1 DEF Ripe
<1>3. text[at] = Insn(i.op, "offset", 0, 0, 0, Junk, Masked(d))
  BY <1>1, TransferText
<1>4. Masked(d) = d
  <2>1. a \in Transfer
    BY DEF Transfer, BranchOp
  <2>2. emit_b_cond(i.op, d)[1].d = d
    BY <2>1, NearKept DEF Ripe, CodeInv, BranchesKept
  <2> QED
    BY <2>2 DEF emit_b_cond, A64Nop
<1>5. I.op \in CondOp /\ I.d = d /\ I.len = 4
  <2>1. I = Insn(i.op, "offset", 0, 0, 0, Junk, d)
    BY <1>2, <1>3, <1>4 DEF I
  <2> HIDE DEF d, i
  <2> QED
    BY <2>1, Fields DEF i
<1>6. UNCHANGED <<ar, ram>> /\ (On(ip + d) \/ On(ip + 4))
  BY <1>2, <1>5, BranchStep
<1>7. Shape(ar', ram') /\ Ready(ar', ram', Entries, 12)
  BY <1>6
<1>8. CASE On(ip + d)
  <2>1. ip + d = to
    BY <1>1, <1>2
  <2> QED
    BY <1>1, <1>7, <1>8, <2>1, Arrives
<1>9. CASE On(ip + 4)
  <2>1. Aims(i, block[a], j + 1, ar')
    BY DEF Aims, CondOp
  <2> QED
    BY <1>7, <1>9, <2>1, BlockNext
<1> QED
  BY <1>6, <1>8, <1>9

\* The steps in a block.
LEMMA FromBlock ==
  ASSUME Ripe, Run, Shape(ar, ram), InBlock(ip, ar, ram) PROVE Settles
<1>1. PICK a \in Body, j \in Nat :
        /\ ip = block[a].at + 4 * j /\ 4 * j < block[a].len
        /\ Ready(ar, ram, Entries, 12) /\ Aims(prog.code[a], block[a], j, ar)
  BY DEF InBlock
<1>2. Count(prog.code[a]) \in 1 .. 7
  BY BlockText
<1>3. CASE j >= Count(prog.code[a])
  BY <1>1, <1>3, FromSlots
<1>4. CASE j < Count(prog.code[a])
  <2>1. CASE prog.code[a].op \notin BranchOp \cup {"RET"}
    BY <1>1, <1>4, <2>1, FromCalm
  <2>2. CASE prog.code[a].op = "CALL"
    BY <1>1, <1>4, <2>2, FromCall
  <2>3. CASE prog.code[a].op = "RET"
    BY <1>1, <1>4, <2>3, FromRet
  <2>4. CASE prog.code[a].op = "JMP"
    BY <1>1, <1>4, <2>4, FromJmp
  <2>5. CASE prog.code[a].op \in CondOp
    BY <1>1, <1>4, <2>5, FromCond
  <2> QED
    BY <2>1, <2>2, <2>3, <2>4, <2>5 DEF BranchOp
<1> QED
  BY <1>1, <1>2, <1>3, <1>4

\* Every step of the processor leads to such a place, loses the program or gives the host
\* back what is its own.
LEMMA FitsStep ==
  ASSUME Ripe, Run, Fits(ip, ar, ram, fl) PROVE Settles
<1>1. Shape(ar, ram)
  BY DEF Fits
<1>2. CASE Entering(ip, ar, ram) \/ InStub(ip, ar, ram)
  BY <1>1, <1>2, FromEntering, FromStub
<1>3. CASE Saving(ip, ar, ram) \/ Leaving(ip, ar, ram)
  BY <1>1, <1>3, FromSaving, FromLeaving
<1>4. CASE Clearing(ip, ar, ram) \/ Guarding(ip, ar, ram)
  BY <1>1, <1>4, FromClearing, FromGuarding
<1>5. CASE Exiting(ip, ar, ram, fl) \/ InBlock(ip, ar, ram)
  BY <1>1, <1>5, FromExiting, FromBlock
<1> QED
  BY <1>2, <1>3, <1>4, <1>5 DEF Fits

-----------------------------------------------------------------------------
\* The invariant holds before the translator starts,
LEMMA HostInvInit == Init => HostInv
<1> SUFFICES ASSUME Init PROVE HostInv
  OBVIOUS
<1>1. phase = "start"
  BY DEF Init, NativeInit, JitInit
<1>2. Untouched /\ Seen
  BY DEF Init, NativeInit, Untouched, Seen
<1> QED
  BY <1>1, <1>2 DEF HostInv

\* and text_mem is called as its first place wants it.
LEMMA UntouchedFits == Untouched => Live /\ Fits(ip, ar, ram, fl)
<1> SUFFICES ASSUME Untouched PROVE Live /\ Fits(ip, ar, ram, fl)
  OBVIOUS
<1>1. Live /\ ip = 4 * 0 /\ 0 \in 0 .. 7
  BY DEF Untouched, Live
<1>2. Shape(ar, ram)
  BY DEF Untouched, Shape
<1>3. /\ \A r \in 0 .. 29 : ar[r] = HostVal(r) 
      /\ ar[LR] = host_return /\ ar[HostSP] = HostSlot(0)
  BY Names DEF Untouched, ArchReg
<1>4. \A l \in DOMAIN ram : ram[l] = Junk
  BY DEF Untouched
<1>5. Deep(ar, ram, Depth(0))
  <2> DEFINE n == Depth(0)
  <2>1. n = 0 /\ n \in Int
    BY DEF Depth
  <2> HIDE DEF n
  <2>2. -8 * n = 0 - 8 * n
    <3>1. n \in Int
      BY <2>1
    <3> QED
      BY ONLY <3>1
  <2>3. 0 - 8 * n = 0
    BY <2>1
  <2>4. ar[HostSP] = HostSlot(-8 * n)
    BY <1>3, <2>2, <2>3
  <2>5. \A k \in 1 .. 12 : ~(k <= n)
    BY <2>1
  <2> QED
    BY <2>4, <2>5 DEF Deep, n
<1>6. \A r \in 0 .. 28 : ar[r] = HostVal(r)
  BY <1>3
<1>7. \A r : Tame(HostVal(r), Entries)
  BY DEF Tame, HostVal
<1>8. Tame(Junk, Entries)
  BY TameResult
<1>9. Ready(ar, ram, Entries, Depth(0))
  BY <1>4, <1>5, <1>6, <1>7, <1>8 DEF Ready
<1>10. ar[FP] = HostVal(FP)
  BY <1>3, Names
<1>11. Entering(ip, ar, ram)
  BY <1>1, <1>3, <1>6, <1>9, <1>10 DEF Entering
<1> QED
  BY <1>1, <1>2, <1>11 DEF Fits

\* Where the processor may be depends on nothing that it changes but itself.
LEMMA FitsKept ==
  ASSUME UNCHANGED jitVars, Fits(ip', ar', ram', fl') PROVE Fits(ip, ar, ram, fl)'
<1>1. UNCHANGED <<prog, block, va2aa, arch, phase>>
  BY DEF jitVars
<1>2. Entries' = Entries /\ GuardAt' = GuardAt
  BY <1>1 DEF Entries, GuardAt
<1>3. /\ Shape(ar, ram)' = Shape(ar', ram')
      /\ Saving(ip, ar, ram)' = Saving(ip', ar', ram')
      /\ Leaving(ip, ar, ram)' = Leaving(ip', ar', ram')
      /\ Exiting(ip, ar, ram, fl)' = Exiting(ip', ar', ram', fl')
  OBVIOUS
<1>4. Entering(ip', ar', ram') => Entering(ip, ar, ram)'
  BY <1>2 DEF Entering
<1>5. InStub(ip', ar', ram') => InStub(ip, ar, ram)'
  BY <1>2 DEF InStub
<1>6. Clearing(ip', ar', ram') => Clearing(ip, ar, ram)'
  BY <1>2 DEF Clearing
<1>7. Guarding(ip', ar', ram') => Guarding(ip, ar, ram)'
  BY <1>2 DEF Guarding
<1>8. InBlock(ip', ar', ram') => InBlock(ip, ar, ram)'
  BY <1>1, <1>2 DEF InBlock, Aims, Body
<1> QED
  BY <1>3, <1>4, <1>5, <1>6, <1>7, <1>8 DEF Fits

\* Every step keeps it.
LEMMA HostInvStep ==
  ASSUME IsA64, CodeInv, Near, Laid, HostInv, [Next]_vars PROVE HostInv'
<1>1. Seen'
  BY SeenStep DEF HostInv
<1>2. CASE UNCHANGED cpu /\ phase # "done"
  <2>1. Untouched /\ Untouched'
    BY <1>2 DEF HostInv, Untouched, cpu
  <2>2. (Live /\ Fits(ip, ar, ram, fl))'
    BY <2>1, UntouchedFits, PTL
  <2> QED
    BY <1>1, <2>1, <2>2 DEF HostInv
<1>3. CASE UNCHANGED vars
  <2>1. UNCHANGED jitVars /\ UNCHANGED cpu
    BY <1>3 DEF vars
  <2>2. (phase # "done" => Untouched)'
    BY <2>1 DEF HostInv, Untouched, jitVars, cpu
  <2>3. ASSUME (phase = "done" /\ arch < CondReach)'
        PROVE  (Lost \/ (Live /\ Fits(ip, ar, ram, fl)) \/ (obs.status = "exited" /\ Restored(ar)))'
    <3>1. Lost \/ (Live /\ Fits(ip, ar, ram, fl)) \/ (obs.status = "exited" /\ Restored(ar))
      BY <2>1, <2>3 DEF HostInv, jitVars
    <3>2. Fits(ip, ar, ram, fl) => Fits(ip', ar', ram', fl')
      BY <2>1 DEF cpu
    <3>3. Fits(ip, ar, ram, fl) => Fits(ip, ar, ram, fl)'
      BY <2>1, <3>2, FitsKept
    <3>4. UNCHANGED <<obs, ar>>
      BY <2>1 DEF cpu
    <3> QED
      BY <3>1, <3>3, <3>4 DEF Live, Lost, Restored
  <2> QED
    BY <1>1, <2>2, <2>3 DEF HostInv
<1>4. CASE Run
  <2>1. UNCHANGED jitVars
    BY <1>4, RunKeepsText
  <2>2. phase = "done" /\ Live
    BY <1>4, Acts DEF Live
  <2>3. ASSUME (arch < CondReach)'
        PROVE  (Lost \/ (Live /\ Fits(ip, ar, ram, fl)) \/ (obs.status = "exited" /\ Restored(ar)))'
    <3>1. Ripe
      BY <2>1, <2>2, <2>3 DEF HostInv, Ripe, jitVars
    <3>2. Fits(ip, ar, ram, fl)
      BY <2>2, <3>1 DEF HostInv, Ripe, Live, Lost
    <3>3. Settles
      BY <1>4, <3>1, <3>2, FitsStep
    <3>4. Fits(ip', ar', ram', fl') => Fits(ip, ar, ram, fl)'
      BY <2>1, FitsKept
    <3> QED
      BY <3>3, <3>4 DEF Settles, Restored
  <2> QED
    BY <1>1, <2>1, <2>2, <2>3 DEF HostInv, jitVars
<1>5. Translate => UNCHANGED cpu /\ phase # "done"
  BY DEF Translate, write_prologue, write_instruction, write_end, write_deferred,
         write_guard, emit_prologue, jit_vm_instruction, end_program, jit_deferred, emit_guard
<1> QED
  BY <1>2, <1>3, <1>4, <1>5 DEF Next

\* The host has its stack and its registers back when the program ends, whatever it did,
\* as long as every conditional branch reaches.
THEOREM HostGetsBack == ASSUME IsA64 PROVE Spec => [](arch < CondReach => HostRestored)
<1> DEFINE IInv == CodeInv /\ Near /\ Laid /\ HostInv
<1>1. Init => IInv
  BY CodeInvInit, NearInit, LaidInit, HostInvInit DEF Init, NativeInit
<1>2. IInv /\ [Next]_vars => IInv'
  <2> SUFFICES ASSUME IInv, [Next]_vars PROVE IInv'
    OBVIOUS
  <2>1. Translate \/ UNCHANGED <<jitVars, text>>
    BY RunKeepsText DEF Next, vars
  <2>2. [JitNext]_jitVars /\ JitInv
    BY <2>1, TranslateSteps DEF CodeInv
  <2>3. CodeInv'
    BY <2>1, A64CodeOK, CodeInvStep
  <2>4. Near' /\ Laid'
    BY <2>2, NearStep, LaidStep
  <2>5. HostInv'
    BY HostInvStep
  <2> QED
    BY <2>3, <2>4, <2>5
<1>3. IInv => (arch < CondReach => HostRestored)
  <2> SUFFICES ASSUME IInv, arch < CondReach, obs.status = "exited" PROVE Restored(ar)
    BY DEF HostRestored, Restored
  <2>1. phase = "done"
    BY DEF HostInv, Untouched
  <2> QED
    BY <2>1 DEF HostInv, Lost, Live
<1> QED
  BY <1>1, <1>2, <1>3, PTL DEF Spec
=============================================================================
