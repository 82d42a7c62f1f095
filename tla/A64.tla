-------------------------------- MODULE A64 --------------------------------
(***************************************************************************)
(* The AArch64 JIT, src/vm/a64.cc: the native code that its emit functions   *)
(* write for a program and the run of that code by the processor, from the  *)
(* call of text_mem to the return to the host, with sys_enter of             *)
(* src/vm/jit.cc. Unlike the x86_64 JIT it keeps the stack of the host: the  *)
(* SP of the VM is a register of its own.                                    *)
(*                                                                          *)
(* Registers are their numbers. 31 is the stack pointer or the zero register *)
(* in an encoding, by the instruction: the latter is 32 here.                *)
(***************************************************************************)
EXTENDS Native

CONSTANTS
  ChunkMod,     \* 2^16 in the code: what one movz or movk writes of a register
  AddrParts,    \* the movz and movk of an emit_mov_reg_imm of a host address
  CondReach     \* 2^20 in the code: how far back in bytes a b.cond reaches

ASSUME ChunkAssumption == ChunkMod \in Nat /\ ChunkMod * ChunkMod = HalfMod
ASSUME PartsAssumption == AddrParts \in 1 .. 4
ASSUME ReachAssumption == CondReach \in Nat /\ CondReach > 0
-----------------------------------------------------------------------------
A64vr2ar == [R0 |-> 27, R1 |-> 26, R2 |-> 25, R3 |-> 24, R4 |-> 23, R5 |-> 22, R6 |-> 21,
             R7 |-> 20, R8 |-> 19, R9 |-> 15, R10 |-> 14, R11 |-> 13, R12 |-> 12, SP |-> 28]

Scratch == 11       \* R11 of the processor, which holds no register of the VM
VmSP    == A64vr2ar["SP"]
FP      == 29
LR      == 30
HostSP  == 31
ZR      == 32

ArchReg == 0 .. HostSP

\* What a called function of the host preserves, and what it may overwrite.
CalleeSaved == 19 .. FP
CallerSaved == (0 .. 18) \cup {LR}

HostLoc == {HostSlot(-8 * k) : k \in 1 .. 16} \cup DumpArea
-----------------------------------------------------------------------------
\* Native instructions: rd of rn and rm, val an immediate, d a displacement or a
\* distance in bytes, mode the addressing of loads and stores. All take 4 bytes.

A64Nop == [op |-> "nop", rd |-> 0, rn |-> 0, rm |-> 0, mode |-> "offset", val |-> Junk,
           d |-> 0, len |-> 4]

emit_rrr(op, d, s1, s2)     == <<[A64Nop EXCEPT !.op = op, !.rd = d, !.rn = s1, !.rm = s2]>>
emit_add(d, s, n)           == <<[A64Nop EXCEPT !.op = "add", !.rd = d, !.rn = s, !.d = n]>>
emit_adr(d, n)              == <<[A64Nop EXCEPT !.op = "adr", !.rd = d, !.d = n]>>
emit_ls(op, mode, r, b, n)  == <<[A64Nop EXCEPT !.op = op, !.mode = mode, !.rd = r, !.rn = b,
                                               !.d = n]>>
emit_stp_pre_idx(r, s, b, n)  == <<[A64Nop EXCEPT !.op = "stp", !.mode = "pre", !.rd = r,
                                                 !.rm = s, !.rn = b, !.d = n]>>
emit_ldp_post_idx(r, s, b, n) == <<[A64Nop EXCEPT !.op = "ldp", !.mode = "post", !.rd = r,
                                                 !.rm = s, !.rn = b, !.d = n]>>
emit_to_reg(op, r)          == <<[A64Nop EXCEPT !.op = op, !.rn = r]>>
emit_b(d)                   == <<[A64Nop EXCEPT !.op = "b", !.d = d]>>

\* (Mutant of Masked: the processor takes the field for a number without sign.)
Masked_Unsigned(d) == d % (2 * CondReach)

\* The field of a b.cond holds the low bits of its distance, which the processor
\* sign-extends.
Masked(d) == ((d + CondReach) % (2 * CondReach)) - CondReach

emit_b_cond(op, d) == <<[A64Nop EXCEPT !.op = op, !.d = Masked(d)]>>

emit_mov_reg_reg(d, s) == emit_rrr("orr", d, ZR, s)
emit_mov_reg_sp(d, s)  == emit_add(d, s, 0)
emit_push_reg(r)       == emit_ls("str", "pre", r, VmSP, -8)
emit_pop_reg(r)        == emit_ls("ldr", "post", r, VmSP, 8)
emit_ret               == emit_to_reg("ret", LR)

\* What a one counts for in each of the four chunks of a register.
Weight == <<1, ChunkMod, HalfMod, HalfMod * ChunkMod>>

\* The chunk k of the word w, from the low end.
Chunk(w, k) == (w \div Weight[k + 1]) % ChunkMod

\* (Mutant of Parts: it looks at the chunk instead of what remains.)
Parts_Chunk(v) ==
  IF v.tag # "num" THEN AddrParts
  ELSE CHOOSE n \in 1 .. 4 : /\ n < 4 => Chunk(v.val, n) = 0
                             /\ \A k \in 1 .. n - 1 : Chunk(v.val, k) # 0

\* emit_mov_reg_imm stops when what remains of the immediate, shifted with its
\* sign, is zero.
Parts(v) ==
  IF v.tag # "num" THEN AddrParts
  ELSE CHOOSE n \in 1 .. 4 : /\ n < 4 => Signed(v.val) \div Weight[n + 1] = 0
                             /\ \A k \in 1 .. n - 1 : Signed(v.val) \div Weight[k + 1] # 0

emit_mov_reg_imm(r, v) ==
  [k \in 1 .. Parts(v) |->
     [A64Nop EXCEPT !.op = IF k = 1 THEN "movz" ELSE "movk", !.rd = r, !.d = k - 1,
                    !.val = IF v.tag = "num" THEN Num(Chunk(v.val, k - 1)) ELSE v]]

emit_cmp_reg_imm(s, v) == emit_mov_reg_imm(Scratch, v) \o emit_rrr("subs", ZR, s, Scratch)
-----------------------------------------------------------------------------
\* The code that surrounds the program.

EntryPairs == <<<<19, 20>>, <<21, 22>>, <<23, 24>>, <<25, 26>>, <<27, 28>>>>
ExitPairs  == <<<<27, 28>>, <<25, 26>>, <<23, 24>>, <<21, 22>>, <<19, 20>>>>
Stored(p)  == emit_stp_pre_idx(p[1], p[2], HostSP, -16)
Loaded(p)  == emit_ldp_post_idx(p[1], p[2], HostSP, 16)

emit_vm_sub_entry_seq_from_host ==
  Stored(<<FP, LR>>) \o emit_mov_reg_sp(FP, HostSP) \o Each(Stored, EntryPairs)

\* (Mutant of the sequence after it: the first pair goes first.)
emit_vm_sub_exit_seq_to_host_Queue ==
  Each(Loaded, EntryPairs) \o Loaded(<<FP, LR>>) \o emit_ret

emit_vm_sub_exit_seq_to_host ==
  Each(Loaded, ExitPairs) \o Loaded(<<FP, LR>>) \o emit_ret

emit_non_vm_sub_entry_seq_to_host == Stored(<<14, 15>>) \o Stored(<<12, 13>>)

\* (Mutant of the sequence after it: the first pair goes first.)
emit_non_vm_sub_exit_seq_to_host_Queue == Loaded(<<14, 15>>) \o Loaded(<<12, 13>>)

emit_non_vm_sub_exit_seq_to_host == Loaded(<<12, 13>>) \o Loaded(<<14, 15>>)

emit_sys_enter_call ==
  emit_mov_reg_reg(0, VmSP) \o emit_mov_reg_imm(Scratch, sys_enter)
    \o emit_to_reg("blr", Scratch) \o emit_mov_reg_reg(VmSP, 0)

emit_vm_reg_save_seq ==
  emit_mov_reg_imm(Scratch, DumpSlot(0))
    \o Each(LAMBDA r : emit_ls("str", "post", A64vr2ar[r], Scratch, 8), DumpOrder)

emit_reg_init ==
  Each(LAMBDA r : emit_mov_reg_imm(A64vr2ar[r], Num(0)), SubSeq(DumpOrder, 1, 13))
    \o emit_mov_reg_imm(VmSP, Stk(0))

HostPath == emit_non_vm_sub_entry_seq_to_host \o emit_sys_enter_call
              \o emit_non_vm_sub_exit_seq_to_host \o emit_pop_reg(LR) \o emit_ret
ExitPath == emit_add(VmSP, VmSP, 16) \o emit_vm_reg_save_seq \o emit_vm_sub_exit_seq_to_host

\* (Mutant of the stub: every ID but that of the exit leaves the program.)
emit_sys_enter_stub_Inverted ==
  emit_ls("ldr", "offset", 27, VmSP, 8) \o emit_cmp_reg_imm(27, Num(0))
    \o emit_b_cond("JMPNE", 4 + Bytes(HostPath)) \o HostPath \o ExitPath

\* The stub, without the jump around it.
emit_sys_enter_stub ==
  emit_ls("ldr", "offset", 27, VmSP, 8) \o emit_cmp_reg_imm(27, Num(0))
    \o emit_b_cond("JMPEQ", 4 + Bytes(HostPath)) \o HostPath \o ExitPath

A64Prelude == emit_vm_sub_entry_seq_from_host \o emit_b(4 + Bytes(emit_sys_enter_stub))
A64StubAt  == Bytes(A64Prelude)
A64Boot    == A64Prelude \o emit_sys_enter_stub \o emit_reg_init

emit_vm_exit_syscall_guard(at) ==
  LET call == emit_mov_reg_imm(27, Num(0)) \o emit_push_reg(27)
                \o emit_adr(Scratch, 12) \o emit_push_reg(Scratch)
  IN  call \o emit_b(A64StubAt - (at + Bytes(call)))
-----------------------------------------------------------------------------
\* jit_vm_instruction: the code of the instruction i at the offset at, where to
\* is the offset of a transfer's target.

Address(b, n) == emit_mov_reg_imm(Scratch, Num(Wrap(n))) \o emit_rrr("adds", Scratch, b, Scratch)

Operation == [ADD |-> "adds", SUB |-> "subs", AND |-> "and", OR |-> "orr", XOR |-> "eor"]

\* A CALL takes the same room for every target: the address that it pushes is
\* the one after it.
emit_call(to) ==
  LET target == emit_mov_reg_imm(Scratch, to)
  IN  emit_adr(Scratch, 28) \o emit_push_reg(Scratch) \o target
        \o [k \in 1 .. 4 - Len(target) |-> A64Nop] \o emit_to_reg("br", Scratch)

A64Emit(i, at, to) ==
  LET d == A64vr2ar[i.dst]
      s == A64vr2ar[i.src]
  IN  CASE i.op = "LOAD"  -> Address(s, i.idx) \o emit_ls("ldr", "offset", d, Scratch, 0)
        [] i.op = "STORE" -> Address(d, i.idx) \o emit_ls("str", "offset", s, Scratch, 0)
        [] i.op = "MOV"   -> IF i.am = "REG" THEN emit_mov_reg_reg(d, s)
                             ELSE emit_mov_reg_imm(d, Num(i.imm))
        [] i.op = "CMP"   -> IF i.am = "REG" THEN emit_rrr("subs", ZR, d, s)
                             ELSE emit_cmp_reg_imm(d, Num(i.imm))
        [] i.op \in DOMAIN Operation -> IF i.am = "REG" THEN emit_rrr(Operation[i.op], d, d, s)
                             ELSE emit_mov_reg_imm(Scratch, Num(i.imm))
                                    \o emit_rrr(Operation[i.op], d, d, Scratch)
        [] i.op = "NOT"   -> emit_rrr("orn", d, ZR, d)
        [] i.op = "PUSH"  -> emit_push_reg(d)
        [] i.op = "POP"   -> emit_pop_reg(d)
        [] i.op = "CALL"  -> emit_call(Code(to))
        [] i.op = "RET"   -> emit_pop_reg(LR) \o emit_ret
        [] i.op = "JMP"   -> emit_mov_reg_imm(Scratch, Code(to)) \o emit_to_reg("br", Scratch)
        [] i.op \in CondOp -> emit_b_cond(i.op, to - at)

A64Prologue == Bytes(A64Boot)
A64Guard    == Bytes(emit_vm_exit_syscall_guard(0))
A64Size(i)  == Bytes(A64Emit(i, 0, 0))
A64Slots(i) == 4 * (IF i.op = "CALL" THEN 7 ELSE IF i.op = "JMP" THEN 5 ELSE 1)
-----------------------------------------------------------------------------
\* The processor. One action per kind of native instruction.

\* The register r becomes v, and the flags f.
Sets(r, v, f) == ar' = [ar EXCEPT ![r] = v] /\ fl' = f /\ UNCHANGED <<ram, cout>> /\ Fall

cpu_nop == Executes({"nop"}) /\ UNCHANGED <<ar, fl, ram, cout>> /\ Fall

cpu_movz == Executes({"movz"}) /\ Sets(I.rd, I.val, fl)

\* The chunk I.d of the word w becomes c.
WithChunk(w, c) == w + (c - Chunk(w, I.d)) * Weight[I.d + 1]

cpu_movk ==
  /\ Executes({"movk"})
  /\ Sets(I.rd, IF I.val.tag = "num" THEN Num(WithChunk(ar[I.rd].val, I.val.val)) ELSE I.val, fl)

cpu_adr == Executes({"adr"}) /\ Sets(I.rd, Code(ip + I.d), fl)
cpu_add == Executes({"add"}) /\ Sets(I.rd, At(ar[I.rn], I.d), fl)

cpu_arithmetic ==
  /\ Executes({"adds", "subs"}) /\ I.rd # ZR
  /\ Sets(I.rd, IF I.op = "adds" THEN Plus(ar[I.rn], ar[I.rm]) ELSE Minus(ar[I.rn], ar[I.rm]),
          "NONE")

cpu_cmp ==
  /\ Executes({"subs"}) /\ I.rd = ZR
  /\ fl' \in Compare(ar[I.rn], ar[I.rm])
  /\ UNCHANGED <<ar, ram, cout>> /\ Fall

\* An orr with the zero register moves, an orn inverts.
Logic(w) ==
  CASE I.op = "orr" /\ I.rn = ZR -> w
    [] I.op = "orn" -> Invert(w)
    [] I.op = "and" -> Bits(BitAnd, ar[I.rn], w)
    [] I.op = "orr" /\ I.rn # ZR -> Bits(BitOr, ar[I.rn], w)
    [] I.op = "eor" -> Bits(BitXor, ar[I.rn], w)

cpu_logic == Executes({"and", "orr", "eor", "orn"}) /\ Sets(I.rd, Logic(ar[I.rm]), fl)

\* Where an access goes, and the base register after it.
Indexed  == At(ar[I.rn], I.d)
Accessed == IF I.mode = "post" THEN ar[I.rn] ELSE Indexed
Based    == [ar EXCEPT ![I.rn] = IF I.mode = "offset" THEN @ ELSE Indexed]

\* An access that writes back to the register that it loads or stores: the
\* architecture leaves the value open.
Unclear == I.mode # "offset" /\ I.rd = I.rn

cpu_ldr ==
  /\ Executes({"ldr"})
  /\ \/ /\ Accessed \in DOMAIN ram
        /\ \E v \in IF Unclear THEN {ram[Accessed], Indexed, Junk} ELSE {ram[Accessed]} :
              ar' = [Based EXCEPT ![I.rd] = v]
        /\ UNCHANGED <<fl, ram, cout>> /\ Fall
     \/ Accessed \notin DOMAIN ram /\ Stray

cpu_str ==
  /\ Executes({"str"})
  /\ \/ /\ Accessed \in DOMAIN ram
        /\ \E v \in IF Unclear THEN {ar[I.rd], Indexed, Junk} ELSE {ar[I.rd]} :
              ram' = [ram EXCEPT ![Accessed] = v]
        /\ ar' = Based
        /\ UNCHANGED <<fl, cout>> /\ Fall
     \/ Accessed \notin DOMAIN ram /\ Stray

\* Pairs are of the host's stack, which has room.
Second == At(Accessed, 8)

cpu_ldp ==
  /\ Executes({"ldp"})
  /\ ar' = [[Based EXCEPT ![I.rd] = ram[Accessed]] EXCEPT ![I.rm] = ram[Second]]
  /\ UNCHANGED <<fl, ram, cout>> /\ Fall

cpu_stp ==
  /\ Executes({"stp"})
  /\ ram' = [[ram EXCEPT ![Accessed] = ar[I.rd]] EXCEPT ![Second] = ar[I.rm]]
  /\ ar' = Based
  /\ UNCHANGED <<fl, cout>> /\ Fall

cpu_b  == Executes({"b"}) /\ UNCHANGED <<ar, fl, ram, cout>> /\ Go(ip + I.d)
cpu_br == Executes({"br"}) /\ UNCHANGED <<ar, fl, ram, cout>> /\ Go(ar[I.rn].val)

cpu_b_cond ==
  /\ Executes(CondOp)
  /\ UNCHANGED <<ar, fl, ram, cout>>
  /\ \/ fl \in Holds[I.op] \cup {"NONE"} /\ Go(ip + I.d)
     \/ fl \notin Holds[I.op] \ {"NONE"} /\ Fall

cpu_ret ==
  /\ Executes({"ret"}) /\ ar[I.rn] # host_return
  /\ UNCHANGED <<ar, fl, ram, cout>>
  /\ \/ ar[I.rn].tag = "code" /\ Go(ar[I.rn].val)
     \/ ar[I.rn].tag # "code" /\ GoAstray

return_to_host == Executes({"ret"}) /\ ar[I.rn] = host_return /\ UNCHANGED ar /\ Returns
-----------------------------------------------------------------------------
\* sys_enter of jit.cc, called with the frame's address in the first register.

Calls(f) == Executes({"blr"}) /\ ar[I.rn] = f
Frame    == ar[0]
InRoom   == {Frame, Parameter(Frame)} \subseteq DOMAIN ram

host_sys_enter(id) ==
  /\ Calls(sys_enter)
  /\ \/ /\ InRoom /\ Displays(id, Frame)
        /\ ram' = ForgetBelow(Moved(Frame), ar[HostSP])
        /\ ar' = [r \in ArchReg |-> IF r = 0 THEN Parameter(Frame)
                                    ELSE IF r \in CallerSaved THEN Junk ELSE ar[r]]
        /\ fl' = "NONE"
        /\ Fall
     \/ ~InRoom /\ MayBe(SyscallId(Frame), id) /\ Stray

\* The ABORT for SYSCALL_VM_EXIT, which the stub keeps, or for any other ID.
host_abort == Calls(sys_enter) /\ Unsupported(Frame) /\ Status("aborted")

Run == \/ cpu_nop \/ cpu_movz \/ cpu_movk \/ cpu_adr \/ cpu_add \/ cpu_arithmetic \/ cpu_cmp
       \/ cpu_logic \/ cpu_ldr \/ cpu_str \/ cpu_ldp \/ cpu_stp \/ cpu_b \/ cpu_br
       \/ cpu_b_cond \/ cpu_ret \/ return_to_host
       \/ host_sys_enter(SYSCALL_DISPLAY_SINT) \/ host_sys_enter(SYSCALL_DISPLAY_UINT)
       \/ host_abort
-----------------------------------------------------------------------------
Init == NativeInit([r \in ArchReg |-> IF r = HostSP THEN HostSlot(0)
                                      ELSE IF r = LR THEN host_return ELSE HostVal(r)],
                   [l \in Stack \cup HostLoc |-> Junk])

Next == Translate \/ Run

Spec == Init /\ [][Next]_vars
FairSpec == Spec /\ WF_jitVars(JitNext) /\ WF_vars(Run)
-----------------------------------------------------------------------------
\* The host has its stack, its frame pointer and the registers that a called
\* function preserves back when text_mem returns, whatever the program made of
\* those that it shares with the VM.
HostRestored ==
  obs.status = "exited" =>
    /\ ar[HostSP] = HostSlot(0)
    /\ \A r \in CalleeSaved : ar[r] = HostVal(r)

\* When all the native code is within the reach of a conditional branch, the processor
\* takes each one to the code of its target: emit_b_cond, which masks the distance
\* without a test (a64.cc:694-700), loses nothing of it.
BranchesKept ==
  phase = "done" /\ arch < CondReach =>
    \A a \in Transfer : prog.code[a].op \in CondOp =>
      LET d == block[a].to - block[a].at IN emit_b_cond(prog.code[a].op, d)[1].d = d
=============================================================================
