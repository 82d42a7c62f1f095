-------------------------------- MODULE X64 --------------------------------
(***************************************************************************)
(* The x86_64 JIT, src/vm/x64.cc: the native code that its emit functions   *)
(* write for a program and the run of that code by the host's processor,    *)
(* from the call of text_mem to the return to the host, with the code of     *)
(* the host that it calls (sys_enter of src/vm/jit.cc).                      *)
(*                                                                          *)
(* The code the instructions become, their order and their lengths are the  *)
(* emit functions'. What one native instruction does is the processor's.    *)
(***************************************************************************)
EXTENDS Native

CONSTANT AddrLen        \* the bytes of an emit_mov_reg_imm of a host address:
                        \* 7 for one that sign-extends from 32 bits, or 10

ASSUME AddrAssumption == AddrLen \in {7, 10}
-----------------------------------------------------------------------------
X64vr2ar == [R0 |-> "r8",  R1 |-> "r9",  R2 |-> "r10", R3 |-> "r11", R4 |-> "r12",
             R5 |-> "r13", R6 |-> "r14", R7 |-> "r15", R8 |-> "rax", R9 |-> "rcx",
             R10 |-> "rdx", R11 |-> "rbx", R12 |-> "rsi", SP |-> "rsp"]

ByNumber == <<"rbx", "rbp", "rsp", "rax", "rcx", "rdx", "rsi", "rdi",
              "r8", "r9", "r10", "r11", "r12", "r13", "r14", "r15">>
ArchReg  == {ByNumber[k] : k \in DOMAIN ByNumber}
Extended == {"r8", "r9", "r10", "r11", "r12", "r13", "r14", "r15"}

\* What a called function of the host preserves, and what it may overwrite.
CalleeSaved == {"rbx", "rbp", "r12", "r13", "r14", "r15"}
CallerSaved == {"rax", "rcx", "rdx", "rsi", "rdi", "r8", "r9", "r10", "r11"}

Entry(r) == HostVal(CHOOSE k \in DOMAIN ByNumber : ByNumber[k] = r)
host_sp  == [tag |-> "member", val |-> 0]
vm_sp    == [tag |-> "member", val |-> 1]

HostLoc == {HostSlot(-8 * k) : k \in 0 .. 6} \cup DumpArea \cup {host_sp, vm_sp}
-----------------------------------------------------------------------------
\* Native instructions. len is the length of the encoding.

Op == [op |-> "nop", am |-> "REG", dst |-> "rax", src |-> "rax", val |-> Junk, d |-> 0, len |-> 1]

emit_nop         == <<Op>>
emit_ret         == <<[Op EXCEPT !.op = "ret"]>>
RexLen(r)        == IF r \in Extended THEN 2 ELSE 1
emit_push_reg(r) == <<[Op EXCEPT !.op = "push", !.src = r, !.len = RexLen(r)]>>
emit_pop_reg(r)  == <<[Op EXCEPT !.op = "pop", !.dst = r, !.len = RexLen(r)]>>
emit_call_reg(r) == <<[Op EXCEPT !.op = "call", !.src = r, !.len = 3]>>
emit_jmp_reg(r)  == <<[Op EXCEPT !.op = "jmp", !.src = r, !.len = 3]>>

\* mov, add, sub, and, or, xor, cmp of two registers, and not.
emit_reg_reg(op, d, s) == <<[Op EXCEPT !.op = op, !.dst = d, !.src = s, !.len = 3]>>

\* [b + d] with a displacement of n bytes; a base of rsp or r12 takes one more.
MemLen(b, n) == 3 + n + (IF b \in {"rsp", "r12"} THEN 1 ELSE 0)
emit_mov_reg_bd(r, b, d, n) ==
  <<[Op EXCEPT !.op = "load", !.dst = r, !.src = b, !.d = d, !.len = MemLen(b, n)]>>
emit_mov_bd_reg(b, d, r, n) ==
  <<[Op EXCEPT !.op = "store", !.dst = b, !.src = r, !.d = d, !.len = MemLen(b, n)]>>

\* The processor sign-extends the 32 bits that imm32 has of the word w.
SignExtended(w) == LET low == w % HalfMod
                   IN  IF low < HalfMod \div 2 THEN low ELSE low + WordMod - HalfMod

\* (Mutant of FitsHalf: the upper half may also be 1.)
FitsHalf_One(w) == w \div HalfMod \in {0, 1, HalfMod - 1}

\* emit_mov_reg_imm's choice of the short form, by the upper half alone.
FitsHalf(w)     == w \div HalfMod \in {0, HalfMod - 1}

emit_mov_reg_imm(r, v) ==
  <<[Op EXCEPT !.op = "imm", !.dst = r,
               !.val = IF v.tag = "num" /\ FitsHalf(v.val) THEN Num(SignExtended(v.val)) ELSE v,
               !.len = IF v.tag # "num" THEN AddrLen ELSE IF FitsHalf(v.val) THEN 7 ELSE 10]>>

\* A jump to d bytes away from its first byte.
emit_jmp_imm32(d)     == <<[Op EXCEPT !.op = "near", !.d = d - 5, !.len = 5]>>
emit_jcc_imm32(op, d) == <<[Op EXCEPT !.op = op, !.d = d - 6, !.len = 6]>>

emit_reg_imm64(op, r, v) == emit_mov_reg_imm("rbp", v) \o emit_reg_reg(op, r, "rbp")
emit_call_imm64(v)       == emit_mov_reg_imm("rbp", v) \o emit_call_reg("rbp")
emit_jmp_imm64(v)        == emit_mov_reg_imm("rbp", v) \o emit_jmp_reg("rbp")
-----------------------------------------------------------------------------
\* The code that surrounds the program.

emit_vm_sub_entry_seq_from_host ==
  Each(emit_push_reg, <<"rbp", "rbx", "r12", "r13", "r14", "r15">>)
    \o emit_mov_reg_imm("rbp", host_sp) \o emit_mov_bd_reg("rbp", 0, "rsp", 1)

\* (Mutant of the sequence after it: the registers come back in the wrong order.)
emit_vm_sub_exit_seq_to_host_Swaps ==
  emit_mov_reg_imm("rbp", host_sp) \o emit_mov_reg_bd("rsp", "rbp", 0, 1)
    \o Each(emit_pop_reg, <<"r15", "r14", "r12", "r13", "rbx", "rbp">>) \o emit_ret

emit_vm_sub_exit_seq_to_host ==
  emit_mov_reg_imm("rbp", host_sp) \o emit_mov_reg_bd("rsp", "rbp", 0, 1)
    \o Each(emit_pop_reg, <<"r15", "r14", "r13", "r12", "rbx", "rbp">>) \o emit_ret

emit_non_vm_sub_entry_seq_to_host ==
  emit_mov_reg_imm("rbp", vm_sp) \o emit_mov_bd_reg("rbp", 0, "rsp", 1)
    \o Each(emit_push_reg, <<"r8", "r9", "r10", "r11", "rax", "rcx", "rdx", "rsi">>)

\* (Mutant of the sequence after it: the registers come back as they were pushed.)
emit_non_vm_sub_exit_seq_to_host_Queue ==
  Each(emit_pop_reg, <<"r8", "r9", "r10", "r11", "rax", "rcx", "rdx", "rsi">>)
    \o emit_mov_reg_imm("rbp", vm_sp) \o emit_mov_reg_bd("rsp", "rbp", 0, 1)

emit_non_vm_sub_exit_seq_to_host ==
  Each(emit_pop_reg, <<"rsi", "rdx", "rcx", "rax", "r11", "r10", "r9", "r8">>)
    \o emit_mov_reg_imm("rbp", vm_sp) \o emit_mov_reg_bd("rsp", "rbp", 0, 1)

emit_sys_enter_call ==
  emit_mov_reg_imm("rbp", vm_sp) \o emit_mov_reg_bd("rdi", "rbp", 0, 1)
    \o emit_call_imm64(sys_enter)
    \o emit_mov_reg_imm("rbp", vm_sp) \o emit_mov_bd_reg("rbp", 0, "rax", 1)

emit_vm_reg_save_seq ==
  emit_mov_reg_imm("rbp", DumpSlot(0))
    \o Each(LAMBDA r : emit_mov_bd_reg("rbp", DumpOf(r).val, X64vr2ar[r], 4), DumpOrder)

emit_reg_init ==
  Each(LAMBDA r : emit_mov_reg_imm(X64vr2ar[r], Num(0)), SubSeq(DumpOrder, 1, 13))
    \o emit_mov_reg_imm("rsp", Stk(0))

\* What follows the stub's je when the call has an ID for the host, and what
\* the je goes to when the program exits.
HostPath == emit_non_vm_sub_entry_seq_to_host \o emit_sys_enter_call
              \o emit_non_vm_sub_exit_seq_to_host \o emit_ret
ExitPath == emit_reg_imm64("ADD", "rsp", Num(16)) \o emit_vm_reg_save_seq
              \o emit_vm_sub_exit_seq_to_host

\* (Mutant of the stub: every ID but that of the exit leaves the program.)
emit_sys_enter_stub_Inverted ==
  emit_mov_reg_bd("r8", "rsp", 8, 4) \o emit_reg_imm64("CMP", "r8", Num(0))
    \o emit_jcc_imm32("JMPNE", 6 + Bytes(HostPath)) \o HostPath \o ExitPath

emit_sys_enter_stub ==
  emit_mov_reg_bd("r8", "rsp", 8, 4) \o emit_reg_imm64("CMP", "r8", Num(0))
    \o emit_jcc_imm32("JMPEQ", 6 + Bytes(HostPath)) \o HostPath \o ExitPath

emit_vm_exit_syscall_guard ==
  emit_mov_reg_imm("rbp", Num(0)) \o emit_push_reg("rbp") \o emit_call_imm64(Code(StubAt))
-----------------------------------------------------------------------------
\* jit_vm_instruction: the code of the instruction i at the offset at, where to
\* is the offset of a transfer's target.
X64Emit(i, at, to) ==
  LET d == X64vr2ar[i.dst]
      s == X64vr2ar[i.src]
  IN  CASE i.op = "LOAD"             -> emit_mov_reg_bd(d, s, i.idx, 4)
        [] i.op = "STORE"            -> emit_mov_bd_reg(d, i.idx, s, 4)
        [] i.op = "MOV"              -> IF i.am = "REG" THEN emit_reg_reg("MOV", d, s)
                                        ELSE emit_mov_reg_imm(d, Num(i.imm))
        [] i.op \in (MoveOp \ {"MOV"}) \cup {"CMP"} ->
                                        IF i.am = "REG" THEN emit_reg_reg(i.op, d, s)
                                        ELSE emit_reg_imm64(i.op, d, Num(i.imm))
        [] i.op = "NOT"              -> emit_reg_reg("NOT", d, d)
        [] i.op = "PUSH"             -> emit_push_reg(d)
        [] i.op = "POP"              -> emit_pop_reg(d)
        [] i.op = "CALL"             -> emit_call_imm64(Code(to))
        [] i.op = "RET"              -> emit_ret
        [] i.op = "JMP"              -> emit_jmp_imm64(Code(to))
        [] i.op \in CondOp           -> emit_jcc_imm32(i.op, to - at)

\* What the shared translator takes from this back end.
X64Prelude   == emit_vm_sub_entry_seq_from_host \o emit_jmp_imm32(5 + Bytes(emit_sys_enter_stub))
X64StubAt    == Bytes(X64Prelude)
X64Boot      == X64Prelude \o emit_sys_enter_stub \o emit_reg_init
X64Prologue  == Bytes(X64Boot)
X64Guard     == Bytes(emit_vm_exit_syscall_guard)
X64GuardCode(at) == emit_vm_exit_syscall_guard
X64Size(i)   == Bytes(X64Emit(i, 0, 0))
X64Slots(i)  == IF i.op \in CondOp THEN 6 ELSE 13
-----------------------------------------------------------------------------
\* The processor. One action per kind of native instruction.

cpu_nop == Executes({"nop"}) /\ UNCHANGED <<ar, fl, ram, cout>> /\ Fall

cpu_imm == Executes({"imm"}) /\ ar' = [ar EXCEPT ![I.dst] = I.val]
             /\ UNCHANGED <<fl, ram, cout>> /\ Fall

cpu_alu ==
  /\ Executes(MoveOp \cup {"NOT"})
  /\ ar' = [ar EXCEPT ![I.dst] = Result(I, ar)]
  /\ fl' = IF I.op \in {"MOV", "NOT"} THEN fl ELSE "NONE"
  /\ UNCHANGED <<ram, cout>> /\ Fall

cpu_cmp ==
  /\ Executes({"CMP"})
  /\ fl' \in Compare(ar[I.dst], ar[I.src])
  /\ UNCHANGED <<ar, ram, cout>> /\ Fall

cpu_load ==
  /\ Executes({"load"})
  /\ LET l == At(ar[I.src], I.d)
     IN  \/ /\ l \in DOMAIN ram
            /\ ar' = [ar EXCEPT ![I.dst] = ram[l]]
            /\ UNCHANGED <<fl, ram, cout>> /\ Fall
         \/ l \notin DOMAIN ram /\ Stray

cpu_store ==
  /\ Executes({"store"})
  /\ LET l == At(ar[I.dst], I.d)
     IN  \/ /\ l \in DOMAIN ram
            /\ ram' = [ram EXCEPT ![l] = ar[I.src]]
            /\ UNCHANGED <<ar, fl, cout>> /\ Fall
         \/ l \notin DOMAIN ram /\ Stray

\* The value v goes on top of the stack: of rsp, its value before.
Pushes(v) ==
  LET l == At(ar["rsp"], -8)
  IN  l \in DOMAIN ram /\ ram' = [ram EXCEPT ![l] = v] /\ ar' = [ar EXCEPT !["rsp"] = l]
NoRoom == At(ar["rsp"], -8) \notin DOMAIN ram

cpu_push ==
  /\ Executes({"push"})
  /\ \/ Pushes(ar[I.src]) /\ UNCHANGED <<fl, cout>> /\ Fall
     \/ NoRoom /\ Stray

\* Of pop rsp the value read is what stays.
cpu_pop ==
  /\ Executes({"pop"})
  /\ LET sp == ar["rsp"]
     IN  \/ /\ sp \in DOMAIN ram
            /\ ar' = [[ar EXCEPT !["rsp"] = At(sp, 8)] EXCEPT ![I.dst] = ram[sp]]
            /\ UNCHANGED <<fl, ram, cout>> /\ Fall
         \/ sp \notin DOMAIN ram /\ Stray

cpu_call ==
  /\ Executes({"call"}) /\ ar[I.src].tag = "code"
  /\ \/ Pushes(Code(ip + I.len)) /\ UNCHANGED <<fl, cout>> /\ Go(ar[I.src].val)
     \/ NoRoom /\ Stray

cpu_ret ==
  /\ Executes({"ret"})
  /\ LET sp == ar["rsp"]
     IN  \/ /\ sp \in DOMAIN ram /\ ram[sp] # host_return
            /\ ar' = [ar EXCEPT !["rsp"] = At(sp, 8)]
            /\ UNCHANGED <<fl, ram, cout>>
            /\ \/ ram[sp].tag = "code" /\ Go(ram[sp].val)
               \/ ram[sp].tag # "code" /\ GoAstray
         \/ sp \notin DOMAIN ram /\ Stray

return_to_host ==
  /\ Executes({"ret"}) /\ ar["rsp"] \in DOMAIN ram /\ ram[ar["rsp"]] = host_return
  /\ ar' = [ar EXCEPT !["rsp"] = At(@, 8)]
  /\ Returns

cpu_jmp == Executes({"jmp"}) /\ UNCHANGED <<ar, fl, ram, cout>> /\ Go(ar[I.src].val)

Displaced == ip + I.len + I.d
cpu_near == Executes({"near"}) /\ UNCHANGED <<ar, fl, ram, cout>> /\ Go(Displaced)

cpu_jcc ==
  /\ Executes(CondOp)
  /\ UNCHANGED <<ar, fl, ram, cout>>
  /\ \/ fl \in Holds[I.op] \cup {"NONE"} /\ Go(Displaced)
     \/ fl \notin Holds[I.op] \ {"NONE"} /\ Fall
-----------------------------------------------------------------------------
\* sys_enter of jit.cc, called with the frame's address in rdi: it takes the
\* frame but for its last slot, to which it moves the return address. As code
\* of the host it uses registers and the stack below rsp.

Calls(f) == Executes({"call"}) /\ ar[I.src] = f
Frame    == ar["rdi"]
InRoom   == {Parameter(Frame), At(ar["rsp"], -8)} \subseteq DOMAIN ram

host_sys_enter(id) ==
  /\ Calls(sys_enter)
  /\ \/ /\ InRoom /\ Displays(id, Frame)
        /\ ram' = ForgetBelow(Moved(Frame), ar["rsp"])
        /\ ar' = [r \in ArchReg |-> IF r = "rax" THEN Parameter(Frame)
                                    ELSE IF r \in CallerSaved THEN Junk ELSE ar[r]]
        /\ fl' = "NONE"
        /\ Fall
     \/ ~InRoom /\ MayBe(SyscallId(Frame), id) /\ Stray

\* The ABORT for SYSCALL_VM_EXIT, which the stub keeps, or for any other ID.
host_abort == Calls(sys_enter) /\ Unsupported(Frame) /\ Status("aborted")

Run == \/ cpu_nop \/ cpu_imm \/ cpu_alu \/ cpu_cmp \/ cpu_load \/ cpu_store \/ cpu_push
       \/ cpu_pop \/ cpu_call \/ cpu_ret \/ return_to_host \/ cpu_jmp \/ cpu_near \/ cpu_jcc
       \/ host_sys_enter(SYSCALL_DISPLAY_SINT) \/ host_sys_enter(SYSCALL_DISPLAY_UINT)
       \/ host_abort
-----------------------------------------------------------------------------
Init == NativeInit([r \in ArchReg |-> IF r = "rsp" THEN HostSlot(0) ELSE Entry(r)],
                   [l \in Stack \cup HostLoc |-> IF l = HostSlot(0) THEN host_return ELSE Junk])

Next == Translate \/ Run

Spec == Init /\ [][Next]_vars
FairSpec == Spec /\ WF_jitVars(JitNext) /\ WF_vars(Run)
-----------------------------------------------------------------------------
\* The host has its stack and the registers that a called function preserves
\* back when text_mem returns, whatever the program made of them. (What reg_dump_area
\* then has of the VM's registers is for the Exit of VM to say: Returns takes obs.regs
\* from it, which IsVM compares.)
HostRestored ==
  obs.status = "exited" =>
    /\ ar["rsp"] = HostSlot(8)
    /\ \A r \in CalleeSaved : ar[r] = Entry(r)

=============================================================================
