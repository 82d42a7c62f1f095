------------------------------- MODULE Native -------------------------------
(***************************************************************************)
(* What the JIT compilers share beyond the layout of module Jit: native code *)
(* that the translator writes to text_mem and writes over, a processor that  *)
(* runs it, and the virtual machine that a program sees in the processor's   *)
(* state. A back end says which code an instruction becomes and what a       *)
(* native instruction does.                                                  *)
(*                                                                          *)
(* obs is what a program can tell of the machine: it follows the processor   *)
(* from one instruction of the program to the next.                         *)
(***************************************************************************)
EXTENDS Jit, NativeCode

CONSTANTS
  vr2ar,          \* the register of the processor for each register of the VM
  Boot,           \* the code before the program: StubAt and Prologue are of it
  GuardCode(_),   \* the code after it, at an offset, of length Guard
  Nop,            \* the native instruction that slots are reserved with
  Emit(_, _, _)   \* the code of an instruction at an offset, with the offset
                  \* of its target: Size is its length

VARIABLES
  text,     \* text_mem: the native instruction at each offset where one starts
  ip,       \* the processor's instruction pointer, as an offset into text_mem
  ar,       \* its registers
  fl,       \* its flags, as far as a comparison sets them
  ram,      \* the memory: the VM's stack, and the host's as far as it is used
  cout,     \* what sys_enter displayed
  obs       \* the virtual machine as the program sees it

cpu  == <<ip, ar, fl, ram, cout, obs>>
vars == <<jitVars, text, cpu>>
-----------------------------------------------------------------------------
\* Values and addresses of the host: what a register held when text_mem was
\* called, functions, slots of its stack, reg_dump_area.
HostVal(r)  == [tag |-> "host", val |-> r]
HostSlot(o) == [tag |-> "hst", val |-> o]
DumpSlot(o) == [tag |-> "dump", val |-> o]
sys_enter   == [tag |-> "fun", val |-> 0]
host_return == [tag |-> "fun", val |-> 1]

At(v, d) == IF v.tag \in {"hst", "dump"} THEN [v EXCEPT !.val = @ + d]
            ELSE IF v.tag = "member" THEN v ELSE Offset(v, d)

Stack == {l \in Loc : l.tag = "stk"}

\* The order of the VM's registers in reg_dump_area.
DumpOrder == <<"R0", "R1", "R2", "R3", "R4", "R5", "R6", "R7", "R8", "R9", "R10",
               "R11", "R12", "SP">>
DumpOf(r) == DumpSlot(8 * ((CHOOSE k \in DOMAIN DumpOrder : DumpOrder[k] = r) - 1))
DumpArea  == {DumpOf(r) : r \in Reg}
-----------------------------------------------------------------------------
\* The translator, writing its code.

NoText   == [x \in {} |-> Nop]
BootText == Patched(NoText, Boot, 0)

write_prologue == emit_prologue /\ text' = BootText /\ UNCHANGED cpu

\* What DEFER_JIT_AND_RESERVE_SLOTS writes for the transfer i.
\* (Reserve_Short, a mutant of it: one of the slots is forgotten.)
Reserve_Short(i) == [k \in 1 .. Slots(i) \div Nop.len - 1 |-> Nop]
Reserve(i)       == [k \in 1 .. Slots(i) \div Nop.len |-> Nop]

write_instruction ==
  /\ jit_vm_instruction
  /\ LET i == prog.code[vm]
     IN  text' = Patched(text, IF Defers(i, Recorded) THEN Reserve(i)
                               ELSE Emit(i, arch, Goes(i, Recorded)), arch)
  /\ UNCHANGED cpu

write_end == end_program /\ UNCHANGED <<text, cpu>>

\* (Mutant of write_deferred: distances are from where the translator is.)
write_deferred_Here ==
  /\ jit_deferred
  /\ LET jp == deferred[next]
         i  == prog.code[jp.vm]
     IN  text' = IF Defers(i, va2aa) THEN text
                 ELSE Patched(text, Emit(i, arch, Goes(i, va2aa)), jp.arch)
  /\ UNCHANGED cpu

write_deferred ==
  /\ jit_deferred
  /\ LET jp == deferred[next]
         i  == prog.code[jp.vm]
     IN  text' = IF Defers(i, va2aa) THEN text
                 ELSE Patched(text, Emit(i, jp.arch, Goes(i, va2aa)), jp.arch)
  /\ UNCHANGED cpu

write_guard == emit_guard /\ text' = Patched(text, GuardCode(arch), arch) /\ UNCHANGED cpu

Translate == \/ write_prologue \/ write_instruction \/ write_end
             \/ write_deferred \/ write_guard
-----------------------------------------------------------------------------
\* Nops of the text t from the offset x to before y, the first of them at at or where
\* one that started there would end.
Aligned(z, at)    == (z - at) % Nop.len = 0
Nops(t, x, y, at) == \A z \in x .. y - 1 : Aligned(z, at) => z \in DOMAIN t /\ t[z] = Nop

\* What the processor will find when the translator is done: the code before the
\* program, that of every instruction at its place and for the places of the others,
\* nops in what is left of the slots reserved for it, and the code after the program.
\* Nothing that jit_deferred wrote later went over anything else.
InPlace ==
  phase = "done" =>
    /\ Placed(text, Boot, 0)
    /\ \A a \in Body :
          LET i  == prog.code[a]
              at == va2aa[a]
          IN  /\ Placed(text, Emit(i, at, Goes(i, va2aa)), at)
              /\ Nops(text, at + Size(i), at + block[a].len, at)
    /\ Placed(text, GuardCode(arch - Guard), arch - Guard)
-----------------------------------------------------------------------------
\* The virtual machine in the processor's state.

\* The code that a value is to the program: a return address lies right after
\* the transfer of a CALL, or before the slots that it did not fill.
AsVM(v) ==
  LET calls == {a \in DOMAIN block : /\ prog.code[a].op = "CALL"
                                     /\ v.val \in block[a].at + 1 .. block[a].at + block[a].len}
  IN  CASE v.tag \in {"num", "stk"} -> v
        [] v.tag = "code"           -> IF calls = {} THEN Junk
                                       ELSE Code(9 + CHOOSE a \in calls : TRUE)
        [] OTHER                    -> Junk

\* Where the code of each address of the program starts, the end included.
GuardAt == arch - Guard
Starting(x) == {a \in DOMAIN va2aa : va2aa[a] = x} \cup (IF x = GuardAt THEN {prog.size} ELSE {})

\* The registers and the memory of the VM, at the start of an instruction.
Registers == [r \in Reg |-> AsVM(ar[vr2ar[r]])]
Memory    == [l \in Loc |-> IF l \in DOMAIN ram THEN AsVM(ram[l]) ELSE Junk]

\* The program sees the VM at address p. (The processor's state is the next.)
Shows(p, s) == obs' = [pc |-> p, regs |-> Registers', flags |-> fl', mem |-> Memory',
                       out |-> cout', status |-> s]

\* The processor goes on at x. What it does within an instruction is not seen.
Go(x) ==
  /\ ip' = x
  /\ UNCHANGED <<jitVars, text>>
  /\ IF Starting(x) = {} THEN UNCHANGED obs
                         ELSE Shows(CHOOSE a \in Starting(x) : TRUE, "running")

\* It leaves the code.
GoAstray == UNCHANGED <<jitVars, text, ip>> /\ Shows(obs.pc, "wild")

Status(s) == obs' = [obs EXCEPT !.status = s] /\ UNCHANGED <<jitVars, text, ip, ar, fl, ram, cout>>

\* An access to memory the model does not have.
Stray == Status("wild")

\* Back in exec_program of jit.cc, which has reg_dump_area for the registers.
Returns == /\ obs' = [obs EXCEPT !.regs = [r \in Reg |-> AsVM(ram[DumpOf(r)])],
                                 !.mem = Memory, !.status = "exited"]
           /\ UNCHANGED <<jitVars, text, ip, fl, ram, cout>>

\* The instruction at ip, and the one after it.
I    == text[ip]
Fall == Go(ip + I.len)

Executes(ops) ==
  phase = "done" /\ obs.status \in {"ready", "running"} /\ I.op \in ops
-----------------------------------------------------------------------------
\* sys_enter of jit.cc for the frame at sp: what it displays, and the memory
\* after it moved the return address over the parameter.
SyscallId(sp)     == ram[At(sp, 8)]
Parameter(sp)     == At(sp, 16)
Displays(id, sp)  == /\ MayBe(SyscallId(sp), id)
                     /\ cout' = Append(cout, Shown(id, AsVM(ram[Parameter(sp)])))
Moved(sp)         == [ram EXCEPT ![Parameter(sp)] = ram[sp]]
Unsupported(sp)   == SyscallId(sp) \notin {Num(SYSCALL_DISPLAY_SINT), Num(SYSCALL_DISPLAY_UINT)}

\* The memory m after code of the host ran with its stack below sp.
ForgetBelow(m, sp) ==
  [l \in DOMAIN m |-> IF l.tag = sp.tag /\ l.tag \in {"stk", "hst"} /\ l.val < sp.val
                      THEN Junk ELSE m[l]]
-----------------------------------------------------------------------------
\* The engine before it translates: text_mem is called with these registers and
\* this memory.
NativeInit(registers, memory) ==
  /\ JitInit
  /\ text = NoText
  /\ ip = 0
  /\ ar = registers /\ ram = memory
  /\ fl = "NONE"
  /\ cout = <<>>
  /\ obs = [pc |-> FirstAddr, flags |-> "NONE", out |-> <<>>, status |-> "ready",
            regs |-> [r \in Reg |-> IF r = "SP" THEN Stk(0) ELSE Num(0)],
            mem |-> [l \in Loc |-> Junk]]
-----------------------------------------------------------------------------
\* The native code does to a program what the virtual machine promises: every
\* block, with the calls of the stub, the patched transfers, the slots left
\* before a return address and the code of the host that runs in between,
\* amounts to its instruction.
VM == INSTANCE VM WITH pc <- obs.pc, regs <- obs.regs, flags <- obs.flags,
                       mem <- obs.mem, out <- obs.out, status <- obs.status
IsVM == VM!Spec
=============================================================================
