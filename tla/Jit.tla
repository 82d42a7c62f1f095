-------------------------------- MODULE Jit --------------------------------
(***************************************************************************)
(* The translator that the JIT compilers share: src/vm/jit.h, the address   *)
(* mapping of src/vm/jit.cc, and jit, jit_program, jit_vm_instruction and   *)
(* jit_deferred, which are alike in src/vm/x64.cc and src/vm/a64.cc. One     *)
(* pass over the program emits a block of native code per instruction. A    *)
(* transfer whose target is not yet mapped is deferred: slots are reserved   *)
(* for it, and a second pass over the deferred positions writes it there.    *)
(* What a block consists of is left to the back end, which gives its size.   *)
(***************************************************************************)
EXTENDS ISA

CONSTANTS
  StubAt,         \* where emit_sys_enter_stub starts, in bytes of native code
  Prologue,       \* the size of all that precedes the program: entry sequence,
                  \* stub and initialisation of the registers
  Guard,          \* the size of the exit call that follows the program
  Size(_),        \* the size of the native code of an instruction
  Slots(_),       \* what DEFER_JIT_AND_RESERVE_SLOTS reserves for a transfer
  Expansion       \* the most bytes of native code per byte of the program

\* Reserved slots suffice for the transfer that is written there later, and no
\* block is larger than the expansion of its instruction.
Sized(i) ==
  /\ Size(i) \in Nat /\ Size(i) > 0 /\ Size(i) <= Expansion * InstrLen(i)
  /\ i.op \in BranchOp => /\ Slots(i) \in Nat /\ Size(i) <= Slots(i)
                          /\ Slots(i) <= Expansion * InstrLen(i)

ASSUME LayoutAssumption ==
  /\ StubAt \in Nat /\ Prologue \in Nat /\ Guard \in Nat /\ Expansion \in Nat
  /\ StubAt <= Prologue
ASSUME SizeAssumption == \A p \in Programs : \A a \in DOMAIN p.code : Sized(p.code[a])

VARIABLES
  prog,       \* the program
  phase,      \* where jit() is
  vm,         \* jpos.vm, as an address of the program
  arch,       \* jpos.arch, as an offset into text_mem
  va2aa,      \* the native address of each instruction met so far
  deferred,   \* deferred_jpos
  next,       \* the index in deferred of the position to be jitted next
  block       \* by address: where the code of an instruction is, how long it
              \* is and, for a transfer, the native address it goes to

jitVars == <<prog, phase, vm, arch, va2aa, deferred, next, block>>

\* undefined: jit_deferred met a transfer that it has to defer again, and so
\* appends to the vector that it is iterating over.
Phase == {"start", "program", "deferred", "done", "undefined"}

Unmapped == -1      \* as_arch_addr's answer for an address not met

JitInit ==
  /\ prog \in Programs
  /\ phase = "start"
  /\ vm = SYS_ENTER_ADDR
  /\ arch = 0
  /\ va2aa = [a \in {} |-> Unmapped] /\ block = va2aa
  /\ deferred = <<>> /\ next = 1
-----------------------------------------------------------------------------
as_arch_addr(map, a) == IF a \in DOMAIN map THEN map[a] ELSE Unmapped

\* (Mutant of Recorded: the mapping is recorded after a byte was emitted.)
Recorded_Late == [a \in DOMAIN va2aa \cup {vm} |-> IF a = vm THEN arch + 1 ELSE va2aa[a]]

\* record_addr_mapping, at jpos.
Recorded == [a \in DOMAIN va2aa \cup {vm} |-> IF a = vm THEN arch ELSE va2aa[a]]

\* The address that the transfer i goes to, for the mapping map.
Goes(i, map) == IF i.op \in BranchOp THEN as_arch_addr(map, i.tgt) ELSE Unmapped

\* (Mutants of Defers: only the unconditional transfers are deferred; the stub is
\* not taken for an instruction.)
Defers_Unconditional(i, map) == i.op \in {"CALL", "JMP"} /\ i.tgt \notin DOMAIN map
Defers_Stub(i, map) ==
  i.op \in BranchOp /\ (i.tgt \notin DOMAIN map \/ i.tgt = SYS_ENTER_ADDR)

\* DEFER_JIT_AND_RESERVE_SLOTS is for a transfer whose target is not mapped.
Defers(i, map) == i.op \in BranchOp /\ i.tgt \notin DOMAIN map

\* (Mutant of BlockLen: the slots are reserved besides the code.)
BlockLen_Both(i, d) == IF d THEN Slots(i) + Size(i) ELSE Size(i)

\* The bytes that the instruction i takes, whether or not it is deferred.
BlockLen(i, d) == IF d THEN Slots(i) ELSE Size(i)

\* (Mutant of emit_prologue: jpos.vm stays at the instruction of the stub.)
emit_prologue_Stays ==
  /\ phase = "start"
  /\ phase' = "program"
  /\ arch' = Prologue
  /\ va2aa' = [a \in {vm} |-> StubAt]
  /\ UNCHANGED <<prog, vm, deferred, next, block>>

\* jit up to jit_program: the stub is recorded as the code of address 0, whose
\* instruction is passed over.
emit_prologue ==
  /\ phase = "start"
  /\ phase' = "program"
  /\ vm' = vm + 9
  /\ arch' = Prologue
  /\ va2aa' = [a \in {vm} |-> StubAt]
  /\ UNCHANGED <<prog, deferred, next, block>>

\* One round of jit_program's loop: the mapping is recorded and the instruction
\* at jpos is jitted, or deferred.
jit_vm_instruction ==
  LET i   == prog.code[vm]
      d   == Defers(i, Recorded)
      len == BlockLen(i, d)
      b   == [at |-> arch, len |-> len, to |-> Goes(i, Recorded)]
  IN  /\ phase = "program" /\ vm < prog.size
      /\ va2aa' = Recorded
      /\ block' = [a \in DOMAIN block \cup {vm} |-> IF a = vm THEN b ELSE block[a]]
      /\ deferred' = IF d THEN Append(deferred, [arch |-> arch, vm |-> vm]) ELSE deferred
      /\ vm' = vm + InstrLen(i)
      /\ arch' = arch + len
      /\ UNCHANGED <<prog, phase, next>>

\* The loop ends and jit_deferred saves jpos, which vm and arch keep.
end_program ==
  /\ phase = "program" /\ vm >= prog.size
  /\ phase' = "deferred"
  /\ UNCHANGED <<prog, vm, arch, va2aa, deferred, next, block>>

\* jit_vm_instruction again, at the next of the deferred positions.
jit_deferred ==
  LET jp == deferred[next]
      i  == prog.code[jp.vm]
  IN  /\ phase = "deferred" /\ next <= Len(deferred)
      /\ IF Defers(i, va2aa)
         THEN phase' = "undefined" /\ UNCHANGED <<next, block>>
         ELSE /\ block' = [block EXCEPT ![jp.vm].at = jp.arch, ![jp.vm].to = Goes(i, va2aa)]
              /\ next' = next + 1
              /\ UNCHANGED phase
      /\ UNCHANGED <<prog, vm, arch, va2aa, deferred>>

\* (Mutant of emit_guard: it waits for a deferred position that was jitted.)
emit_guard_Waits ==
  /\ phase = "deferred" /\ next = Len(deferred)
  /\ phase' = "done"
  /\ arch' = arch + Guard
  /\ UNCHANGED <<prog, vm, va2aa, deferred, next, block>>

\* jpos is restored and the exit call follows the program.
emit_guard ==
  /\ phase = "deferred" /\ next > Len(deferred)
  /\ phase' = "done"
  /\ arch' = arch + Guard
  /\ UNCHANGED <<prog, vm, va2aa, deferred, next, block>>

JitNext == emit_prologue \/ jit_vm_instruction \/ end_program \/ jit_deferred \/ emit_guard

JitSpec == JitInit /\ [][JitNext]_jitVars
FairJitSpec == JitSpec /\ WF_jitVars(JitNext)
-----------------------------------------------------------------------------
Body     == DOMAIN prog.code \ {SYS_ENTER_ADDR}
Transfer == {a \in Body : prog.code[a].op \in BranchOp}

\* The variables of the translator and the shape of what it emits.
JitTypeOK ==
  /\ prog \in Programs /\ phase \in Phase
  /\ vm \in Nat /\ arch \in Nat /\ next \in Nat
  /\ DOMAIN va2aa \subseteq DOMAIN prog.code
  /\ \A a \in DOMAIN va2aa : va2aa[a] \in Nat
  /\ deferred \in Seq([arch : Nat, vm : Nat])
  /\ DOMAIN block \subseteq Body
  /\ \A a \in DOMAIN block : block[a] \in [at : Nat, len : Nat, to : Nat \cup {Unmapped}]

\* The blocks lie end to end in the order of the program, so that running off
\* the end of one reaches the next: no two overlap, and code written into
\* reserved slots stays within them.
EndToEnd ==
  \A a \in DOMAIN block :
    LET end == block[a].at + block[a].len
        b   == a + InstrLen(prog.code[a])
    IN  /\ block[a].at = va2aa[a]
        /\ Size(prog.code[a]) <= block[a].len
        /\ IF b \in DOMAIN block THEN block[b].at = end
                                 ELSE b = vm /\ end = arch - (IF phase = "done" THEN Guard ELSE 0)

\* When jit is done every instruction has its block and every transfer of the
\* program, however far ahead its target was, goes to its target's code: none
\* was left as the slots reserved for it.
Linked ==
  phase = "done" =>
    /\ DOMAIN block = Body
    /\ \A a \in Transfer : /\ prog.code[a].tgt \in DOMAIN va2aa
                           /\ block[a].to = va2aa[prog.code[a].tgt]

\* The translator only runs into undefined behaviour on a program with a
\* transfer to an address at which it has no instruction.
UndefinedOnlyDangling ==
  phase = "undefined" => \E a \in Transfer : prog.code[a].tgt \notin DOMAIN prog.code

\* The native code is at most Expansion times the program and a fixed part: what
\* text_mem, whose size nothing checks, has to have room for.
TextBound ==
  arch <= Prologue + Expansion * prog.size + Guard

\* The native code between two addresses of the program is bounded by their distance,
\* and by the prologue too when the lower one is the stub's.
Span(a, b) == Expansion * (b - a) + (IF a = SYS_ENTER_ADDR THEN Prologue ELSE 0)

\* A transfer does not go further in native code than its distance in the program
\* allows. A back end masks the displacement of a conditional branch without a test
\* (a64.cc:694-700): this is how long a program may be for it.
Reach ==
  phase = "done" =>
    \A a \in Transfer :
      LET b == prog.code[a].tgt
          d == block[a].to - block[a].at
      IN  IF a <= b THEN d \in 0 .. Span(a, b) ELSE -d \in 0 .. Span(b, a)

\* Both passes come to an end.
JitEnds == <>(phase \in {"done", "undefined"})
=============================================================================
