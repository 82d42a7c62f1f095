---------------------------- MODULE Interpreter ----------------------------
(***************************************************************************)
(* The interpreter, src/vm/int.cc: one action per label of exec_program,    *)
(* each the whole handler up to its DISPATCH. The variables are those of VM *)
(* (reg[PC] is pc, reg[FLAGS] is flags with at most one bit set, the rest   *)
(* of reg is regs, what cout receives is out), so that the specification    *)
(* this one implements is simply Spec of VM.                                *)
(***************************************************************************)
EXTENDS VM

\* The first reads of a handler: idd.dst and the second operand.
Dst == regs[Fetch.dst]
Src == Source(Fetch, regs)

Handles(op) == Runs({op})

DISPATCH(offset) == pc' = pc + offset /\ UNCHANGED status

Branch(taken) == IF taken THEN pc' = Fetch.tgt /\ UNCHANGED status ELSE DISPATCH(9)

Assign(r, v) == regs' = [regs EXCEPT ![r] = v]

\* An access to bytes that are neither stack nor heap of the model.
Stray(l) == l \notin Loc /\ Wild
-----------------------------------------------------------------------------
\* exec_program up to the first DISPATCH.
exec_program ==
  /\ status = "ready"
  /\ status' = IF prog.size <= pc THEN "exited" ELSE "running"
  /\ UNCHANGED <<prog, pc, regs, flags, mem, out>>

load ==
  /\ Handles("LOAD")
  /\ LET l == Offset(regs[Fetch.src], Fetch.idx)
     IN  \/ l \in Loc /\ Assign(Fetch.dst, mem[l]) /\ DISPATCH(4)
                      /\ UNCHANGED <<prog, flags, mem, out>>
         \/ Stray(l)

store ==
  /\ Handles("STORE")
  /\ LET l == Offset(regs[Fetch.dst], Fetch.idx)
     IN  \/ l \in Loc /\ mem' = [mem EXCEPT ![l] = regs[Fetch.src]] /\ DISPATCH(4)
                      /\ UNCHANGED <<prog, regs, flags, out>>
         \/ Stray(l)

\* mov, add, sub, and, or, xor: the switch on the access mode, then DISPATCH.
Operate(op, v) ==
  /\ Handles(op)
  /\ Assign(Fetch.dst, v)
  /\ DISPATCH(IF Fetch.am = "REG" THEN 2 ELSE 10)
  /\ UNCHANGED <<prog, flags, mem, out>>

mov == Operate("MOV", Src)
add == Operate("ADD", Plus(Dst, Src))
sub == Operate("SUB", Minus(Dst, Src))
and == Operate("AND", Bits(BitAnd, Dst, Src))
or  == Operate("OR", Bits(BitOr, Dst, Src))
xor == Operate("XOR", Bits(BitXor, Dst, Src))

not ==
  /\ Handles("NOT")
  /\ Assign(Fetch.dst, Invert(Dst)) /\ DISPATCH(2)
  /\ UNCHANGED <<prog, flags, mem, out>>

cmp ==
  /\ Handles("CMP")
  /\ flags' \in Compare(Dst, Src)
  /\ DISPATCH(IF Fetch.am = "REG" THEN 2 ELSE 10)
  /\ UNCHANGED <<prog, regs, mem, out>>

\* (Mutant of push: SP is decremented after the read of the register.)
push_ReadFirst ==
  /\ Handles("PUSH")
  /\ LET l == Offset(Top, -8)
     IN  \/ l \in Loc /\ Assign("SP", l)
                      /\ mem' = [mem EXCEPT ![l] = Dst] /\ DISPATCH(2)
                      /\ UNCHANGED <<prog, flags, out>>
         \/ Stray(l)

\* reg[SP] -= 8, then the store of reg[dst] as it is by then.
push ==
  /\ Handles("PUSH")
  /\ LET l == Offset(Top, -8)
     IN  \/ l \in Loc /\ Assign("SP", l)
                      /\ mem' = [mem EXCEPT ![l] = regs'[Fetch.dst]] /\ DISPATCH(2)
                      /\ UNCHANGED <<prog, flags, out>>
         \/ Stray(l)

\* The read into reg[dst], then reg[SP] += 8 of SP as it is by then.
pop ==
  /\ Handles("POP")
  /\ \/ Top \in Loc /\ regs' = [[regs EXCEPT ![Fetch.dst] = mem[Top]]
                                  EXCEPT !["SP"] = Offset(@, 8)]
                    /\ DISPATCH(2)
                    /\ UNCHANGED <<prog, flags, mem, out>>
     \/ Stray(Top)

call ==
  /\ Handles("CALL")
  /\ LET l == Offset(Top, -8)
     IN  \/ l \in Loc /\ Assign("SP", l)
                      /\ mem' = [mem EXCEPT ![l] = Code(pc + 9)]
                      /\ pc' = Fetch.tgt
                      /\ UNCHANGED <<prog, flags, out, status>>
         \/ Stray(l)

\* (Mutant of PopPC: the dispatch after a RET adds the length of a CALL.)
PopPC_Skips(v) == IF v.tag \in {"code", "num"} THEN pc' = v.val + 9 /\ UNCHANGED status
                                               ELSE UNCHANGED pc /\ status' = "wild"

\* reg[PC] becomes the value v; a dispatch through an address that is not one
\* of the text is runaway execution.
PopPC(v) == IF v.tag \in {"code", "num"} THEN pc' = v.val /\ UNCHANGED status
                                         ELSE UNCHANGED pc /\ status' = "wild"

ret ==
  /\ Handles("RET")
  /\ \/ Top \in Loc /\ PopPC(mem[Top]) /\ Assign("SP", Offset(Top, 8))
                    /\ UNCHANGED <<prog, flags, mem, out>>
     \/ Stray(Top)
-----------------------------------------------------------------------------
\* The handler of JMP. At SYS_ENTER_ADDR it reads the ID at SP + 8 and either
\* returns from exec_program or calls sys_enter and goes on at the label _ret.

AtSysEnter == Handles("JMP") /\ pc = SYS_ENTER_ADDR
SyscallId  == Offset(Top, 8)

jmp ==
  /\ Handles("JMP") /\ pc # SYS_ENTER_ADDR
  /\ Branch(TRUE)
  /\ UNCHANGED <<prog, regs, flags, mem, out>>

vm_exit ==
  /\ AtSysEnter /\ SyscallId \in Loc /\ MayBe(mem[SyscallId], SYSCALL_VM_EXIT)
  /\ Assign("SP", Offset(Top, 16))
  /\ status' = "exited"
  /\ UNCHANGED <<prog, pc, flags, mem, out>>

\* (Mutant of sys_enter: SP passes the ID and not the parameter.)
sys_enter_LeavesParameter(id) ==
  /\ AtSysEnter /\ {SyscallId, Top, Offset(Top, 16)} \subseteq Loc /\ MayBe(mem[SyscallId], id)
  /\ out' = Append(out, Shown(id, mem[Offset(Top, 16)]))
  /\ PopPC(mem[Top]) /\ Assign("SP", Offset(Top, 16)) /\ UNCHANGED <<prog, flags, mem>>

\* sys_enter for a display call, then _ret: the return address is moved onto
\* the parameter, SP passes it and the ID, and the address is popped from there.
sys_enter(id) ==
  /\ AtSysEnter /\ SyscallId \in Loc /\ MayBe(mem[SyscallId], id)
  /\ LET parameter == Offset(Top, 16)
     IN  \/ /\ {Top, parameter} \subseteq Loc
            /\ out' = Append(out, Shown(id, mem[parameter]))
            /\ mem' = [mem EXCEPT ![parameter] = mem[Top]]
            /\ PopPC(mem'[parameter])
            /\ Assign("SP", Offset(Top, 16 + 8))
            /\ UNCHANGED <<prog, flags>>
         \/ ~({Top, parameter} \subseteq Loc) /\ Wild

sys_enter_abort ==
  /\ AtSysEnter /\ SyscallId \in Loc
  /\ \A n \in {SYSCALL_VM_EXIT, SYSCALL_DISPLAY_SINT, SYSCALL_DISPLAY_UINT} :
        mem[SyscallId] # Num(n)
  /\ status' = "aborted"
  /\ UNCHANGED <<prog, pc, regs, flags, mem, out>>

no_frame == AtSysEnter /\ Stray(SyscallId)

jcc(op, bits) ==
  /\ Handles(op)
  /\ Branch(flags \in bits)
  /\ UNCHANGED <<prog, regs, flags, mem, out>>

jmpeq == jcc("JMPEQ", {"EQ"})
jmpne == jcc("JMPNE", Flags \ {"EQ"})
jmpgt == jcc("JMPGT", {"GT"})
jmplt == jcc("JMPLT", {"LT"})
jmpge == jcc("JMPGE", {"GT", "EQ"})
jmple == jcc("JMPLE", {"LT", "EQ"})

\* Bytes past the program, or inside an instruction, are executed as they are.
runaway == status = "running" /\ pc \notin DOMAIN prog.code /\ Wild
-----------------------------------------------------------------------------
Handler ==
  \/ load \/ store \/ mov \/ add \/ sub \/ and \/ or \/ xor \/ not \/ cmp
  \/ push \/ pop \/ call \/ ret \/ jmp
  \/ jmpeq \/ jmpne \/ jmpgt \/ jmplt \/ jmpge \/ jmple

SysEnter == \/ vm_exit \/ sys_enter_abort \/ no_frame
            \/ sys_enter(SYSCALL_DISPLAY_SINT)
            \/ sys_enter(SYSCALL_DISPLAY_UINT)

IntNext == exec_program \/ Handler \/ SysEnter \/ runaway

IntSpec == Init /\ [][IntNext]_vars

\* The handlers follow one another in one thread that nothing suspends.
FairIntSpec == IntSpec /\ WF_vars(IntNext)
=============================================================================
