--------------------------------- MODULE VM ---------------------------------
(***************************************************************************)
(* What the virtual machine promises to a program, whichever engine runs    *)
(* it: the abstract specification that the interpreter and the code the JIT *)
(* compilers emit are shown to implement. It leaves open what the engines   *)
(* do differently:                                                          *)
(*   - FLAGS after an instruction that some engine computes with the flags  *)
(*     of the host, and both ways out of a conditional jump without a CMP;  *)
(*   - R0 and the stack below SP after a system call, where the JIT runs    *)
(*     code of the host;                                                    *)
(*   - what follows when the program leaves its text or its memory: status  *)
(*     "wild", about which nothing more is said.                            *)
(***************************************************************************)
EXTENDS ISA

VARIABLES
  prog,     \* the program that is run
  pc,       \* PC
  regs,     \* R0 .. R12 and SP
  flags,    \* FLAGS
  mem,      \* the stack and the heap
  out,      \* what the program displayed
  status    \* how far the execution got

vars == <<prog, pc, regs, flags, mem, out, status>>

Status == {"ready", "running", "exited", "aborted", "wild"}

\* Every variable holds what the code can put there: registers and memory are
\* 64-bit values or addresses the model tracks, FLAGS has one bit at most.
TypeOK ==
  /\ prog \in Programs
  /\ pc \in Nat
  /\ regs \in [Reg -> Value]
  /\ flags \in Flags
  /\ mem \in [Loc -> Value]
  /\ out \in Seq(Written)
  /\ status \in Status

Init ==
  /\ prog \in Programs
  /\ pc = FirstAddr
  /\ regs = [r \in Reg |-> IF r = "SP" THEN Stk(0) ELSE Num(0)]
  /\ flags = "NONE"
  /\ mem = [l \in Loc |-> Junk]
  /\ out = <<>>
  /\ status = "ready"
-----------------------------------------------------------------------------
\* The instruction at pc, for the opcodes ops.
Fetch   == prog.code[pc]
Runs(S) == status = "running" /\ pc \in DOMAIN prog.code /\ Fetch.op \in S
At(ops) == Runs(ops) /\ pc # SYS_ENTER_ADDR
After   == pc + InstrLen(Fetch)
Top     == regs["SP"]

\* Instructions that no engine implements with an operation that sets flags.
KeepsFlags == {"MOV", "NOT", "PUSH", "POP", "CALL", "RET", "JMP"} \cup CondOp

SomeFlags == \/ UNCHANGED flags
             \/ Fetch.op \notin KeepsFlags /\ flags' \in Flags

\* The program goes on at address a.
GoTo(a) == pc' = a /\ status' = "running"

\* The program goes on at the address v that it popped: one that a CALL pushed
\* for certain, a number only in an engine that numbers the text as the VM does.
Resume(v) ==
  \/ v.tag \in {"code", "num"} /\ GoTo(v.val)
  \/ v.tag # "code" /\ status' = "wild" /\ UNCHANGED pc

Wild == status' = "wild" /\ UNCHANGED <<prog, pc, regs, flags, mem, out>>
-----------------------------------------------------------------------------
\* An engine enters the program, or has nothing to do for an empty one.
Begin ==
  /\ status = "ready"
  /\ status' \in {"running"} \cup (IF prog.size <= pc THEN {"exited"} ELSE {})
  /\ UNCHANGED <<prog, pc, regs, flags, mem, out>>

Compute ==
  /\ At(MoveOp \cup {"NOT"})
  /\ regs' = [regs EXCEPT ![Fetch.dst] = Result(Fetch, regs)]
  /\ SomeFlags
  /\ GoTo(After)
  /\ UNCHANGED <<prog, mem, out>>

Load ==
  /\ At({"LOAD"})
  /\ LET l == Offset(regs[Fetch.src], Fetch.idx)
     IN  \/ /\ l \in Loc
            /\ regs' = [regs EXCEPT ![Fetch.dst] = mem[l]]
            /\ SomeFlags
            /\ GoTo(After)
            /\ UNCHANGED <<prog, mem, out>>
         \/ l \notin Loc /\ Wild

Store ==
  /\ At({"STORE"})
  /\ LET l == Offset(regs[Fetch.dst], Fetch.idx)
     IN  \/ /\ l \in Loc
            /\ mem' = [mem EXCEPT ![l] = regs[Fetch.src]]
            /\ SomeFlags
            /\ GoTo(After)
            /\ UNCHANGED <<prog, regs, out>>
         \/ l \notin Loc /\ Wild

Cmp ==
  /\ At({"CMP"})
  /\ flags' \in Compare(regs[Fetch.dst], Source(Fetch, regs))
  /\ GoTo(After)
  /\ UNCHANGED <<prog, regs, mem, out>>

\* SP moves first: PUSH SP stores the SP that points to the value itself.
Push ==
  /\ At({"PUSH"})
  /\ LET l      == Offset(Top, -8)
         pushed == [regs EXCEPT !["SP"] = l]
     IN  \/ /\ l \in Loc
            /\ regs' = pushed
            /\ mem' = [mem EXCEPT ![l] = pushed[Fetch.dst]]
            /\ GoTo(After)
            /\ UNCHANGED <<prog, flags, out>>
         \/ l \notin Loc /\ Wild

\* SP moves last: POP SP leaves 8 more than the value it read.
Pop ==
  /\ At({"POP"})
  /\ \/ /\ Top \in Loc
        /\ regs' = [[regs EXCEPT ![Fetch.dst] = mem[Top]] EXCEPT !["SP"] = Offset(@, 8)]
        /\ GoTo(After)
        /\ UNCHANGED <<prog, flags, mem, out>>
     \/ Top \notin Loc /\ Wild

Call ==
  /\ At({"CALL"})
  /\ LET l == Offset(Top, -8)
     IN  \/ /\ l \in Loc
            /\ regs' = [regs EXCEPT !["SP"] = l]
            /\ mem' = [mem EXCEPT ![l] = Code(After)]
            /\ GoTo(Fetch.tgt)
            /\ UNCHANGED <<prog, flags, out>>
         \/ l \notin Loc /\ Wild

Ret ==
  /\ At({"RET"})
  /\ \/ /\ Top \in Loc
        /\ Resume(mem[Top])
        /\ regs' = [regs EXCEPT !["SP"] = Offset(@, 8)]
        /\ UNCHANGED <<prog, flags, mem, out>>
     \/ Top \notin Loc /\ Wild

Jump ==
  /\ At(CondOp \cup {"JMP"})
  /\ \/ /\ Fetch.op = "JMP" \/ flags \in Holds[Fetch.op] \cup {"NONE"}
        /\ GoTo(Fetch.tgt)
     \/ /\ Fetch.op # "JMP" /\ flags \notin Holds[Fetch.op] \ {"NONE"}
        /\ GoTo(After)
  /\ UNCHANGED <<prog, regs, flags, mem, out>>
-----------------------------------------------------------------------------
\* The system call of the frame at SP: the return address, the ID and the
\* parameters upwards. Code of the host may run, and leave anything, below the
\* frame.

Entered == Runs({"JMP"}) /\ pc = SYS_ENTER_ADDR

Id == Offset(Top, 8)

\* The memory becomes m, but for what lies below the frame.
HostRan(m) ==
  /\ mem' \in [Loc -> Value]
  /\ \A l \in Loc : mem'[l] = m[l] \/ (Both("stk", l, Top) /\ l.val < Top.val)

\* The call leaves n bytes of the stack to the caller; R0 may have held the ID.
Leaves(n, id) ==
  \E v \in {regs["R0"], id} :
     regs' = [regs EXCEPT !["R0"] = v, !["SP"] = Offset(Top, n)]

Exit ==
  /\ Entered /\ Id \in Loc /\ MayBe(mem[Id], SYSCALL_VM_EXIT)
  /\ Leaves(16, mem[Id])
  /\ HostRan(mem)
  /\ status' = "exited"
  /\ UNCHANGED <<prog, pc, flags, out>>

\* The parameter and the ID are cleared and the program resumes after the CALL.
Display(n) ==
  LET parameter == Offset(Top, 16)
  IN  /\ Entered /\ {Top, Id, parameter} \subseteq Loc /\ MayBe(mem[Id], n)
      /\ out' = Append(out, Shown(n, mem[parameter]))
      /\ HostRan([mem EXCEPT ![parameter] = mem[Top]])
      /\ Leaves(24, mem[Id])
      /\ Resume(mem[Top])
      /\ flags' \in Flags
      /\ UNCHANGED prog

\* No call has this ID: the engine reports it and stops the process.
Unsupported ==
  /\ Entered /\ Id \in Loc
  /\ mem[Id] \notin {Num(SYSCALL_VM_EXIT), Num(SYSCALL_DISPLAY_SINT),
                     Num(SYSCALL_DISPLAY_UINT)}
  /\ status' = "aborted"
  /\ UNCHANGED <<prog, pc, regs, flags, mem, out>>

\* The frame, the part of it that the call needs, or the room that code of the
\* host takes below it is not in memory.
NoFrame ==
  /\ Entered
  /\ \/ Id \notin Loc
     \/ /\ mem[Id] # Num(SYSCALL_VM_EXIT)
        /\ \/ ~({Top, Offset(Top, 16)} \subseteq Loc)
           \/ \E k \in 1 .. HostRoom : Offset(Top, -8 * k) \notin Loc
  /\ Wild

Syscall == \/ Exit
           \/ Display(SYSCALL_DISPLAY_SINT)
           \/ Display(SYSCALL_DISPLAY_UINT)
           \/ Unsupported
           \/ NoFrame

\* Past the last instruction an engine makes the exit call for the program, for
\* which it may use R0, or runs what happens to follow; at an address that is no
\* instruction's nothing is promised.
ExitGuard ==
  LET id == Offset(Top, -8)
      ra == Offset(Top, -16)
  IN  /\ pc = prog.size /\ {id, ra} \subseteq Loc
      /\ mem' = [mem EXCEPT ![id] = Num(SYSCALL_VM_EXIT), ![ra] = Junk]
      /\ \E v \in {regs["R0"], Num(SYSCALL_VM_EXIT)} :
           regs' = [regs EXCEPT !["R0"] = v, !["SP"] = ra]
      /\ GoTo(SYS_ENTER_ADDR)
      /\ UNCHANGED <<prog, flags, out>>

LeaveText == status = "running" /\ pc \notin DOMAIN prog.code /\ (ExitGuard \/ Wild)

Next == \/ Begin \/ Compute \/ Load \/ Store \/ Cmp \/ Push \/ Pop
        \/ Call \/ Ret \/ Jump \/ Syscall \/ LeaveText

Spec == Init /\ [][Next]_vars
=============================================================================
