---------------------------- MODULE TestPrograms ----------------------------
(***************************************************************************)
(* Programs to run the engines on, written as their sources are and put     *)
(* through the assembler of module Asm: those of src/tests/data/jit/in and  *)
(* src/tests/data/vm/in with smaller numbers and fewer repetitions, and     *)
(* programs no test has. The module also gives the bit operations their     *)
(* meaning for TLC.                                                         *)
(***************************************************************************)
EXTENDS Asm, Bitwise

AndOp(x, y) == x & y
OrOp(x, y)  == x | y
XorOp(x, y) == x ^^ y
-----------------------------------------------------------------------------
Blank == [op |-> "RET", am |-> "REG", dst |-> "R0", src |-> "R0",
          idx |-> 0, imm |-> 0, tgt |-> 0]

Plain(i) == InstrLine(i, NoLabel)

\* dst, src; dst, immediate; one register; memory; transfers by label and by
\* address; labels.
RR(op, d, s)  == Plain([Blank EXCEPT !.op = op, !.dst = d, !.src = s])
RI(op, d, n)  == Plain([Blank EXCEPT !.op = op, !.am = "IMM", !.dst = d, !.imm = n])
R(op, d)      == Plain([Blank EXCEPT !.op = op, !.dst = d])
LD(d, s, x)   == Plain([Blank EXCEPT !.op = "LOAD", !.dst = d, !.src = s, !.idx = x])
ST(d, x, s)   == Plain([Blank EXCEPT !.op = "STORE", !.dst = d, !.src = s, !.idx = x])
J(op, l)      == InstrLine([Blank EXCEPT !.op = op, !.am = "IMM"], High(l))
JL(op, l)     == InstrLine([Blank EXCEPT !.op = op, !.am = "IMM"], Low(l))
JA(op, a)     == Plain([Blank EXCEPT !.op = op, !.am = "IMM", !.tgt = a])
L(l)          == <<LabelLine(High(l))>>
LL(l)         == <<LabelLine(Low(l))>>
RET           == Plain(Blank)

PushImm(r, n) == <<RI("MOV", r, n), R("PUSH", r)>>
CallSys(r, n) == PushImm(r, n) \o <<J("CALL", "$sys_enter")>>
ExitCall      == CallSys("R0", SYSCALL_VM_EXIT)
ShowInt(r)    == <<R("PUSH", r)>> \o CallSys(r, SYSCALL_DISPLAY_SINT)

\* print of 09a-abi, 10a-cond and sign: shows the parameter and clears it.
PrintSub == L("print") \o <<LD("R0", "SP", 8)>> \o ShowInt("R0")
           \o <<RI("ADD", "SP", 16), LD("R0", "SP", -16), R("PUSH", "R0"), RET>>
-----------------------------------------------------------------------------
Empty == assemble(<<>>)

JustExit == assemble(ExitCall)

DisplayBoth == assemble(
  PushImm("R0", -1) \o CallSys("R0", SYSCALL_DISPLAY_SINT)
    \o PushImm("R0", -1) \o CallSys("R0", SYSCALL_DISPLAY_UINT) \o ExitCall)

BranchTest == assemble(
  <<J("JMP", "display_minus_one")>>
    \o L("display_one") \o PushImm("R0", 1) \o CallSys("R0", SYSCALL_DISPLAY_SINT)
    \o L("exit") \o ExitCall
    \o L("display_minus_one") \o PushImm("R0", -1) \o CallSys("R0", SYSCALL_DISPLAY_SINT)
    \o <<J("JMP", "display_one")>>)

StackTest == assemble(
  <<RI("MOV", "R0", 1), RI("MOV", "R1", 2), R("PUSH", "R0"), R("PUSH", "R1"),
    R("POP", "R0"), R("POP", "R1")>> \o ShowInt("R0") \o ShowInt("R1") \o ExitCall)

MathTest == assemble(
  <<RI("MOV", "R1", 1), RI("MOV", "R2", 2), RR("ADD", "R1", "R2"), RI("ADD", "R1", 3)>>
    \o ShowInt("R1")
    \o <<RI("MOV", "R1", 1), RI("MOV", "R2", 2), RR("SUB", "R1", "R2"), RI("SUB", "R1", 3)>>
    \o ShowInt("R1") \o ExitCall)

LogicTest == assemble(
  <<RI("MOV", "R1", 17), RI("MOV", "R2", 19), RR("AND", "R1", "R2"), RI("AND", "R1", 239)>>
    \o ShowInt("R1")
    \o <<RI("MOV", "R1", 17), RI("MOV", "R2", 2), RR("OR", "R1", "R2"), RI("OR", "R1", 32)>>
    \o ShowInt("R1")
    \o <<RI("MOV", "R1", 34), RI("MOV", "R2", 48), RR("XOR", "R1", "R2"), RI("XOR", "R1", 3)>>
    \o ShowInt("R1") \o <<RI("MOV", "R1", -8), R("NOT", "R1")>> \o ShowInt("R1") \o ExitCall)

MemTest == assemble(
  <<RI("MOV", "R1", 1), RI("MOV", "R2", 2), R("PUSH", "R1"), R("PUSH", "R2"),
    LD("R3", "SP", 8), LD("R4", "SP", 0), RI("ADD", "R3", 2), RI("ADD", "R4", 2),
    ST("SP", 8, "R3"), ST("SP", 0, "R4"), R("POP", "R2"), R("POP", "R1")>>
    \o ShowInt("R1") \o ShowInt("R2") \o ExitCall)

AbiTest == assemble(
  PushImm("R0", 1) \o PushImm("R0", 2)
    \o <<J("CALL", "add"), J("CALL", "print"), J("JMP", "exit")>>
    \o L("add") \o <<LD("R0", "SP", 16), LD("R1", "SP", 8), RR("ADD", "R0", "R1")>>
    \o LL(".return") \o <<RI("ADD", "SP", 24), R("PUSH", "R0"), LD("R0", "SP", -16),
                          R("PUSH", "R0"), RET>>
    \o PrintSub \o L("exit") \o ExitCall)

\* One test of 10a-cond: show n when the comparison with m makes op jump.
CondCase(op, n, m, l) ==
  <<RI("MOV", "R0", n), RI("CMP", "R0", m), J(op, l \o ".ok"), J("JMP", l \o ".no")>>
    \o L(l \o ".ok") \o <<R("PUSH", "R0"), J("CALL", "print")>> \o L(l \o ".no")

CondTest == assemble(
  CondCase("JMPEQ", 1, 1, "l1") \o CondCase("JMPNE", 2, 1, "l2") \o CondCase("JMPGT", 3, 2, "l3")
    \o CondCase("JMPLT", 4, 5, "l4") \o CondCase("JMPGE", 5, 5, "l5")
    \o CondCase("JMPGE", 6, 5, "l6") \o CondCase("JMPLE", 7, 7, "l7")
    \o CondCase("JMPLE", -8, 7, "l8") \o ExitCall \o PrintSub)

\* MOV, ADD, SUB and CMP of negative and positive immediates.
ShowAfter(lines) == lines \o <<R("PUSH", "R0"), J("CALL", "print")>>

SignTest == assemble(
  <<J("CALL", "mov"), J("CALL", "add"), J("CALL", "sub"), J("CALL", "cmp")>> \o ExitCall
    \o L("mov") \o ShowAfter(<<RI("MOV", "R0", -1)>>) \o ShowAfter(<<RI("MOV", "R0", 1)>>) \o <<RET>>
    \o L("add") \o ShowAfter(<<RI("MOV", "R0", 0), RI("ADD", "R0", -2)>>)
                \o ShowAfter(<<RI("MOV", "R0", 0), RI("ADD", "R0", 2)>>) \o <<RET>>
    \o L("sub") \o ShowAfter(<<RI("MOV", "R0", 0), RI("SUB", "R0", 3)>>)
                \o ShowAfter(<<RI("MOV", "R0", 0), RI("SUB", "R0", -3)>>) \o <<RET>>
    \o L("cmp") \o ShowAfter(<<RI("MOV", "R0", -4), RI("CMP", "R0", 0), JL("JMPGE", ".2nd")>>)
    \o LL(".2nd") \o ShowAfter(<<RI("MOV", "R0", 4), RI("CMP", "R0", 0), JL("JMPLE", ".done")>>)
    \o LL(".done") \o <<RET>>
    \o PrintSub)

\* n! and the nth Fibonacci number as the tests compute them, by recursion.
Factorial(n) == assemble(
  PushImm("R0", n) \o <<J("CALL", "factorial")>> \o CallSys("R0", SYSCALL_DISPLAY_UINT)
    \o ExitCall
    \o L("factorial") \o <<LD("R0", "SP", 8), RI("CMP", "R0", 1), JL("JMPEQ", ".return"),
         R("PUSH", "R0"), RI("SUB", "R0", 1), R("PUSH", "R0"), J("CALL", "factorial"),
         J("CALL", "multiply"), R("POP", "R0")>>
    \o LL(".return") \o <<RI("ADD", "SP", 16), R("PUSH", "R0"), LD("R0", "SP", -8),
         R("PUSH", "R0"), RET>>
    \o L("multiply") \o <<LD("R1", "SP", 16), LD("R2", "SP", 8), RR("CMP", "R2", "R1"),
         JL("JMPLE", ".do_multiply"), RR("MOV", "R3", "R1"), RR("MOV", "R1", "R2"),
         RR("MOV", "R2", "R3")>>
    \o LL(".do_multiply") \o <<RI("MOV", "R0", 0)>>
    \o LL(".loop") \o <<RI("CMP", "R2", 0), JL("JMPEQ", ".return"), RR("ADD", "R0", "R1"),
         RI("SUB", "R2", 1), JL("JMP", ".loop")>>
    \o LL(".return") \o <<RI("ADD", "SP", 24), R("PUSH", "R0"), LD("R0", "SP", -16),
         R("PUSH", "R0"), RET>>)

Fibonacci(n) == assemble(
  PushImm("R0", n) \o <<J("CALL", "fibonacci")>> \o CallSys("R0", SYSCALL_DISPLAY_UINT)
    \o ExitCall
    \o L("fibonacci") \o <<LD("R0", "SP", 8), RI("CMP", "R0", 1), JL("JMPLE", ".return"),
         LD("R0", "SP", 8), RI("SUB", "R0", 1), R("PUSH", "R0"), J("CALL", "fibonacci"),
         LD("R0", "SP", 16), RI("SUB", "R0", 2), R("PUSH", "R0"), J("CALL", "fibonacci"),
         R("POP", "R1"), R("POP", "R2"), RI("MOV", "R0", 0), RR("ADD", "R0", "R1"),
         RR("ADD", "R0", "R2")>>
    \o LL(".return") \o <<RI("ADD", "SP", 16), R("PUSH", "R0"), LD("R0", "SP", -8),
         R("PUSH", "R0"), RET>>)

\* What each program displays, as src/tests/data/*/ref says of the originals.
Showing(ns) == [k \in 1 .. Len(ns) |-> Num(ns[k])]
Expected ==
  {<<Empty, <<>>>>, <<JustExit, <<>>>>, <<DisplayBoth, Showing(<<-1, WordMod - 1>>)>>,
   <<BranchTest, Showing(<<-1, 1>>)>>, <<StackTest, Showing(<<2, 1>>)>>,
   <<MathTest, Showing(<<6, -4>>)>>, <<LogicTest, Showing(<<1, 51, 17, 7>>)>>,
   <<MemTest, Showing(<<3, 4>>)>>, <<AbiTest, Showing(<<3>>)>>,
   <<CondTest, Showing(<<1, 2, 3, 4, 5, 6, 7, -8>>)>>,
   <<SignTest, Showing(<<-1, 1, -2, 2, -3, 3, -4, 4>>)>>,
   <<Factorial(4), Showing(<<24>>)>>, <<Fibonacci(4), Showing(<<3>>)>>}

TestSuite == {e[1] : e \in Expected}
-----------------------------------------------------------------------------
\* All sequences of at most n lines of S, between the labels start and end.
Between(body) == assemble(L("start") \o body \o L("end"))
Family(S, n)  == {Between(body) : body \in BoundedSeq(S, n)}

\* Lines that meet the handlers in states no test reaches: an empty or full
\* stack, SP as an operand, calls of the system without a frame, returns to
\* numbers and to memory never written, the heap, jumps to the end and into an
\* instruction.
StackLines == {R("PUSH", "R1"), R("PUSH", "SP"), R("POP", "R0"), R("POP", "SP"),
               RI("SUB", "SP", 16), RI("MOV", "R0", 1), RI("MOV", "R1", 9),
               LD("R1", "SP", 0), ST("SP", -8, "R0"), LD("R0", "R1", 55), ST("R1", 55, "R0"),
               RET, J("CALL", "$sys_enter"),
               J("CALL", "end"), J("CALL", "start"), J("JMP", "end"), JA("JMP", 11)}

Compares  == {RI("CMP", "R0", 0), RI("CMP", "R0", 1), RI("CMP", "R0", -1), RR("CMP", "SP", "R0")}
Changes   == {RI("MOV", "R0", 128), RI("ADD", "R0", 1), RI("SUB", "R0", 1)}
CondJumps == {J("JMPEQ", "end"), J("JMPNE", "end"), J("JMPGT", "start"),
              J("JMPLT", "end"), J("JMPGE", "end"), J("JMPLE", "start")}
FlagLines == Compares \cup Changes \cup CondJumps

\* One that leaves room for a single value on the stack.
FillStack   == RI("SUB", "SP", 8 * (StackDepth - 1))
StackFamily == Family((StackLines \ {RI("SUB", "SP", 16)}) \cup {FillStack}, 3)

\* A conditional jump on what the register and the flags became before.
FlagFamily == {Between(a \o b \o c \o <<j>>) :
                 a, c \in BoundedSeq(Changes, 1), b \in BoundedSeq(Compares, 1), j \in CondJumps}

\* Transfers backward, forward, to themselves, to the end of the text (where
\* there is an instruction only with a tail) and to an address inside one.
LinkLines == {J("CALL", "mid"), J("JMP", "end"), J("JMPEQ", "start"), J("JMPNE", "end"),
              JA("JMPGT", 10), RI("MOV", "R0", 1)}

LinkFamily == {assemble(L("start") \o b \o L("mid") \o c \o L("end") \o tail) :
                 b, c \in BoundedSeq(LinkLines, 2), tail \in {<<>>, <<RET>>}}
-----------------------------------------------------------------------------
\* Pieces of programs: lines that meet native code in states no test reaches,
\* system calls with and without a parameter or a known ID.
Pieces ==
  {<<l>> : l \in StackLines \cup FlagLines}
    \cup {CallSys("R0", n) : n \in {0, 1, 2, 7}}
    \cup {PushImm("R0", 2), <<R("PUSH", "R0"), R("PUSH", "R1")>>, <<R("POP", "R1"), RET>>}

\* A body between the labels, with an instruction at end and then no more.
Tailed(body) == assemble(L("start") \o body \o L("end") \o <<RI("MOV", "R2", 3)>>)

\* Two pieces, or a system call with something in a register that a back end keeps
\* where the host may overwrite it.
ShortBodies ==
  {Tailed(a \o b) : a, b \in Pieces} \cup {Tailed(<<RI("MOV", "R9", 2)>> \o ShowInt("R9"))}

\* The programs whose transfers go to instructions, and that do not push or pop
\* SP: on others the back ends do something else than the interpreter.
Targeted(p) == \A a \in DOMAIN p.code :
                 p.code[a].op \in BranchOp => p.code[a].tgt \in DOMAIN p.code
KeepsSP(p)  == \A a \in DOMAIN p.code :
                 p.code[a].op \in {"PUSH", "POP"} => p.code[a].dst # "SP"
=============================================================================
