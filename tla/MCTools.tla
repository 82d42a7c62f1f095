------------------------------ MODULE MCTools ------------------------------
(***************************************************************************)
(* The assembler and the disassembler on short sources: labels and          *)
(* transfers in all orders, and every kind of instruction with operands at  *)
(* the ends of their ranges.                                                *)
(***************************************************************************)
EXTENDS Tools, TestPrograms

MCLabelOrder ==
  <<High("$f"), SysEnterLabel, Caps(Low(".x")), Low(".l1"), Low(".x"), Caps(High("a")),
    High("a"), High("b")>>

Line(l) == <<LabelLine(l)>>

\* Labels, one of them with $ and one with capitals, and transfers to them and to an
\* instruction by its number; then labels and transfers that fewer sources have.
LabelParts ==
  {L("a"), L("b"), LL(".x"), L("$f"), Line(Caps(High("a"))), <<J("JMP", "a")>>,
   <<JL("CALL", ".x")>>, <<J("JMPEQ", "b")>>, <<JA("JMPGE", 9)>>, <<RET>>}
MoreParts  ==
  LabelParts \cup {Line(Caps(Low(".x"))), <<J("JMPNE", "$f")>>, <<JA("JMP", 10)>>}

\* A low-level label under each of two high-level ones.
Scopes ==
  {L(h) \o p \o LL(".x") \o <<t>> \o L(g) \o q \o LL(".x") \o <<u, J("JMP", h)>> :
     h \in {"a", "b"}, g \in {"a", "b", "$f"}, p, q \in {<<>>, <<RET>>},
     t, u \in {JL("JMPLT", ".x"), J("JMPGT", "b"), RET}}

Operands ==
  {RI(op, "R1", n) : op \in ArithOp, n \in {-129, -128, -1, 0, 7, 127, 128, 255, 256}}
    \cup {RR(op, d, s) : op \in ArithOp, d, s \in {"R0", "R12", "SP"}}
    \cup {LD(d, "R2", x) : d \in {"R1", "SP"}, x \in {-33, -32, -1, 0, 31, 32}}
    \cup {ST("R2", x, s) : s \in {"R1", "SP"}, x \in {-33, -32, -1, 0, 31, 32}}
    \cup {R(op, d) : op \in OneRegOp, d \in {"R0", "R11", "SP"}}
    \cup {JA(op, n) : op \in BranchOp, n \in {-1, 0, 9, 255, 256}}
    \cup {J(op, "a") : op \in BranchOp} \cup {RET}

\* A label at the address that is the last word, and one behind it.
Far ==
  {<<J("JMP", "b")>> \o [k \in 1 .. 23 |-> RI("MOV", "R1", k)] \o [k \in 1 .. n |-> RET]
     \o L("b") \o <<RET>> : n \in {7, 8}}

MCSources ==
  {FlattenSeq(s) : s \in BoundedSeq(LabelParts, 4) \cup BoundedSeq(MoreParts, 3)} \cup Scopes \cup Far
    \cup {L("a") \o <<i, RET>> : i \in Operands}

StoreSources == {<<ST("SP", x, "R1"), j>> : x \in {-8, 0, 8}, j \in Operands}
=============================================================================
