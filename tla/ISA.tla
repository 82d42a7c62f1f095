-------------------------------- MODULE ISA --------------------------------
(***************************************************************************)
(* The instruction set of the pcomp virtual machine (src/vm/exe.h), as the  *)
(* three execution engines share it: registers, instructions and their      *)
(* lengths, and the meaning of the arithmetic they perform.                 *)
(*                                                                          *)
(* A 64-bit register holds a number, an address of the program text, an     *)
(* address of the stack, or something the machine gives no promise about.   *)
(* The engines place text and stack at different host addresses, so a value *)
(* carries a tag in the model and two engines agree when tag and value do:  *)
(*   num    an ordinary 64-bit number                                       *)
(*   code   the address of an instruction, as CALL pushes it                *)
(*   stk    a byte offset from the initial SP                               *)
(*   junk   memory never written, or an address computed past the model     *)
(***************************************************************************)
EXTENDS Integers, Sequences, FiniteSets

CONSTANTS
  HalfMod,        \* 2^32 in the code: the modulus of half a register
  StackSpan,      \* how far from the initial SP an offset is tracked, in bytes
  StackDepth,     \* the stack slots that the memory has below the initial SP
  HeapAddrs,      \* numeric addresses, past the text, that memory is kept for
  HostRoom,       \* stack slots that code of the host may need below SP
  Programs,       \* the programs one behaviour of which is to be run
  BitAnd(_, _), BitOr(_, _), BitXor(_, _)     \* on one machine word

WordMod == HalfMod * HalfMod
Word    == 0 .. WordMod - 1

ASSUME WidthAssumption == HalfMod \in Nat /\ HalfMod > 2 /\ HalfMod % 2 = 0
ASSUME StackAssumption == StackSpan \in Nat /\ StackDepth \in Nat /\ HostRoom \in Nat
ASSUME HeapAssumption  == HeapAddrs \subseteq Word
ASSUME BitAssumption   == \A x, y \in Word : /\ BitAnd(x, y) \in Word
                                             /\ BitOr(x, y)  \in Word
                                             /\ BitXor(x, y) \in Word
-----------------------------------------------------------------------------
\* Values.

Num(n)  == [tag |-> "num", val |-> n]
Code(a) == [tag |-> "code", val |-> a]
Junk    == [tag |-> "junk", val |-> 0]

\* An address of the stack; an offset outside the span is not tracked.
Stk(o)  == IF o \in -StackSpan .. StackSpan THEN [tag |-> "stk", val |-> o]
                                            ELSE Junk

\* What a display call writes: the value as the integer it reads it as.
Written == [tag : {"num", "code", "stk", "junk"}, val : Int]

Value == [tag : {"num"}, val : Word] \cup [tag : {"code"}, val : Nat]
           \cup [tag : {"stk"}, val : -StackSpan .. StackSpan] \cup {Junk}

\* An untracked value may turn out to be any number.
MayBe(v, n) == v = Num(n) \/ v = Junk

\* (Mutant of Signed: the register is displayed and compared without its sign.)
Signed_Unsigned(n) == n

\* The number n read as a two's complement integer.
Signed(n) == IF n < WordMod \div 2 THEN n ELSE n - WordMod

\* The word that holds the integer n.
Wrap(n) == n % WordMod
-----------------------------------------------------------------------------
\* Registers. FLAGS and PC are encodable as operands but the instruction set
\* excludes them (doc/vm.md:69); each is a variable of its own in the engines.

GPR == {"R0", "R1", "R2", "R3", "R4", "R5", "R6", "R7", "R8", "R9", "R10", "R11", "R12"}
Reg == GPR \cup {"SP"}

\* FLAGS: no bit set, or the one bit a CMP sets.
Flags == {"NONE", "EQ", "LT", "GT"}
-----------------------------------------------------------------------------
\* Instructions. A record has every field that some instruction uses: imm is the
\* immediate of arithmetic, tgt that of a transfer, an address of the text.

MoveOp   == {"MOV", "ADD", "SUB", "AND", "OR", "XOR"}
CondOp   == {"JMPEQ", "JMPNE", "JMPGT", "JMPLT", "JMPGE", "JMPLE"}
BranchOp == CondOp \cup {"CALL", "JMP"}
Opcode   == MoveOp \cup BranchOp \cup {"LOAD", "STORE", "NOT", "CMP", "PUSH", "POP", "RET"}
Mode     == {"REG", "IMM"}

Instr == [op : Opcode, am : Mode, dst : Reg, src : Reg, idx : Int, imm : Word, tgt : Nat]

InstrLen(i) ==
  CASE i.op \in {"LOAD", "STORE"}         -> 4
    [] i.op \in MoveOp \cup {"CMP"}       -> IF i.am = "REG" THEN 2 ELSE 10
    [] i.op \in {"NOT", "PUSH", "POP"}    -> 2
    [] i.op \in BranchOp                  -> 9
    [] OTHER                              -> 1

\* The address that a CALL names to enter the system; the text starts with a
\* jump there that every program has, and the program proper follows it.
SYS_ENTER_ADDR == 0
FirstAddr      == 9

SYSCALL_VM_EXIT      == 0
SYSCALL_DISPLAY_SINT == 1
SYSCALL_DISPLAY_UINT == 2

\* A program is its size and its instructions by address. They lie end to end
\* from address 0 and the first is the jump to the system.
ProgramOK(p) ==
  /\ p.size \in Nat /\ p.size >= FirstAddr
  /\ DOMAIN p.code \subseteq 0 .. p.size - 1
  /\ SYS_ENTER_ADDR \in DOMAIN p.code
  /\ p.code[SYS_ENTER_ADDR].op = "JMP"
  /\ \A a \in DOMAIN p.code :
        /\ p.code[a] \in Instr
        /\ a + InstrLen(p.code[a]) \in DOMAIN p.code \cup {p.size}
        /\ \A b \in DOMAIN p.code : a < b => a + InstrLen(p.code[a]) <= b

ASSUME ProgramAssumption == \A p \in Programs : ProgramOK(p)
-----------------------------------------------------------------------------
\* Arithmetic of the handlers, on tagged values.

Both(tag, v, w) == v.tag = tag /\ w.tag = tag

\* (Mutant of Offset: the sum is wider than a register.)
Offset_Unwrapped(v, d) == IF v.tag = "num" THEN Num(v.val + d) ELSE Junk

\* The address d bytes away from v.
Offset(v, d) ==
  CASE v.tag = "num" -> Num(Wrap(v.val + d))
    [] v.tag = "stk" -> Stk(v.val + d)
    [] OTHER         -> Junk

Plus(v, w) ==
  CASE w.tag = "num" -> Offset(v, Signed(w.val))
    [] v.tag = "num" -> Offset(w, Signed(v.val))
    [] OTHER         -> Junk

Minus(v, w) ==
  CASE w.tag = "num"      -> Offset(v, -Signed(w.val))
    [] Both("stk", v, w)  -> Num(Wrap(v.val - w.val))
    [] OTHER              -> Junk

Bits(Op(_, _), v, w) == IF Both("num", v, w) THEN Num(Op(v.val, w.val)) ELSE Junk
Invert(v)           == IF v.tag = "num" THEN Num(WordMod - 1 - v.val) ELSE Junk

\* No address is one of the numbers below the program proper.
Apart(v, w) == v.tag \in {"code", "stk"} /\ w.tag = "num" /\ w.val < FirstAddr

\* The flags that comparing v with w may set: the signed order of two numbers
\* or of two stack addresses, and any when the machine gives no promise.
Order(m, n) == IF m < n THEN "LT" ELSE IF m > n THEN "GT" ELSE "EQ"

Compare(v, w) ==
  CASE Both("num", v, w)            -> {Order(Signed(v.val), Signed(w.val))}
    [] Both("stk", v, w)            -> {Order(v.val, w.val)}
    [] Apart(v, w) \/ Apart(w, v)   -> {"LT", "GT"}
    [] OTHER                        -> {"LT", "GT", "EQ"}

\* The flags under which a conditional jump is taken.
Holds == [JMPEQ |-> {"EQ"}, JMPNE |-> {"NONE", "LT", "GT"}, JMPGT |-> {"GT"},
          JMPLT |-> {"LT"}, JMPGE |-> {"GT", "EQ"}, JMPLE |-> {"LT", "EQ"}]

\* The second operand of instruction i in the register file regs.
Source(i, regs) == IF i.am = "IMM" THEN Num(i.imm) ELSE regs[i.src]

\* What the instruction i of MoveOp, or NOT, leaves in its first operand.
Result(i, regs) ==
  LET v == regs[i.dst]
      w == Source(i, regs)
  IN  CASE i.op = "MOV" -> w
        [] i.op = "ADD" -> Plus(v, w)
        [] i.op = "SUB" -> Minus(v, w)
        [] i.op = "AND" -> Bits(BitAnd, v, w)
        [] i.op = "OR"  -> Bits(BitOr, v, w)
        [] i.op = "XOR" -> Bits(BitXor, v, w)
        [] i.op = "NOT" -> Invert(v)

\* What a display call writes for v.
Shown(id, v) == IF id = SYSCALL_DISPLAY_SINT /\ v.tag = "num"
                THEN [v EXCEPT !.val = Signed(@)] ELSE v
-----------------------------------------------------------------------------
\* Memory: the stack slots below the initial SP and the heap cells, one 64-bit
\* value each. A program that reads or writes anywhere else leaves the model.

Loc == {Stk(-8 * k) : k \in 1 .. StackDepth} \cup {Num(a) : a \in HeapAddrs}
=============================================================================
