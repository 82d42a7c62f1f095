------------------------------- MODULE Tools -------------------------------
(***************************************************************************)
(* tools/asm.py and tools/disasm.py, one after the other as                 *)
(* tests/bin/tasmroundtrip.py runs them: a source file becomes bytes and a  *)
(* file of labels, and these become a source file again. The second tool    *)
(* may be run without the labels, and then makes up its own.                *)
(*                                                                          *)
(* A byte of an opcode or of two registers is its number; the bytes of an   *)
(* immediate are digits, least significant first.                           *)
(***************************************************************************)
EXTENDS Asm

CONSTANTS
  Sources,        \* source files, each a sequence of the lines of module Asm
  LabelOrder,     \* every label, as Python compares the strings they are
  ByteMod,        \* 256 in the code: the modulus of one of an immediate's 8 bytes
  IdxByteMod      \* 256 in the code: the modulus of one of a displacement's 2 bytes

\* The powers of m.
Power(m) == LET p[n \in Nat] == IF n = 0 THEN 1 ELSE m * p[n - 1]
            IN  p

ASSUME ByteAssumption    == ByteMod \in Nat \ {0, 1} /\ Power(ByteMod)[8] = WordMod
ASSUME IdxByteAssumption == IdxByteMod \in Nat \ {0} /\ IdxByteMod % 2 = 0
-----------------------------------------------------------------------------
\* asmspec.py: what the enumerations' members are numbered from 1 and from 0.

Instruction == <<"LOAD", "STORE", "MOV", "ADD", "SUB", "AND", "OR", "XOR", "NOT", "CMP",
                 "PUSH", "POP", "CALL", "RET", "JMP", "JMPEQ", "JMPNE", "JMPGT", "JMPLT",
                 "JMPGE", "JMPLE">>
Register    == <<"R0", "R1", "R2", "R3", "R4", "R5", "R6", "R7", "R8", "R9", "R10", "R11",
                 "R12", "FLAGS", "SP", "PC">>
AccessMode  == <<"REG", "IMM", "REG_IDX">>

Place(s, x) == CHOOSE k \in DOMAIN s : s[k] = x

MemoryOp    == {"LOAD", "STORE"}
OneRegOp    == {"NOT", "PUSH", "POP"}
UnsignedOp  == {"AND", "OR", "XOR"}
ArithOp     == MoveOp \cup {"CMP"}

am(i) == IF i.op \in MemoryOp THEN "REG_IDX"
         ELSE IF i.op \in BranchOp \/ (i.op \in ArithOp /\ i.am = "IMM") THEN "IMM" ELSE "REG"

\* (Mutant of InBytes: a signed encoding for all.)
InBytes_Signed(n, m, signed) == n \in -(m \div 2) .. m - 1

\* What a source may say. An instruction has the default in every field that its form
\* does not have, and only a transfer has a label, in the place of an address.
Labels == Range(LabelOrder)

Plainest(i) ==
  /\ i.am = IF am(i) = "IMM" THEN "IMM" ELSE "REG"
  /\ i.op \in BranchOp \cup {"RET"} => i.dst = "R0"
  /\ i.op \in MemoryOp \/ (i.op \in ArithOp /\ i.am = "REG") \/ i.src = "R0"
  /\ i.op \in MemoryOp \/ i.idx = 0
  /\ (i.op \in ArithOp /\ i.am = "IMM") \/ i.imm = 0
  /\ i.op \in BranchOp \/ i.tgt = 0

LabelLines == [kind : {"label"}, label : Labels]
InstrLines ==
  {l \in [kind : {"instr"}, label : Labels \cup {NoLabel},
          instr : [op : Opcode, am : Mode, dst : Reg, src : Reg,
                   idx : Int, imm : Int, tgt : Int]] :
     /\ Plainest(l.instr)
     /\ l.label # NoLabel => l.instr.op \in BranchOp /\ l.instr.tgt = 0}

ASSUME SourceAssumption == \A s \in Sources : s \in Seq(LabelLines \cup InstrLines)
ASSUME LabelAssumption  ==
  /\ LabelOrder \in Seq([name : STRING, low : BOOLEAN, caps : BOOLEAN])
  /\ SysEnterLabel \in Labels /\ NoLabel \notin Labels
-----------------------------------------------------------------------------
\* Encoding.

\* What int.to_bytes accepts: a negative integer only for a signed encoding.
InBytes(n, m, signed) == n \in (IF signed THEN -(m \div 2) .. m \div 2 - 1 ELSE 0 .. m - 1)

Encodable(i) ==
  CASE i.op \in MemoryOp                -> InBytes(i.idx, Power(IdxByteMod)[2], TRUE)
    [] i.op \in BranchOp                -> InBytes(i.tgt, WordMod, FALSE)
    [] i.op \in ArithOp /\ i.am = "IMM" ->
         InBytes(i.imm, WordMod, i.op \notin UnsignedOp /\ i.imm < 0)
    [] OTHER                            -> TRUE

\* The n bytes of an integer, by their modulus m.
gen_i(imm, n, m) ==
  [k \in 1 .. n |-> ((imm % Power(m)[n]) \div Power(m)[k - 1]) % m]

gen_opcode(i) == 4 * Place(Instruction, i.op) + Place(AccessMode, am(i)) - 1

\* (Mutant of gen_rr: the source comes first.)
gen_rr_Swapped(dst, src) == 16 * (Place(Register, src) - 1) + Place(Register, dst) - 1

gen_rr(dst, src) == 16 * (Place(Register, dst) - 1) + Place(Register, src) - 1

gen_r(dst)       == 16 * (Place(Register, dst) - 1)

Encoding(i) ==
  <<gen_opcode(i)>> \o
  CASE i.op \in MemoryOp                -> <<gen_rr(i.dst, i.src)>> \o gen_i(i.idx, 2, IdxByteMod)
    [] i.op \in BranchOp                -> gen_i(i.tgt, 8, ByteMod)
    [] i.op \in ArithOp /\ i.am = "IMM" -> <<gen_r(i.dst)>> \o gen_i(i.imm, 8, ByteMod)
    [] i.op \in ArithOp /\ i.am = "REG" -> <<gen_rr(i.dst, i.src)>>
    [] i.op \in OneRegOp                -> <<gen_r(i.dst)>>
    [] i.op = "RET"                     -> <<>>
-----------------------------------------------------------------------------
\* Decoding: what disasm_instruction makes of the bytes b, and how many it takes.

\* The number whose digits to the base m are b.
Number(b, m) ==
  LET v[k \in 0 .. Len(b)] == IF k = 0 THEN 0 ELSE v[k - 1] * m + b[Len(b) + 1 - k]
  IN  v[Len(b)]

\* (Mutant of disasm_imm: a signed encoding for all.)
disasm_imm_Signed(b, m, signed) ==
  LET n == Number(b, m)
  IN  IF n >= Power(m)[Len(b)] \div 2 THEN n - Power(m)[Len(b)] ELSE n

disasm_imm(b, m, signed) ==
  LET n == Number(b, m)
  IN  IF signed /\ n >= Power(m)[Len(b)] \div 2 THEN n - Power(m)[Len(b)] ELSE n

disasm_instruction(b) ==
  LET op   == Instruction[b[1] \div 4]
      mode == AccessMode[(b[1] % 4) + 1]
      dst  == Register[b[2] \div 16 + 1]
      src  == Register[(b[2] % 16) + 1]
      two  == op \in ArithOp \cup MemoryOp
      \* LOAD and STORE, always REG_IDX, have no access mode of theirs in module ISA.
      data(n, d, s, x, v, t) ==
        [len |-> n, instr |-> [op |-> op, am |-> IF mode = "IMM" THEN "IMM" ELSE "REG",
                               dst |-> d, src |-> s, idx |-> x, imm |-> v, tgt |-> t]]
  IN  CASE op = "RET"              -> data(1, "R0", "R0", 0, 0, 0)
        [] op \in OneRegOp         -> data(2, dst, "R0", 0, 0, 0)
        [] op \in BranchOp         ->
             data(9, "R0", "R0", 0, 0, disasm_imm(SubSeq(b, 2, 9), ByteMod, FALSE))
        [] two /\ mode = "REG"     -> data(2, dst, src, 0, 0, 0)
        [] two /\ mode = "IMM"     ->
             data(10, dst, "R0", 0, disasm_imm(SubSeq(b, 3, 10), ByteMod, op \notin UnsignedOp), 0)
        [] two /\ mode = "REG_IDX" ->
             data(4, dst, src, disasm_imm(SubSeq(b, 3, 4), IdxByteMod, TRUE), 0, 0)
-----------------------------------------------------------------------------
VARIABLES
  source,           \* the input of the assembler
  with_labels,      \* whether the disassembler is given the labels file
  phase,            \* what runs: "asm", "disasm", "labels", "dump", "done" or "failed"
  pos,              \* the lines of the source that are assembled
  assembler,        \* the assembler's globals, as in module Asm
  hex,              \* the bytes that the disassembler has not read
  lbl,              \* the lines of the labels file that it has not read, a sorted file
  cur_addr, program, rev_label_addr,     \* the disassembler's globals
  output            \* the source that it writes

vars == <<source, with_labels, phase, pos, assembler, hex, lbl, cur_addr, program,
          rev_label_addr, output>>
disasmVars == <<cur_addr, program, rev_label_addr, output>>

\* An assembler without an answer ends with an exception: a number that does not
\* fit, or a reference to no label.
Fail == phase' = "failed" /\ UNCHANGED <<source, with_labels, pos, assembler, hex, lbl, disasmVars>>

asm_source_line ==
  /\ phase = "asm" /\ pos < Len(source)
  /\ LET line == source[pos + 1]
     IN  \/ /\ line.kind = "instr" => Encodable(line.instr)
            /\ assembler' = asm_line(assembler, line)
            /\ pos' = pos + 1
            /\ UNCHANGED <<source, with_labels, phase, hex, lbl, disasmVars>>
         \/ line.kind = "instr" /\ ~Encodable(line.instr) /\ Fail

\* The references that link cannot resolve: to no label, or to one at an address that is
\* no word.
Undefined(s) == {r \in s.refs : \/ r[2] \notin DOMAIN s.addr
                                \/ ~InBytes(s.addr[r[2]], WordMod, FALSE)}

\* demangle_label's last part of a mangled label.
Demangled(m) == m[Len(m)]

\* (address, label) pairs as Python sorts them.
Before(p, q) == \/ p[1] < q[1]
                \/ p[1] = q[1] /\ Place(LabelOrder, p[2]) < Place(LabelOrder, q[2])
LabelData(s) == {<<s.addr[m], Demangled(m)>> : m \in DOMAIN s.addr}

\* What f has for addresses below n, in their order.
InOrder(f, n) ==
  LET s[a \in 0 .. n] == IF a = 0 THEN <<>>
                         ELSE s[a - 1] \o (IF a - 1 \in DOMAIN f THEN f[a - 1] ELSE <<>>)
  IN  s[n]

Bytes(s) == InOrder([a \in DOMAIN s.code |-> Encoding(s.code[a])], s.size)

\* link, and then the two files are written.
link_and_dump ==
  /\ phase = "asm" /\ pos = Len(source)
  /\ \/ /\ Undefined(assembler) = {}
        /\ assembler' = link(assembler)
        /\ hex' = Bytes(assembler')
        /\ lbl' = LabelData(assembler')
        /\ phase' = "disasm"
        /\ UNCHANGED <<source, with_labels, pos, disasmVars>>
     \/ Undefined(assembler) # {} /\ Fail

disasm_one ==
  /\ phase = "disasm" /\ hex # <<>>
  /\ LET d == disasm_instruction(hex)
     IN  /\ program' = Put(program, cur_addr, d.instr)
         /\ cur_addr' = cur_addr + d.len
         /\ hex' = SubSeq(hex, d.len + 1, Len(hex))
  /\ UNCHANGED <<source, with_labels, phase, pos, assembler, lbl, rev_label_addr, output>>

disasm_end ==
  /\ phase = "disasm" /\ hex = <<>> /\ phase' = "labels"
  /\ UNCHANGED <<source, with_labels, pos, assembler, hex, lbl, disasmVars>>

\* (Mutant of Labelled: an address keeps its first label.)
Labelled_First(labels, a, l) ==
  IF a \in DOMAIN labels THEN labels ELSE Put(labels, a, l)

\* An address takes the last label that the file has for it.
Labelled(labels, a, l) == Put(labels, a, l)

load_label_line ==
  /\ phase = "labels" /\ with_labels /\ lbl # {}
  /\ LET p == CHOOSE q \in lbl : \A r \in lbl \ {q} : Before(q, r)
     IN  /\ rev_label_addr' = Labelled(rev_label_addr, p[1], p[2])
         /\ lbl' = lbl \ {p}
  /\ UNCHANGED <<source, with_labels, phase, pos, assembler, hex, cur_addr, program, output>>

load_label_end ==
  /\ phase = "labels" /\ with_labels /\ lbl = {} /\ phase' = "dump"
  /\ UNCHANGED <<source, with_labels, pos, assembler, hex, lbl, disasmVars>>

\* ".l1", ".l2" and so on.
MadeUp(k) == Low(".l" \o ToString(k))

\* The addresses that transfers name and where there is an instruction.
Targets == {program[a].tgt : a \in {b \in DOMAIN program : program[b].op \in BranchOp}}
             \cap DOMAIN program

compute_label_data ==
  /\ phase = "labels" /\ ~with_labels
  /\ rev_label_addr' = [a \in Targets |-> MadeUp(Cardinality({b \in Targets : b <= a}))]
  /\ phase' = "dump"
  /\ UNCHANGED <<source, with_labels, pos, assembler, hex, lbl, cur_addr, program, output>>

\* The lines for the instruction at a, in lower case. The operand of a transfer is
\* the label of its address and missing when that has none, and a STORE with no
\* displacement lacks a bracket: such a line is torn, and no line of the assembler's.
Shows(a) ==
  LET i      == program[a]
      branch == i.op \in BranchOp
      named  == branch /\ i.tgt \in DOMAIN rev_label_addr
      torn   == (branch /\ ~named) \/ (i.op = "STORE" /\ i.idx = 0)
      line   == InstrLine([i EXCEPT !.tgt = 0],
                          IF named THEN lower(rev_label_addr[i.tgt]) ELSE NoLabel)
  IN  (IF a \in DOMAIN rev_label_addr THEN <<LabelLine(lower(rev_label_addr[a]))>> ELSE <<>>)
        \o <<IF torn THEN [line EXCEPT !.kind = "torn"] ELSE line>>

\* apply_label_data and dump_program.
dump_program ==
  /\ phase = "dump" /\ phase' = "done"
  /\ output' = InOrder([a \in DOMAIN program |-> Shows(a)], cur_addr)
  /\ UNCHANGED <<source, with_labels, pos, assembler, hex, lbl, cur_addr, program, rev_label_addr>>

Init ==
  /\ source \in Sources /\ with_labels \in BOOLEAN
  /\ phase = "asm" /\ pos = 0 /\ assembler = asm_file(AsmStart, SYS_ENTER_ASM)
  /\ hex = <<>> /\ lbl = {}
  /\ cur_addr = 0 /\ program = <<>> /\ rev_label_addr = <<>> /\ output = <<>>

Next == asm_source_line \/ link_and_dump \/ disasm_one \/ disasm_end \/ load_label_line
          \/ load_label_end \/ compute_label_data \/ dump_program

Spec == Init /\ [][Next]_vars /\ WF_vars(Next)
-----------------------------------------------------------------------------
\* The source again, read without the assembler's state.

Whole       == SYS_ENTER_ASM \o source
Refers(k)   == Whole[k].kind = "instr" /\ Whole[k].label # NoLabel
IsLabel(k)  == Whole[k].kind = "label"
IsHigh(k)   == IsLabel(k) /\ ~Whole[k].label.low
Greatest(S) == CHOOSE m \in S : \A n \in S : n <= m

\* Where line k is in the program: behind the instructions of the lines before it.
Lengths(lines) ==
  LET n[k \in 0 .. Len(lines)] ==
        IF k = 0 THEN 0 ELSE n[k - 1] + IF lines[k].kind = "label" THEN 0
                                        ELSE InstrLen(lines[k].instr)
  IN  n
Address(k) == Lengths(Whole)[k - 1]

\* The high-level label that line k is under.
Scope(k) == Whole[Greatest({j \in 1 .. k : IsHigh(j)})].label

\* The lines that define the label l for line k.
Defining(l, k) == {j \in DOMAIN Whole : /\ IsLabel(j) /\ Whole[j].label = l
                                        /\ l.low => Scope(j) = Scope(k)}

\* No 64-bit word is the number of i, or no 16-bit one its displacement. Only AND, OR
\* and XOR take no negative number.
TooWide(i) ==
  \/ i.op \in MemoryOp /\ LET m == IdxByteMod * IdxByteMod
                          IN  2 * i.idx \notin -m .. m - 1
  \/ i.op \in BranchOp /\ i.tgt \notin Word
  \/ i.op \in ArithOp /\ i.am = "IMM" /\ i.imm \notin Word
       /\ (i.op \in UnsignedOp \/ i.imm # Signed(Wrap(i.imm)))

\* The assembler has to refuse the source.
Bad == \/ \E k \in DOMAIN Whole : ~IsLabel(k) /\ TooWide(Whole[k].instr)
       \/ \E k \in DOMAIN Whole :
            Refers(k) /\ LET defs == Defining(lower(Whole[k].label), k)
                         IN  defs = {} \/ Address(Greatest(defs)) \notin Word

\* No label is defined twice or has capitals, and where a high-level and a low-level
\* one share an address, the file has the high-level one last.
Plainly == \A j \in DOMAIN Whole : IsLabel(j) =>
             /\ Defining(Whole[j].label, j) = {j} /\ ~Whole[j].label.caps
             /\ \A k \in DOMAIN Whole :
                  IsHigh(j) /\ IsLabel(k) /\ ~IsHigh(k) /\ Address(j) = Address(k)
                    => Place(LabelOrder, Whole[k].label) < Place(LabelOrder, Whole[j].label)

\* The source is as the disassembler writes: each label on an instruction of its
\* own, transfers to labels, no STORE without displacement, and numbers that are
\* not written as what they are modulo the word.
Canonical ==
  /\ Plainly
  /\ \A k \in DOMAIN Whole :
       IF IsLabel(k) THEN k + 1 \in DOMAIN Whole /\ ~IsLabel(k + 1)
       ELSE LET i == Whole[k].instr
            IN  /\ i.op \in BranchOp => Refers(k) /\ ~Whole[k].label.caps
                /\ i.op = "STORE" => i.idx # 0
                /\ i.op \in ArithOp \ UnsignedOp => i.imm = Signed(Wrap(i.imm))

Transfers(k) == ~IsLabel(k) /\ Whole[k].instr.op \in BranchOp
Target(k)    == IF Refers(k) THEN Address(Greatest(Defining(lower(Whole[k].label), k)))
                             ELSE Whole[k].instr.tgt
Starts       == {Address(k) : k \in {n \in DOMAIN Whole : ~IsLabel(n)}}

\* The labels whose last definition is at the address a.
LabelsAt(a) == {Whole[k].label : k \in {n \in DOMAIN Whole :
                                          /\ IsLabel(n) /\ Address(n) = a
                                          /\ Greatest(Defining(Whole[n].label, n)) = n}}

\* The label that is printed at an instruction: in the order of the sorted file the last.
Printed ==
  [a \in {b \in Starts : LabelsAt(b) # {}} |->
     lower(CHOOSE l \in LabelsAt(a) :
             \A m \in LabelsAt(a) : Place(LabelOrder, m) <= Place(LabelOrder, l))]

\* The printed high-level label that the address a is under.
PrintedScope(a) ==
  LET highs == {b \in DOMAIN Printed : b <= a /\ ~Printed[b].low}
  IN  IF highs = {} THEN AsmStart.cur ELSE Printed[Greatest(highs)]

Linked  == phase \in {"disasm", "labels", "dump", "done"}
Decoded == phase \in {"labels", "dump", "done"}
-----------------------------------------------------------------------------
\* An instruction as it is read, with an integer for its immediate.
InstrRead == [op : Opcode, am : Mode, dst : Reg, src : Reg, idx : Int, imm : Int, tgt : Nat]

\* What the tools hold between their files, the bytes and the labels in them included:
\* instructions with a word for an immediate and no address below 0, labels of the
\* source (asm.py:60-143, :362-366, disasm.py:263-267).
TypeOK ==
  /\ with_labels \in BOOLEAN
  /\ phase \in {"asm", "disasm", "labels", "dump", "done", "failed"}
  /\ pos \in 0 .. Len(source)
  /\ \A a \in DOMAIN assembler.code : a \in Nat /\ assembler.code[a] \in Instr
  /\ \A m \in DOMAIN assembler.addr : m \in Seq(Labels) /\ assembler.addr[m] \in Nat
  /\ hex \in Seq(Nat) /\ lbl \subseteq Nat \X Labels
  /\ cur_addr \in 0 .. assembler.size
  /\ \A a \in DOMAIN program : a \in 0 .. cur_addr - 1 /\ program[a] \in InstrRead
  /\ \A a \in DOMAIN rev_label_addr : a \in Nat /\ (with_labels => rev_label_addr[a] \in Labels)

\* A linked reference has the address of the last line that defines its label, for a
\* low-level one under the same high-level label; a source without one, or with a
\* number that does not fit, is never linked (asm.py:194-199, :362-366).
LinkedByName ==
  Linked => \A k \in {n \in DOMAIN Whole : Refers(n)} :
              LET defs == Defining(lower(Whole[k].label), k)
              IN  /\ ~Bad /\ defs # {}
                  /\ assembler.code[Address(k)].tgt = Address(Greatest(defs))

\* The disassembler reads back the instructions that the assembler wrote, at their
\* addresses: the two agree on every length, operand and sign (asm.py:60-143 with
\* disasm.py:91-200).
ReadsWhatIsWritten ==
  Decoded => /\ DOMAIN program = DOMAIN assembler.code /\ cur_addr = assembler.size
             /\ \A a \in DOMAIN program :
                  [program[a] EXCEPT !.imm = Wrap(@)] = assembler.code[a]

\* tests/bin/tasmroundtrip.py:16-33: the source behind the jump of sys_enter.asm, and
\* nothing else, comes out of the two tools, for a source written their way.
RoundTrip == phase = "done" /\ with_labels /\ Canonical => output = Whole

\* The operand that the disassembler prints for a transfer means, to the assembler, the
\* address that the program has exactly where the source says so. Without the labels
\* file that is for every target that is an instruction. With it, for a target that has
\* a label printed, which is the last one of its name, a low-level one of its name in
\* the scope that the transfer is printed under: not for a number without a label, nor
\* a low-level label whose high-level one shares an address with a label that sorts
\* behind it and is not printed (disasm.py:263-284, :295-300).
NamesTarget ==
  LET again       == FoldLeft(asm_line, AsmStart, output)
      printed     == Printed
      Means(k, t) == \E r \in again.refs : /\ r[1] = Address(k) /\ r[2] \in DOMAIN again.addr
                                            /\ again.addr[r[2]] = t
      Alike(k, t) == {b \in DOMAIN printed :
                        /\ printed[b] = printed[t]
                        /\ printed[t].low => PrintedScope(b) = PrintedScope(Address(k))}
  IN  phase = "done" => \A k \in {n \in DOMAIN Whole : Transfers(n)} :
        LET t == Target(k)
        IN  Means(k, t) <=> IF with_labels
                            THEN t \in DOMAIN printed /\ t \in Alike(k, t)
                                   /\ \A b \in Alike(k, t) : b <= t
                            ELSE t \in Starts

\* The tools end, and the assembler refuses the sources it has to, and no other.
Ends == <>(phase = IF Bad THEN "failed" ELSE "done")

\* doc/vm.md:27: STORE [<Rd> (+|- <idx>)?], <Rs>, with the bracket closed.
StoreClosed ==
  \A k \in DOMAIN output : output[k].kind = "torn" => output[k].instr.op # "STORE"
=============================================================================
