-------------------------------- MODULE Asm --------------------------------
(***************************************************************************)
(* The assembler, src/tools/asm.py: one pass over the source lines that     *)
(* collects instructions, label addresses and label references, then link,  *)
(* which writes the address of its label into every reference. A line is a  *)
(* label or an instruction; a label is its name and whether it is low-level *)
(* (starts with a dot, hence local to the last high-level label).           *)
(***************************************************************************)
EXTENDS ISA, SequencesExt

\* A label is a name without regard to case, whether it is low-level and whether
\* it is written with capitals.
NoLabel == [name |-> "", low |-> FALSE, caps |-> FALSE]

High(n) == [name |-> n, low |-> FALSE, caps |-> FALSE]
Low(n)  == [name |-> n, low |-> TRUE, caps |-> FALSE]
Caps(l) == [l EXCEPT !.caps = TRUE]

lower(l) == [l EXCEPT !.caps = FALSE]

\* The dictionary f with the value v for x.
Put(f, x, v) == [y \in DOMAIN f \cup {x} |-> IF y = x THEN v ELSE f[y]]

LabelLine(l)    == [kind |-> "label", label |-> l]
InstrLine(i, l) == [kind |-> "instr", instr |-> i, label |-> l]

\* The assembler's globals before the first line: label_cur_top_level,
\* label_refs, label_addr, program (by address) and program_size.
AsmStart == [cur |-> High("n/a"), refs |-> {}, addr |-> <<>>, code |-> <<>>, size |-> 0]

\* (Mutant of mangle_label: low-level labels are not local.)
mangle_label_Global(s, l) == <<l>>

mangle_label(s, l) == IF l.low THEN <<s.cur, l>> ELSE <<l>>

\* A label defined again takes its new address.
asm_label(s, l) ==
  LET t == IF l.low THEN s ELSE [s EXCEPT !.cur = l]
  IN  [t EXCEPT !.addr = Put(@, mangle_label(t, l), s.size)]

\* A reference is lowered, whatever the label it is to. An immediate, any integer in
\* the source, becomes a word.
asm_instr(s, i, l) ==
  [s EXCEPT
     !.refs = @ \cup (IF l = NoLabel THEN {} ELSE {<<s.size, mangle_label(s, lower(l))>>}),
     !.code = Put(@, s.size, [i EXCEPT !.imm = Wrap(@)]),
     !.size = @ + InstrLen(i)]

asm_line(s, line) == IF line.kind = "label" THEN asm_label(s, line.label)
                                            ELSE asm_instr(s, line.instr, line.label)

link(s) ==
  LET resolve(a) == {s.addr[r[2]] : r \in {q \in s.refs : q[1] = a}}
  IN  [s EXCEPT !.code = [a \in DOMAIN @ |->
         IF resolve(a) = {} THEN @[a]
                            ELSE [@[a] EXCEPT !.tgt = CHOOSE t \in resolve(a) : TRUE]]]

asm_file(s, lines) ==
  LET t[k \in 0 .. Len(lines)] == IF k = 0 THEN s ELSE asm_line(t[k - 1], lines[k])
  IN  link(t[Len(lines)])

SysEnterLabel == High("$sys_enter")

\* Every program starts with the jump that SYS_ENTER_ASM is.
SYS_ENTER_ASM ==
  <<LabelLine(SysEnterLabel),
    InstrLine([op |-> "JMP", am |-> "IMM", dst |-> "R0", src |-> "R0",
               idx |-> 0, imm |-> 0, tgt |-> 0], SysEnterLabel)>>

\* The program that the source lines are assembled into.
assemble(lines) ==
  LET s == asm_file(asm_file(AsmStart, SYS_ENTER_ASM), lines)
  IN  [code |-> s.code, size |-> s.size]
=============================================================================
