---------------------------- MODULE ToolsProofs ----------------------------
(***************************************************************************)
(* The assembler and the disassembler, proved: what the assembler has of    *)
(* the lines that it has read, where it puts every instruction and label,   *)
(* and that the disassembler gets back what was written.                    *)
(***************************************************************************)
EXTENDS Tools, Recursion

\* The powers of a number.
LEMMA Powers ==
  ASSUME NEW m \in Nat \ {0}
  PROVE  /\ Power(m) \in [Nat -> Nat \ {0}] /\ Power(m)[0] = 1
         /\ \A n \in Nat : Power(m)[n + 1] = m * Power(m)[n]
<1> DEFINE step == [x \in Nat \X (Nat \ {0}) |-> m * x[2]]
           P(p)  == p = [n \in Nat |-> IF n = 0 THEN 1 ELSE m * p[n - 1]]
<1>1. \A n \in Nat, v \in Nat \ {0} : step[<<n, v>>] = m * v /\ m * v \in Nat \ {0}
  OBVIOUS
<1> HIDE DEF step
<1>2. PICK f \in [Nat -> Nat \ {0}] : f[0] = 1 /\ \A n \in Nat : f[n + 1] = step[<<n, f[n]>>]
  <2>1. \E f \in [Nat -> Nat \ {0}] : Recurs(f, 1, step)
    BY <1>1, RecursionExists, 1 \in Nat \ {0}
  <2> QED
    BY <2>1 DEF Recurs
<1>3. P(f)
  <2>1. ASSUME NEW n \in Nat PROVE f[n] = IF n = 0 THEN 1 ELSE m * f[n - 1]
    <3>1. CASE n = 0
      BY <3>1, <1>2
    <3>2. CASE n # 0
      <4>1. n - 1 \in Nat /\ (n - 1) + 1 = n
        BY <3>2
      <4> QED
        BY <4>1, <3>2, <1>1, <1>2
    <3> QED
      BY <3>1, <3>2
  <2> QED
    BY <2>1, <1>2
<1>4. P(Power(m))
  BY <1>3 DEF Power
<1>5. Power(m) = [n \in Nat |-> IF n = 0 THEN 1 ELSE m * Power(m)[n - 1]]
  BY <1>4
<1>6. \A n \in Nat : Power(m)[n + 1] = m * Power(m)[n]
  <2> TAKE n \in Nat
  <2>1. n + 1 \in Nat /\ n + 1 # 0 /\ (n + 1) - 1 = n
    OBVIOUS
  <2> QED
    BY <2>1, <1>5
<1>7. Power(m)[0] = 1
  BY <1>5
<1>8. \A n \in Nat : Power(m)[n] \in Nat \ {0}
  <2> DEFINE T == {n \in Nat : Power(m)[n] \in Nat \ {0}}
  <2>1. 0 \in T
    BY <1>7
  <2>2. ASSUME NEW n \in T PROVE n + 1 \in T
    BY <1>6
  <2> HIDE DEF T
  <2>3. T = Nat
    BY <2>1, <2>2, SetInduction, T \in SUBSET Nat DEF T
  <2> QED
    BY <2>3 DEF T
<1>9. Power(m) = [n \in Nat |-> Power(m)[n]]
  BY <1>5
<1> QED
  BY <1>6, <1>7, <1>8, <1>9

\* The quotient by a product is a quotient of a quotient.
LEMMA Quotients ==
  ASSUME NEW q \in Nat, NEW p \in Nat \ {0}, NEW m \in Nat \ {0}
  PROVE  q \div p = (q \div (m * p)) * m + ((q \div p) % m)
<1> DEFINE x == q \div p
           y == x \div m
           r == q % p
           s == x % m
<1>1. x \in Nat /\ r \in 0 .. p - 1 /\ q = p * x + r
  OBVIOUS
<1>2. y \in Nat /\ s \in 0 .. m - 1 /\ x = m * y + s
  <2> HIDE DEF x
  <2> QED
    BY <1>1
<1> HIDE DEF x, y, r, s
<1> DEFINE d == m * p
           t == p * s + r
<1>3. d \in Nat \ {0} /\ t \in Nat
  BY <1>1, <1>2
<1>4. t < d
  <2>1. s + 1 <= m
    BY <1>2
  <2>2. p * (s + 1) <= p * m
    BY <1>2, <2>1
  <2>3. p * (s + 1) = p * s + p /\ p * m = m * p
    BY <1>2
  <2> QED
    BY <1>1, <1>2, <2>2, <2>3
<1>5. q = d * y + t
  <2>1. p * x = p * (m * y + s)
    BY <1>2
  <2>2. p * (m * y + s) = (m * p) * y + p * s
    BY <1>2
  <2> QED
    BY <1>1, <1>2, <2>1, <2>2
<1> HIDE DEF d, t
<1>6. q \div d = y
  BY <1>2, <1>3, <1>4, <1>5
<1>7. y * m = m * y
  BY <1>2
<1> QED
  BY <1>2, <1>6, <1>7 DEF d, x, s

\* The recursion of Number.
Horner(f, n, b, m) ==
  f[0] = 0 /\ \A k \in 1 .. n : f[k] = f[k - 1] * m + b[n + 1 - k]

\* It has a solution.
LEMMA NumberRec ==
  ASSUME NEW m \in Nat, NEW n \in Nat, NEW b \in [1 .. n -> Nat], Len(b) = n
  PROVE  \E f \in [0 .. n -> Nat] : Horner(f, n, b, m) /\ Number(b, m) = f[n]
<1> DEFINE step == [x \in (1 .. n) \X Nat |-> x[2] * m + b[n + 1 - x[1]]]
           P(f) == f = [k \in 0 .. Len(b) |-> IF k = 0 THEN 0
                                              ELSE f[k - 1] * m + b[Len(b) + 1 - k]]
<1>1. ASSUME NEW k \in 1 .. n, NEW v \in Nat
      PROVE  step[<<k, v>>] = v * m + b[n + 1 - k] /\ step[<<k, v>>] \in Nat
  <2>1. n + 1 - k \in 1 .. n
    OBVIOUS
  <2>2. b[n + 1 - k] \in Nat
    BY <2>1
  <2>3. v * m \in Nat
    OBVIOUS
  <2>4. step[<<k, v>>] = v * m + b[n + 1 - k]
    OBVIOUS
  <2>5. v * m + b[n + 1 - k] \in Nat
    BY <2>2, <2>3
  <2> HIDE DEF step
  <2> QED
    BY <2>4, <2>5
<1> HIDE DEF step
<1>2. PICK f \in [0 .. n -> Nat] :
         f[0] = 0 /\ \A k \in 1 .. n : f[k] = step[<<k, f[k - 1]>>]
  <2>1. \E f \in [0 .. n -> Nat] : RecursTo(f, n, 0, step)
    <3>1. 0 \in Nat /\ \A k \in 1 .. n, v \in Nat : step[<<k, v>>] \in Nat
      BY <1>1
    <3> QED
      BY <3>1, RecursionTo
  <2> QED
    BY <2>1 DEF RecursTo
<1>3. P(f)
  <2>1. ASSUME NEW k \in 0 .. n
        PROVE  f[k] = IF k = 0 THEN 0 ELSE f[k - 1] * m + b[Len(b) + 1 - k]
    <3>1. CASE k = 0
      BY <3>1, <1>2
    <3>2. CASE k # 0
      <4>1. k \in 1 .. n /\ f[k - 1] \in Nat
        BY <3>2
      <4>2. f[k] = step[<<k, f[k - 1]>>]
        BY <1>2, <4>1
      <4> QED
        BY <4>1, <4>2, <3>2, <1>1
    <3> QED
      BY <3>1, <3>2
  <2> QED
    BY <2>1
<1> DEFINE g == CHOOSE g : P(g)
<1>4. P(g)
  BY <1>3
<1>5. Number(b, m) = g[Len(b)]
  BY DEF Number
<1> HIDE DEF g
<1>6. \A k \in 0 .. n : g[k] = f[k]
  <2> DEFINE T == {k \in Nat : k \in 0 .. n => g[k] = f[k]}
  <2>1. 0 \in T
    BY <1>3, <1>4
  <2>2. ASSUME NEW k \in T PROVE k + 1 \in T
    <3>1. CASE k + 1 \in 0 .. n
      <4>1. k \in 0 .. n /\ g[k] = f[k] /\ k + 1 # 0 /\ (k + 1) - 1 = k
        BY <3>1
      <4>2. g[k + 1] = g[k] * m + b[Len(b) + 1 - (k + 1)]
        BY <1>4, <3>1, <4>1
      <4>3. f[k + 1] = f[k] * m + b[Len(b) + 1 - (k + 1)]
        BY <1>3, <3>1, <4>1
      <4> QED
        BY <4>1, <4>2, <4>3
    <3> QED
      BY <3>1
  <2> HIDE DEF T
  <2>3. T = Nat
    BY <2>1, <2>2, SetInduction, T \in SUBSET Nat DEF T
  <2> QED
    BY <2>3 DEF T
<1>7. \A k \in 1 .. n : f[k] = f[k - 1] * m + b[n + 1 - k]
  BY <1>3
<1> QED
  <2>1. Len(b) \in 0 .. n /\ f[0] = 0
    BY <1>2
  <2>2. Number(b, m) = f[n]
    BY <1>5, <1>6, <2>1
  <2> QED
    BY <1>7, <2>1, <2>2 DEF Horner

\* The digits of a number are a number's digits.
LEMMA Digits ==
  ASSUME NEW v \in Int, NEW n \in Nat, NEW m \in Nat \ {0}
  PROVE  /\ gen_i(v, n, m) \in [1 .. n -> Nat] /\ Len(gen_i(v, n, m)) = n
         /\ gen_i(v, n, m) \in Seq(Nat)
         /\ Number(gen_i(v, n, m), m) = v % Power(m)[n]
<1> DEFINE p == Power(m)
           q == v % p[n]
           b == gen_i(v, n, m)
<1>1. p \in [Nat -> Nat \ {0}] /\ p[0] = 1 /\ \A k \in Nat : p[k + 1] = m * p[k]
  BY Powers
<1> HIDE DEF p
<1>2. p[n] \in Nat \ {0}
  BY <1>1
<1>3. q \in Nat /\ q < p[n]
  BY <1>2
<1>4. b = [k \in 1 .. n |-> (q \div p[k - 1]) % m]
  BY DEF gen_i, p
<1> HIDE DEF q, b
<1>5. ASSUME NEW k \in 1 .. n PROVE (q \div p[k - 1]) % m \in Nat
  <2>1. p[k - 1] \in Nat \ {0}
    BY <1>1
  <2>2. q \div p[k - 1] \in Nat
    BY <1>3, <2>1
  <2> QED
    BY <2>2
<1>6. b \in [1 .. n -> Nat]
  BY <1>4, <1>5
<1>7. b \in Seq(Nat) /\ Len(b) = n
  BY <1>4, <1>6
<1>8. PICK f \in [0 .. n -> Nat] :
         /\ f[0] = 0 /\ Number(b, m) = f[n]
         /\ \A k \in 1 .. n : f[k] = f[k - 1] * m + b[n + 1 - k]
  <2>1. \E f \in [0 .. n -> Nat] : Horner(f, n, b, m) /\ Number(b, m) = f[n]
    <3>1. m \in Nat
      OBVIOUS
    <3> QED
      BY <1>6, <1>7, <3>1, NumberRec
  <2> QED
    BY <2>1 DEF Horner
<1>9. \A k \in 0 .. n : f[k] = q \div p[n - k]
  <2> DEFINE T == {k \in Nat : k \in 0 .. n => f[k] = q \div p[n - k]}
  <2>1. 0 \in T
    <3>1. q \div p[n] = 0
      BY <1>2, <1>3
    <3> QED
      BY <3>1, <1>8
  <2>2. ASSUME NEW k \in T, k + 1 \in 0 .. n PROVE f[k + 1] = q \div p[n - (k + 1)]
    <3> DEFINE j == n - (k + 1)
    <3>1. j \in Nat /\ n - k = j + 1 /\ n + 1 - (k + 1) = j + 1 /\ j + 1 \in 1 .. n
          /\ k \in 0 .. n /\ k + 1 \in 1 .. n /\ (k + 1) - 1 = k /\ (j + 1) - 1 = j
      BY <2>2
    <3> HIDE DEF j
    <3>2. f[k] = q \div p[j + 1]
      BY <2>2, <3>1
    <3>3. p[j + 1] = m * p[j] /\ p[j] \in Nat \ {0}
      BY <1>1, <3>1
    <3>4. b[j + 1] = (q \div p[j]) % m
      BY <1>4, <3>1
    <3>5. f[k + 1] = f[k] * m + b[j + 1]
      BY <1>8, <3>1
    <3>6. q \div p[j] = (q \div (m * p[j])) * m + ((q \div p[j]) % m)
      BY <1>3, <3>3, Quotients
    <3> QED
      BY <3>2, <3>3, <3>4, <3>5, <3>6 DEF j
  <2>3. \A k \in T : k + 1 \in T
    BY <2>2
  <2> HIDE DEF T
  <2>4. T = Nat
    BY <2>1, <2>3, SetInduction, T \in SUBSET Nat DEF T
  <2> QED
    BY <2>4 DEF T
<1>10. f[n] = q
  <2>1. f[n] = q \div p[n - n] /\ n - n = 0
    BY <1>9
  <2> QED
    BY <2>1, <1>1, <1>3
<1>11. b \in [1 .. n -> Nat] /\ b \in Seq(Nat) /\ Len(b) = n /\ Number(b, m) = q
  BY <1>6, <1>7, <1>8, <1>10
<1> QED
  BY <1>11 DEF b, q, p

\* What the disassembler reads of an immediate's bytes.
LEMMA ReadsBytes ==
  ASSUME NEW v \in Int, NEW n \in Nat, NEW m \in Nat \ {0}
  PROVE  LET w == Power(m)[n]
             d == v % w
         IN  /\ w \in Nat \ {0} /\ d \in 0 .. w - 1
             /\ disasm_imm(gen_i(v, n, m), m, FALSE) = d
             /\ disasm_imm(gen_i(v, n, m), m, TRUE) = IF d < w \div 2 THEN d ELSE d - w
<1> DEFINE w == Power(m)[n]
           d == v % w
           b == gen_i(v, n, m)
<1>1. w \in Nat \ {0}
  BY Powers
<1>2. Len(b) = n /\ Number(b, m) = d
  BY Digits
<1> HIDE DEF b
<1>3. /\ disasm_imm(b, m, FALSE) = d
      /\ disasm_imm(b, m, TRUE) = IF d >= w \div 2 THEN d - w ELSE d
  BY <1>2 DEF disasm_imm
<1> HIDE DEF w
<1>4. d \in 0 .. w - 1
  BY <1>1
<1>5. w \div 2 \in Nat
  BY <1>1
<1> HIDE DEF d
<1>6. d >= w \div 2 <=> ~(d < w \div 2)
  BY <1>1, <1>4, <1>5
<1>7. disasm_imm(b, m, TRUE) = IF d < w \div 2 THEN d ELSE d - w
  BY <1>3, <1>6
<1> QED
  BY <1>1, <1>3, <1>4, <1>7 DEF w, d, b

\* A number that a signed encoding takes is what it is read as.
LEMMA ReadsSigned ==
  ASSUME NEW v \in Int, NEW n \in Nat, NEW m \in Nat \ {0}, InBytes(v, Power(m)[n], TRUE)
  PROVE  disasm_imm(gen_i(v, n, m), m, TRUE) = v
<1> DEFINE w == Power(m)[n]
           d == v % w
           h == w \div 2
           z == disasm_imm(gen_i(v, n, m), m, TRUE)
<1>1. w \in Nat \ {0} /\ d \in 0 .. w - 1 /\ z = IF d < h THEN d ELSE d - w
  BY ReadsBytes
<1>2. v \in -h .. h - 1
  BY DEF InBytes
<1> HIDE DEF w, z
<1>3. h \in Nat /\ h + h <= w
  BY <1>1
<1> HIDE DEF h
<1>4. CASE v >= 0
  <2>1. v < w
    BY <1>1, <1>2, <1>3
  <2>2. d = v
    BY <1>1, <1>4, <2>1
  <2> HIDE DEF d
  <2>3. d < h
    BY <1>2, <1>3, <2>2
  <2> QED
    BY <2>2, <2>3, <1>1 DEF z
<1>5. CASE v < 0
  <2>1. v + w \in 0 .. w - 1
    BY <1>1, <1>2, <1>3, <1>5
  <2>2. d = v + w
    BY <1>1, <1>5, <2>1
  <2> HIDE DEF d
  <2>3. ~(d < h)
    BY <1>1, <1>2, <1>3, <2>2
  <2>4. d - w = v
    BY <1>1, <2>2
  <2> QED
    BY <2>3, <2>4, <1>1 DEF z
<1>6. v >= 0 \/ v < 0
  OBVIOUS
<1> HIDE DEF d
<1> QED
  BY <1>4, <1>5, <1>6

\* Where the tables of the two tools have what an instruction is made of.
LEMMA Tables ==
  /\ \A o \in Opcode : /\ Place(Instruction, o) \in 1 .. 21
                       /\ Instruction[Place(Instruction, o)] = o
  /\ \A r \in Reg : Place(Register, r) \in 1 .. 16 /\ Register[Place(Register, r)] = r
  /\ \A a \in {"REG", "IMM", "REG_IDX"} :
        Place(AccessMode, a) \in 1 .. 3 /\ AccessMode[Place(AccessMode, a)] = a
<1>1. \A s, x : (\E k \in DOMAIN s : s[k] = x)
                   => Place(s, x) \in DOMAIN s /\ s[Place(s, x)] = x
  BY DEF Place
<1>2. ASSUME NEW o \in Opcode PROVE \E k \in DOMAIN Instruction : Instruction[k] = o
  <2>1. DOMAIN Instruction = 1 .. 21
    BY DEF Instruction
  <2>2. /\ Instruction[1] = "LOAD" /\ Instruction[2] = "STORE" /\ Instruction[3] = "MOV"
        /\ Instruction[4] = "ADD" /\ Instruction[5] = "SUB" /\ Instruction[6] = "AND"
        /\ Instruction[7] = "OR" /\ Instruction[8] = "XOR" /\ Instruction[9] = "NOT"
        /\ Instruction[10] = "CMP" /\ Instruction[11] = "PUSH" /\ Instruction[12] = "POP"
        /\ Instruction[13] = "CALL" /\ Instruction[14] = "RET" /\ Instruction[15] = "JMP"
        /\ Instruction[16] = "JMPEQ" /\ Instruction[17] = "JMPNE"
        /\ Instruction[18] = "JMPGT" /\ Instruction[19] = "JMPLT"
        /\ Instruction[20] = "JMPGE" /\ Instruction[21] = "JMPLE"
    BY DEF Instruction
  <2>3. o \in {"LOAD", "STORE", "MOV", "ADD", "SUB", "AND", "OR", "XOR", "NOT", "CMP",
               "PUSH", "POP", "CALL", "RET", "JMP", "JMPEQ", "JMPNE", "JMPGT", "JMPLT",
               "JMPGE", "JMPLE"}
    BY DEF Opcode, MoveOp, BranchOp, CondOp
  <2> QED
    BY <2>1, <2>2, <2>3
<1>3. ASSUME NEW r \in Reg PROVE \E k \in DOMAIN Register : Register[k] = r
  <2>1. DOMAIN Register = 1 .. 16
    BY DEF Register
  <2>2. /\ Register[1] = "R0" /\ Register[2] = "R1" /\ Register[3] = "R2"
        /\ Register[4] = "R3" /\ Register[5] = "R4" /\ Register[6] = "R5"
        /\ Register[7] = "R6" /\ Register[8] = "R7" /\ Register[9] = "R8"
        /\ Register[10] = "R9" /\ Register[11] = "R10" /\ Register[12] = "R11"
        /\ Register[13] = "R12" /\ Register[15] = "SP"
    BY DEF Register
  <2> QED
    BY <2>1, <2>2 DEF Reg, GPR
<1>4. ASSUME NEW a \in {"REG", "IMM", "REG_IDX"}
      PROVE  \E k \in DOMAIN AccessMode : AccessMode[k] = a
  <2>1. /\ DOMAIN AccessMode = 1 .. 3 /\ AccessMode[1] = "REG" /\ AccessMode[2] = "IMM"
        /\ AccessMode[3] = "REG_IDX"
    BY DEF AccessMode
  <2> QED
    BY <2>1
<1>5. DOMAIN Instruction = 1 .. 21 /\ DOMAIN Register = 1 .. 16 /\ DOMAIN AccessMode = 1 .. 3
  BY DEF Instruction, Register, AccessMode
<1> QED
  BY <1>1, <1>2, <1>3, <1>4, <1>5

\* A byte before others.
LEMMA Leads ==
  ASSUME NEW x \in Nat, NEW s \in Seq(Nat)
  PROVE  LET e == <<x>> \o s
         IN  /\ e \in Seq(Nat) /\ Len(e) = 1 + Len(s) /\ e[1] = x
             /\ \A k \in 1 .. Len(s) : e[k + 1] = s[k]
<1> DEFINE e == <<x>> \o s
<1>1. <<x>> \in Seq(Nat) /\ Len(<<x>>) = 1 /\ <<x>>[1] = x
  OBVIOUS
<1>2. e \in Seq(Nat) /\ Len(e) = 1 + Len(s)
  BY <1>1
<1>3. e[1] = x
  BY <1>1
<1>4. ASSUME NEW k \in 1 .. Len(s) PROVE e[k + 1] = s[k]
  <2>1. k + 1 \in 1 .. 1 + Len(s) /\ ~(k + 1 <= 1) /\ k + 1 - 1 = k
    OBVIOUS
  <2> QED
    BY <1>1, <2>1
<1> HIDE DEF e
<1> QED
  BY <1>2, <1>3, <1>4 DEF e

\* The bytes b start with those of e.
StartsWith(b, e) == Len(e) <= Len(b) /\ \A k \in 1 .. Len(e) : b[k] = e[k]

\* A byte and those behind it.
Byte(x, s) == <<x>> \o s

\* What starts with a byte and others has these bytes.
LEMMA PartsNext ==
  ASSUME NEW x \in Nat, NEW s \in Seq(Nat), NEW b \in Seq(Nat), NEW e, e = Byte(x, s),
         StartsWith(b, e)
  PROVE  Len(e) = 1 + Len(s) /\ b[1] = x /\ \A k \in 1 .. Len(s) : b[k + 1] = s[k]
<1>1. Len(e) = 1 + Len(s) /\ e[1] = x /\ \A k \in 1 .. Len(s) : e[k + 1] = s[k]
  BY Leads, SMTT(30) DEF Byte
<1> DEFINE n == Len(s)
<1>2. n \in Nat
  OBVIOUS
<1>3. Len(e) <= Len(b) /\ \A k \in 1 .. Len(e) : b[k] = e[k]
  BY DEF StartsWith
<1> HIDE DEF n
<1>4. b[1] = x
  BY <1>1, <1>2, <1>3 DEF n
<1>5. ASSUME NEW k \in 1 .. n PROVE b[k + 1] = s[k]
  <2>1. k + 1 \in 1 .. 1 + n
    BY <1>2
  <2> QED
    BY <2>1, <1>1, <1>3 DEF n
<1> QED
  BY <1>1, <1>4, <1>5 DEF n

\* The parts of an encoding with an immediate behind the opcode.
LEMMA PartsImm ==
  ASSUME NEW x \in Nat, NEW g \in Seq(Nat), NEW b \in Seq(Nat), NEW e, e = Byte(x, g),
         StartsWith(b, e)
  PROVE  Len(e) = 1 + Len(g) /\ b[1] = x /\ SubSeq(b, 2, Len(g) + 1) = g
<1> DEFINE n == Len(g)
<1>1. n \in Nat /\ g = [k \in 1 .. n |-> g[k]]
  OBVIOUS
<1>2. Len(e) = 1 + n /\ b[1] = x /\ \A k \in 1 .. n : b[k + 1] = g[k]
  BY PartsNext
<1>3. Len(e) <= Len(b)
  BY DEF StartsWith
<1> HIDE DEF n
<1>4. SubSeq(b, 2, n + 1) = [k \in 1 .. n |-> b[k + 1]]
  <2>1. SubSeq(b, 2, n + 1) = [k \in 1 .. (n + 1) - 2 + 1 |-> b[k + 2 - 1]]
    BY <1>1
  <2>2. (n + 1) - 2 + 1 = n /\ \A k \in 1 .. n : k + 2 - 1 = k + 1
    BY <1>1
  <2> QED
    BY <2>1, <2>2
<1>5. SubSeq(b, 2, n + 1) = g
  BY <1>1, <1>2, <1>4
<1> QED
  BY <1>2, <1>5 DEF n

\* The bytes b start with those of e, which are x, y and those of g.
InParts(e, b, x, y, g) ==
  Len(e) = 2 + Len(g) /\ b[1] = x /\ b[2] = y /\ SubSeq(b, 3, Len(g) + 2) = g

\* The parts of an encoding with registers and an immediate.
LEMMA PartsBoth ==
  ASSUME NEW x \in Nat, NEW y \in Nat, NEW g \in Seq(Nat), NEW b \in Seq(Nat), NEW e, NEW f,
         f = Byte(y, g), e = Byte(x, f), StartsWith(b, e)
  PROVE  InParts(e, b, x, y, g)
<1> DEFINE n == Len(g)
<1>1. n \in Nat /\ g = [k \in 1 .. n |-> g[k]]
  OBVIOUS
<1>2. f \in Seq(Nat) /\ Len(f) = 1 + n /\ f[1] = y /\ \A k \in 1 .. n : f[k + 1] = g[k]
  BY Leads DEF Byte
<1>3. Len(e) = 1 + Len(f) /\ b[1] = x /\ \A k \in 1 .. Len(f) : b[k + 1] = f[k]
  BY <1>2, PartsNext
<1> HIDE DEF n
<1>4. b[2] = y
  <2>1. 1 \in 1 .. Len(f) /\ 1 + 1 = 2
    BY <1>1, <1>2
  <2> QED
    BY <2>1, <1>2, <1>3
<1>5. ASSUME NEW k \in 1 .. n PROVE b[k + 2] = g[k]
  <2>1. k + 1 \in 1 .. Len(f) /\ (k + 1) + 1 = k + 2
    <3>1. n \in Nat /\ Len(f) = 1 + n /\ k \in 1 .. n
      BY <1>1, <1>2
    <3> HIDE DEF n
    <3> QED
      BY <3>1
  <2> QED
    BY <2>1, <1>2, <1>3
<1>6. Len(e) = 2 + n
  BY <1>1, <1>2, <1>3
<1>7. SubSeq(b, 3, n + 2) = [k \in 1 .. n |-> b[k + 2]]
  <2>1. SubSeq(b, 3, n + 2) = [k \in 1 .. (n + 2) - 3 + 1 |-> b[k + 3 - 1]]
    BY <1>1
  <2>2. (n + 2) - 3 + 1 = n /\ \A k \in 1 .. n : k + 3 - 1 = k + 2
    BY <1>1
  <2> QED
    BY <2>1, <2>2
<1>8. SubSeq(b, 3, n + 2) = g
  BY <1>1, <1>5, <1>7
<1> QED
  BY <1>3, <1>4, <1>6, <1>8 DEF n, InParts

\* What an instruction with a number for its immediate is read as: a number that is signed
\* unless AND, OR or XOR takes it.
AsRead(i) == [i EXCEPT !.imm = IF i.op \in ArithOp \ UnsignedOp THEN Signed(@) ELSE @]

\* The instructions that the assembler writes.
Writable ==
  {i \in Instr : /\ Plainest(i)
                 /\ i.op \in MemoryOp => InBytes(i.idx, Power(IdxByteMod)[2], TRUE)
                 /\ i.op \in BranchOp => i.tgt \in Word}

\* The first two bytes of an encoding.
LEMMA Heads ==
  ASSUME NEW i \in Writable
  PROVE  LET x == gen_opcode(i)
             y == gen_rr(i.dst, i.src)
             z == gen_r(i.dst)
         IN  /\ x \in Nat /\ Instruction[x \div 4] = i.op /\ AccessMode[(x % 4) + 1] = am(i)
             /\ y \in Nat /\ Register[y \div 16 + 1] = i.dst /\ Register[(y % 16) + 1] = i.src
             /\ z \in Nat /\ Register[z \div 16 + 1] = i.dst
<1>1. i \in Instr
  BY DEF Writable
<1>2. i.op \in Opcode /\ i.dst \in Reg /\ i.src \in Reg
  BY <1>1 DEF Instr
<1>3. am(i) \in {"REG", "IMM", "REG_IDX"}
  BY DEF am
<1> DEFINE p == Place(Instruction, i.op)
           q == Place(AccessMode, am(i))
           r == Place(Register, i.dst)
           s == Place(Register, i.src)
<1>4. /\ p \in 1 .. 21 /\ Instruction[p] = i.op /\ q \in 1 .. 3 /\ AccessMode[q] = am(i)
      /\ r \in 1 .. 16 /\ Register[r] = i.dst /\ s \in 1 .. 16 /\ Register[s] = i.src
  BY <1>2, <1>3, Tables
<1>5. /\ gen_opcode(i) = 4 * p + q - 1 /\ gen_rr(i.dst, i.src) = 16 * (r - 1) + s - 1
      /\ gen_r(i.dst) = 16 * (r - 1)
  BY DEF gen_opcode, gen_rr, gen_r
<1> HIDE DEF p, q, r, s
<1>6. LET x == 4 * p + q - 1 IN x \in Nat /\ x \div 4 = p /\ (x % 4) + 1 = q
  BY <1>4
<1>7. LET y == 16 * (r - 1) + s - 1 IN y \in Nat /\ y \div 16 + 1 = r /\ (y % 16) + 1 = s
  BY <1>4
<1>8. LET z == 16 * (r - 1) IN z \in Nat /\ z \div 16 + 1 = r
  BY <1>4
<1> QED
  BY <1>4, <1>5, <1>6, <1>7, <1>8

\* The kinds of instructions, by what their bytes are.
LEMMA Kinds ==
  ASSUME NEW i \in Writable
  PROVE  /\ i.op \in MemoryOp =>
              /\ Encoding(i) = <<gen_opcode(i)>> \o (<<gen_rr(i.dst, i.src)>>
                                                       \o gen_i(i.idx, 2, IdxByteMod))
              /\ InstrLen(i) = 4 /\ am(i) = "REG_IDX"
         /\ i.op \in BranchOp =>
              /\ Encoding(i) = <<gen_opcode(i)>> \o gen_i(i.tgt, 8, ByteMod)
              /\ InstrLen(i) = 9 /\ am(i) = "IMM"
         /\ i.op \in ArithOp /\ i.am = "IMM" =>
              /\ Encoding(i) = <<gen_opcode(i)>> \o (<<gen_r(i.dst)>> \o gen_i(i.imm, 8, ByteMod))
              /\ InstrLen(i) = 10 /\ am(i) = "IMM"
         /\ i.op \in ArithOp /\ i.am = "REG" =>
              /\ Encoding(i) = <<gen_opcode(i)>> \o <<gen_rr(i.dst, i.src)>>
              /\ InstrLen(i) = 2 /\ am(i) = "REG"
         /\ i.op \in OneRegOp =>
              /\ Encoding(i) = <<gen_opcode(i)>> \o <<gen_r(i.dst)>>
              /\ InstrLen(i) = 2 /\ am(i) = "REG"
         /\ i.op = "RET" => /\ Encoding(i) = <<gen_opcode(i)>> \o <<>>
                            /\ InstrLen(i) = 1 /\ am(i) = "REG"
         /\ \/ i.op \in MemoryOp \/ i.op \in BranchOp \/ (i.op \in ArithOp /\ i.am = "IMM")
            \/ (i.op \in ArithOp /\ i.am = "REG") \/ i.op \in OneRegOp \/ i.op = "RET"
<1>1. i.op \in Opcode /\ i.am \in Mode
  BY DEF Writable, Instr
<1>2. i.op \in MemoryOp =>
         /\ Encoding(i) = <<gen_opcode(i)>> \o (<<gen_rr(i.dst, i.src)>>
                                                  \o gen_i(i.idx, 2, IdxByteMod))
         /\ InstrLen(i) = 4 /\ am(i) = "REG_IDX"
  BY DEF Encoding, InstrLen, am, MemoryOp, BranchOp, CondOp, ArithOp, MoveOp, OneRegOp
<1>3. i.op \in BranchOp =>
         /\ Encoding(i) = <<gen_opcode(i)>> \o gen_i(i.tgt, 8, ByteMod)
         /\ InstrLen(i) = 9 /\ am(i) = "IMM"
  BY DEF Encoding, InstrLen, am, MemoryOp, BranchOp, CondOp, ArithOp, MoveOp, OneRegOp
<1>4. i.op \in ArithOp /\ i.am = "IMM" =>
         /\ Encoding(i) = <<gen_opcode(i)>> \o (<<gen_r(i.dst)>> \o gen_i(i.imm, 8, ByteMod))
         /\ InstrLen(i) = 10 /\ am(i) = "IMM"
  BY DEF Encoding, InstrLen, am, MemoryOp, BranchOp, CondOp, ArithOp, MoveOp, OneRegOp
<1>5. i.op \in ArithOp /\ i.am = "REG" =>
         /\ Encoding(i) = <<gen_opcode(i)>> \o <<gen_rr(i.dst, i.src)>>
         /\ InstrLen(i) = 2 /\ am(i) = "REG"
  BY DEF Encoding, InstrLen, am, MemoryOp, BranchOp, CondOp, ArithOp, MoveOp, OneRegOp
<1>6. i.op \in OneRegOp =>
         /\ Encoding(i) = <<gen_opcode(i)>> \o <<gen_r(i.dst)>>
         /\ InstrLen(i) = 2 /\ am(i) = "REG"
  BY DEF Encoding, InstrLen, am, MemoryOp, BranchOp, CondOp, ArithOp, MoveOp, OneRegOp
<1>7. i.op = "RET" =>
         /\ Encoding(i) = <<gen_opcode(i)>> \o <<>>
         /\ InstrLen(i) = 1 /\ am(i) = "REG"
  BY DEF Encoding, InstrLen, am, MemoryOp, BranchOp, CondOp, ArithOp, MoveOp, OneRegOp
<1>8. i.op \in MemoryOp \cup BranchOp \cup ArithOp \cup OneRegOp \cup {"RET"}
  BY <1>1 DEF Opcode, MemoryOp, BranchOp, CondOp, ArithOp, MoveOp, OneRegOp
<1>9. \/ i.op \in MemoryOp \/ i.op \in BranchOp \/ (i.op \in ArithOp /\ i.am = "IMM")
      \/ (i.op \in ArithOp /\ i.am = "REG") \/ i.op \in OneRegOp \/ i.op = "RET"
  BY <1>1, <1>8 DEF Mode
<1> QED
  BY <1>2, <1>3, <1>4, <1>5, <1>6, <1>7, <1>9, Zenon

\* What the disassembler makes of the bytes of an instruction, whatever follows them, is the
\* instruction.
LEMMA ReadsInstruction ==
  ASSUME NEW i \in Writable, NEW b \in Seq(Nat), StartsWith(b, Encoding(i))
  PROVE  /\ Len(Encoding(i)) = InstrLen(i)
         /\ disasm_instruction(b) = [len |-> InstrLen(i), instr |-> AsRead(i)]
<1> DEFINE x == gen_opcode(i)
           y == gen_rr(i.dst, i.src)
           z == gen_r(i.dst)
           D == disasm_instruction(b)
           two == ArithOp \cup MemoryOp
           R(n, d, s, j, v, t) ==
             [len |-> n, instr |-> [op |-> i.op, am |-> IF am(i) = "IMM" THEN "IMM" ELSE "REG",
                                    dst |-> d, src |-> s, idx |-> j, imm |-> v, tgt |-> t]]
<1>1. /\ x \in Nat /\ Instruction[x \div 4] = i.op /\ AccessMode[(x % 4) + 1] = am(i)
      /\ y \in Nat /\ Register[y \div 16 + 1] = i.dst /\ Register[(y % 16) + 1] = i.src
      /\ z \in Nat /\ Register[z \div 16 + 1] = i.dst
  BY Heads
<1>2. i \in Instr /\ Plainest(i)
  BY DEF Writable
<1>3. i = [op |-> i.op, am |-> i.am, dst |-> i.dst, src |-> i.src, idx |-> i.idx,
           imm |-> i.imm, tgt |-> i.tgt]
  BY <1>2 DEF Instr
<1>4. AsRead(i) = [op |-> i.op, am |-> i.am, dst |-> i.dst, src |-> i.src, idx |-> i.idx,
                   imm |-> IF i.op \in ArithOp \ UnsignedOp THEN Signed(i.imm) ELSE i.imm,
                   tgt |-> i.tgt]
  BY <1>3 DEF AsRead
<1>5. ByteMod \in Nat \ {0} /\ IdxByteMod \in Nat \ {0} /\ Power(ByteMod)[8] = WordMod
  BY ByteAssumption, IdxByteAssumption
<1>6. (i.op \in ArithOp /\ i.am = "IMM") \/ i.imm = 0
  BY <1>2 DEF Plainest
<1>7. Signed(0) = 0 /\ WordMod \in Nat \ {0}
  BY WidthAssumption DEF Signed, WordMod
<1>7a. \A k \in Int : k \in 0 .. WordMod - 1 => k % WordMod = k
  <2> DEFINE w == WordMod
  <2>1. w \in Nat \ {0}
    BY <1>7
  <2> HIDE DEF w
  <2>2. \A k \in Int : k \in 0 .. w - 1 => k % w = k
    BY <2>1
  <2> QED
    BY <2>2 DEF w
<1> HIDE DEF x, y, z
<1>8. ASSUME b[1] = x
      PROVE  D = CASE i.op = "RET"      -> R(1, "R0", "R0", 0, 0, 0)
                   [] i.op \in OneRegOp -> R(2, Register[b[2] \div 16 + 1], "R0", 0, 0, 0)
                   [] i.op \in BranchOp ->
                        R(9, "R0", "R0", 0, 0, disasm_imm(SubSeq(b, 2, 9), ByteMod, FALSE))
                   [] i.op \in two /\ am(i) = "REG" ->
                        R(2, Register[b[2] \div 16 + 1], Register[(b[2] % 16) + 1], 0, 0, 0)
                   [] i.op \in two /\ am(i) = "IMM" ->
                        R(10, Register[b[2] \div 16 + 1], "R0", 0,
                          disasm_imm(SubSeq(b, 3, 10), ByteMod, i.op \notin UnsignedOp), 0)
                   [] i.op \in two /\ am(i) = "REG_IDX" ->
                        R(4, Register[b[2] \div 16 + 1], Register[(b[2] % 16) + 1],
                          disasm_imm(SubSeq(b, 3, 4), IdxByteMod, TRUE), 0, 0)
  BY <1>1, <1>8 DEF disasm_instruction
<1> HIDE DEF D
<1>9. CASE i.op \in MemoryOp
  <2> DEFINE g == gen_i(i.idx, 2, IdxByteMod)
  <2>1. Encoding(i) = <<x>> \o (<<y>> \o g) /\ InstrLen(i) = 4 /\ am(i) = "REG_IDX"
    BY <1>9, Kinds DEF x, y
  <2>2. g \in Seq(Nat) /\ Len(g) = 2
    <3>1. i.idx \in Int /\ 2 \in Nat
      BY <1>2 DEF Instr
    <3> QED
      BY <1>5, <3>1, Digits
  <2>3. disasm_imm(g, IdxByteMod, TRUE) = i.idx
    <3>1. i.idx \in Int /\ 2 \in Nat /\ InBytes(i.idx, Power(IdxByteMod)[2], TRUE)
      BY <1>2, <1>9 DEF Instr, Writable
    <3> QED
      BY <1>5, <3>1, ReadsSigned
  <2> HIDE DEF g
  <2>4. Len(Encoding(i)) = 4 /\ b[1] = x /\ b[2] = y /\ SubSeq(b, 3, 4) = g
    <3> DEFINE f == Byte(y, g)
    <3>1. x \in Nat /\ y \in Nat /\ f = Byte(y, g) /\ Encoding(i) = Byte(x, f)
      BY <1>1, <2>1 DEF Byte
    <3> HIDE DEF f
    <3>2. InParts(Encoding(i), b, x, y, g)
      BY <2>2, <3>1, PartsBoth
    <3> QED
      BY <3>2, <2>2 DEF InParts
  <2>5. i.op # "RET" /\ i.op \notin OneRegOp \cup BranchOp /\ i.op \in two
    BY <1>9 DEF MemoryOp, OneRegOp, BranchOp, CondOp
  <2>6. D = R(4, i.dst, i.src, i.idx, 0, 0)
    BY <1>1, <1>8, <2>1, <2>3, <2>4, <2>5
  <2>7. i.imm = 0 /\ i.tgt = 0 /\ i.am = "REG" /\ i.op \notin ArithOp
    BY <1>2, <1>9, <2>1 DEF Plainest, MemoryOp, ArithOp, MoveOp, BranchOp, CondOp
  <2> QED
    BY <1>4, <2>1, <2>4, <2>6, <2>7 DEF D
<1>10. CASE i.op \in BranchOp
  <2> DEFINE g == gen_i(i.tgt, 8, ByteMod)
  <2>1. Encoding(i) = <<x>> \o g /\ InstrLen(i) = 9 /\ am(i) = "IMM"
    BY <1>10, Kinds DEF x
  <2>2. g \in Seq(Nat) /\ Len(g) = 8
    <3>1. i.tgt \in Int /\ 8 \in Nat
      BY <1>2 DEF Instr
    <3> QED
      BY <1>5, <3>1, Digits
  <2>3. disasm_imm(g, ByteMod, FALSE) = i.tgt
    <3>1. i.tgt \in Int /\ i.tgt \in 0 .. WordMod - 1
      BY <1>2, <1>10 DEF Instr, Writable, Word
    <3>2. disasm_imm(g, ByteMod, FALSE) = i.tgt % WordMod /\ WordMod \in Nat \ {0}
      BY <1>5, <3>1, ReadsBytes
    <3>3. i.tgt % WordMod = i.tgt
      BY <3>1, <1>7a
    <3> QED
      BY <3>2, <3>3
  <2> HIDE DEF g
  <2>4. Len(Encoding(i)) = 9 /\ b[1] = x /\ SubSeq(b, 2, 9) = g
    <3>1. x \in Nat /\ Encoding(i) = Byte(x, g)
      BY <1>1, <2>1 DEF Byte
    <3>2. Len(Encoding(i)) = 1 + Len(g) /\ b[1] = x /\ SubSeq(b, 2, Len(g) + 1) = g
      BY <2>2, <3>1, PartsImm
    <3> QED
      BY <3>2, <2>2
  <2>5. i.op # "RET" /\ i.op \notin OneRegOp /\ i.op \notin two
    BY <1>10 DEF OneRegOp, BranchOp, CondOp, ArithOp, MoveOp, MemoryOp
  <2>6. D = R(9, "R0", "R0", 0, 0, i.tgt)
    BY <1>8, <1>10, <2>3, <2>4, <2>5
  <2>7. /\ i.imm = 0 /\ i.idx = 0 /\ i.am = "IMM" /\ i.op \notin ArithOp /\ i.dst = "R0"
        /\ i.src = "R0"
    BY <1>2, <1>10, <2>1 DEF Plainest, MemoryOp, ArithOp, MoveOp, BranchOp, CondOp
  <2> QED
    BY <1>4, <2>1, <2>4, <2>6, <2>7 DEF D
<1>11. CASE i.op \in ArithOp /\ i.am = "IMM"
  <2> DEFINE g == gen_i(i.imm, 8, ByteMod)
             s == i.op \notin UnsignedOp
  <2>1. Encoding(i) = <<x>> \o (<<z>> \o g) /\ InstrLen(i) = 10 /\ am(i) = "IMM"
    BY <1>11, Kinds DEF x, z
  <2>2. g \in Seq(Nat) /\ Len(g) = 8
    <3>1. i.imm \in Int /\ 8 \in Nat
      BY <1>2 DEF Instr, Word
    <3> QED
      BY <1>5, <3>1, Digits
  <2>3. disasm_imm(g, ByteMod, s) = IF s THEN Signed(i.imm) ELSE i.imm
    <3>1. i.imm \in Int /\ i.imm \in 0 .. WordMod - 1
      BY <1>2 DEF Instr, Word
    <3>2. LET d == i.imm % WordMod
          IN  /\ WordMod \in Nat \ {0} /\ disasm_imm(g, ByteMod, FALSE) = d
              /\ disasm_imm(g, ByteMod, TRUE) = IF d < WordMod \div 2 THEN d ELSE d - WordMod
      BY <1>5, <3>1, ReadsBytes
    <3>3. i.imm % WordMod = i.imm
      BY <3>1, <1>7a
    <3> QED
      BY <3>2, <3>3 DEF Signed
  <2> HIDE DEF g
  <2>4. Len(Encoding(i)) = 10 /\ b[1] = x /\ b[2] = z /\ SubSeq(b, 3, 10) = g
    <3> DEFINE f == Byte(z, g)
    <3>1. x \in Nat /\ z \in Nat /\ f = Byte(z, g) /\ Encoding(i) = Byte(x, f)
      BY <1>1, <2>1 DEF Byte
    <3> HIDE DEF f
    <3>2. InParts(Encoding(i), b, x, z, g)
      BY <2>2, <3>1, PartsBoth
    <3> QED
      BY <3>2, <2>2 DEF InParts
  <2>5. i.op # "RET" /\ i.op \notin OneRegOp \cup BranchOp /\ i.op \in two
    BY <1>11 DEF ArithOp, MoveOp, OneRegOp, BranchOp, CondOp
  <2>6. D = R(10, i.dst, "R0", 0, disasm_imm(SubSeq(b, 3, 10), ByteMod, s), 0)
    BY <1>1, <1>8, <2>1, <2>4, <2>5
  <2>7. i.idx = 0 /\ i.tgt = 0 /\ i.src = "R0"
    BY <1>2, <1>11, <2>5 DEF Plainest, MemoryOp, ArithOp, MoveOp
  <2> QED
    BY <1>4, <1>11, <2>1, <2>3, <2>4, <2>6, <2>7 DEF D
<1>12. CASE i.op \in ArithOp /\ i.am = "REG"
  <2>1. Encoding(i) = <<x>> \o <<y>> /\ InstrLen(i) = 2 /\ am(i) = "REG"
    BY <1>12, Kinds DEF x, y
  <2>2. Len(Encoding(i)) = 2 /\ b[1] = x /\ b[2] = y
    <3> DEFINE s == <<y>>
    <3>1. x \in Nat /\ s \in Seq(Nat) /\ Len(s) = 1 /\ s[1] = y
      BY <1>1
    <3>2. Encoding(i) = Byte(x, s)
      BY <2>1 DEF Byte
    <3>3. b \in Seq(Nat) /\ StartsWith(b, Encoding(i))
      OBVIOUS
    <3> HIDE DEF s, x
    <3>4. Len(Encoding(i)) = 1 + Len(s) /\ b[1] = x /\ \A k \in 1 .. Len(s) : b[k + 1] = s[k]
      <4> DEFINE e == Encoding(i)
      <4>1. e = Byte(x, s) /\ StartsWith(b, e) /\ b \in Seq(Nat)
        BY <3>2, <3>3
      <4> HIDE DEF e
      <4> QED
        BY ONLY <3>1, <4>1, PartsNext, ZenonT(60) DEF e
    <3> QED
      BY <3>1, <3>4, 1 + 1 = 2
  <2>3. i.op # "RET" /\ i.op \notin OneRegOp \cup BranchOp /\ i.op \in two
    BY <1>12 DEF ArithOp, MoveOp, OneRegOp, BranchOp, CondOp
  <2>4. D = R(2, i.dst, i.src, 0, 0, 0)
    BY <1>1, <1>8, <2>1, <2>2, <2>3
  <2>5. i.idx = 0 /\ i.tgt = 0 /\ i.imm = 0
    BY <1>2, <1>6, <1>12, <2>3 DEF Plainest, MemoryOp, ArithOp, MoveOp
  <2> QED
    BY <1>4, <1>7, <1>12, <2>1, <2>2, <2>4, <2>5 DEF D
<1>13. CASE i.op \in OneRegOp
  <2>1. Encoding(i) = <<x>> \o <<z>> /\ InstrLen(i) = 2 /\ am(i) = "REG"
    BY <1>13, Kinds DEF x, z
  <2>2. Len(Encoding(i)) = 2 /\ b[1] = x /\ b[2] = z
    <3> DEFINE s == <<z>>
    <3>1. x \in Nat /\ s \in Seq(Nat) /\ Len(s) = 1 /\ s[1] = z
      BY <1>1
    <3>2. Encoding(i) = Byte(x, s)
      BY <2>1 DEF Byte
    <3>3. b \in Seq(Nat) /\ StartsWith(b, Encoding(i))
      OBVIOUS
    <3> HIDE DEF s, x
    <3>4. Len(Encoding(i)) = 1 + Len(s) /\ b[1] = x /\ \A k \in 1 .. Len(s) : b[k + 1] = s[k]
      <4> DEFINE e == Encoding(i)
      <4>1. e = Byte(x, s) /\ StartsWith(b, e) /\ b \in Seq(Nat)
        BY <3>2, <3>3
      <4> HIDE DEF e
      <4> QED
        BY ONLY <3>1, <4>1, PartsNext, ZenonT(60) DEF e
    <3> QED
      BY <3>1, <3>4, 1 + 1 = 2
  <2>3. i.op # "RET" /\ i.op \notin BranchOp /\ i.op \notin ArithOp /\ i.op \notin MemoryOp
    BY <1>13 DEF ArithOp, MoveOp, OneRegOp, BranchOp, CondOp, MemoryOp
  <2>4. D = R(2, i.dst, "R0", 0, 0, 0)
    BY <1>1, <1>8, <1>13, <2>1, <2>2, <2>3
  <2>5. i.idx = 0 /\ i.tgt = 0 /\ i.imm = 0 /\ i.src = "R0" /\ i.am = "REG"
    BY <1>2, <2>1, <2>3 DEF Plainest
  <2> QED
    BY <1>4, <2>1, <2>2, <2>3, <2>4, <2>5 DEF D
<1>14. CASE i.op = "RET"
  <2>1. Encoding(i) = <<x>> \o <<>> /\ InstrLen(i) = 1 /\ am(i) = "REG"
    BY <1>14, Kinds DEF x
  <2>2. Len(Encoding(i)) = 1 /\ b[1] = x
    <3> DEFINE s == <<>>
    <3>1. x \in Nat /\ s \in Seq(Nat) /\ Len(s) = 0
      BY <1>1
    <3>2. Encoding(i) = Byte(x, s)
      BY <2>1 DEF Byte
    <3> HIDE DEF s
    <3>3. Len(Encoding(i)) = 1 + Len(s) /\ b[1] = x
      BY <3>1, <3>2, PartsNext
    <3> QED
      BY <3>1, <3>3
  <2>3. /\ i.op \notin BranchOp /\ i.op \notin ArithOp /\ i.op \notin MemoryOp
        /\ i.op \notin OneRegOp
    BY <1>14 DEF ArithOp, MoveOp, BranchOp, CondOp, MemoryOp, OneRegOp
  <2>4. D = R(1, "R0", "R0", 0, 0, 0)
    BY <1>8, <1>14, <2>2, <2>3
  <2>5. /\ i.idx = 0 /\ i.tgt = 0 /\ i.imm = 0 /\ i.src = "R0" /\ i.am = "REG"
        /\ i.dst = "R0"
    BY <1>2, <1>14, <2>1, <2>3 DEF Plainest
  <2> QED
    BY <1>4, <2>1, <2>2, <2>3, <2>4, <2>5 DEF D
<1> QED
  BY <1>9, <1>10, <1>11, <1>12, <1>13, <1>14, Kinds

\* A dictionary that a value is put into.
LEMMA PutProps ==
  ASSUME NEW f, NEW x, NEW v
  PROVE  /\ DOMAIN Put(f, x, v) = DOMAIN f \cup {x} /\ Put(f, x, v)[x] = v
         /\ \A y \in DOMAIN f : y # x => Put(f, x, v)[y] = f[y]
         /\ Put(f, x, v) = [y \in DOMAIN f \cup {x} |-> Put(f, x, v)[y]]
  BY DEF Put

\* A recursion that is defined on 0 .. n has the values that it says.
LEMMA LengthsRec ==
  ASSUME NEW n \in Nat, NEW w, Len(w) = n,
         \A k \in 1 .. n : w[k].kind # "label" => InstrLen(w[k].instr) \in Nat
  PROVE  /\ Lengths(w) \in [0 .. n -> Nat] /\ Lengths(w)[0] = 0
         /\ \A k \in 1 .. n : Lengths(w)[k] = Lengths(w)[k - 1] +
                                IF w[k].kind = "label" THEN 0 ELSE InstrLen(w[k].instr)
<1> DEFINE sz(k) == IF w[k].kind = "label" THEN 0 ELSE InstrLen(w[k].instr)
           step == [x \in (1 .. n) \X Nat |-> x[2] + sz(x[1])]
           P(f) == f = [k \in 0 .. Len(w) |-> IF k = 0 THEN 0 ELSE f[k - 1] + sz(k)]
<1>1. \A k \in 1 .. n : sz(k) \in Nat
  OBVIOUS
<1>2. Lengths(w) = CHOOSE f : P(f)
  BY DEF Lengths
<1> HIDE DEF sz
<1>3. \A k \in 1 .. n, v \in Nat : step[<<k, v>>] = v + sz(k) /\ step[<<k, v>>] \in Nat
  BY <1>1
<1> HIDE DEF step
<1>4. PICK f \in [0 .. n -> Nat] : f[0] = 0 /\ \A k \in 1 .. n : f[k] = step[<<k, f[k - 1]>>]
  <2>1. \E f \in [0 .. n -> Nat] : RecursTo(f, n, 0, step)
    <3>1. 0 \in Nat /\ \A k \in 1 .. n, v \in Nat : step[<<k, v>>] \in Nat
      BY <1>3
    <3> QED
      BY <3>1, RecursionTo
  <2> QED
    BY <2>1 DEF RecursTo
<1>5. P(f)
  <2>1. ASSUME NEW k \in 0 .. n PROVE f[k] = IF k = 0 THEN 0 ELSE f[k - 1] + sz(k)
    <3>1. CASE k = 0
      BY <3>1, <1>4
    <3>2. CASE k # 0
      <4>1. k \in 1 .. n /\ f[k - 1] \in Nat
        BY <3>2
      <4>2. f[k] = step[<<k, f[k - 1]>>]
        BY <1>4, <4>1
      <4> QED
        BY <4>1, <4>2, <3>2, <1>3
    <3> QED
      BY <3>1, <3>2
  <2> QED
    BY <2>1
<1> DEFINE g == Lengths(w)
<1>6. P(g)
  BY <1>2, <1>5
<1> HIDE DEF g
<1>7. /\ g[0] = 0 /\ \A k \in 1 .. n : g[k] = g[k - 1] + sz(k)
      /\ g = [k \in 0 .. n |-> g[k]]
  <2>1. g = [k \in 0 .. n |-> IF k = 0 THEN 0 ELSE g[k - 1] + sz(k)]
    BY <1>6
  <2>2. 0 \in 0 .. n /\ \A k \in 1 .. n : k \in 0 .. n /\ k # 0
    OBVIOUS
  <2> QED
    BY <2>1, <2>2
<1>8. \A k \in 0 .. n : g[k] \in Nat
  <2> DEFINE T == {k \in Nat : k \in 0 .. n => g[k] \in Nat}
  <2>1. 0 \in T
    BY <1>7
  <2>2. ASSUME NEW k \in T PROVE k + 1 \in T
    <3>1. CASE k + 1 \in 0 .. n
      <4>1. k \in 0 .. n /\ g[k] \in Nat /\ k + 1 \in 1 .. n /\ (k + 1) - 1 = k
        BY <3>1
      <4>2. g[k + 1] = g[k] + sz(k + 1) /\ sz(k + 1) \in Nat
        BY <1>1, <1>7, <4>1
      <4> QED
        BY <4>1, <4>2
    <3> QED
      BY <3>1
  <2> HIDE DEF T
  <2>3. T = Nat
    BY <2>1, <2>2, SetInduction, T \in SUBSET Nat DEF T
  <2> QED
    BY <2>3 DEF T
<1> QED
  BY <1>7, <1>8 DEF g, sz
-----------------------------------------------------------------------------
\* A source of n lines w, as module Tools reads one.
LabelAt(w, k) == w[k].kind = "label"
HighAt(w, k)  == LabelAt(w, k) /\ ~w[k].label.low
RefAt(w, k)   == w[k].kind = "instr" /\ w[k].label # NoLabel
At(w, k)      == Lengths(w)[k - 1]
Under(w, k)   == w[Greatest({j \in 1 .. k : HighAt(w, j)})].label
Text(w)       == w \in Seq(LabelLines \cup InstrLines) /\ Len(w) > 0 /\ HighAt(w, 1)

\* A label in line k as the assembler mangles it, and the lines that define one.
Mangled(w, l, k) == IF l.low THEN <<Under(w, k), l>> ELSE <<l>>
Defs(w, m, n)    == {j \in 1 .. n : LabelAt(w, j) /\ Mangled(w, w[j].label, j) = m}

\* The greatest of some numbers.
LEMMA GreatestOf ==
  ASSUME NEW n \in Nat, NEW S \in SUBSET (1 .. n), S # {}
  PROVE  /\ Greatest(S) \in S /\ \A j \in S : j <= Greatest(S)
         /\ \A g \in S : (\A j \in S : j <= g) => Greatest(S) = g
<1> DEFINE T == {n - j : j \in S}
<1>0. S \subseteq Int /\ \A j \in S : n - j \in Nat
  OBVIOUS
<1>1. T \in SUBSET Nat /\ T # {}
  BY <1>0
<1>2. PICK t \in T : \A u \in T : t <= u
  BY <1>1, Least
<1>3. PICK m \in S : t = n - m
  OBVIOUS
<1>4. \A j \in S : j <= m
  <2> TAKE j \in S
  <2>1. n - m <= n - j
    BY <1>2, <1>3
  <2> QED
    BY <2>1
<1>5. Greatest(S) \in S /\ \A j \in S : j <= Greatest(S)
  BY <1>4 DEF Greatest
<1> DEFINE h == Greatest(S)
<1> HIDE DEF h
<1>6. ASSUME NEW g \in S, \A j \in S : j <= g PROVE h = g
  <2>1. g <= h /\ h <= g /\ g \in Int /\ h \in Int
    BY <1>0, <1>5, <1>6 DEF h
  <2> QED
    BY <2>1
<1> QED
  BY <1>5, <1>6 DEF h

\* The instruction of a line has a length.
LEMMA LineLength ==
  ASSUME NEW l \in LabelLines \cup InstrLines
  PROVE  /\ l.kind = "label" => l = LabelLine(l.label) /\ l.label \in Labels
         /\ l.kind # "label" => /\ l.kind = "instr" /\ l \in InstrLines
                                /\ InstrLen(l.instr) \in 1 .. 10
                                /\ l = InstrLine(l.instr, l.label)
<1>1. CASE l \in LabelLines
  BY <1>1 DEF LabelLines, LabelLine
<1>2. CASE l \in InstrLines
  <2>1. InstrLen(l.instr) \in 1 .. 10
    BY DEF InstrLen
  <2> QED
    BY <1>2, <2>1 DEF InstrLines, InstrLine
<1> QED
  BY <1>1, <1>2

\* How many bytes line k takes.
Size(w, k) == IF LabelAt(w, k) THEN 0 ELSE InstrLen(w[k].instr)

\* The lines of a source.
LEMMA Lines ==
  ASSUME NEW w, Text(w)
  PROVE  /\ Len(w) \in Nat \ {0} /\ w \in Seq(LabelLines \cup InstrLines)
         /\ \A k \in 1 .. Len(w) : w[k] \in LabelLines \cup InstrLines
<1> QED
  BY DEF Text

\* The addresses of lines.
LEMMA Addresses ==
  ASSUME NEW w, Text(w)
  PROVE  /\ At(w, 1) = 0 /\ \A k \in 1 .. Len(w) + 1 : At(w, k) \in Nat
         /\ \A k \in 1 .. Len(w) : /\ Size(w, k) \in 0 .. 10
                                   /\ ~LabelAt(w, k) => Size(w, k) > 0
                                   /\ At(w, k + 1) = At(w, k) + Size(w, k)
<1> DEFINE n == Len(w)
<1>1. n \in Nat /\ \A k \in 1 .. n : w[k] \in LabelLines \cup InstrLines
  BY Lines
<1> HIDE DEF n
<1>2. \A k \in 1 .. n : w[k].kind # "label" => InstrLen(w[k].instr) \in 1 .. 10
  BY <1>1, LineLength
<1>3. \A k \in 1 .. n : w[k].kind # "label" => InstrLen(w[k].instr) \in Nat
  BY <1>2
<1>4. /\ Lengths(w) \in [0 .. n -> Nat] /\ Lengths(w)[0] = 0
      /\ \A k \in 1 .. n : Lengths(w)[k] = Lengths(w)[k - 1] + Size(w, k)
  BY <1>1, <1>3, LengthsRec DEF n, Size, LabelAt
<1>5. At(w, 1) = 0
  BY <1>4 DEF At
<1>6. ASSUME NEW k \in 1 .. n + 1 PROVE At(w, k) \in Nat
  <2>1. k - 1 \in 0 .. n
    BY <1>1
  <2> QED
    BY <1>4, <2>1 DEF At
<1>7. ASSUME NEW k \in 1 .. n
      PROVE  /\ Size(w, k) \in 0 .. 10 /\ (~LabelAt(w, k) => Size(w, k) > 0)
             /\ At(w, k + 1) = At(w, k) + Size(w, k)
  <2>1. k + 1 - 1 = k
    OBVIOUS
  <2>2. Size(w, k) \in 0 .. 10 /\ (~LabelAt(w, k) => Size(w, k) > 0)
    BY <1>2 DEF Size, LabelAt
  <2>3. At(w, k + 1) = At(w, k) + Size(w, k)
    BY <1>4, <2>1 DEF At
  <2> QED
    BY <2>2, <2>3
<1> QED
  BY <1>5, <1>6, <1>7 DEF n

\* A line is in front of those behind it.
LEMMA AddressOrder ==
  ASSUME NEW w, Text(w), NEW j \in 1 .. Len(w), NEW k \in 1 .. Len(w) + 1, j < k
  PROVE  At(w, j) + Size(w, j) <= At(w, k)
<1> DEFINE n == Len(w)
           T == {d \in Nat : j + 1 + d \in 1 .. n + 1
                               => At(w, j) + Size(w, j) <= At(w, j + 1 + d)}
<1>1. n \in Nat /\ j \in 1 .. n /\ k \in 1 .. n + 1
  BY Lines
<1>2. /\ \A i \in 1 .. n + 1 : At(w, i) \in Nat
      /\ \A i \in 1 .. n : Size(w, i) \in 0 .. 10 /\ At(w, i + 1) = At(w, i) + Size(w, i)
  BY Addresses
<1> HIDE DEF n
<1>3. 0 \in T
  <2>1. At(w, j + 1 + 0) = At(w, j) + Size(w, j) /\ At(w, j) \in Nat
    <3>1. j + 1 + 0 = j + 1 /\ j \in 1 .. n + 1
      BY <1>1
    <3> QED
      BY <1>1, <1>2, <3>1
  <2> QED
    BY <1>1, <1>2, <2>1
<1>4. ASSUME NEW d \in T PROVE d + 1 \in T
  <2> SUFFICES ASSUME j + 1 + (d + 1) \in 1 .. n + 1
               PROVE  At(w, j) + Size(w, j) <= At(w, j + 1 + (d + 1))
    OBVIOUS
  <2> DEFINE i == j + 1 + d
  <2>1. i \in 1 .. n /\ i \in 1 .. n + 1 /\ j \in 1 .. n + 1 /\ j + 1 + (d + 1) = i + 1
    BY <1>1
  <2>2. At(w, j) + Size(w, j) <= At(w, i)
    BY <2>1
  <2> HIDE DEF i, T
  <2>3. At(w, i + 1) = At(w, i) + Size(w, i) /\ Size(w, i) \in Nat
    <3>1. Size(w, i) \in 0 .. 10 /\ At(w, i + 1) = At(w, i) + Size(w, i)
      BY <1>2, <2>1
    <3> QED
      BY <3>1
  <2>4. At(w, i) \in Nat /\ At(w, j) \in Nat /\ Size(w, j) \in Nat
    <3>1. Size(w, j) \in 0 .. 10
      BY <1>1, <1>2
    <3> QED
      BY <1>2, <2>1, <3>1, SMTT(30)
  <2>5. At(w, j) + Size(w, j) <= At(w, i + 1)
    BY ONLY <2>2, <2>3, <2>4
  <2> QED
    BY <2>1, <2>5
<1> HIDE DEF T
<1>5. T = Nat
  BY <1>3, <1>4, SetInduction, T \in SUBSET Nat DEF T
<1>6. k - (j + 1) \in T /\ j + 1 + (k - (j + 1)) = k
  BY <1>1, <1>5
<1> QED
  BY <1>1, <1>6 DEF T

\* The high-level label of a line is that of the line before unless the line is one.
LEMMA UnderNext ==
  ASSUME NEW w, Text(w), NEW k \in 1 .. Len(w)
  PROVE  /\ Under(w, k) \in Labels
         /\ HighAt(w, k) => Under(w, k) = w[k].label
         /\ ~HighAt(w, k) => k > 1 /\ Under(w, k) = Under(w, k - 1)
<1> DEFINE S(i) == {j \in 1 .. i : HighAt(w, j)}
<1>1. HighAt(w, 1) /\ Len(w) \in Nat
  BY Lines DEF Text
<1>2. S(k) \in SUBSET (1 .. k) /\ 1 \in S(k) /\ k \in Nat
  BY <1>1
<1>3. Greatest(S(k)) \in S(k) /\ \A g \in S(k) : (\A j \in S(k) : j <= g) => Greatest(S(k)) = g
  <2> HIDE DEF S
  <2> QED
    BY <1>2, GreatestOf
<1>4. Under(w, k) = w[Greatest(S(k))].label
  BY DEF Under
<1>5. Under(w, k) \in Labels
  <2> DEFINE g == Greatest(S(k))
  <2>1. g \in 1 .. Len(w) /\ LabelAt(w, g)
    BY <1>1, <1>3 DEF HighAt
  <2> HIDE DEF g
  <2>2. w[g] \in LabelLines \cup InstrLines
    BY <2>1, Lines
  <2>3. w[g].label \in Labels
    BY <2>1, <2>2, LineLength DEF LabelAt
  <2> QED
    BY <2>3, <1>4 DEF g
<1>6. HighAt(w, k) => Under(w, k) = w[k].label
  <2> SUFFICES ASSUME HighAt(w, k) PROVE Greatest(S(k)) = k
    BY <1>4
  <2>1. k \in S(k) /\ \A j \in S(k) : j <= k
    BY <1>2
  <2> QED
    BY <2>1, <1>3
<1>7. ASSUME ~HighAt(w, k) PROVE k > 1 /\ Under(w, k) = Under(w, k - 1)
  <2>1. k # 1 /\ k \in Nat
    BY <1>1, <1>7
  <2>2. S(k) = S(k - 1)
    <3>1. \A j \in Int : j \in 1 .. k /\ HighAt(w, j) <=> j \in 1 .. k - 1 /\ HighAt(w, j)
      BY <1>7, <2>1
    <3> QED
      BY <3>1
  <2>3. Under(w, k - 1) = w[Greatest(S(k - 1))].label
    BY DEF Under
  <2> HIDE DEF S
  <2> QED
    BY <2>1, <2>2, <2>3, <1>4
<1> QED
  BY <1>5, <1>6, <1>7

\* s has the fields of the assembler's state.
IsState(s) ==
  s = [cur |-> s.cur, refs |-> s.refs, addr |-> s.addr, code |-> s.code, size |-> s.size]

\* The instruction of line k as the assembler keeps it.
Kept(w, k) == [w[k].instr EXCEPT !.imm = Wrap(@)]

\* What the assembler has of the first n lines of w.
CodeRead(w, c, n) ==
  /\ \A a : a \in DOMAIN c <=> \E k \in 1 .. n : ~LabelAt(w, k) /\ a = At(w, k)
  /\ \A k \in 1 .. n : ~LabelAt(w, k) => c[At(w, k)] = Kept(w, k)
RefsRead(w, r, n) ==
  \A x : x \in r <=> \E k \in 1 .. n :
                       RefAt(w, k) /\ x = <<At(w, k), Mangled(w, lower(w[k].label), k)>>
LabelsRead(w, d, n) ==
  /\ \A m : m \in DOMAIN d <=> Defs(w, m, n) # {}
  /\ \A m \in DOMAIN d : d[m] = At(w, Greatest(Defs(w, m, n)))
Read(w, s, n) ==
  /\ IsState(s) /\ s.size = At(w, n + 1) /\ s.cur = Under(w, n)
  /\ CodeRead(w, s.code, n) /\ RefsRead(w, s.refs, n) /\ LabelsRead(w, s.addr, n)
  /\ \A k \in 1 .. n : ~LabelAt(w, k) => Encodable(w[k].instr)

\* Another line defines a label or nothing.
LEMMA DefsNext ==
  ASSUME NEW w, NEW n \in Nat, NEW m
  PROVE  /\ Defs(w, m, n) \in SUBSET (1 .. n)
         /\ LabelAt(w, n + 1) /\ Mangled(w, w[n + 1].label, n + 1) = m
              => Defs(w, m, n + 1) = Defs(w, m, n) \cup {n + 1} /\ Defs(w, m, n + 1) # {}
                   /\ Greatest(Defs(w, m, n + 1)) = n + 1
         /\ ~(LabelAt(w, n + 1) /\ Mangled(w, w[n + 1].label, n + 1) = m)
              => Defs(w, m, n + 1) = Defs(w, m, n)
<1>1. \A j : j \in 1 .. n + 1 <=> j \in 1 .. n \/ j = n + 1
  OBVIOUS
<1>2. Defs(w, m, n) \in SUBSET (1 .. n)
  BY DEF Defs
<1>3. ASSUME LabelAt(w, n + 1), Mangled(w, w[n + 1].label, n + 1) = m
      PROVE  Defs(w, m, n + 1) = Defs(w, m, n) \cup {n + 1} /\ Defs(w, m, n + 1) # {}
               /\ Greatest(Defs(w, m, n + 1)) = n + 1
  <2>1. Defs(w, m, n + 1) = Defs(w, m, n) \cup {n + 1}
    BY <1>1, <1>3, Zenon DEF Defs
  <2> DEFINE S == Defs(w, m, n + 1)
  <2>2. S \in SUBSET (1 .. n + 1) /\ n + 1 \in S /\ n + 1 \in Nat
    BY <1>1, <1>2, <2>1
  <2>3. \A j \in S : j <= n + 1
    BY <2>2
  <2> HIDE DEF S
  <2>4. Greatest(S) = n + 1
    BY <2>2, <2>3, GreatestOf
  <2> QED
    BY <2>1, <2>2, <2>4 DEF S
<1>4. ASSUME ~(LabelAt(w, n + 1) /\ Mangled(w, w[n + 1].label, n + 1) = m)
      PROVE  Defs(w, m, n + 1) = Defs(w, m, n)
  BY <1>1, <1>4, Zenon DEF Defs
<1> QED
  BY <1>2, <1>3, <1>4

\* A line of a label.
LEMMA ReadsLabel ==
  ASSUME NEW w, Text(w), NEW n \in Nat, n + 1 \in 1 .. Len(w), NEW s, Read(w, s, n),
         LabelAt(w, n + 1)
  PROVE  Read(w, asm_label(s, w[n + 1].label), n + 1)
<1> DEFINE l == w[n + 1].label
           t == IF l.low THEN s ELSE [s EXCEPT !.cur = l]
           m == mangle_label(t, l)
           u == asm_label(s, l)
<1>1. IsState(s) /\ s.size = At(w, n + 1) /\ s.cur = Under(w, n)
  BY DEF Read
<1>2. HighAt(w, n + 1) <=> ~l.low
  BY DEF HighAt
<1>3. IsState(t) /\ t.cur = (IF l.low THEN s.cur ELSE l) /\ t.refs = s.refs /\ t.addr = s.addr
      /\ t.code = s.code /\ t.size = s.size
  BY <1>1 DEF IsState
<1>4. u = [t EXCEPT !.addr = Put(t.addr, m, s.size)]
  BY DEF asm_label
<1>5. m = IF l.low THEN <<t.cur, l>> ELSE <<l>>
  BY DEF mangle_label
<1> HIDE DEF u, t, m
<1>6. /\ IsState(u) /\ u.cur = t.cur /\ u.refs = s.refs /\ u.code = s.code /\ u.size = s.size
      /\ u.addr = Put(s.addr, m, s.size)
  BY <1>3, <1>4 DEF IsState
<1>7. u.cur = Under(w, n + 1)
  <2>1. /\ HighAt(w, n + 1) => Under(w, n + 1) = l
        /\ ~HighAt(w, n + 1) => Under(w, n + 1) = Under(w, n + 1 - 1)
    BY UnderNext
  <2>2. n + 1 - 1 = n
    OBVIOUS
  <2> QED
    BY <1>1, <1>2, <1>3, <1>6, <2>1, <2>2
<1>8. m = Mangled(w, l, n + 1)
  BY <1>5, <1>6, <1>7 DEF Mangled
<1> HIDE DEF l
<1>9. /\ DOMAIN u.addr = DOMAIN s.addr \cup {m} /\ u.addr[m] = s.size
      /\ \A y \in DOMAIN s.addr : y # m => u.addr[y] = s.addr[y]
  BY <1>6 DEF Put
<1>10. LabelsRead(w, u.addr, n + 1)
  <2>1. LabelsRead(w, s.addr, n)
    BY DEF Read
  <2>2. /\ Defs(w, m, n + 1) # {} /\ Greatest(Defs(w, m, n + 1)) = n + 1
        /\ \A y : y # m => Defs(w, y, n + 1) = Defs(w, y, n)
    BY <1>8, DefsNext DEF l
  <2>3. \A y : y \in DOMAIN u.addr <=> Defs(w, y, n + 1) # {}
    BY <1>9, <2>1, <2>2 DEF LabelsRead
  <2>4. ASSUME NEW y \in DOMAIN u.addr PROVE u.addr[y] = At(w, Greatest(Defs(w, y, n + 1)))
    <3>1. CASE y = m
      BY <3>1, <1>1, <1>9, <2>2
    <3>2. CASE y # m
      BY <3>2, <1>9, <2>1, <2>2 DEF LabelsRead
    <3> QED
      BY <3>1, <3>2
  <2> QED
    BY <2>3, <2>4 DEF LabelsRead
<1>11. \A k : k \in 1 .. n + 1 <=> k \in 1 .. n \/ k = n + 1
  OBVIOUS
<1>12. CodeRead(w, u.code, n + 1)
  BY <1>6, <1>11, Zenon DEF Read, CodeRead
<1>13. RefsRead(w, u.refs, n + 1)
  <2>1. ~RefAt(w, n + 1)
    BY DEF RefAt, LabelAt
  <2>2. RefsRead(w, s.refs, n)
    BY DEF Read
  <2> QED
    BY <1>6, <1>11, <2>1, <2>2, Zenon DEF RefsRead
<1>14. u.size = At(w, (n + 1) + 1)
  <2>1. At(w, (n + 1) + 1) = At(w, n + 1) + Size(w, n + 1) /\ At(w, n + 1) \in Nat
    <3>1. n + 1 \in 1 .. Len(w) + 1
      BY Lines
    <3> QED
      BY <3>1, Addresses
  <2>2. Size(w, n + 1) = 0
    BY DEF Size
  <2> QED
    BY <1>1, <1>6, <2>1, <2>2
<1>15. \A k \in 1 .. n + 1 : ~LabelAt(w, k) => Encodable(w[k].instr)
  BY <1>11 DEF Read
<1>16. Read(w, u, n + 1)
  BY <1>6, <1>7, <1>10, <1>12, <1>13, <1>14, <1>15 DEF Read
<1> QED
  BY <1>16 DEF u, l

\* A line of an instruction.
LEMMA ReadsInstr ==
  ASSUME NEW w, Text(w), NEW n \in Nat, n + 1 \in 1 .. Len(w), NEW s, Read(w, s, n),
         ~LabelAt(w, n + 1), Encodable(w[n + 1].instr)
  PROVE  Read(w, asm_instr(s, w[n + 1].instr, w[n + 1].label), n + 1)
<1> DEFINE i == w[n + 1].instr
           l == w[n + 1].label
           u == asm_instr(s, i, l)
           m == mangle_label(s, lower(l))
<1>1. /\ IsState(s) /\ s.size = At(w, n + 1) /\ s.cur = Under(w, n)
      /\ CodeRead(w, s.code, n) /\ RefsRead(w, s.refs, n) /\ LabelsRead(w, s.addr, n)
  BY DEF Read
<1>2. w[n + 1].kind = "instr" /\ InstrLen(i) = Size(w, n + 1) /\ Size(w, n + 1) > 0
  <2>1. w[n + 1] \in LabelLines \cup InstrLines
    BY Lines
  <2> QED
    BY <2>1, LineLength, Addresses DEF LabelAt, Size
<1>2a. u = [s EXCEPT !.refs = s.refs \cup (IF l = NoLabel THEN {} ELSE {<<s.size, m>>}),
                     !.code = Put(s.code, s.size, Kept(w, n + 1)),
                     !.size = s.size + InstrLen(i)]
  BY DEF asm_instr, Kept
<1> HIDE DEF u, m, l
<1>3. /\ IsState(u) /\ u.cur = s.cur /\ u.addr = s.addr /\ u.size = s.size + InstrLen(i)
      /\ u.refs = s.refs \cup (IF l = NoLabel THEN {} ELSE {<<s.size, m>>})
      /\ u.code = Put(s.code, s.size, Kept(w, n + 1))
  BY <1>1, <1>2a DEF IsState
<1>4. u.cur = Under(w, n + 1)
  <2>1. ~HighAt(w, n + 1)
    BY DEF HighAt
  <2>2. Under(w, n + 1) = Under(w, n + 1 - 1) /\ n + 1 - 1 = n
    BY <2>1, UnderNext
  <2> QED
    BY <1>1, <1>3, <2>2
<1>5. m = Mangled(w, lower(l), n + 1)
  BY <1>1, <1>3, <1>4 DEF Mangled, mangle_label, m
<1>6. RefAt(w, n + 1) <=> l # NoLabel
  BY <1>2 DEF RefAt, l
<1> HIDE DEF i
<1>7. \A k : k \in 1 .. n + 1 <=> k \in 1 .. n \/ k = n + 1
  OBVIOUS
<1>8. RefsRead(w, u.refs, n + 1)
  <2>1. ASSUME NEW x
        PROVE  x \in u.refs <=> \E k \in 1 .. n + 1 :
                       RefAt(w, k) /\ x = <<At(w, k), Mangled(w, lower(w[k].label), k)>>
    <3>1. x \in u.refs <=> x \in s.refs \/ (RefAt(w, n + 1) /\ x = <<s.size, m>>)
      BY <1>3, <1>6
    <3>2. <<s.size, m>> = <<At(w, n + 1), Mangled(w, lower(w[n + 1].label), n + 1)>>
      BY <1>1, <1>5 DEF l
    <3> QED
      BY <1>1, <1>7, <3>1, <3>2, Zenon DEF RefsRead
  <2> QED
    BY <2>1 DEF RefsRead
<1>9. /\ DOMAIN u.code = DOMAIN s.code \cup {s.size} /\ u.code[s.size] = Kept(w, n + 1)
      /\ \A y \in DOMAIN s.code : y # s.size => u.code[y] = s.code[y]
  BY <1>3 DEF Put
<1>10. CodeRead(w, u.code, n + 1)
  <2>1. \A a : a \in DOMAIN u.code <=> \E k \in 1 .. n + 1 : ~LabelAt(w, k) /\ a = At(w, k)
    BY <1>1, <1>7, <1>9, Zenon DEF CodeRead
  <2>2. ASSUME NEW k \in 1 .. n + 1, ~LabelAt(w, k) PROVE u.code[At(w, k)] = Kept(w, k)
    <3>1. CASE k = n + 1
      BY <3>1, <1>1, <1>9
    <3>2. CASE k # n + 1
      <4>1. k \in 1 .. n /\ k < n + 1 /\ n + 1 \in 1 .. Len(w) + 1 /\ k \in 1 .. Len(w)
            /\ k \in 1 .. Len(w) + 1
        BY <3>2, Lines
      <4>2. At(w, k) + Size(w, k) <= At(w, n + 1)
        BY <4>1, AddressOrder
      <4>3. At(w, k) \in Nat /\ At(w, n + 1) \in Nat /\ Size(w, k) > 0 /\ Size(w, k) \in 0 .. 10
        BY <2>2, <4>1, Addresses
      <4>4. At(w, k) # s.size
        BY <1>1, <4>2, <4>3
      <4>5. At(w, k) \in DOMAIN s.code /\ s.code[At(w, k)] = Kept(w, k)
        BY <1>1, <2>2, <4>1 DEF CodeRead
      <4> QED
        BY <1>9, <4>4, <4>5
    <3> QED
      BY <3>1, <3>2
  <2> QED
    BY <2>1, <2>2 DEF CodeRead
<1>11. LabelsRead(w, u.addr, n + 1)
  <2>1. \A y : Defs(w, y, n + 1) = Defs(w, y, n)
    BY DefsNext
  <2> QED
    BY <1>1, <1>3, <2>1 DEF LabelsRead
<1>12. u.size = At(w, (n + 1) + 1)
  <2>1. At(w, (n + 1) + 1) = At(w, n + 1) + Size(w, n + 1)
    BY Addresses
  <2> QED
    BY <1>1, <1>2, <1>3, <2>1
<1>13. \A k \in 1 .. n + 1 : ~LabelAt(w, k) => Encodable(w[k].instr)
  BY <1>7 DEF Read
<1>14. Read(w, u, n + 1)
  BY <1>3, <1>4, <1>8, <1>10, <1>11, <1>12, <1>13 DEF Read
<1> QED
  BY <1>14 DEF u, l, i

\* A line.
LEMMA ReadsLine ==
  ASSUME NEW w, Text(w), NEW n \in Nat, n + 1 \in 1 .. Len(w), NEW s, Read(w, s, n),
         LabelAt(w, n + 1) \/ Encodable(w[n + 1].instr)
  PROVE  Read(w, asm_line(s, w[n + 1]), n + 1)
<1>1. CASE LabelAt(w, n + 1)
  BY <1>1, ReadsLabel DEF asm_line, LabelAt
<1>2. CASE ~LabelAt(w, n + 1)
  BY <1>2, ReadsInstr DEF asm_line, LabelAt
<1> QED
  BY <1>1, <1>2

\* u is s and behind it t.
Joined(u, s, t) ==
  /\ Len(u) = Len(s) + Len(t) /\ \A k \in 1 .. Len(s) : u[k] = s[k]
  /\ \A k \in 1 .. Len(t) : u[k + Len(s)] = t[k]

\* Two sequences, one behind the other.
LEMMA Joins ==
  ASSUME NEW S, NEW s \in Seq(S), NEW t \in Seq(S)
  PROVE  s \o t \in Seq(S) /\ Joined(s \o t, s, t)
<1>1. s \o t \in Seq(S) /\ Len(s \o t) = Len(s) + Len(t)
  OBVIOUS
<1>2. ASSUME NEW k \in 1 .. Len(s) PROVE (s \o t)[k] = s[k]
  OBVIOUS
<1>3. ASSUME NEW k \in 1 .. Len(t) PROVE (s \o t)[k + Len(s)] = t[k]
  <2>1. /\ k + Len(s) \in 1 .. Len(s) + Len(t) /\ ~(k + Len(s) <= Len(s))
        /\ k + Len(s) - Len(s) = k
    OBVIOUS
  <2> QED
    BY <2>1
<1> QED
  BY <1>1, <1>2, <1>3 DEF Joined

\* The lines of a source behind those that every program has.
LEMMA WholeText ==
  ASSUME NEW src \in Sources
  PROVE  LET w == SYS_ENTER_ASM \o src
         IN  /\ Text(w) /\ src \in Seq(LabelLines \cup InstrLines) /\ Len(w) = 2 + Len(src)
             /\ w[1] = SYS_ENTER_ASM[1] /\ w[2] = SYS_ENTER_ASM[2]
             /\ \A k \in 1 .. Len(src) : w[k + 2] = src[k]
<1> DEFINE S == LabelLines \cup InstrLines
           e == SYS_ENTER_ASM
           w == e \o src
<1>1. src \in Seq(S)
  BY SourceAssumption
<1>2. Len(e) = 2 /\ e \in Seq({e[1], e[2]})
  BY DEF SYS_ENTER_ASM
<1>3. SysEnterLabel \in Labels
  BY LabelAssumption
<1>4. e[1] \in LabelLines /\ e[1].kind = "label" /\ e[1].label.low = FALSE
  BY <1>3 DEF SYS_ENTER_ASM, LabelLine, LabelLines, SysEnterLabel, High
<1>5. e[2] \in InstrLines
  <2> DEFINE i == [op |-> "JMP", am |-> "IMM", dst |-> "R0", src |-> "R0",
                   idx |-> 0, imm |-> 0, tgt |-> 0]
  <2>1. e[2] = [kind |-> "instr", instr |-> i, label |-> SysEnterLabel]
    BY DEF SYS_ENTER_ASM, InstrLine
  <2>2. /\ i \in [op : Opcode, am : Mode, dst : Reg, src : Reg, idx : Int, imm : Int, tgt : Int]
        /\ i.op \in BranchOp
    BY DEF Opcode, BranchOp, Mode, Reg, GPR
  <2>3. Plainest(i)
    BY <2>2 DEF Plainest, am, MemoryOp, BranchOp, CondOp
  <2>4. i.tgt = 0
    OBVIOUS
  <2> HIDE DEF i
  <2> QED
    BY <1>3, <2>1, <2>2, <2>3, <2>4 DEF InstrLines
<1>6. e \in Seq(S) /\ Len(e) = 2
  BY <1>2, <1>4, <1>5
<1> HIDE DEF S, e
<1>7. /\ w \in Seq(S) /\ Len(w) = 2 + Len(src) /\ w[1] = e[1] /\ w[2] = e[2]
      /\ \A k \in 1 .. Len(src) : w[k + 2] = src[k]
  <2>1. /\ w \in Seq(S) /\ Len(w) = Len(e) + Len(src) /\ \A k \in 1 .. Len(e) : w[k] = e[k]
        /\ \A k \in 1 .. Len(src) : w[k + Len(e)] = src[k]
    <3>1. w \in Seq(S) /\ Joined(w, e, src)
      BY <1>1, <1>6, Joins
    <3> HIDE DEF w
    <3> QED
      BY <3>1 DEF Joined
  <2> HIDE DEF w
  <2> QED
    BY <1>6, <2>1
<1>9. Len(w) > 0
  <2>1. Len(src) \in Nat
    BY <1>1
  <2> QED
    BY <1>7, <2>1
<1> HIDE DEF w
<1>10. Text(w)
  BY <1>4, <1>7, <1>9 DEF Text, HighAt, LabelAt, S
<1> QED
  BY <1>1, <1>7, <1>10 DEF w, e, S

\* Two lines are read one after the other.
LEMMA TwoLines ==
  ASSUME NEW s, NEW lines, Len(lines) = 2
  PROVE  asm_file(s, lines) = link(asm_line(asm_line(s, lines[1]), lines[2]))
<1> DEFINE P(t) == t = [k \in 0 .. Len(lines) |-> IF k = 0 THEN s
                                                  ELSE asm_line(t[k - 1], lines[k])]
           a == asm_line(s, lines[1])
           b == asm_line(a, lines[2])
           f == [k \in 0 .. 2 |-> IF k = 0 THEN s ELSE IF k = 1 THEN a ELSE b]
<1>1. P(f)
  <2>1. ASSUME NEW k \in 0 .. 2
        PROVE  f[k] = IF k = 0 THEN s ELSE asm_line(f[k - 1], lines[k])
    <3>1. k = 0 \/ k = 1 \/ k = 2
      OBVIOUS
    <3>2. f[0] = s /\ f[1] = a /\ f[2] = b
      OBVIOUS
    <3>3. 1 - 1 = 0 /\ 2 - 1 = 1
      OBVIOUS
    <3> HIDE DEF f, b
    <3>4. CASE k = 0
      BY <3>2, <3>4
    <3>5. CASE k = 1
      BY <3>2, <3>3, <3>5
    <3>6. CASE k = 2
      BY <3>2, <3>3, <3>6 DEF b
    <3> QED
      BY <3>1, <3>4, <3>5, <3>6
  <2> QED
    BY <2>1
<1> DEFINE g == CHOOSE t : P(t)
<1>2. asm_file(s, lines) = link(g[Len(lines)])
  BY DEF asm_file
<1>3. P(g)
  BY <1>1
<1> HIDE DEF g
<1>4. g = [k \in 0 .. 2 |-> IF k = 0 THEN s ELSE asm_line(g[k - 1], lines[k])]
  BY <1>3
<1>5. g[0] = s
  BY <1>4
<1>6. g[1] = asm_line(g[0], lines[1])
  <2>1. 1 \in 0 .. 2 /\ 1 # 0 /\ 1 - 1 = 0
    OBVIOUS
  <2> QED
    BY <1>4, <2>1
<1>7. g[2] = asm_line(g[1], lines[2])
  <2>1. 2 \in 0 .. 2 /\ 2 # 0 /\ 2 - 1 = 1
    OBVIOUS
  <2> QED
    BY <1>4, <2>1
<1> QED
  BY <1>2, <1>5, <1>6, <1>7

\* The assembler has read sys_enter.asm when it starts with the source.
LEMMA ReadsFirst ==
  ASSUME NEW w, Text(w), Len(w) >= 2, w[1] = SYS_ENTER_ASM[1], w[2] = SYS_ENTER_ASM[2]
  PROVE  Read(w, asm_file(AsmStart, SYS_ENTER_ASM), 2)
<1> DEFINE l == SysEnterLabel
           a == asm_label(AsmStart, l)
           b == asm_line(a, w[2])
<1>1. Len(SYS_ENTER_ASM) = 2
  BY DEF SYS_ENTER_ASM
<1>2. w[1] = [kind |-> "label", label |-> l] /\ l.low = FALSE
  BY DEF SYS_ENTER_ASM, LabelLine, SysEnterLabel, High
<1>3. asm_file(AsmStart, SYS_ENTER_ASM) = link(b)
  <2>1. asm_line(AsmStart, w[1]) = a
    BY <1>2 DEF asm_line
  <2>2. asm_file(AsmStart, SYS_ENTER_ASM) = link(asm_line(asm_line(AsmStart, w[1]), w[2]))
    BY <1>1, TwoLines
  <2> QED
    BY <2>1, <2>2
<1>3a. l = [name |-> l.name, low |-> FALSE, caps |-> FALSE]
  BY DEF SysEnterLabel, High
<1>4. a = [cur |-> l, refs |-> {}, addr |-> Put(<<>>, <<l>>, 0), code |-> <<>>, size |-> 0]
  <2> DEFINE t == [cur |-> l, refs |-> {}, addr |-> <<>>, code |-> <<>>, size |-> 0]
  <2>1. [AsmStart EXCEPT !.cur = l] = t /\ AsmStart.size = 0
    <3> DEFINE c == High("n/a")
    <3>1. AsmStart = [cur |-> c, refs |-> {}, addr |-> <<>>, code |-> <<>>, size |-> 0]
      BY DEF AsmStart
    <3> DEFINE r == {}
               e == <<>>
    <3>2. t = [cur |-> l, refs |-> r, addr |-> e, code |-> e, size |-> 0]
      OBVIOUS
    <3>3. AsmStart = [cur |-> c, refs |-> r, addr |-> e, code |-> e, size |-> 0]
      BY <3>1
    <3> HIDE DEF c, l, r, e, t
    <3> QED
      BY <3>2, <3>3
  <2>2. a = [t EXCEPT !.addr = Put(@, mangle_label(t, l), 0)]
    BY <1>2, <2>1, Zenon DEF asm_label
  <2>3. mangle_label(t, l) = <<l>>
    BY <1>2, Zenon DEF mangle_label
  <2>4. t.addr = <<>>
    OBVIOUS
  <2> HIDE DEF a, l
  <2> QED
    BY <2>2, <2>3, <2>4
<1> HIDE DEF a
<1>5. LabelAt(w, 1) /\ HighAt(w, 1) /\ Mangled(w, w[1].label, 1) = <<l>> /\ w[1].label = l
  BY <1>2 DEF LabelAt, HighAt, Mangled
<1> HIDE DEF l
<1>6. \A k : k \in 1 .. 1 <=> k = 1
  OBVIOUS
<1>7. Len(w) \in Nat /\ 1 \in 1 .. Len(w) /\ 2 \in 1 .. Len(w)
  BY Lines
<1>8. \A m : Defs(w, m, 1) = IF m = <<l>> THEN {1} ELSE {}
  BY <1>5, <1>6, Zenon DEF Defs
<1>9. Greatest({1}) = 1
  <2>1. {1} \in SUBSET (1 .. 1) /\ 1 \in {1} /\ 1 \in Nat /\ \A j \in {1} : j <= 1
    OBVIOUS
  <2> QED
    BY <2>1, GreatestOf
<1>10. Read(w, a, 1)
  <2>1. IsState(a) /\ a.cur = l /\ a.refs = {} /\ a.addr = Put(<<>>, <<l>>, 0) /\ a.code = <<>>
        /\ a.size = 0
    BY <1>4 DEF IsState
  <2>2. a.size = At(w, 1 + 1)
    <3>1. At(w, 1 + 1) = At(w, 1) + Size(w, 1) /\ At(w, 1) = 0
      BY <1>7, Addresses
    <3>2. Size(w, 1) = 0
      BY <1>5 DEF Size
    <3> QED
      BY <2>1, <3>1, <3>2
  <2>3. a.cur = Under(w, 1)
    BY <1>5, <1>7, <2>1, UnderNext
  <2>4. CodeRead(w, a.code, 1)
    <3>1. DOMAIN a.code = {}
      BY <2>1
    <3> QED
      BY <1>5, <1>6, <3>1 DEF CodeRead
  <2>5. RefsRead(w, a.refs, 1)
    <3>1. ~RefAt(w, 1)
      BY <1>2 DEF RefAt
    <3> QED
      BY <1>6, <2>1, <3>1 DEF RefsRead
  <2>6. LabelsRead(w, a.addr, 1)
    <3>1. DOMAIN a.addr = {<<l>>} /\ a.addr[<<l>>] = 0
      <4>1. DOMAIN <<>> = {}
        OBVIOUS
      <4>2. DOMAIN a.addr = {} \cup {<<l>>} /\ a.addr[<<l>>] = 0
        BY <2>1, <4>1 DEF Put
      <4> QED
        BY <4>2
    <3>2. \A m : m \in DOMAIN a.addr <=> Defs(w, m, 1) # {}
      BY <1>8, <3>1
    <3>3. At(w, Greatest(Defs(w, <<l>>, 1))) = 0
      BY <1>7, <1>8, <1>9, Addresses
    <3> QED
      BY <3>1, <3>2, <3>3 DEF LabelsRead
  <2>7. \A k \in 1 .. 1 : ~LabelAt(w, k) => Encodable(w[k].instr)
    BY <1>5, <1>6
  <2> QED
    BY <2>1, <2>2, <2>3, <2>4, <2>5, <2>6, <2>7 DEF Read
<1> DEFINE i == w[2].instr
<1>11. /\ w[2].kind = "instr" /\ ~LabelAt(w, 2) /\ w[2].label = l
       /\ i.op = "JMP" /\ i.tgt = 0 /\ i.imm = 0
       /\ i = [op |-> i.op, am |-> i.am, dst |-> i.dst, src |-> i.src, idx |-> i.idx,
               imm |-> i.imm, tgt |-> i.tgt]
  BY DEF SYS_ENTER_ASM, InstrLine, LabelAt, l
<1> HIDE DEF i
<1>12. WordMod \in Nat \ {0}
  BY WidthAssumption DEF WordMod
<1>13. Encodable(i)
  <2>1. i.op \in BranchOp /\ i.op \notin MemoryOp
    BY <1>11 DEF BranchOp, MemoryOp
  <2>2. InBytes(i.tgt, WordMod, FALSE)
    BY <1>11, <1>12 DEF InBytes
  <2>3. i.op \notin ArithOp
    BY <1>11 DEF ArithOp, MoveOp
  <2> QED
    BY <2>1, <2>2, <2>3 DEF Encodable
<1>14. Read(w, b, 2)
  <2>1. 1 \in Nat /\ 1 + 1 = 2
    OBVIOUS
  <2> QED
    BY <1>7, <1>10, <1>13, <2>1, ReadsLine DEF i
<1> HIDE DEF b
<1>15. \A k : k \in 1 .. 2 <=> k = 1 \/ k = 2
  OBVIOUS
<1>16. /\ IsState(b) /\ b.size = At(w, 2 + 1) /\ b.cur = Under(w, 2)
       /\ CodeRead(w, b.code, 2) /\ RefsRead(w, b.refs, 2) /\ LabelsRead(w, b.addr, 2)
       /\ \A k \in 1 .. 2 : ~LabelAt(w, k) => Encodable(w[k].instr)
  BY <1>14 DEF Read
<1>17. b.addr[<<l>>] = 0
  <2>1. \A m : Defs(w, m, 2) = Defs(w, m, 1)
    <3>1. 1 \in Nat /\ 1 + 1 = 2
      OBVIOUS
    <3> QED
      BY <1>11, <3>1, DefsNext
  <2>2. Defs(w, <<l>>, 2) = {1}
    BY <1>8, <2>1
  <2> QED
    BY <1>7, <1>9, <1>16, <2>2, Addresses DEF LabelsRead
<1>18. \A x \in b.refs : x[2] = <<l>>
  <2>1. lower(l) = l /\ ~l.low
    BY <1>3a DEF lower
  <2>2. \A x \in b.refs : x = <<At(w, 2), Mangled(w, lower(l), 2)>>
    BY <1>5, <1>11, <1>15, <1>16 DEF RefsRead, RefAt, LabelAt
  <2>3. Mangled(w, lower(l), 2) = <<l>>
    BY <2>1 DEF Mangled
  <2> QED
    BY <2>2, <2>3
<1>19. \A a1 \in DOMAIN b.code : b.code[a1] = Kept(w, 2)
  BY <1>5, <1>15, <1>16 DEF CodeRead
<1>20. Kept(w, 2).tgt = 0 /\ [Kept(w, 2) EXCEPT !.tgt = 0] = Kept(w, 2)
  BY <1>11 DEF Kept, i
<1> DEFINE resolve(a1) == {b.addr[r[2]] : r \in {q \in b.refs : q[1] = a1}}
           c == [a1 \in DOMAIN b.code |->
                   IF resolve(a1) = {} THEN b.code[a1]
                   ELSE [b.code[a1] EXCEPT !.tgt = CHOOSE t \in resolve(a1) : TRUE]]
<1>21. link(b) = [b EXCEPT !.code = c]
  BY DEF link
<1>22. ASSUME NEW a1 \in DOMAIN b.code PROVE c[a1] = b.code[a1]
  <2>1. \A x \in resolve(a1) : x = 0
    BY <1>17, <1>18
  <2>2. resolve(a1) # {} => (CHOOSE t \in resolve(a1) : TRUE) = 0
    BY <2>1
  <2> HIDE DEF resolve
  <2> QED
    BY <1>19, <1>20, <2>2
<1>23. DOMAIN c = DOMAIN b.code
  OBVIOUS
<1> HIDE DEF c
<1>24. CodeRead(w, c, 2)
  <2>1. \A k \in 1 .. 2 : ~LabelAt(w, k) => At(w, k) \in DOMAIN b.code
    BY <1>16 DEF CodeRead
  <2> QED
    BY <1>16, <1>22, <1>23, <2>1 DEF CodeRead
<1> DEFINE d == link(b)
<1>25. /\ IsState(d) /\ d.size = b.size /\ d.cur = b.cur /\ d.code = c /\ d.refs = b.refs
       /\ d.addr = b.addr
  BY <1>16, <1>21 DEF IsState
<1> HIDE DEF d
<1>26. Read(w, d, 2)
  BY <1>16, <1>24, <1>25 DEF Read
<1> QED
  BY <1>3, <1>26 DEF d

\* Where the label is to which line k refers, and the instruction of the line once linked.
Dest(w, k)   == At(w, Greatest(Defs(w, Mangled(w, lower(w[k].label), k), Len(w))))
Loaded(w, k) == [Kept(w, k) EXCEPT !.tgt = IF RefAt(w, k) THEN Dest(w, k) ELSE @]

\* What the assembler has when it has linked w.
Assembled(w, s) ==
  /\ s.size = At(w, Len(w) + 1) /\ LabelsRead(w, s.addr, Len(w))
  /\ \A a : a \in DOMAIN s.code <=> \E k \in 1 .. Len(w) : ~LabelAt(w, k) /\ a = At(w, k)
  /\ \A k \in 1 .. Len(w) : ~LabelAt(w, k) => /\ s.code[At(w, k)] = Loaded(w, k)
                                              /\ Encodable(w[k].instr)
  /\ \A k \in 1 .. Len(w) : RefAt(w, k) =>
        Defs(w, Mangled(w, lower(w[k].label), k), Len(w)) # {} /\ Dest(w, k) \in Word

\* No two instructions have an address.
LEMMA AddressesApart ==
  ASSUME NEW w, Text(w), NEW j \in 1 .. Len(w), NEW k \in 1 .. Len(w),
         ~LabelAt(w, j), ~LabelAt(w, k), At(w, j) = At(w, k)
  PROVE  j = k
<1>1. j \in 1 .. Len(w) + 1 /\ k \in 1 .. Len(w) + 1 /\ Len(w) \in Nat
  BY Lines
<1>2. /\ At(w, j) \in Nat /\ At(w, k) \in Nat /\ Size(w, j) \in Nat /\ Size(w, j) > 0
      /\ Size(w, k) \in Nat /\ Size(w, k) > 0
  <2>1. /\ \A i \in 1 .. Len(w) + 1 : At(w, i) \in Nat
        /\ \A i \in 1 .. Len(w) : Size(w, i) \in 0 .. 10 /\ (~LabelAt(w, i) => Size(w, i) > 0)
    BY Addresses
  <2> QED
    BY <1>1, <2>1
<1>3. j < k => At(w, j) + Size(w, j) <= At(w, k)
  BY <1>1, AddressOrder
<1>4. k < j => At(w, k) + Size(w, k) <= At(w, j)
  BY <1>1, AddressOrder
<1>5. ~(j < k) /\ ~(k < j)
  BY <1>2, <1>3, <1>4
<1> QED
  BY <1>1, <1>5

\* The fields of an instruction of a source.
LEMMA SourceInstr ==
  ASSUME NEW w, Text(w), NEW k \in 1 .. Len(w), ~LabelAt(w, k)
  PROVE  LET i == w[k].instr
         IN  /\ i \in [op : Opcode, am : Mode, dst : Reg, src : Reg, idx : Int, imm : Int,
                       tgt : Int]
             /\ Plainest(i) /\ w[k].kind = "instr"
             /\ RefAt(w, k) => i.op \in BranchOp /\ i.tgt = 0 /\ w[k].label \in Labels
<1>1. w[k] \in LabelLines \cup InstrLines
  BY Lines
<1>2. w[k] \in InstrLines /\ w[k].kind = "instr"
  BY <1>1, LineLength DEF LabelAt
<1> QED
  BY <1>2 DEF InstrLines, RefAt

\* The references that are resolved are those of the lines, to where their labels are.
LEMMA Links ==
  ASSUME NEW w, Text(w), NEW s, Read(w, s, Len(w)), Undefined(s) = {}
  PROVE  Assembled(w, link(s))
<1> DEFINE n == Len(w)
           M(k) == Mangled(w, lower(w[k].label), k)
           resolve(a) == {s.addr[r[2]] : r \in {q \in s.refs : q[1] = a}}
           c == [a \in DOMAIN s.code |->
                   IF resolve(a) = {} THEN s.code[a]
                   ELSE [s.code[a] EXCEPT !.tgt = CHOOSE t \in resolve(a) : TRUE]]
           d == link(s)
<1>1. /\ IsState(s) /\ s.size = At(w, n + 1)
      /\ CodeRead(w, s.code, n) /\ RefsRead(w, s.refs, n) /\ LabelsRead(w, s.addr, n)
      /\ \A k \in 1 .. n : ~LabelAt(w, k) => Encodable(w[k].instr)
  BY DEF Read
<1>2. d = [s EXCEPT !.code = c]
  BY DEF link
<1> HIDE DEF d
<1>3. DOMAIN c = DOMAIN s.code
  OBVIOUS
<1>4. d.size = s.size /\ d.addr = s.addr /\ d.code = c
  <2> HIDE DEF c
  <2> QED
    BY <1>1, <1>2 DEF IsState
<1>5. ASSUME NEW k \in 1 .. n, RefAt(w, k)
      PROVE  /\ ~LabelAt(w, k) /\ <<At(w, k), M(k)>> \in s.refs
             /\ Defs(w, M(k), n) # {} /\ s.addr[M(k)] = Dest(w, k) /\ Dest(w, k) \in Word
  <2> DEFINE r == <<At(w, k), M(k)>>
  <2>1. r \in s.refs
    BY <1>1, <1>5 DEF RefsRead
  <2>2. r[2] = M(k)
    OBVIOUS
  <2> HIDE DEF r, M
  <2>3. M(k) \in DOMAIN s.addr /\ InBytes(s.addr[M(k)], WordMod, FALSE)
    BY <2>1, <2>2 DEF Undefined
  <2>4. Defs(w, M(k), n) # {} /\ s.addr[M(k)] = At(w, Greatest(Defs(w, M(k), n)))
    BY <1>1, <2>3 DEF LabelsRead
  <2>5. s.addr[M(k)] = Dest(w, k)
    BY <2>4 DEF Dest, M
  <2>6. s.addr[M(k)] \in Word
    BY <2>3 DEF InBytes, Word
  <2>7. ~LabelAt(w, k)
    BY <1>5 DEF RefAt, LabelAt
  <2> QED
    BY <2>1, <2>4, <2>5, <2>6, <2>7 DEF r
<1>6. ASSUME NEW k \in 1 .. n, ~LabelAt(w, k) PROVE c[At(w, k)] = Loaded(w, k)
  <2>1. At(w, k) \in DOMAIN s.code /\ s.code[At(w, k)] = Kept(w, k)
    BY <1>1, <1>6 DEF CodeRead
  <2>2. ASSUME NEW r \in s.refs, r[1] = At(w, k) PROVE RefAt(w, k) /\ r[2] = M(k)
    <3>1. PICK j \in 1 .. n : RefAt(w, j) /\ r = <<At(w, j), M(j)>>
      BY <1>1 DEF RefsRead
    <3>2. r[1] = At(w, j) /\ r[2] = M(j)
      BY <3>1
    <3> HIDE DEF M
    <3>3. ~LabelAt(w, j)
      BY <3>1 DEF RefAt, LabelAt
    <3>4. j = k
      BY <1>6, <2>2, <3>2, <3>3, AddressesApart
    <3> QED
      BY <3>1, <3>2, <3>4
  <2> DEFINE R == resolve(At(w, k))
             i == Kept(w, k)
  <2>3. c[At(w, k)] = IF R = {} THEN i ELSE [i EXCEPT !.tgt = CHOOSE t \in R : TRUE]
    BY <2>1
  <2> HIDE DEF c
  <2>4. CASE RefAt(w, k)
    <3> DEFINE r == <<At(w, k), M(k)>>
    <3>1. r \in s.refs /\ s.addr[M(k)] = Dest(w, k)
      BY <2>4, <1>5
    <3>2. r[1] = At(w, k) /\ r[2] = M(k)
      OBVIOUS
    <3> HIDE DEF M, r
    <3>3. \A x : x \in R <=> x = Dest(w, k)
      BY <2>2, <3>1, <3>2
    <3>4. (CHOOSE t \in R : TRUE) = Dest(w, k) /\ R # {}
      <4> HIDE DEF R
      <4> QED
        BY <3>3
    <3> HIDE DEF R, i
    <3> QED
      BY <2>3, <2>4, <3>4 DEF Loaded, i
  <2>5. CASE ~RefAt(w, k)
    <3>1. R = {}
      BY <2>2, <2>5
    <3>2. [i EXCEPT !.tgt = i.tgt] = i
      <4>1. w[k].instr = [op |-> w[k].instr.op, am |-> w[k].instr.am, dst |-> w[k].instr.dst,
                          src |-> w[k].instr.src, idx |-> w[k].instr.idx,
                          imm |-> w[k].instr.imm, tgt |-> w[k].instr.tgt]
        BY <1>6, SourceInstr
      <4> QED
        BY <4>1 DEF Kept
    <3> HIDE DEF R, i
    <3> QED
      BY <2>3, <2>5, <3>1, <3>2 DEF Loaded, i
  <2> QED
    BY <2>4, <2>5
<1> HIDE DEF c, M
<1>7. \A a : a \in DOMAIN d.code <=> \E k \in 1 .. n : ~LabelAt(w, k) /\ a = At(w, k)
  BY <1>1, <1>3, <1>4 DEF CodeRead
<1>8. \A k \in 1 .. n : ~LabelAt(w, k) => d.code[At(w, k)] = Loaded(w, k)
  BY <1>4, <1>6
<1>9. Assembled(w, d)
  BY <1>1, <1>4, <1>5, <1>7, <1>8 DEF Assembled, M
<1> QED
  BY <1>9 DEF d

\* The instructions that the assembler has fit their encoding.
LEMMA WritesInstrs ==
  ASSUME NEW w, Text(w), NEW k \in 1 .. Len(w), ~LabelAt(w, k), Encodable(w[k].instr)
  PROVE  /\ Kept(w, k) \in Writable
         /\ RefAt(w, k) /\ Dest(w, k) \in Word => Loaded(w, k) \in Writable
         /\ ~RefAt(w, k) => Loaded(w, k) = Kept(w, k)
         /\ InstrLen(Kept(w, k)) = Size(w, k) /\ InstrLen(Loaded(w, k)) = Size(w, k)
         /\ Loaded(w, k).op = w[k].instr.op
<1> DEFINE i == w[k].instr
           x == Kept(w, k)
           t == IF RefAt(w, k) THEN Dest(w, k) ELSE x.tgt
           y == Loaded(w, k)
<1>1. /\ i \in [op : Opcode, am : Mode, dst : Reg, src : Reg, idx : Int, imm : Int, tgt : Int]
      /\ Plainest(i) /\ (RefAt(w, k) => i.op \in BranchOp /\ i.tgt = 0)
  BY SourceInstr
<1>2. x = [i EXCEPT !.imm = Wrap(i.imm)] /\ y = [x EXCEPT !.tgt = t]
  BY DEF Kept, Loaded
<1>3. Encodable(i)
  OBVIOUS
<1>3a. Size(w, k) = InstrLen(i)
  BY DEF Size
<1> HIDE DEF i, x, y, t
<1>4. x = [op |-> i.op, am |-> i.am, dst |-> i.dst, src |-> i.src, idx |-> i.idx,
           imm |-> Wrap(i.imm), tgt |-> i.tgt]
  BY <1>1, <1>2
<1>5. y = [op |-> i.op, am |-> i.am, dst |-> i.dst, src |-> i.src, idx |-> i.idx,
           imm |-> Wrap(i.imm), tgt |-> t]
  BY <1>2, <1>4
<1>6. WordMod \in Nat \ {0}
  BY WidthAssumption DEF WordMod
<1>7. Wrap(i.imm) \in Word /\ (i.imm = 0 => Wrap(i.imm) = 0)
  <2> DEFINE m == WordMod
             v == i.imm
  <2>1. v \in Int /\ m \in Nat \ {0}
    BY <1>1, <1>6
  <2>2. Wrap(i.imm) = v % m
    BY DEF Wrap
  <2> HIDE DEF m, v
  <2>3. v % m \in 0 .. m - 1 /\ (v = 0 => v % m = 0)
    BY <2>1
  <2> QED
    BY <2>2, <2>3 DEF Word, m, v
<1>8. am(x) = am(i) /\ am(y) = am(i)
  BY <1>4, <1>5 DEF am
<1>9. Plainest(x)
  BY <1>1, <1>4, <1>7, <1>8 DEF Plainest
<1>10. /\ i.op \in MemoryOp => InBytes(i.idx, Power(IdxByteMod)[2], TRUE)
       /\ i.op \in BranchOp => i.tgt \in Word
  <2>1. /\ i.op \in BranchOp => i.op \notin MemoryOp /\ i.op \notin ArithOp
        /\ i.op \in MemoryOp => i.op \notin BranchOp /\ i.op \notin ArithOp
    BY DEF BranchOp, CondOp, MemoryOp, ArithOp, MoveOp
  <2>2. i.op \in BranchOp => InBytes(i.tgt, WordMod, FALSE)
    BY <1>3, <2>1 DEF Encodable
  <2>3. i.op \in MemoryOp => InBytes(i.idx, Power(IdxByteMod)[2], TRUE)
    BY <1>3, <2>1 DEF Encodable
  <2> QED
    BY <2>2, <2>3 DEF InBytes, Word
<1>11. i.tgt \in Nat
  <2>1. i.op \in BranchOp \/ i.tgt = 0
    BY <1>1 DEF Plainest
  <2> QED
    BY <1>6, <1>10, <2>1 DEF Word
<1>12. x \in Writable
  <2>1. x \in Instr
    BY <1>1, <1>4, <1>7, <1>11 DEF Instr
  <2> QED
    BY <1>4, <1>9, <1>10, <2>1 DEF Writable
<1>13. ASSUME RefAt(w, k), Dest(w, k) \in Word PROVE y \in Writable
  <2>1. t \in Word /\ t \in Nat /\ i.op \in BranchOp
    BY <1>1, <1>6, <1>13 DEF t, Word
  <2>2. y \in Instr
    BY <1>1, <1>5, <1>7, <2>1 DEF Instr
  <2>3. Plainest(y)
    BY <1>4, <1>5, <1>8, <1>9, <2>1 DEF Plainest
  <2>4. i.op \notin MemoryOp
    BY <2>1 DEF BranchOp, CondOp, MemoryOp
  <2> QED
    BY <1>5, <2>1, <2>2, <2>3, <2>4 DEF Writable
<1>14. ~RefAt(w, k) => y = x
  BY <1>4, <1>5 DEF t
<1>15. InstrLen(x) = InstrLen(i) /\ InstrLen(y) = InstrLen(i)
  BY <1>4, <1>5 DEF InstrLen
<1> QED
  BY <1>3a, <1>5, <1>12, <1>13, <1>14, <1>15 DEF x, y, i

\* The recursion of InOrder.
Ordered(g, f, n) ==
  /\ g[0] = <<>>
  /\ \A a \in 1 .. n : g[a] = g[a - 1] \o IF a - 1 \in DOMAIN f THEN f[a - 1] ELSE <<>>

\* It has a solution.
LEMMA OrderedRec ==
  ASSUME NEW V, NEW n \in Nat, NEW f, \A a \in DOMAIN f : f[a] \in Seq(V)
  PROVE  \E g \in [0 .. n -> Seq(V)] : Ordered(g, f, n) /\ InOrder(f, n) = g[n]
<1> DEFINE fa(a) == IF a \in DOMAIN f THEN f[a] ELSE <<>>
           step == [x \in (1 .. n) \X Seq(V) |-> x[2] \o fa(x[1] - 1)]
           P(g) == g = [a \in 0 .. n |-> IF a = 0 THEN <<>> ELSE g[a - 1] \o fa(a - 1)]
<1>1. \A a : fa(a) \in Seq(V)
  BY <<>> \in Seq(V)
<1>2. InOrder(f, n) = (CHOOSE g : P(g))[n]
  BY DEF InOrder
<1> HIDE DEF fa
<1>3. ASSUME NEW k \in 1 .. n, NEW v \in Seq(V)
      PROVE  step[<<k, v>>] = v \o fa(k - 1) /\ step[<<k, v>>] \in Seq(V)
  <2>1. step[<<k, v>>] = v \o fa(k - 1)
    OBVIOUS
  <2>2. v \o fa(k - 1) \in Seq(V)
    BY <1>1
  <2> HIDE DEF step
  <2> QED
    BY <2>1, <2>2
<1> HIDE DEF step
<1>4. PICK g \in [0 .. n -> Seq(V)] :
         g[0] = <<>> /\ \A k \in 1 .. n : g[k] = step[<<k, g[k - 1]>>]
  <2>1. \E g \in [0 .. n -> Seq(V)] : RecursTo(g, n, <<>>, step)
    <3> DEFINE W == Seq(V)
               e == <<>>
    <3>1. e \in W /\ \A k \in 1 .. n, v \in W : step[<<k, v>>] \in W
      BY <1>3
    <3> HIDE DEF W, e
    <3>2. \E g \in [0 .. n -> W] : RecursTo(g, n, e, step)
      BY <3>1, RecursionTo
    <3> QED
      BY <3>2 DEF W, e
  <2> QED
    BY <2>1 DEF RecursTo
<1>5. P(g)
  <2>1. ASSUME NEW k \in 0 .. n PROVE g[k] = IF k = 0 THEN <<>> ELSE g[k - 1] \o fa(k - 1)
    <3>1. CASE k = 0
      BY <3>1, <1>4
    <3>2. CASE k # 0
      <4>1. k \in 1 .. n /\ k - 1 \in 0 .. n
        BY <3>2
      <4>2. g[k] = step[<<k, g[k - 1]>>] /\ g[k - 1] \in Seq(V)
        BY <1>4, <4>1, SMTT(30)
      <4> QED
        BY <4>1, <4>2, <3>2, <1>3
    <3> QED
      BY <3>1, <3>2
  <2> QED
    BY <2>1
<1> DEFINE h == CHOOSE h : P(h)
<1>6. P(h)
  BY <1>5
<1>7. InOrder(f, n) = h[n]
  BY <1>2
<1> HIDE DEF h
<1>8. \A k \in 0 .. n : h[k] = g[k]
  <2> DEFINE T == {k \in Nat : k \in 0 .. n => h[k] = g[k]}
  <2>1. 0 \in T
    <3>1. 0 \in 0 .. n
      OBVIOUS
    <3> QED
      BY <3>1, <1>5, <1>6
  <2>2. ASSUME NEW k \in T PROVE k + 1 \in T
    <3>1. CASE k + 1 \in 0 .. n
      <4>1. k \in 0 .. n /\ h[k] = g[k] /\ k + 1 # 0 /\ (k + 1) - 1 = k
        BY <3>1
      <4>2. h[k + 1] = h[k] \o fa(k)
        BY <1>6, <3>1, <4>1
      <4>3. g[k + 1] = g[k] \o fa(k)
        BY <1>5, <3>1, <4>1
      <4>4. h[k + 1] = g[k + 1]
        BY <4>1, <4>2, <4>3
      <4> QED
        BY <4>4
    <3> QED
      BY <3>1
  <2> HIDE DEF T
  <2>3. T = Nat
    BY <2>1, <2>2, SetInduction, T \in SUBSET Nat DEF T
  <2>4. ASSUME NEW k \in 0 .. n PROVE h[k] = g[k]
    <3>1. k \in T
      BY <2>3
    <3> QED
      BY <3>1 DEF T
  <2> QED
    BY <2>4
<1>9. Ordered(g, f, n)
  <2>1. ASSUME NEW a \in 1 .. n
        PROVE  g[a] = g[a - 1] \o IF a - 1 \in DOMAIN f THEN f[a - 1] ELSE <<>>
    <3>1. a \in 0 .. n /\ a # 0
      OBVIOUS
    <3>2. g[a] = g[a - 1] \o fa(a - 1)
      BY <1>5, <3>1
    <3> QED
      BY <3>2 DEF fa
  <2> QED
    BY <2>1, <1>4 DEF Ordered
<1>10. InOrder(f, n) = g[n]
  <2>1. n \in 0 .. n
    OBVIOUS
  <2> QED
    BY <2>1, <1>7, <1>8
<1> QED
  BY <1>9, <1>10

\* What f has lies end to end from 0 to n, each value as long as the addresses it takes.
Tiles(f, n) ==
  /\ 0 \in DOMAIN f \cup {n} /\ DOMAIN f \subseteq 0 .. n - 1
  /\ \A a \in DOMAIN f : /\ f[a] \in Seq(Nat) /\ Len(f[a]) > 0
                         /\ a + Len(f[a]) \in DOMAIN f \cup {n}
                         /\ \A b \in DOMAIN f : b <= a \/ a + Len(f[a]) <= b

\* Written in order, each value is at its address.
LEMMA InPlaceInOrder ==
  ASSUME NEW n \in Nat, NEW f, Tiles(f, n)
  PROVE  /\ InOrder(f, n) \in Seq(Nat) /\ Len(InOrder(f, n)) = n
         /\ \A a \in DOMAIN f : \A k \in 1 .. Len(f[a]) : InOrder(f, n)[a + k] = f[a][k]
<1>1. /\ 0 \in DOMAIN f \cup {n} /\ DOMAIN f \subseteq 0 .. n - 1
      /\ \A a \in DOMAIN f : /\ a \in Nat /\ a < n /\ f[a] \in Seq(Nat) /\ Len(f[a]) \in Nat
                             /\ Len(f[a]) > 0 /\ a + Len(f[a]) \in DOMAIN f \cup {n}
                             /\ \A b \in DOMAIN f : b <= a \/ a + Len(f[a]) <= b
  BY DEF Tiles
<1>2. PICK g \in [0 .. n -> Seq(Nat)] : Ordered(g, f, n) /\ InOrder(f, n) = g[n]
  BY <1>1, OrderedRec
<1> DEFINE Good(c) ==
             /\ \A a \in DOMAIN f : a < c => /\ a + Len(f[a]) <= Len(g[c])
                                             /\ \A k \in 1 .. Len(f[a]) : g[c][a + k] = f[a][k]
             /\ c \in DOMAIN f \cup {n} => Len(g[c]) = c
             /\ c \notin DOMAIN f \cup {n} =>
                  \E a \in DOMAIN f : a < c /\ c < a + Len(f[a]) /\ Len(g[c]) = a + Len(f[a])
           T == {c \in Nat : c \in 0 .. n => Good(c)}
<1>3. 0 \in T
  <2>1. g[0] = <<>> /\ Len(<<>>) = 0
    BY <1>2 DEF Ordered
  <2>2. \A a \in DOMAIN f : ~(a < 0)
    BY <1>1
  <2> QED
    BY <1>1, <2>1, <2>2
<1>4. ASSUME NEW c \in T, c + 1 \in 0 .. n PROVE Good(c + 1)
  <2>1. c \in Nat /\ c < n /\ c \in 0 .. n /\ c + 1 \in 1 .. n /\ (c + 1) - 1 = c
    BY <1>4
  <2>2. Good(c)
    BY <2>1
  <2> HIDE DEF T, Good
  <2>3. g[c] \in Seq(Nat) /\ g[c + 1] \in Seq(Nat) /\ Len(g[c]) \in Nat
    BY <2>1
  <2>4. g[c + 1] = g[c] \o IF c \in DOMAIN f THEN f[c] ELSE <<>>
    BY <1>2, <2>1 DEF Ordered
  <2>5. \A a \in DOMAIN f : a < c => /\ a + Len(f[a]) <= Len(g[c])
                                     /\ \A k \in 1 .. Len(f[a]) : g[c][a + k] = f[a][k]
    BY <2>2 DEF Good
  <2>6. CASE c \in DOMAIN f
    <3> DEFINE L == Len(f[c])
    <3>1. Len(g[c]) = c
      BY <2>2, <2>6 DEF Good
    <3>2. /\ f[c] \in Seq(Nat) /\ L \in Nat /\ L > 0 /\ c + L \in DOMAIN f \cup {n}
          /\ \A b \in DOMAIN f : b <= c \/ c + L <= b
      BY <1>1, <2>6
    <3>3. g[c + 1] = g[c] \o f[c]
      BY <2>4, <2>6
    <3>4. /\ Len(g[c + 1]) = c + L
          /\ \A k \in 1 .. c : g[c + 1][k] = g[c][k]
          /\ \A k \in 1 .. L : g[c + 1][k + c] = f[c][k]
      <4> DEFINE s == g[c]
                 t == f[c]
      <4>1. s \in Seq(Nat) /\ t \in Seq(Nat) /\ Len(s) = c /\ Len(t) = L /\ g[c + 1] = s \o t
        BY <2>3, <3>1, <3>2, <3>3
      <4> HIDE DEF s, t, L
      <4>2. /\ Len(s \o t) = Len(s) + Len(t) /\ \A k \in 1 .. Len(s) : (s \o t)[k] = s[k]
            /\ \A k \in 1 .. Len(t) : (s \o t)[k + Len(s)] = t[k]
        <5>1. Joined(s \o t, s, t)
          BY <4>1, Joins
        <5> QED
          BY <5>1 DEF Joined
      <4> QED
        BY <4>1, <4>2 DEF s, t
    <3> HIDE DEF L
    <3>5. ASSUME NEW a \in DOMAIN f, a < c + 1
          PROVE  /\ a + Len(f[a]) <= Len(g[c + 1])
                 /\ \A k \in 1 .. Len(f[a]) : g[c + 1][a + k] = f[a][k]
      <4>1. a \in Nat /\ Len(f[a]) \in Nat
        BY <1>1
      <4>2. CASE a = c
        <5>1. a + Len(f[a]) <= Len(g[c + 1])
          BY <2>1, <3>2, <3>4, <4>2 DEF L
        <5>2. \A k \in 1 .. Len(f[a]) : g[c + 1][a + k] = f[a][k]
          <6> TAKE k \in 1 .. Len(f[a])
          <6>1. a + k = k + c
            BY <2>1, <4>2
          <6> QED
            BY <3>4, <4>2, <6>1 DEF L
        <5> QED
          BY <5>1, <5>2
      <4>3. CASE a < c
        <5>1. a + Len(f[a]) <= c /\ \A k \in 1 .. Len(f[a]) : g[c][a + k] = f[a][k]
          BY <2>5, <3>1, <4>3
        <5>2. a + Len(f[a]) <= Len(g[c + 1])
          BY <2>1, <3>2, <3>4, <4>1, <5>1
        <5>3. \A k \in 1 .. Len(f[a]) : g[c + 1][a + k] = f[a][k]
          <6> TAKE k \in 1 .. Len(f[a])
          <6>1. a + k \in 1 .. c
            <7>1. c \in Nat /\ a \in Nat /\ a + Len(f[a]) <= c
              BY <2>1, <4>1, <5>1
            <7> DEFINE z == Len(f[a])
            <7>2. z \in Nat /\ k \in 1 .. z
              BY <4>1
            <7> HIDE DEF z
            <7>3. a + z <= c
              BY <7>1 DEF z
            <7> QED
              BY ONLY <7>1, <7>2, <7>3
          <6> QED
            BY <3>4, <5>1, <6>1
        <5> QED
          BY <5>2, <5>3
      <4> QED
        BY <2>1, <3>5, <4>1, <4>2, <4>3
    <3>6. ASSUME c + 1 \in DOMAIN f \cup {n} PROVE Len(g[c + 1]) = c + 1
      <4>1. c + 1 \in DOMAIN f => c + L <= c + 1
        <5>1. c + 1 \in DOMAIN f => c + 1 <= c \/ c + L <= c + 1
          BY <3>2
        <5> HIDE DEF L
        <5> QED
          BY <2>1, <5>1
      <4>2. c + L <= n
        BY <1>1, <2>1, <3>2
      <4>3. c + L <= c + 1
        BY <3>6, <4>1, <4>2
      <4> QED
        BY <2>1, <3>2, <3>4, <4>3
    <3>7. ASSUME c + 1 \notin DOMAIN f \cup {n}
          PROVE  \E a \in DOMAIN f : /\ a < c + 1 /\ c + 1 < a + Len(f[a])
                                     /\ Len(g[c + 1]) = a + Len(f[a])
      <4>1. c + L # c + 1
        BY <3>2, <3>7
      <4>2. c < c + 1 /\ c + 1 < c + L
        BY <2>1, <3>2, <4>1
      <4> QED
        BY <2>6, <3>4, <4>2 DEF L
    <3> QED
      BY <3>5, <3>6, <3>7 DEF Good
  <2>7. CASE c \notin DOMAIN f
    <3>1. g[c + 1] = g[c]
      BY <2>3, <2>4, <2>7
    <3>2. c \notin DOMAIN f \cup {n}
      BY <2>1, <2>7
    <3>3. PICK a \in DOMAIN f : a < c /\ c < a + Len(f[a]) /\ Len(g[c]) = a + Len(f[a])
      BY <2>2, <3>2 DEF Good
    <3>4. /\ a \in Nat /\ Len(f[a]) \in Nat /\ a + Len(f[a]) \in DOMAIN f \cup {n}
          /\ \A b \in DOMAIN f : b <= a \/ a + Len(f[a]) <= b
      BY <1>1
    <3> DEFINE e == a + Len(f[a])
    <3>5. e \in Nat /\ c + 1 <= e /\ a < c + 1
      BY <2>1, <3>3, <3>4
    <3>6. \A b \in DOMAIN f : b < c + 1 => b < c
      BY <1>1, <2>1, <2>7
    <3>7. ASSUME NEW b \in DOMAIN f, b < c + 1
          PROVE  /\ b + Len(f[b]) <= Len(g[c + 1])
                 /\ \A k \in 1 .. Len(f[b]) : g[c + 1][b + k] = f[b][k]
      BY <2>5, <3>1, <3>6, <3>7
    <3>8. ASSUME c + 1 \in DOMAIN f \cup {n} PROVE Len(g[c + 1]) = c + 1
      <4>1. e <= n
        BY <1>1, <3>4
      <4>2. c + 1 \in DOMAIN f => e <= c + 1
        BY <2>1, <3>3, <3>4
      <4>3. e <= c + 1
        BY <3>8, <4>1, <4>2
      <4> QED
        BY <2>1, <3>1, <3>3, <3>5, <4>3
    <3>9. ASSUME c + 1 \notin DOMAIN f \cup {n}
          PROVE  \E b \in DOMAIN f : /\ b < c + 1 /\ c + 1 < b + Len(f[b])
                                     /\ Len(g[c + 1]) = b + Len(f[b])
      <4>1. c + 1 # e
        BY <3>4, <3>9
      <4>2. c + 1 < e
        BY <2>1, <3>5, <4>1
      <4> QED
        BY <3>1, <3>3, <3>5, <4>2
    <3> QED
      BY <3>7, <3>8, <3>9 DEF Good
  <2> QED
    BY <2>6, <2>7
<1>5. ASSUME NEW c \in T PROVE c + 1 \in T
  <2> HIDE DEF Good
  <2>1. CASE c + 1 \in 0 .. n
    <3>1. Good(c + 1)
      BY <1>4, <2>1
    <3> QED
      BY <3>1
  <2>2. CASE c + 1 \notin 0 .. n
    BY <2>2
  <2> QED
    BY <2>1, <2>2
<1> HIDE DEF T
<1>6. T = Nat
  BY <1>3, <1>5, SetInduction, T \in SUBSET Nat DEF T
<1>7. Good(n)
  BY <1>6, n \in 0 .. n DEF T
<1>8. Len(g[n]) = n /\ g[n] \in Seq(Nat)
  BY <1>7
<1>9. \A a \in DOMAIN f : a < n
  BY <1>1
<1>10. \A a \in DOMAIN f : \A k \in 1 .. Len(f[a]) : g[n][a + k] = f[a][k]
  BY <1>7, <1>9
<1> QED
  BY <1>2, <1>8, <1>10

\* The bytes of an instruction, as many as it is long.
LEMMA EncodingBytes ==
  ASSUME NEW i \in Writable
  PROVE  Encoding(i) \in Seq(Nat) /\ Len(Encoding(i)) = InstrLen(i) /\ InstrLen(i) \in 1 .. 10
<1> DEFINE x == gen_opcode(i)
           y == gen_rr(i.dst, i.src)
           z == gen_r(i.dst)
           e == Encoding(i)
<1>1. x \in Nat /\ y \in Nat /\ z \in Nat
  BY Heads
<1>2. /\ ByteMod \in Nat \ {0} /\ IdxByteMod \in Nat \ {0} /\ 2 \in Nat /\ 8 \in Nat
      /\ i.idx \in Int /\ i.tgt \in Int /\ i.imm \in Int
  BY ByteAssumption, IdxByteAssumption DEF Writable, Instr, Word
<1>3. /\ gen_i(i.idx, 2, IdxByteMod) \in Seq(Nat) /\ gen_i(i.tgt, 8, ByteMod) \in Seq(Nat)
      /\ gen_i(i.imm, 8, ByteMod) \in Seq(Nat)
  BY <1>2, Digits
<1>4. \A b \in Nat : <<b>> \in Seq(Nat)
  OBVIOUS
<1>5. <<>> \in Seq(Nat)
  OBVIOUS
<1>6. \A s, t \in Seq(Nat) : s \o t \in Seq(Nat)
  BY Joins
<1>7. e \in Seq(Nat)
  <2>1. \/ i.op \in MemoryOp /\ e = <<x>> \o (<<y>> \o gen_i(i.idx, 2, IdxByteMod))
        \/ i.op \in BranchOp /\ e = <<x>> \o gen_i(i.tgt, 8, ByteMod)
        \/ e = <<x>> \o (<<z>> \o gen_i(i.imm, 8, ByteMod))
        \/ e = <<x>> \o <<y>> \/ e = <<x>> \o <<z>> \/ e = <<x>> \o <<>>
    BY Kinds
  <2> HIDE DEF x, y, z, e
  <2> QED
    BY <1>1, <1>3, <1>4, <1>5, <1>6, <2>1, ZenonT(60)
<1>8. StartsWith(e, e)
  <2> HIDE DEF e
  <2> QED
    BY <1>7 DEF StartsWith
<1>9. Len(e) = InstrLen(i)
  <2>1. e \in Seq(Nat) /\ StartsWith(e, Encoding(i))
    BY <1>7, <1>8
  <2> HIDE DEF e
  <2> QED
    BY <2>1, ReadsInstruction DEF e
<1>10. InstrLen(i) \in 1 .. 10
  BY DEF InstrLen
<1> QED
  BY <1>7, <1>9, <1>10

\* The instructions c lie end to end from 0 to n.
EndToEnd(c, n) ==
  /\ 0 \in DOMAIN c \cup {n} /\ DOMAIN c \subseteq 0 .. n - 1
  /\ \A a \in DOMAIN c : /\ c[a] \in Writable
                         /\ a + InstrLen(c[a]) \in DOMAIN c \cup {n}
                         /\ \A b \in DOMAIN c : b <= a \/ a + InstrLen(c[a]) <= b

\* The assembler lays them so.
LEMMA Laid ==
  ASSUME NEW w, Text(w), NEW s, Assembled(w, s)
  PROVE  s.size \in Nat /\ EndToEnd(s.code, s.size)
<1> DEFINE n == Len(w)
           D == DOMAIN s.code \cup {s.size}
<1>1. n \in Nat /\ \A k \in 1 .. n : k \in 1 .. n + 1 /\ k + 1 \in 1 .. n + 1
  BY Lines
<1>2. /\ At(w, 1) = 0 /\ \A k \in 1 .. n + 1 : At(w, k) \in Nat
      /\ \A k \in 1 .. n : /\ Size(w, k) \in 0 .. 10 /\ (~LabelAt(w, k) => Size(w, k) > 0)
                           /\ At(w, k + 1) = At(w, k) + Size(w, k)
  BY Addresses
<1>3. /\ s.size = At(w, n + 1)
      /\ \A a : a \in DOMAIN s.code <=> \E k \in 1 .. n : ~LabelAt(w, k) /\ a = At(w, k)
      /\ \A k \in 1 .. n : ~LabelAt(w, k) => /\ s.code[At(w, k)] = Loaded(w, k)
                                             /\ Encodable(w[k].instr)
      /\ \A k \in 1 .. n : RefAt(w, k) => Dest(w, k) \in Word
  BY DEF Assembled
<1>4. ASSUME NEW k \in 1 .. n, NEW j \in 1 .. n + 1, k < j
      PROVE  At(w, k) + Size(w, k) <= At(w, j)
  BY <1>4, AddressOrder
<1> HIDE DEF n
<1>5. s.size \in Nat
  BY <1>1, <1>2, <1>3
<1>6. \A j \in 1 .. n + 1 : At(w, j) \in D
  <2> DEFINE T == {d \in Nat : n + 1 - d \in 1 .. n + 1 => At(w, n + 1 - d) \in D}
  <2> HIDE DEF D
  <2>1. 0 \in T
    <3>1. n + 1 - 0 = n + 1 /\ At(w, n + 1) \in D
      BY <1>1, <1>3 DEF D
    <3> QED
      BY <3>1
  <2>2. ASSUME NEW d \in T PROVE d + 1 \in T
    <3> SUFFICES ASSUME n + 1 - (d + 1) \in 1 .. n + 1 PROVE At(w, n + 1 - (d + 1)) \in D
      OBVIOUS
    <3> DEFINE j == n + 1 - (d + 1)
    <3>1. j \in 1 .. n /\ j + 1 = n + 1 - d /\ j + 1 \in 1 .. n + 1
      BY <1>1
    <3>2. At(w, j + 1) \in D
      BY <3>1
    <3> HIDE DEF j, T
    <3>3. CASE LabelAt(w, j)
      <4>1. Size(w, j) = 0 /\ At(w, j) \in Nat
        BY <1>1, <1>2, <3>1, <3>3 DEF Size
      <4>2. At(w, j + 1) = At(w, j)
        BY <1>2, <3>1, <4>1
      <4> QED
        BY <3>2, <4>2 DEF j
    <3>4. CASE ~LabelAt(w, j)
      BY <1>3, <3>1, <3>4 DEF D, j
    <3> QED
      BY <3>3, <3>4
  <2> HIDE DEF T
  <2>3. T = Nat
    BY <2>1, <2>2, SetInduction, T \in SUBSET Nat DEF T
  <2>4. ASSUME NEW j \in 1 .. n + 1 PROVE At(w, j) \in D
    <3>1. n + 1 - j \in T /\ n + 1 - (n + 1 - j) = j
      BY <1>1, <2>3
    <3> QED
      BY <3>1 DEF T
  <2> QED
    BY <2>4
<1>7. 0 \in D
  <2>1. 1 \in 1 .. n + 1
    BY <1>1
  <2> QED
    BY <1>2, <1>6, <2>1
<1>8. ASSUME NEW a \in DOMAIN s.code
      PROVE  /\ a \in 0 .. s.size - 1 /\ s.code[a] \in Writable
             /\ a + InstrLen(s.code[a]) \in D
             /\ \A b \in DOMAIN s.code : b <= a \/ a + InstrLen(s.code[a]) <= b
  <2>1. PICK k \in 1 .. n : ~LabelAt(w, k) /\ a = At(w, k)
    BY <1>3
  <2>2. s.code[a] = Loaded(w, k) /\ Encodable(w[k].instr)
    BY <1>3, <2>1
  <2>3. s.code[a] \in Writable /\ InstrLen(s.code[a]) = Size(w, k)
    <3>1. /\ Kept(w, k) \in Writable
          /\ RefAt(w, k) /\ Dest(w, k) \in Word => Loaded(w, k) \in Writable
          /\ ~RefAt(w, k) => Loaded(w, k) = Kept(w, k)
          /\ InstrLen(Loaded(w, k)) = Size(w, k)
      BY <2>1, <2>2, WritesInstrs DEF n
    <3> QED
      BY <1>3, <2>2, <3>1
  <2>4. a + Size(w, k) = At(w, k + 1) /\ a \in Nat /\ Size(w, k) \in Nat /\ Size(w, k) > 0
    BY <1>1, <1>2, <2>1
  <2>5. a + InstrLen(s.code[a]) \in D
    BY <1>1, <1>6, <2>3, <2>4
  <2>6. a < s.size
    <3>1. k < n + 1 /\ n + 1 \in 1 .. n + 1
      BY <1>1
    <3>2. At(w, k) + Size(w, k) <= At(w, n + 1)
      BY <1>4, <3>1
    <3> QED
      BY <1>3, <1>5, <2>1, <2>4, <3>2
  <2>7. ASSUME NEW b \in DOMAIN s.code, b > a PROVE a + Size(w, k) <= b
    <3>1. PICK j \in 1 .. n : ~LabelAt(w, j) /\ b = At(w, j)
      BY <1>3
    <3>2. CASE k < j
      BY <1>1, <1>4, <2>1, <3>1, <3>2
    <3>3. CASE j < k
      <4>1. b + Size(w, j) <= a
        BY <1>1, <1>4, <2>1, <3>1, <3>3
      <4>2. b \in Nat /\ Size(w, j) \in Nat
        BY <1>1, <1>2, <3>1
      <4> QED
        BY <2>4, <2>7, <4>1, <4>2
    <3>4. CASE j = k
      BY <2>1, <2>4, <2>7, <3>1, <3>4
    <3>5. k \in Int /\ j \in Int
      BY <1>1
    <3> QED
      BY <3>2, <3>3, <3>4, <3>5
  <2>8. \A b \in DOMAIN s.code : b \in Nat
    BY <1>1, <1>2, <1>3
  <2>9. \A b \in DOMAIN s.code : b <= a \/ a + InstrLen(s.code[a]) <= b
    <3> TAKE b \in DOMAIN s.code
    <3>1. b <= a \/ b > a
      BY <2>4, <2>8
    <3> QED
      BY <2>3, <2>7, <3>1
  <2> QED
    BY <1>5, <2>3, <2>4, <2>5, <2>6, <2>9
<1> QED
  BY <1>5, <1>7, <1>8 DEF EndToEnd, D

\* The bytes of a program, each instruction's at its address.
LEMMA BytesInPlace ==
  ASSUME NEW s, s.size \in Nat, EndToEnd(s.code, s.size)
  PROVE  /\ Bytes(s) \in Seq(Nat) /\ Len(Bytes(s)) = s.size
         /\ \A a \in DOMAIN s.code : \A k \in 1 .. Len(Encoding(s.code[a])) :
               Bytes(s)[a + k] = Encoding(s.code[a])[k]
<1> DEFINE c == s.code
           n == s.size
           f == [a \in DOMAIN c |-> Encoding(c[a])]
<1>1. /\ 0 \in DOMAIN c \cup {n} /\ DOMAIN c \subseteq 0 .. n - 1
      /\ \A a \in DOMAIN c : /\ c[a] \in Writable
                             /\ a + InstrLen(c[a]) \in DOMAIN c \cup {n}
                             /\ \A b \in DOMAIN c : b <= a \/ a + InstrLen(c[a]) <= b
  BY DEF EndToEnd
<1>2. \A a \in DOMAIN c : /\ f[a] \in Seq(Nat) /\ Len(f[a]) = InstrLen(c[a])
                          /\ InstrLen(c[a]) \in 1 .. 10
  BY <1>1, EncodingBytes
<1>3. DOMAIN f = DOMAIN c /\ Bytes(s) = InOrder(f, n)
  BY DEF Bytes
<1>4. \A a \in DOMAIN c : f[a] = Encoding(c[a])
  OBVIOUS
<1> HIDE DEF f, c, n
<1>5. Tiles(f, n)
  <2>1. \A a \in DOMAIN f : Len(f[a]) = InstrLen(c[a]) /\ Len(f[a]) > 0
    BY <1>2, <1>3
  <2> QED
    BY <1>1, <1>2, <1>3, <2>1 DEF Tiles
<1>6. n \in Nat
  BY DEF n
<1>7. /\ InOrder(f, n) \in Seq(Nat) /\ Len(InOrder(f, n)) = n
      /\ \A a \in DOMAIN f : \A k \in 1 .. Len(f[a]) : InOrder(f, n)[a + k] = f[a][k]
  BY <1>5, <1>6, InPlaceInOrder
<1> QED
  BY <1>3, <1>4, <1>7 DEF c, n

\* The disassembler is at the address cur of the instructions c, that take n bytes: h are the
\* bytes from there on, and p are the instructions before.
Decodes(c, n, h, p, cur) ==
  /\ cur \in DOMAIN c \cup {n} /\ h \in Seq(Nat) /\ Len(h) = n - cur
  /\ \A a \in DOMAIN c : cur <= a =>
        \A k \in 1 .. Len(Encoding(c[a])) : h[(a - cur) + k] = Encoding(c[a])[k]
  /\ \A a : a \in DOMAIN p <=> a \in DOMAIN c /\ a < cur
  /\ \A a \in DOMAIN p : p[a] = AsRead(c[a])

\* The next instruction.
LEMMA DecodesNext ==
  ASSUME NEW c, NEW n \in Nat, NEW h, NEW p, NEW cur, EndToEnd(c, n), Decodes(c, n, h, p, cur),
         h # <<>>
  PROVE  LET d == disasm_instruction(h)
         IN  Decodes(c, n, SubSeq(h, d.len + 1, Len(h)), Put(p, cur, d.instr), cur + d.len)
<1> DEFINE d == disasm_instruction(h)
           i == c[cur]
           e == Encoding(i)
           m == InstrLen(i)
<1>1. /\ DOMAIN c \subseteq 0 .. n - 1
      /\ \A a \in DOMAIN c : /\ c[a] \in Writable
                             /\ a + InstrLen(c[a]) \in DOMAIN c \cup {n}
                             /\ \A b \in DOMAIN c : b <= a \/ a + InstrLen(c[a]) <= b
  BY DEF EndToEnd
<1>2. /\ cur \in DOMAIN c \cup {n} /\ h \in Seq(Nat) /\ Len(h) = n - cur
      /\ \A a \in DOMAIN c : cur <= a =>
            \A k \in 1 .. Len(Encoding(c[a])) : h[(a - cur) + k] = Encoding(c[a])[k]
      /\ \A a : a \in DOMAIN p <=> a \in DOMAIN c /\ a < cur
      /\ \A a \in DOMAIN p : p[a] = AsRead(c[a])
  BY DEF Decodes
<1>3. \A a \in DOMAIN c : a \in Nat /\ a < n
  BY <1>1
<1>4. cur \in DOMAIN c
  <2>1. Len(h) # 0
    BY <1>2
  <2> QED
    BY <1>2, <2>1
<1>5. i \in Writable /\ cur + m \in DOMAIN c \cup {n} /\ cur \in Nat /\ cur < n
  BY <1>1, <1>3, <1>4
<1>6. e \in Seq(Nat) /\ Len(e) = m /\ m \in 1 .. 10
  BY <1>5, EncodingBytes
<1>7. cur + m \in Nat /\ cur + m <= n
  BY <1>3, <1>5, <1>6
<1>8. StartsWith(h, e)
  <2>1. \A k \in 1 .. Len(e) : h[(cur - cur) + k] = e[k]
    BY <1>2, <1>4, <1>5
  <2>2. \A k \in 1 .. Len(e) : (cur - cur) + k = k
    BY <1>5, <1>6
  <2>3. Len(e) <= Len(h)
    BY <1>2, <1>5, <1>6, <1>7
  <2> HIDE DEF e
  <2> QED
    BY <2>1, <2>2, <2>3 DEF StartsWith
<1>9. d = [len |-> m, instr |-> AsRead(i)]
  <2> HIDE DEF d
  <2>1. i \in Writable /\ h \in Seq(Nat) /\ StartsWith(h, Encoding(i))
    BY <1>2, <1>5, <1>8
  <2> HIDE DEF i, e
  <2> QED
    BY <2>1, ReadsInstruction DEF d
<1>10. d.len = m /\ d.instr = AsRead(i)
  <2> HIDE DEF d, i, m
  <2> QED
    BY <1>9
<1> DEFINE g == SubSeq(h, m + 1, Len(h))
           q == Put(p, cur, AsRead(i))
<1> HIDE DEF d, e
<1>11. /\ g \in Seq(Nat) /\ Len(g) = n - (cur + m)
       /\ \A k \in 1 .. n - (cur + m) : g[k] = h[m + k]
  <2> HIDE DEF m, i
  <2>1. Len(h) \in Nat /\ Len(h) = n - cur /\ m + 1 \in Nat /\ m + 1 >= 1 /\ m <= Len(h)
    BY <1>2, <1>5, <1>6, <1>7
  <2>2. /\ g = [k \in 1 .. Len(h) - (m + 1) + 1 |-> h[k + (m + 1) - 1]]
        /\ \A k \in 1 .. Len(h) - (m + 1) + 1 : h[k + (m + 1) - 1] \in Nat
    <3>1. \A k \in 1 .. Len(h) - (m + 1) + 1 : k + (m + 1) - 1 \in 1 .. Len(h)
      BY <2>1, <1>6
    <3> QED
      BY <1>2, <2>1, <3>1, SMTT(30)
  <2>3. /\ Len(h) - (m + 1) + 1 = n - (cur + m) /\ n - (cur + m) \in Nat
        /\ \A k \in 1 .. n - (cur + m) : k + (m + 1) - 1 = m + k
    BY <1>5, <1>6, <1>7, <2>1
  <2> DEFINE r == n - (cur + m)
  <2> HIDE DEF g, r
  <2>4. g = [k \in 1 .. r |-> h[m + k]] /\ \A k \in 1 .. r : h[m + k] \in Nat
    BY <2>2, <2>3 DEF r
  <2>5. r \in Nat
    BY <2>3 DEF r
  <2>6. g \in Seq(Nat) /\ Len(g) = r
    BY <2>4, <2>5
  <2> QED
    BY <2>4, <2>6 DEF r
<1>12. ASSUME NEW a \in DOMAIN c, cur + m <= a, NEW k \in 1 .. Len(Encoding(c[a]))
       PROVE  g[(a - (cur + m)) + k] = Encoding(c[a])[k]
  <2>1. /\ c[a] \in Writable /\ a \in Nat /\ a + InstrLen(c[a]) <= n
    BY <1>1, <1>3
  <2>2. Len(Encoding(c[a])) = InstrLen(c[a]) /\ InstrLen(c[a]) \in 1 .. 10
    BY <2>1, EncodingBytes
  <2>3. h[(a - cur) + k] = Encoding(c[a])[k]
    <3>1. cur <= a
      BY <1>5, <1>6, <1>12, <2>1
    <3> QED
      BY <1>2, <3>1
  <2> DEFINE x == Encoding(c[a])[k]
             y == InstrLen(c[a])
  <2> HIDE DEF m, i, g, x
  <2>4. (a - (cur + m)) + k \in 1 .. n - (cur + m) /\ m + ((a - (cur + m)) + k) = (a - cur) + k
    <3>1. k \in 1 .. y /\ y \in 1 .. 10 /\ a + y <= n
      BY <2>1, <2>2
    <3> DEFINE z == cur + m
    <3>2. z \in Nat /\ m \in Nat /\ cur \in Nat /\ z = cur + m /\ z <= a /\ a \in Nat
      BY <1>5, <1>6, <1>12, <2>1
    <3>3. k \in Nat /\ k >= 1 /\ k <= y /\ y \in Nat /\ n \in Nat
      BY <3>1
    <3> HIDE DEF y, z
    <3>4. (a - z) + k \in 1 .. n - z
      BY ONLY <3>1, <3>2, <3>3
    <3>5. m + ((a - z) + k) = (a - cur) + k
      BY ONLY <3>2, <3>3
    <3> QED
      BY <3>4, <3>5 DEF z
  <2>5. g[(a - (cur + m)) + k] = h[m + ((a - (cur + m)) + k)]
    BY <1>11, <2>4
  <2> QED
    BY <2>3, <2>4, <2>5 DEF x
<1>13. \A a : a \in DOMAIN q <=> a \in DOMAIN c /\ a < cur + m
  <2>1. \A a : a \in DOMAIN q <=> a \in DOMAIN p \/ a = cur
    BY DEF Put
  <2>2. \A a \in DOMAIN c : a < cur + m <=> a < cur \/ a = cur
    <3> TAKE a \in DOMAIN c
    <3>1. a \in Nat /\ (a <= cur \/ cur + m <= a)
      BY <1>1, <1>3, <1>4
    <3> HIDE DEF m
    <3> QED
      BY <1>5, <1>6, <3>1
  <2> HIDE DEF q, m
  <2> QED
    BY <1>2, <1>4, <2>1, <2>2
<1>14. \A a \in DOMAIN q : q[a] = AsRead(c[a])
  <2> DEFINE v == AsRead(i)
  <2> HIDE DEF v
  <2>1. DOMAIN Put(p, cur, v) = DOMAIN p \cup {cur} /\ Put(p, cur, v)[cur] = v
    BY DEF Put
  <2>2. \A a \in DOMAIN p : Put(p, cur, v)[a] = IF a = cur THEN v ELSE p[a]
    BY DEF Put
  <2> QED
    BY <1>2, <2>1, <2>2 DEF v
<1>15. Decodes(c, n, g, q, cur + m)
  <2> HIDE DEF g, q, m
  <2> QED
    BY <1>5, <1>11, <1>12, <1>13, <1>14 DEF Decodes
<1> QED
  BY <1>10, <1>15 DEF d

\* Before the first instruction.
LEMMA DecodesStart ==
  ASSUME NEW s, s.size \in Nat, EndToEnd(s.code, s.size)
  PROVE  Decodes(s.code, s.size, Bytes(s), <<>>, 0)
<1> DEFINE c == s.code
           n == s.size
           h == Bytes(s)
<1>1. /\ h \in Seq(Nat) /\ Len(h) = n
      /\ \A a \in DOMAIN c : \A k \in 1 .. Len(Encoding(c[a])) : h[a + k] = Encoding(c[a])[k]
  BY BytesInPlace
<1>2. 0 \in DOMAIN c \cup {n} /\ DOMAIN c \subseteq 0 .. n - 1
  BY DEF EndToEnd
<1>3. n \in Nat
  OBVIOUS
<1> HIDE DEF h, c, n
<1>4. Len(h) = n - 0
  BY <1>1, <1>3
<1>5. ASSUME NEW a \in DOMAIN c, NEW k \in 1 .. Len(Encoding(c[a]))
      PROVE  h[(a - 0) + k] = Encoding(c[a])[k]
  <2>1. a - 0 = a
    BY <1>2, <1>3
  <2> QED
    BY <1>1, <2>1
<1>6. \A a \in DOMAIN c : ~(a < 0)
  BY <1>2, <1>3
<1>7. \A a : a \notin DOMAIN <<>>
  OBVIOUS
<1> QED
  BY <1>1, <1>2, <1>4, <1>5, <1>6, <1>7 DEF Decodes, h, c, n

-----------------------------------------------------------------------------
\* The assembler has what the lines that it has read say, then what they are linked to; the
\* disassembler has the instructions before its address, and the bytes of the others.
Inv ==
  /\ source \in Sources /\ with_labels \in BOOLEAN /\ pos \in 0 .. Len(source)
  /\ phase \in {"asm", "disasm", "labels", "dump", "done", "failed"}
  /\ phase \in {"asm", "failed"} => /\ Read(Whole, assembler, pos + 2)
                                    /\ cur_addr = 0 /\ program = <<>>
  /\ Linked => /\ Assembled(Whole, assembler)
               /\ Decodes(assembler.code, assembler.size, hex, program, cur_addr)
  /\ Decoded => hex = <<>>

\* What the source is a part of.
LEMMA WholeSource ==
  ASSUME source \in Sources
  PROVE  /\ Text(Whole) /\ Len(Whole) = 2 + Len(source) /\ Len(source) \in Nat
         /\ Whole[1] = SYS_ENTER_ASM[1] /\ Whole[2] = SYS_ENTER_ASM[2]
         /\ \A k \in 1 .. Len(source) : /\ Whole[k + 2] = source[k]
                                        /\ source[k] \in LabelLines \cup InstrLines
<1>1. /\ Text(Whole) /\ source \in Seq(LabelLines \cup InstrLines)
      /\ Len(Whole) = 2 + Len(source)
      /\ Whole[1] = SYS_ENTER_ASM[1] /\ Whole[2] = SYS_ENTER_ASM[2]
      /\ \A k \in 1 .. Len(source) : Whole[k + 2] = source[k]
  BY WholeText DEF Whole
<1> QED
  BY <1>1

\* The invariant holds at the start.
LEMMA InitInv ==
  ASSUME Init PROVE Inv
<1>1. /\ source \in Sources /\ with_labels \in BOOLEAN /\ phase = "asm" /\ pos = 0
      /\ assembler = asm_file(AsmStart, SYS_ENTER_ASM) /\ cur_addr = 0 /\ program = <<>>
  BY DEF Init
<1>2. Read(Whole, assembler, 2)
  <2>1. /\ Text(Whole) /\ Len(Whole) >= 2
        /\ Whole[1] = SYS_ENTER_ASM[1] /\ Whole[2] = SYS_ENTER_ASM[2]
    BY <1>1, WholeSource
  <2> DEFINE w == Whole
  <2> HIDE DEF w
  <2>2. Read(w, asm_file(AsmStart, SYS_ENTER_ASM), 2)
    BY <2>1, ReadsFirst DEF w
  <2> QED
    BY <1>1, <2>2 DEF w
<1>3. pos + 2 = 2 /\ pos \in 0 .. Len(source)
  BY <1>1, WholeSource
<1> QED
  BY <1>1, <1>2, <1>3 DEF Inv, Linked, Decoded

\* A line is read.
LEMMA LineInv ==
  ASSUME Inv, asm_source_line PROVE Inv'
<1>1. /\ source \in Sources /\ with_labels \in BOOLEAN /\ pos \in 0 .. Len(source)
      /\ phase = "asm" /\ pos < Len(source)
      /\ Read(Whole, assembler, pos + 2) /\ cur_addr = 0 /\ program = <<>>
  BY DEF Inv, asm_source_line
<1> DEFINE line == source[pos + 1]
<1>2. /\ Text(Whole) /\ Len(Whole) = 2 + Len(source) /\ Len(source) \in Nat
      /\ pos + 2 \in Nat /\ (pos + 2) + 1 \in 1 .. Len(Whole) /\ pos + 1 \in 0 .. Len(source)
      /\ Whole[(pos + 2) + 1] = line /\ line \in LabelLines \cup InstrLines
  <2>1. /\ Text(Whole) /\ Len(Whole) = 2 + Len(source) /\ Len(source) \in Nat
        /\ \A k \in 1 .. Len(source) : /\ Whole[k + 2] = source[k]
                                       /\ source[k] \in LabelLines \cup InstrLines
    BY <1>1, WholeSource
  <2>2. /\ pos + 1 \in 1 .. Len(source) /\ (pos + 1) + 2 = (pos + 2) + 1 /\ pos + 2 \in Nat
        /\ (pos + 2) + 1 \in 1 .. 2 + Len(source) /\ pos + 1 \in 0 .. Len(source)
    BY <1>1, <2>1
  <2> QED
    BY <2>1, <2>2
<1>3. line.kind = "label" \/ line.kind = "instr"
  BY <1>2, LineLength
<1> HIDE DEF line
<1>4. CASE /\ line.kind = "instr" => Encodable(line.instr)
           /\ assembler' = asm_line(assembler, line) /\ pos' = pos + 1
           /\ UNCHANGED <<source, with_labels, phase, hex, lbl, disasmVars>>
  <2>1. LabelAt(Whole, (pos + 2) + 1) \/ Encodable(Whole[(pos + 2) + 1].instr)
    BY <1>2, <1>3, <1>4 DEF LabelAt
  <2>2. Read(Whole, asm_line(assembler, Whole[(pos + 2) + 1]), (pos + 2) + 1)
    <3> DEFINE w == Whole
               n == pos + 2
               s == assembler
    <3>1. /\ Text(w) /\ n \in Nat /\ n + 1 \in 1 .. Len(w) /\ Read(w, s, n)
          /\ LabelAt(w, n + 1) \/ Encodable(w[n + 1].instr)
      BY <1>1, <1>2, <2>1
    <3> HIDE DEF w, n, s
    <3>2. Read(w, asm_line(s, w[n + 1]), n + 1)
      BY <3>1, ReadsLine
    <3> QED
      BY <3>2 DEF w, n, s
  <2>3. Whole' = Whole /\ pos' + 2 = (pos + 2) + 1
    BY <1>1, <1>2, <1>4 DEF Whole
  <2>4. Read(Whole, assembler, pos + 2)'
    BY <1>2, <1>4, <2>2, <2>3
  <2> QED
    BY <1>1, <1>2, <1>4, <2>4 DEF Inv, Linked, Decoded, disasmVars
<1>5. CASE line.kind = "instr" /\ ~Encodable(line.instr) /\ Fail
  <2>1. Whole' = Whole
    BY <1>5 DEF Fail, Whole
  <2> QED
    BY <1>1, <1>5, <2>1 DEF Inv, Linked, Decoded, Fail, disasmVars
<1> QED
  BY <1>4, <1>5 DEF asm_source_line, line

\* The source is linked.
LEMMA LinkInv ==
  ASSUME Inv, link_and_dump PROVE Inv'
<1>1. /\ source \in Sources /\ with_labels \in BOOLEAN /\ pos \in 0 .. Len(source)
      /\ phase = "asm" /\ pos = Len(source)
      /\ Read(Whole, assembler, pos + 2) /\ cur_addr = 0 /\ program = <<>>
  BY DEF Inv, link_and_dump
<1>2. Text(Whole) /\ Len(Whole) = pos + 2
  <2>1. Text(Whole) /\ Len(Whole) = 2 + Len(source) /\ Len(source) \in Nat
    BY <1>1, WholeSource
  <2>2. 2 + Len(source) = pos + 2
    BY <1>1, <2>1
  <2> QED
    BY <2>1, <2>2
<1>3. CASE /\ Undefined(assembler) = {} /\ assembler' = link(assembler)
           /\ hex' = Bytes(assembler') /\ lbl' = LabelData(assembler') /\ phase' = "disasm"
           /\ UNCHANGED <<source, with_labels, pos, disasmVars>>
  <2> DEFINE w == Whole
             s == assembler
             t == link(s)
  <2>1. Text(w) /\ Read(w, s, Len(w)) /\ Undefined(s) = {}
    BY <1>1, <1>2, <1>3
  <2> HIDE DEF w, s
  <2>2. Assembled(w, t)
    BY <2>1, Links
  <2> HIDE DEF t
  <2>3. t.size \in Nat /\ EndToEnd(t.code, t.size)
    BY <2>1, <2>2, Laid
  <2>4. Decodes(t.code, t.size, Bytes(t), <<>>, 0)
    BY <2>3, DecodesStart
  <2>5. Whole' = w /\ assembler' = t /\ cur_addr' = 0 /\ program' = <<>>
    BY <1>1, <1>3 DEF Whole, w, s, t, disasmVars
  <2>6. hex' = Bytes(t)
    BY <1>3, <2>5
  <2>7. Assembled(Whole, assembler)'
    BY <2>2, <2>5
  <2>8. Decodes(assembler.code, assembler.size, hex, program, cur_addr)'
    BY <2>4, <2>5, <2>6
  <2> QED
    BY <1>1, <1>3, <2>7, <2>8 DEF Inv, Decoded
<1>4. CASE Undefined(assembler) # {} /\ Fail
  <2>1. Whole' = Whole
    BY <1>4 DEF Fail, Whole
  <2> QED
    BY <1>1, <1>4, <2>1 DEF Inv, Linked, Decoded, Fail, disasmVars
<1> QED
  BY <1>3, <1>4 DEF link_and_dump

\* An instruction is read back.
LEMMA DisasmInv ==
  ASSUME Inv, disasm_one PROVE Inv'
<1>1. /\ source \in Sources /\ with_labels \in BOOLEAN /\ pos \in 0 .. Len(source)
      /\ phase = "disasm" /\ Assembled(Whole, assembler) /\ hex # <<>>
      /\ Decodes(assembler.code, assembler.size, hex, program, cur_addr)
  BY DEF Inv, disasm_one, Linked
<1> DEFINE s == assembler
           d == disasm_instruction(hex)
<1>2. /\ program' = Put(program, cur_addr, d.instr) /\ cur_addr' = cur_addr + d.len
      /\ hex' = SubSeq(hex, d.len + 1, Len(hex))
      /\ UNCHANGED <<source, with_labels, phase, pos, assembler>>
  BY DEF disasm_one
<1>3. s.size \in Nat /\ EndToEnd(s.code, s.size)
  <2> DEFINE w == Whole
  <2>1. Text(w) /\ Assembled(w, s)
    BY <1>1, WholeSource
  <2> HIDE DEF w, s
  <2> QED
    BY <2>1, Laid
<1>4. Decodes(s.code, s.size, SubSeq(hex, d.len + 1, Len(hex)), Put(program, cur_addr, d.instr),
              cur_addr + d.len)
  <2> DEFINE h == hex
             p == program
             a == cur_addr
             c == s.code
             n == s.size
             e == disasm_instruction(h)
  <2>1. n \in Nat /\ EndToEnd(c, n) /\ Decodes(c, n, h, p, a) /\ h # <<>>
    BY <1>1, <1>3
  <2> HIDE DEF h, p, a, c, n, d
  <2>2. Decodes(c, n, SubSeq(h, e.len + 1, Len(h)), Put(p, a, e.instr), a + e.len)
    BY <2>1, DecodesNext
  <2> QED
    BY <2>2 DEF h, p, a, c, n, d
<1> HIDE DEF d
<1>5. Whole' = Whole
  BY <1>2 DEF Whole
<1>6. Decodes(assembler.code, assembler.size, hex, program, cur_addr)'
  BY <1>2, <1>4
<1> QED
  BY <1>1, <1>2, <1>5, <1>6 DEF Inv, Decoded, Linked

\* The steps that leave the assembler's and the disassembler's program alone.
LEMMA LaterInv ==
  ASSUME Inv, \/ disasm_end \/ load_label_line \/ load_label_end \/ compute_label_data
              \/ dump_program \/ UNCHANGED vars
  PROVE  Inv'
<1>1. /\ UNCHANGED <<source, with_labels, pos, assembler, hex, cur_addr, program>>
      /\ \/ phase = "disasm" /\ hex = <<>> /\ phase' = "labels"
         \/ phase = "labels" /\ phase' \in {"labels", "dump"}
         \/ phase = "dump" /\ phase' = "done"
         \/ phase' = phase
  BY DEF disasm_end, load_label_line, load_label_end, compute_label_data, dump_program, vars,
         disasmVars
<1>2. Whole' = Whole
  BY <1>1 DEF Whole
<1> QED
  BY <1>1, <1>2 DEF Inv, Linked, Decoded

\* The invariant always holds.
LEMMA Invariant == Spec => []Inv
<1>1. Init => Inv
  BY InitInv
<1>2. Inv /\ [Next]_vars => Inv'
  BY LineInv, LinkInv, DisasmInv, LaterInv DEF Next
<1> QED
  BY <1>1, <1>2, PTL DEF Spec

-----------------------------------------------------------------------------
\* The labels that the assembler has are mangled ones of the source.
LEMMA MangledLabels ==
  ASSUME NEW w, Text(w), NEW d, NEW n \in 1 .. Len(w), LabelsRead(w, d, n)
  PROVE  DOMAIN d \subseteq Seq(Labels)
<1> SUFFICES ASSUME NEW m \in DOMAIN d PROVE m \in Seq(Labels)
  OBVIOUS
<1>1. Defs(w, m, n) # {}
  BY DEF LabelsRead
<1>2. PICK j \in 1 .. n : LabelAt(w, j) /\ Mangled(w, w[j].label, j) = m
  BY <1>1 DEF Defs
<1>3. j \in 1 .. Len(w) /\ w[j] \in LabelLines \cup InstrLines
  BY Lines
<1>4. w[j].label \in Labels
  BY <1>2, <1>3, LineLength DEF LabelAt
<1>5. Under(w, j) \in Labels
  BY <1>3, UnderNext
<1> DEFINE x == Under(w, j)
           y == w[j].label
           S == Labels
<1>6. m = IF y.low THEN <<x, y>> ELSE <<y>>
  BY <1>2 DEF Mangled
<1>7. x \in S /\ y \in S
  BY <1>4, <1>5
<1> HIDE DEF x, y, S
<1>8. <<x, y>> \in Seq(S) /\ <<y>> \in Seq(S)
  BY <1>7
<1> QED
  BY <1>6, <1>8 DEF S

\* So are the labels in the file, at the addresses of lines.
LEMMA LabelsTyped ==
  ASSUME NEW w, Text(w), NEW s, NEW n \in 1 .. Len(w), LabelsRead(w, s.addr, n)
  PROVE  /\ \A m \in DOMAIN s.addr : m \in Seq(Labels) /\ s.addr[m] \in Nat
         /\ LabelData(s) \subseteq Nat \X Labels
<1>1. ASSUME NEW m \in DOMAIN s.addr
      PROVE  /\ m \in Seq(Labels) /\ s.addr[m] \in Nat
             /\ <<s.addr[m], Demangled(m)>> \in Nat \X Labels
  <2>1. m \in Seq(Labels)
    BY MangledLabels
  <2>2. Defs(w, m, n) # {} /\ s.addr[m] = At(w, Greatest(Defs(w, m, n)))
    BY DEF LabelsRead
  <2>3. n \in Nat /\ Defs(w, m, n) \in SUBSET (1 .. n)
    BY DEF Defs
  <2>4. Greatest(Defs(w, m, n)) \in 1 .. n
    BY <2>2, <2>3, GreatestOf
  <2>5. s.addr[m] \in Nat
    <3>1. Greatest(Defs(w, m, n)) \in 1 .. Len(w) + 1
      BY <2>4, Lines
    <3> QED
      BY <2>2, <3>1, Addresses
  <2>6. Demangled(m) \in Labels
    <3>1. PICK j \in 1 .. n : LabelAt(w, j) /\ Mangled(w, w[j].label, j) = m
      BY <2>2 DEF Defs
    <3>2. w[j].label \in Labels
      <4>1. j \in 1 .. Len(w) /\ w[j] \in LabelLines \cup InstrLines
        BY Lines
      <4> QED
        BY <3>1, <4>1, LineLength DEF LabelAt
    <3>3. Demangled(Mangled(w, w[j].label, j)) = w[j].label
      BY DEF Demangled, Mangled
    <3> QED
      BY <3>1, <3>2, <3>3
  <2> QED
    BY <2>1, <2>5, <2>6
<1>2. LabelData(s) \subseteq Nat \X Labels
  <2> SUFFICES ASSUME NEW p \in LabelData(s) PROVE p \in Nat \X Labels
    OBVIOUS
  <2>1. PICK m \in DOMAIN s.addr : p = <<s.addr[m], Demangled(m)>>
    BY DEF LabelData
  <2> QED
    BY <1>1, <2>1
<1> QED
  BY <1>1, <1>2

\* Every label has a place in the order, and no other has it.
LEMMA LabelPlaces ==
  ASSUME NEW l \in Labels
  PROVE  Place(LabelOrder, l) \in Nat /\ LabelOrder[Place(LabelOrder, l)] = l
<1>1. \E k \in DOMAIN LabelOrder : LabelOrder[k] = l
  BY DEF Labels, Range
<1>2. Place(LabelOrder, l) \in DOMAIN LabelOrder /\ LabelOrder[Place(LabelOrder, l)] = l
  BY <1>1 DEF Place
<1>3. DOMAIN LabelOrder \subseteq Nat
  BY LabelAssumption
<1> QED
  BY <1>2, <1>3

\* One of the lines of a labels file is its first.
LEMMA HasFirst ==
  ASSUME NEW T \in SUBSET (Nat \X Labels), T # {}
  PROVE  \E q \in T : \A r \in T \ {q} : Before(q, r)
<1> DEFINE A == {p[1] : p \in T}
<1>1. A \in SUBSET Nat /\ A # {}
  OBVIOUS
<1>2. PICK a \in A : \A b \in A : a <= b
  BY <1>1, Least
<1> DEFINE U == {p \in T : p[1] = a}
           B == {Place(LabelOrder, p[2]) : p \in U}
<1>3. U # {} /\ \A p \in U : p[2] \in Labels
  OBVIOUS
<1>4. B \in SUBSET Nat /\ B # {}
  BY <1>3, LabelPlaces
<1>5. PICK b \in B : \A c \in B : b <= c
  BY <1>4, Least
<1>6. PICK q \in U : b = Place(LabelOrder, q[2])
  OBVIOUS
<1>7. ASSUME NEW r \in T \ {q} PROVE Before(q, r)
  <2>1. a <= r[1] /\ r[1] \in Nat /\ a \in Nat /\ q[1] = a
    BY <1>1, <1>2, <1>6
  <2>2. CASE r[1] = a
    <3>1. r \in U /\ b <= Place(LabelOrder, r[2])
      BY <1>5, <2>2
    <3>2. r = <<r[1], r[2]>> /\ q = <<q[1], q[2]>> /\ r # q
      OBVIOUS
    <3>3. r[2] # q[2]
      BY <2>1, <2>2, <3>2
    <3>4. Place(LabelOrder, r[2]) # b /\ Place(LabelOrder, r[2]) \in Nat /\ b \in Nat
      BY <1>3, <1>6, <3>1, <3>3, LabelPlaces
    <3>5. b < Place(LabelOrder, r[2])
      BY <3>1, <3>4
    <3> QED
      BY <1>6, <2>1, <2>2, <3>5 DEF Before
  <2>3. CASE r[1] # a
    <3>1. q[1] < r[1]
      BY <2>1, <2>3
    <3> QED
      BY <3>1 DEF Before
  <2> QED
    BY <2>2, <2>3
<1> QED
  BY <1>6, <1>7

\* What is in the files between the tools, and what the disassembler has of the labels.
FilesTyped ==
  /\ hex \in Seq(Nat) /\ lbl \subseteq Nat \X Labels
  /\ \A a \in DOMAIN rev_label_addr : a \in Nat /\ (with_labels => rev_label_addr[a] \in Labels)

LEMMA FilesTypedNext ==
  ASSUME Inv, FilesTyped, [Next]_vars PROVE FilesTyped'
<1>1. CASE asm_source_line \/ disasm_end \/ load_label_end \/ dump_program \/ UNCHANGED vars
  <2>1. UNCHANGED <<hex, lbl, rev_label_addr, with_labels>>
    BY <1>1 DEF asm_source_line, Fail, disasm_end, load_label_end, dump_program, disasmVars, vars
  <2> QED
    BY <2>1 DEF FilesTyped
<1>2. CASE link_and_dump
  <2>1. CASE Fail
    BY <2>1 DEF Fail, disasmVars, FilesTyped
  <2>2. CASE ~Fail
    <3>1. /\ phase' = "disasm" /\ lbl' = LabelData(assembler')
          /\ UNCHANGED <<rev_label_addr, with_labels>>
      BY <1>2, <2>2 DEF link_and_dump, disasmVars
    <3>2. /\ source' \in Sources /\ Assembled(Whole, assembler)'
          /\ Decodes(assembler.code, assembler.size, hex, program, cur_addr)'
      BY <1>2, <3>1, LinkInv DEF Inv, Linked
    <3>3. Text(Whole')
      <4>1. source' = source
        BY <1>2 DEF link_and_dump, Fail
      <4>2. Whole' = Whole
        BY <4>1 DEF Whole
      <4> QED
        BY <4>2, WholeSource DEF Inv
    <3> DEFINE w == Whole'
               s == assembler'
    <3>4. LabelsRead(w, s.addr, Len(w))
      BY <3>2 DEF Assembled
    <3> HIDE DEF w, s
    <3>5. Text(w)
      BY <3>3 DEF w
    <3>6. LabelData(s) \subseteq Nat \X Labels
      <4>1. Len(w) \in 1 .. Len(w)
        BY <3>5 DEF Text
      <4> QED
        BY <3>4, <3>5, <4>1, LabelsTyped
    <3> QED
      BY <3>1, <3>2, <3>6 DEF s, Decodes, FilesTyped
  <2> QED
    BY <2>1, <2>2
<1>3. CASE disasm_one
  <2>1. phase' = "disasm" /\ UNCHANGED <<lbl, rev_label_addr, with_labels>>
    BY <1>3 DEF disasm_one
  <2>2. Decodes(assembler.code, assembler.size, hex, program, cur_addr)'
    BY <1>3, <2>1, DisasmInv DEF Inv, Linked
  <2> QED
    BY <2>1, <2>2 DEF Decodes, FilesTyped
<1>4. CASE load_label_line
  <2> DEFINE p == CHOOSE q \in lbl : \A r \in lbl \ {q} : Before(q, r)
             l == rev_label_addr
  <2>1. /\ lbl # {} /\ with_labels /\ lbl' = lbl \ {p}
        /\ rev_label_addr' = Labelled(l, p[1], p[2])
        /\ UNCHANGED <<hex, with_labels>>
    BY <1>4 DEF load_label_line
  <2>2. p \in lbl
    <3>1. \E q \in lbl : \A r \in lbl \ {q} : Before(q, r)
      BY <2>1, HasFirst DEF FilesTyped
    <3> QED
      BY <3>1
  <2>3. p[1] \in Nat /\ p[2] \in Labels
    BY <2>2 DEF FilesTyped
  <2> HIDE DEF p
  <2>4. /\ DOMAIN rev_label_addr' = DOMAIN l \cup {p[1]}
        /\ \A a \in DOMAIN rev_label_addr' : rev_label_addr'[a] = IF a = p[1] THEN p[2] ELSE l[a]
    BY <2>1 DEF Labelled, Put
  <2> QED
    BY <2>1, <2>3, <2>4 DEF FilesTyped
<1>5. CASE compute_label_data
  <2>1. ~with_labels /\ DOMAIN rev_label_addr' = Targets /\ UNCHANGED <<hex, lbl, with_labels>>
    BY <1>5 DEF compute_label_data
  <2>2. Targets \subseteq Nat
    <3>1. DOMAIN program \subseteq Nat
      <4> DEFINE w == Whole
                 s == assembler
      <4>1. Text(w) /\ Assembled(w, s) /\ Decodes(s.code, s.size, hex, program, cur_addr)
        BY <1>5, WholeSource DEF Inv, Linked, compute_label_data
      <4> HIDE DEF w, s
      <4>2. s.size \in Nat /\ EndToEnd(s.code, s.size)
        BY <4>1, Laid
      <4> QED
        BY <4>1, <4>2 DEF Decodes, EndToEnd
    <3> QED
      BY <3>1 DEF Targets
  <2> QED
    BY <2>1, <2>2 DEF FilesTyped
<1> QED
  BY <1>1, <1>2, <1>3, <1>4, <1>5 DEF Next

\* An instruction as it is read back.
LEMMA ReadTyped ==
  ASSUME NEW i \in Instr PROVE AsRead(i) \in InstrRead
<1>1. i.imm \in Int /\ Signed(i.imm) \in Int
  BY WidthAssumption DEF Instr, Word, WordMod, Signed
<1> DEFINE v == IF i.op \in ArithOp \ UnsignedOp THEN Signed(i.imm) ELSE i.imm
<1>2. v \in Int
  BY <1>1
<1>3. AsRead(i) = [i EXCEPT !.imm = v]
  BY DEF AsRead
<1> HIDE DEF v
<1> QED
  BY <1>2, <1>3 DEF Instr, InstrRead

\* The type invariant: of the instructions and labels that the assembler collects, of the
\* bytes and the labels that it writes, and of the instructions and labels that the
\* disassembler makes of them, for every source (asm.py:60-143, :362-366,
\* disasm.py:263-267). It says nothing of the lines that the disassembler writes.
THEOREM TypeCorrect == Spec => []TypeOK
<1>1. ASSUME Inv, FilesTyped PROVE TypeOK
  <2>1. /\ with_labels \in BOOLEAN /\ pos \in 0 .. Len(source) /\ source \in Sources
        /\ phase \in {"asm", "disasm", "labels", "dump", "done", "failed"}
    BY <1>1 DEF Inv
  <2> DEFINE w == Whole
             s == assembler
  <2>2. Text(w) /\ Len(w) = 2 + Len(source) /\ Len(source) \in Nat
    BY <2>1, WholeSource
  <2>3. pos + 2 \in 1 .. Len(w) /\ Len(w) \in 1 .. Len(w) /\ (pos + 2) + 1 \in 1 .. Len(w) + 1
    BY <2>1, <2>2
  <2>4. CASE phase \in {"asm", "failed"}
    <3>1. Read(w, s, pos + 2) /\ cur_addr = 0 /\ program = <<>>
      BY <1>1, <2>4 DEF Inv
    <3> HIDE DEF w, s
    <3>2. \A m \in DOMAIN s.addr : m \in Seq(Labels) /\ s.addr[m] \in Nat
      BY <2>2, <2>3, <3>1, LabelsTyped DEF Read
    <3>3. cur_addr \in 0 .. s.size
      <4>1. s.size = At(w, (pos + 2) + 1) /\ At(w, (pos + 2) + 1) \in Nat
        BY <2>2, <2>3, <3>1, Addresses DEF Read
      <4> QED
        BY <3>1, <4>1
    <3>4. ASSUME NEW a \in DOMAIN s.code PROVE a \in Nat /\ s.code[a] \in Instr
      <4>1. CodeRead(w, s.code, pos + 2) /\
              \A k \in 1 .. pos + 2 : ~LabelAt(w, k) => Encodable(w[k].instr)
        BY <3>1 DEF Read
      <4>2. PICK k \in 1 .. pos + 2 : ~LabelAt(w, k) /\ a = At(w, k)
        BY <4>1 DEF CodeRead
      <4>3. s.code[a] = Kept(w, k) /\ Encodable(w[k].instr) /\ k \in 1 .. Len(w)
                                   /\ k \in 1 .. Len(w) + 1
        BY <2>1, <2>2, <2>3, <4>1, <4>2 DEF CodeRead
      <4>4. Kept(w, k) \in Writable
        BY <2>2, <4>2, <4>3, WritesInstrs
      <4>5. a \in Nat
        BY <2>2, <4>2, <4>3, Addresses
      <4> QED
        BY <4>3, <4>4, <4>5 DEF Writable
    <3>5. DOMAIN program = {}
      BY <3>1
    <3> QED
      BY <1>1, <2>1, <3>2, <3>3, <3>4, <3>5 DEF TypeOK, FilesTyped, s
  <2>5. CASE phase \notin {"asm", "failed"}
    <3>1. /\ Assembled(w, s)
          /\ Decodes(s.code, s.size, hex, program, cur_addr)
      BY <1>1, <2>1, <2>5 DEF Inv, Linked
    <3> HIDE DEF w, s
    <3>2. s.size \in Nat /\ EndToEnd(s.code, s.size)
      BY <2>2, <3>1, Laid
    <3>3. \A m \in DOMAIN s.addr : m \in Seq(Labels) /\ s.addr[m] \in Nat
      BY <2>2, <2>3, <3>1, LabelsTyped DEF Assembled
    <3>4. \A a \in DOMAIN s.code : a \in Nat /\ s.code[a] \in Instr
      <4>1. \A a \in DOMAIN s.code : a \in 0 .. s.size - 1 /\ s.code[a] \in Writable
        BY <3>2 DEF EndToEnd
      <4>2. \A i \in Writable : i \in Instr
        BY DEF Writable
      <4>3. \A a \in 0 .. s.size - 1 : a \in Nat
        BY <3>2
      <4> QED
        BY <4>1, <4>2, <4>3
    <3>5. cur_addr \in 0 .. s.size
      BY <3>1, <3>2 DEF Decodes, EndToEnd
    <3>6. ASSUME NEW a \in DOMAIN program
          PROVE  a \in 0 .. cur_addr - 1 /\ program[a] \in InstrRead
      <4>1. a \in DOMAIN s.code /\ a < cur_addr /\ program[a] = AsRead(s.code[a])
        BY <3>1 DEF Decodes
      <4>2. a \in Nat /\ s.code[a] \in Instr
        BY <3>4, <4>1
      <4>3. AsRead(s.code[a]) \in InstrRead
        BY <4>2, ReadTyped
      <4> QED
        BY <3>2, <3>5, <4>1, <4>2, <4>3
    <3> QED
      BY <1>1, <2>1, <3>3, <3>4, <3>5, <3>6 DEF TypeOK, FilesTyped, s
  <2> QED
    BY <2>4, <2>5
<1>2. Init => FilesTyped
  BY DEF Init, FilesTyped
<1>3. Inv /\ FilesTyped /\ [Next]_vars => FilesTyped'
  BY FilesTypedNext
<1> QED
  BY <1>1, <1>2, <1>3, Invariant, PTL DEF Spec

\* The disassembler reads back the instructions that the assembler wrote, at their addresses,
\* for every source (asm.py:60-143 with disasm.py:91-200).
THEOREM Reads == Spec => []ReadsWhatIsWritten
<1>1. ASSUME Inv PROVE ReadsWhatIsWritten
  <2> SUFFICES ASSUME Decoded
               PROVE  /\ DOMAIN program = DOMAIN assembler.code /\ cur_addr = assembler.size
                      /\ \A a \in DOMAIN program :
                           [program[a] EXCEPT !.imm = Wrap(@)] = assembler.code[a]
    BY DEF ReadsWhatIsWritten
  <2> DEFINE w == Whole
             c == assembler.code
             n == assembler.size
  <2>1. /\ Text(w) /\ Assembled(w, assembler) /\ Decodes(c, n, hex, program, cur_addr)
        /\ hex = <<>>
    BY <1>1, WholeSource DEF Inv, Linked, Decoded
  <2>2. n \in Nat /\ EndToEnd(c, n)
    <3> DEFINE s == assembler
    <3> HIDE DEF w, s
    <3>1. s.size \in Nat /\ EndToEnd(s.code, s.size)
      BY <2>1, Laid DEF s
    <3> QED
      BY <3>1 DEF s
  <2> HIDE DEF w, c, n
  <2>3. cur_addr = n
    <3>1. Len(hex) = 0 /\ Len(hex) = n - cur_addr /\ cur_addr \in DOMAIN c \cup {n}
      BY <2>1 DEF Decodes
    <3>2. cur_addr \in Nat
      BY <2>2, <3>1 DEF EndToEnd
    <3> QED
      BY <2>2, <3>1, <3>2
  <2>4. DOMAIN program = DOMAIN c
    <3>1. \A a \in DOMAIN c : a < n
      BY <2>2 DEF EndToEnd
    <3> QED
      BY <2>1, <2>3, <3>1 DEF Decodes
  <2>5. ASSUME NEW a \in DOMAIN program PROVE [program[a] EXCEPT !.imm = Wrap(@)] = c[a]
    <3> DEFINE i == c[a]
    <3>1. program[a] = AsRead(i) /\ i \in Instr
      BY <2>1, <2>2, <2>4 DEF Decodes, EndToEnd, Writable
    <3> HIDE DEF i
    <3>2. i = [op |-> i.op, am |-> i.am, dst |-> i.dst, src |-> i.src, idx |-> i.idx,
               imm |-> i.imm, tgt |-> i.tgt] /\ i.imm \in Word
      BY <3>1 DEF Instr
    <3>3. Wrap(i.imm) = i.imm /\ Wrap(Signed(i.imm)) = i.imm
      <4> DEFINE m == WordMod
                 v == i.imm
      <4>1. m \in Nat \ {0} /\ v \in 0 .. m - 1
        BY <3>2, WidthAssumption DEF WordMod, Word
      <4> HIDE DEF m, v
      <4>2. v % m = v /\ (v - m) % m = v
        BY <4>1
      <4>3. Wrap(i.imm) = v % m /\ Wrap(Signed(i.imm)) = IF v < m \div 2 THEN v % m
                                                        ELSE (v - m) % m
        BY DEF Wrap, Signed, m, v
      <4> QED
        BY <4>2, <4>3 DEF v
    <3>4. AsRead(i) = [op |-> i.op, am |-> i.am, dst |-> i.dst, src |-> i.src, idx |-> i.idx,
                       imm |-> IF i.op \in ArithOp \ UnsignedOp THEN Signed(i.imm) ELSE i.imm,
                       tgt |-> i.tgt]
      BY <3>2 DEF AsRead
    <3>5. [program[a] EXCEPT !.imm = Wrap(@)] = i
      BY <3>1, <3>2, <3>3, <3>4
    <3> QED
      BY <3>5 DEF i
  <2> QED
    BY <2>3, <2>4, <2>5 DEF c, n
<1> QED
  BY <1>1, Invariant, PTL
-----------------------------------------------------------------------------
\* What an encoding takes is no wider than the machine's words.
LEMMA FitsWord ==
  ASSUME NEW w, Text(w), NEW k \in 1 .. Len(w), ~LabelAt(w, k), Encodable(w[k].instr)
  PROVE  ~TooWide(w[k].instr)
<1> DEFINE i == w[k].instr
           m == WordMod
           p == IdxByteMod
<1>1. i.op \in Opcode /\ i.imm \in Int /\ i.idx \in Int /\ i.tgt \in Int /\ Encodable(i)
  BY SourceInstr
<1> HIDE DEF i
<1>2. /\ i.op \in BranchOp => i.op \notin MemoryOp /\ i.op \notin ArithOp
      /\ i.op \in MemoryOp => i.op \notin BranchOp /\ i.op \notin ArithOp
      /\ i.op \in ArithOp => i.op \notin BranchOp /\ i.op \notin MemoryOp
  BY DEF BranchOp, CondOp, MemoryOp, ArithOp, MoveOp
<1>3. i.op \in MemoryOp => 2 * i.idx \in -(p * p) .. p * p - 1
  <2>1. p \in Nat \ {0} /\ p % 2 = 0
    BY IdxByteAssumption
  <2> DEFINE q == Power(p)[2]
             h == q \div 2
             x == i.idx
  <2>2. q = p * p
    <3> DEFINE f == Power(p)
    <3>1. f[0] = 1 /\ \A j \in Nat : f[j + 1] = p * f[j]
      BY <2>1, Powers
    <3> HIDE DEF f, p
    <3>2. f[1] = p * 1
      BY <3>1, 0 + 1 = 1, 0 \in Nat
    <3>3. p * 1 = p
      BY <2>1
    <3>4. f[2] = p * p
      BY <3>1, <3>2, <3>3, 1 + 1 = 2, 1 \in Nat
    <3> QED
      BY <3>4 DEF f
  <2>3. q \in Int /\ q = 2 * h
    <3> HIDE DEF p
    <3>1. p = 2 * (p \div 2) /\ p \div 2 \in Nat
      BY <2>1
    <3> DEFINE r == p \div 2
    <3> HIDE DEF r
    <3>2. p * p = 2 * (r * p)
      BY <2>1, <3>1 DEF r
    <3> DEFINE t == r * p
    <3>3. t \in Int
      BY <2>1, <3>1 DEF r
    <3> HIDE DEF t
    <3>4. (2 * t) \div 2 = t
      BY <3>3
    <3> QED
      BY <2>1, <2>2, <3>2, <3>3, <3>4 DEF t
  <2>4. i.op \in MemoryOp => x \in -h .. h - 1
    BY <1>1, <1>2 DEF Encodable, InBytes
  <2>5. h \in Int /\ x \in Int
    BY <1>1, <2>3
  <2> HIDE DEF q, h, x, p
  <2>6. x \in -h .. h - 1 => 2 * x \in -(2 * h) .. 2 * h - 1
    BY <2>5
  <2>7. i.op \in MemoryOp => 2 * x \in -q .. q - 1
    BY <2>3, <2>4, <2>6
  <2> QED
    BY <2>2, <2>7 DEF x
<1>4. i.op \in BranchOp => i.tgt \in Word
  BY <1>1, <1>2 DEF Encodable, InBytes, Word
<1>5. i.op \in ArithOp /\ i.am = "IMM" /\ i.imm \notin Word
        => i.op \notin UnsignedOp /\ i.imm = Signed(Wrap(i.imm))
  <2> SUFFICES ASSUME i.op \in ArithOp, i.am = "IMM", i.imm \notin Word
               PROVE  i.op \notin UnsignedOp /\ i.imm = Signed(Wrap(i.imm))
    OBVIOUS
  <2> DEFINE v == i.imm
  <2>1. v \in IF i.op \notin UnsignedOp /\ v < 0 THEN -(m \div 2) .. m \div 2 - 1 ELSE 0 .. m - 1
    BY <1>1, <1>2 DEF Encodable, InBytes
  <2>2. i.op \notin UnsignedOp /\ v < 0 /\ v \in -(m \div 2) .. m \div 2 - 1 /\ v \in Int
    BY <1>1, <2>1 DEF Word
  <2>3. m \in Nat \ {0}
    BY WidthAssumption DEF WordMod
  <2>4. Signed(Wrap(v)) = IF v % m < m \div 2 THEN v % m ELSE (v % m) - m
    BY DEF Signed, Wrap
  <2> HIDE DEF m, v
  <2> DEFINE h == m \div 2
  <2>5. h \in Nat /\ h + h <= m
    BY <2>3
  <2> HIDE DEF h
  <2>6. v + m \in 0 .. m - 1 /\ v + m >= h
    BY <2>2, <2>3, <2>5 DEF h
  <2>7. v % m = v + m
    BY <2>2, <2>3, <2>6
  <2>8. ~(v % m < h) /\ (v % m) - m = v
    BY <2>2, <2>3, <2>5, <2>6, <2>7
  <2>9. Signed(Wrap(v)) = v
    BY <2>4, <2>8 DEF h
  <2> QED
    BY <2>2, <2>9 DEF v
<1>6. ~TooWide(i)
  BY <1>3, <1>4, <1>5 DEF TooWide
<1> QED
  BY <1>6 DEF i

\* The lines that define a label for a line are those that define what it is mangled to.
LEMMA DefiningLines ==
  ASSUME NEW l, NEW k
  PROVE  Defining(l, k) = Defs(Whole, Mangled(Whole, l, k), Len(Whole))
<1>1. DOMAIN Whole = 1 .. Len(Whole)
  OBVIOUS
<1>2. ASSUME NEW j
      PROVE  (Whole[j].label = l /\ (l.low => Scope(j) = Scope(k)))
               <=> Mangled(Whole, Whole[j].label, j) = Mangled(Whole, l, k)
  <2>1. Scope(j) = Under(Whole, j) /\ Scope(k) = Under(Whole, k)
    BY DEF Scope, Under, HighAt, LabelAt, IsHigh, IsLabel
  <2> DEFINE x == Whole[j].label
             a == Under(Whole, j)
             b == Under(Whole, k)
  <2>2. /\ Mangled(Whole, x, j) = (IF x.low THEN <<a, x>> ELSE <<x>>)
        /\ Mangled(Whole, l, k) = IF l.low THEN <<b, l>> ELSE <<l>>
    BY DEF Mangled
  <2> HIDE DEF x, a, b
  <2>3. (x = l /\ (l.low => a = b)) <=> Mangled(Whole, x, j) = Mangled(Whole, l, k)
    BY <2>2
  <2> QED
    BY <2>1, <2>3 DEF x, a, b
<1> QED
  BY <1>1, <1>2 DEF Defining, Defs, IsLabel, LabelAt

\* A linked reference has the address of the last line that defines its label, under the same
\* high-level label if it is low-level; a source that has no such line, or a number that does
\* not fit, is never linked (asm.py:194-199, :362-366).
THEOREM LinksByName == Spec => []LinkedByName
<1>1. ASSUME Inv PROVE LinkedByName
  <2> SUFFICES ASSUME Linked, NEW k \in DOMAIN Whole, Refers(k)
               PROVE  LET defs == Defining(lower(Whole[k].label), k)
                      IN  /\ ~Bad /\ defs # {}
                          /\ assembler.code[Address(k)].tgt = Address(Greatest(defs))
    BY DEF LinkedByName
  <2> DEFINE w == Whole
             s == assembler
             M(j) == Mangled(w, lower(w[j].label), j)
  <2>1. Text(w) /\ Assembled(w, s)
    BY <1>1, WholeSource DEF Inv
  <2>2. \A j : /\ Refers(j) <=> RefAt(w, j)
               /\ IsLabel(j) <=> LabelAt(w, j)
               /\ Address(j) = At(w, j)
               /\ Defining(lower(w[j].label), j) = Defs(w, M(j), Len(w))
    <3>1. \A j : Refers(j) <=> RefAt(w, j)
      BY DEF Refers, RefAt
    <3>2. \A j : IsLabel(j) <=> LabelAt(w, j)
      BY DEF IsLabel, LabelAt
    <3>3. \A j : Address(j) = At(w, j)
      BY DEF Address, At
    <3>4. \A j : Defining(lower(w[j].label), j) = Defs(w, M(j), Len(w))
      BY DefiningLines
    <3> QED
      BY <3>1, <3>2, <3>3, <3>4
  <2>3. DOMAIN w = 1 .. Len(w) /\ k \in 1 .. Len(w) /\ RefAt(w, k)
    BY <2>1, <2>2, Lines
  <2>4. /\ \A j \in 1 .. Len(w) : ~LabelAt(w, j) => /\ s.code[At(w, j)] = Loaded(w, j)
                                                    /\ Encodable(w[j].instr)
        /\ \A j \in 1 .. Len(w) : RefAt(w, j) => Defs(w, M(j), Len(w)) # {} /\ Dest(w, j) \in Word
    BY <2>1 DEF Assembled
  <2>5. \A j \in 1 .. Len(w) : ~LabelAt(w, j) => ~TooWide(w[j].instr)
    BY <2>1, <2>4, FitsWord
  <2>6. \A j : Dest(w, j) = At(w, Greatest(Defs(w, M(j), Len(w))))
    BY DEF Dest
  <2> HIDE DEF w, M, s
  <2>7. ~Bad
    BY <2>2, <2>3, <2>4, <2>5, <2>6 DEF Bad, w
  <2>8. ~LabelAt(w, k)
    BY <2>3 DEF RefAt, LabelAt
  <2>9. Loaded(w, k).tgt = Dest(w, k)
    <3> DEFINE x == w[k].instr
    <3>1. x = [op |-> x.op, am |-> x.am, dst |-> x.dst, src |-> x.src, idx |-> x.idx,
               imm |-> x.imm, tgt |-> x.tgt]
      BY <2>1, <2>3, <2>8, SourceInstr
    <3> HIDE DEF x
    <3>2. Kept(w, k) = [op |-> x.op, am |-> x.am, dst |-> x.dst, src |-> x.src, idx |-> x.idx,
                        imm |-> Wrap(x.imm), tgt |-> x.tgt]
      BY <3>1 DEF Kept, x
    <3> QED
      BY <2>3, <3>2 DEF Loaded
  <2> QED
    BY <2>2, <2>3, <2>4, <2>6, <2>7, <2>8, <2>9 DEF w, s
<1> QED
  BY <1>1, Invariant, PTL
-----------------------------------------------------------------------------
\* What Canonical says of a source of lines w.
Clean(w) ==
  \A k \in 1 .. Len(w) :
    IF LabelAt(w, k)
    THEN /\ Defs(w, Mangled(w, w[k].label, k), Len(w)) = {k} /\ ~w[k].label.caps
         /\ k + 1 \in 1 .. Len(w) /\ ~LabelAt(w, k + 1)
    ELSE LET i == w[k].instr
         IN  /\ i.op \in BranchOp => RefAt(w, k) /\ ~w[k].label.caps
             /\ i.op = "STORE" => i.idx # 0
             /\ i.op \in ArithOp \ UnsignedOp => i.imm = Signed(Wrap(i.imm))

\* A canonical source is clean.
LEMMA CanonicalClean ==
  ASSUME Canonical PROVE Clean(Whole)
<1>1. DOMAIN Whole = 1 .. Len(Whole)
  OBVIOUS
<1>2. \A k : /\ IsLabel(k) <=> LabelAt(Whole, k)
             /\ Refers(k) <=> RefAt(Whole, k)
  BY DEF IsLabel, LabelAt, Refers, RefAt
<1>3. \A k : Defining(Whole[k].label, k)
             = Defs(Whole, Mangled(Whole, Whole[k].label, k), Len(Whole))
  BY DefiningLines
<1>4. /\ \A j \in DOMAIN Whole : IsLabel(j) =>
           Defining(Whole[j].label, j) = {j} /\ ~Whole[j].label.caps
      /\ \A k \in DOMAIN Whole :
           IF IsLabel(k) THEN k + 1 \in DOMAIN Whole /\ ~IsLabel(k + 1)
           ELSE LET i == Whole[k].instr
                IN  /\ i.op \in BranchOp => Refers(k) /\ ~Whole[k].label.caps
                    /\ i.op = "STORE" => i.idx # 0
                    /\ i.op \in ArithOp \ UnsignedOp => i.imm = Signed(Wrap(i.imm))
  BY DEF Canonical, Plainly
<1> DEFINE w == Whole
<1>5. \A k \in 1 .. Len(w) : LabelAt(w, k) =>
        /\ Defs(w, Mangled(w, w[k].label, k), Len(w)) = {k} /\ ~w[k].label.caps
        /\ k + 1 \in 1 .. Len(w) /\ ~LabelAt(w, k + 1)
  BY <1>1, <1>2, <1>3, <1>4
<1>6. \A k \in 1 .. Len(w) : ~LabelAt(w, k) =>
        LET i == w[k].instr
        IN  /\ i.op \in BranchOp => RefAt(w, k) /\ ~w[k].label.caps
            /\ i.op = "STORE" => i.idx # 0
            /\ i.op \in ArithOp \ UnsignedOp => i.imm = Signed(Wrap(i.imm))
  BY <1>1, <1>2, <1>4
<1> HIDE DEF w
<1> QED
  BY <1>5, <1>6 DEF Clean, w

\* A label is at the address of the instruction behind it.
LEMMA LabelOfInstr ==
  ASSUME NEW w, Text(w), Clean(w), NEW j \in 1 .. Len(w), LabelAt(w, j)
  PROVE  /\ j + 1 \in 1 .. Len(w) /\ ~LabelAt(w, j + 1) /\ At(w, j + 1) = At(w, j)
         /\ \A k \in 1 .. Len(w) : ~LabelAt(w, k) /\ At(w, k) = At(w, j) => k = j + 1
         /\ \A k \in 1 .. Len(w) : LabelAt(w, k) /\ At(w, k) = At(w, j) => k = j
<1>1. j + 1 \in 1 .. Len(w) /\ ~LabelAt(w, j + 1)
  BY DEF Clean
<1>2. \A k \in 1 .. Len(w) : LabelAt(w, k) =>
        /\ k + 1 \in 1 .. Len(w) /\ ~LabelAt(w, k + 1) /\ At(w, k + 1) = At(w, k)
  <2> TAKE k \in 1 .. Len(w)
  <2> HAVE LabelAt(w, k)
  <2>1. k + 1 \in 1 .. Len(w) /\ ~LabelAt(w, k + 1)
    BY DEF Clean
  <2>2. At(w, k + 1) = At(w, k) + Size(w, k) /\ Size(w, k) = 0
    BY Addresses DEF Size
  <2>3. At(w, k) \in Nat
    <3>1. k \in 1 .. Len(w) + 1
      BY Lines
    <3> QED
      BY <3>1, Addresses
  <2> QED
    BY <2>1, <2>2, <2>3
<1>3. ASSUME NEW k \in 1 .. Len(w), ~LabelAt(w, k), At(w, k) = At(w, j) PROVE k = j + 1
  <2>1. At(w, k) = At(w, j + 1)
    BY <1>2, <1>3
  <2> DEFINE i == j + 1
  <2>2. i \in 1 .. Len(w) /\ ~LabelAt(w, i) /\ At(w, k) = At(w, i)
    BY <1>1, <2>1
  <2> HIDE DEF i
  <2>3. k = i
    BY <1>3, <2>2, AddressesApart
  <2> QED
    BY <2>3 DEF i
<1>4. ASSUME NEW k \in 1 .. Len(w), LabelAt(w, k), At(w, k) = At(w, j) PROVE k = j
  <2>1. k + 1 \in 1 .. Len(w) /\ ~LabelAt(w, k + 1) /\ At(w, k + 1) = At(w, j)
    BY <1>2, <1>4
  <2>2. k + 1 = j + 1
    BY <1>3, <2>1
  <2> QED
    BY <2>2
<1> QED
  BY <1>1, <1>2, <1>3, <1>4

\* The labels file has the label of each line at its address.
LEMMA LabelsFile ==
  ASSUME NEW w, Text(w), Clean(w), NEW s, Assembled(w, s)
  PROVE  \A p : p \in LabelData(s) <=>
                  \E k \in 1 .. Len(w) : LabelAt(w, k) /\ p = <<At(w, k), w[k].label>>
<1> DEFINE n == Len(w)
           M(k) == Mangled(w, w[k].label, k)
<1>1. /\ \A m : m \in DOMAIN s.addr <=> Defs(w, m, n) # {}
      /\ \A m \in DOMAIN s.addr : s.addr[m] = At(w, Greatest(Defs(w, m, n)))
  BY DEF Assembled, LabelsRead
<1>2. \A k \in 1 .. n : Demangled(M(k)) = w[k].label
  BY DEF Demangled, Mangled
<1>3. ASSUME NEW k \in 1 .. n, LabelAt(w, k)
      PROVE  M(k) \in DOMAIN s.addr /\ s.addr[M(k)] = At(w, k)
  <2>1. Defs(w, M(k), n) = {k}
    BY <1>3 DEF Clean
  <2>2. Greatest({k}) = k
    <3>1. {k} \in SUBSET (1 .. n) /\ {k} # {} /\ n \in Nat
      BY Lines
    <3>2. Greatest({k}) \in {k}
      <4> DEFINE S == {k}
      <4> HIDE DEF S
      <4>1. S \in SUBSET (1 .. n) /\ S # {} /\ n \in Nat
        BY <3>1 DEF S
      <4> HIDE DEF n
      <4>2. Greatest(S) \in S
        BY <4>1, GreatestOf
      <4> QED
        BY <4>2 DEF S
    <3> QED
      BY <3>2
  <2> HIDE DEF M
  <2> QED
    BY <1>1, <2>1, <2>2
<1>4. ASSUME NEW m \in DOMAIN s.addr PROVE \E k \in 1 .. n : LabelAt(w, k) /\ M(k) = m
  <2>1. Defs(w, m, n) # {}
    BY <1>1
  <2> QED
    BY <2>1 DEF Defs
<1> HIDE DEF M, n
<1>5. LabelData(s) = {<<s.addr[m], Demangled(m)>> : m \in DOMAIN s.addr}
  BY DEF LabelData
<1>6. ASSUME NEW p \in LabelData(s)
      PROVE  \E k \in 1 .. n : LabelAt(w, k) /\ p = <<At(w, k), w[k].label>>
  <2>1. PICK m \in DOMAIN s.addr : p = <<s.addr[m], Demangled(m)>>
    BY <1>5
  <2>2. PICK k \in 1 .. n : LabelAt(w, k) /\ M(k) = m
    BY <1>4
  <2> QED
    BY <1>2, <1>3, <2>1, <2>2
<1>7. ASSUME NEW k \in 1 .. n, LabelAt(w, k)
      PROVE  <<At(w, k), w[k].label>> \in LabelData(s)
  BY <1>2, <1>3, <1>5, <1>7
<1> QED
  BY <1>6, <1>7 DEF n

\* The labels read from the file T, of which those in l are left.
LabelsLoaded(T, l, r) ==
  /\ l \subseteq T /\ \A a : a \in DOMAIN r <=> \E p \in T \ l : a = p[1]
  /\ \A p \in T \ l : r[p[1]] = p[2]

\* Each address has one label in the file.
Single(T) ==
  /\ \A p \in T : p = <<p[1], p[2]>> /\ p[1] \in Nat
  /\ \A p, q \in T : p[1] = q[1] => p = q

\* So has that of a clean source.
LEMMA SingleLabels ==
  ASSUME NEW w, Text(w), Clean(w), NEW s, Assembled(w, s)
  PROVE  Single(LabelData(s))
<1> DEFINE T == LabelData(s)
<1>1. \A p : p \in T <=> \E k \in 1 .. Len(w) : LabelAt(w, k) /\ p = <<At(w, k), w[k].label>>
  BY LabelsFile
<1>2. \A k \in 1 .. Len(w) : At(w, k) \in Nat
  <2>1. \A k \in 1 .. Len(w) : k \in 1 .. Len(w) + 1
    BY Lines
  <2> QED
    BY <2>1, Addresses
<1> HIDE DEF T
<1>3. \A p \in T : p = <<p[1], p[2]>> /\ p[1] \in Nat
  BY <1>1, <1>2
<1>4. ASSUME NEW p \in T, NEW q \in T, p[1] = q[1] PROVE p = q
  <2>1. PICK j \in 1 .. Len(w) : LabelAt(w, j) /\ p = <<At(w, j), w[j].label>>
    BY <1>1
  <2>2. PICK k \in 1 .. Len(w) : LabelAt(w, k) /\ q = <<At(w, k), w[k].label>>
    BY <1>1
  <2>3. At(w, k) = At(w, j)
    BY <1>4, <2>1, <2>2
  <2>4. k = j
    BY <2>1, <2>2, <2>3, LabelOfInstr
  <2> QED
    BY <2>1, <2>2, <2>4
<1> QED
  BY <1>3, <1>4 DEF Single, T

\* The first of the lines l of the file.
Earliest(l) == CHOOSE q \in l : \A r \in l \ {q} : Before(q, r)

\* The file's first line is read.
LEMMA LoadsLabel ==
  ASSUME NEW T, NEW l, NEW r, Single(T), LabelsLoaded(T, l, r), l # {}
  PROVE  LabelsLoaded(T, l \ {Earliest(l)}, Labelled(r, Earliest(l)[1], Earliest(l)[2]))
<1> DEFINE p == Earliest(l)
           S == {q[1] : q \in l}
<1>1. S \in SUBSET Nat /\ S # {}
  BY DEF Single, LabelsLoaded
<1>2. PICK a \in S : \A b \in S : a <= b
  BY <1>1, Least
<1>3. PICK q \in l : a = q[1]
  OBVIOUS
<1>4. ASSUME NEW o \in l \ {q} PROVE Before(q, o)
  <2>1. q[1] <= o[1] /\ q[1] # o[1] /\ q[1] \in Nat /\ o[1] \in Nat
    BY <1>2, <1>3 DEF Single, LabelsLoaded
  <2>2. q[1] < o[1]
    BY <2>1
  <2> QED
    BY <2>2 DEF Before
<1>5. p \in l
  BY <1>4 DEF Earliest
<1> HIDE DEF p, S
<1> DEFINE x == Labelled(r, p[1], p[2])
<1>6. /\ DOMAIN x = DOMAIN r \cup {p[1]} /\ x[p[1]] = p[2]
      /\ \A y \in DOMAIN r : y # p[1] => x[y] = r[y]
  <2> DEFINE y == p[1]
             v == p[2]
  <2>1. x = Put(r, y, v)
    BY DEF Labelled
  <2> HIDE DEF x, y, v
  <2>2. /\ DOMAIN Put(r, y, v) = DOMAIN r \cup {y} /\ Put(r, y, v)[y] = v
        /\ \A z \in DOMAIN r : z # y => Put(r, y, v)[z] = r[z]
    BY DEF Put
  <2>3. DOMAIN x = DOMAIN r \cup {y} /\ x[y] = v /\ \A z \in DOMAIN r : z # y => x[z] = r[z]
    BY ONLY <2>1, <2>2
  <2> QED
    BY <2>3 DEF y, v
<1> HIDE DEF x
<1>7. ASSUME NEW y PROVE y \in DOMAIN x <=> \E o \in T \ (l \ {p}) : y = o[1]
  <2>1. T \ (l \ {p}) = (T \ l) \cup {p}
    BY <1>5 DEF LabelsLoaded
  <2> QED
    BY <1>6, <2>1 DEF LabelsLoaded
<1>8. ASSUME NEW o \in T \ (l \ {p}) PROVE x[o[1]] = o[2]
  <2>1. CASE o = p
    BY <1>6, <2>1
  <2>2. CASE o # p
    <3>1. o \in T \ l /\ o[1] # p[1]
      BY <1>5, <2>2 DEF LabelsLoaded, Single
    <3>2. o[1] \in DOMAIN r /\ r[o[1]] = o[2]
      BY <3>1 DEF LabelsLoaded
    <3> QED
      BY <1>6, <3>1, <3>2
  <2> QED
    BY <2>1, <2>2
<1>9. l \ {p} \subseteq T
  BY DEF LabelsLoaded
<1>10. LabelsLoaded(T, l \ {p}, x)
  BY <1>7, <1>8, <1>9 DEF LabelsLoaded
<1> QED
  BY <1>10 DEF p, x

\* The instruction of a line as the disassembler reads it, but for its target.
LEMMA ReadsSource ==
  ASSUME NEW w, Text(w), Clean(w), NEW k \in 1 .. Len(w), ~LabelAt(w, k),
         Encodable(w[k].instr)
  PROVE  LET i == AsRead(Loaded(w, k))
         IN  /\ [i EXCEPT !.tgt = 0] = (IF RefAt(w, k) THEN w[k].instr
                                        ELSE [w[k].instr EXCEPT !.tgt = 0])
             /\ i.op = w[k].instr.op /\ i.idx = w[k].instr.idx
             /\ i.tgt = IF RefAt(w, k) THEN Dest(w, k) ELSE w[k].instr.tgt
<1> DEFINE i == w[k].instr
           t == IF RefAt(w, k) THEN Dest(w, k) ELSE i.tgt
           v == IF i.op \in ArithOp \ UnsignedOp THEN Signed(Wrap(i.imm)) ELSE Wrap(i.imm)
<1>1. /\ i \in [op : Opcode, am : Mode, dst : Reg, src : Reg, idx : Int, imm : Int, tgt : Int]
      /\ Plainest(i) /\ (RefAt(w, k) => i.op \in BranchOp /\ i.tgt = 0)
  BY SourceInstr
<1>2. i = [op |-> i.op, am |-> i.am, dst |-> i.dst, src |-> i.src, idx |-> i.idx,
           imm |-> i.imm, tgt |-> i.tgt] /\ i.imm \in Int
  BY <1>1
<1>3. Encodable(i) /\ (i.op \in ArithOp \ UnsignedOp => i.imm = Signed(Wrap(i.imm)))
  BY DEF Clean
<1>4. Kept(w, k) = [i EXCEPT !.imm = Wrap(i.imm)]
  BY DEF Kept
<1>5. Loaded(w, k) = [Kept(w, k) EXCEPT !.tgt = IF RefAt(w, k) THEN Dest(w, k) ELSE @]
  BY DEF Loaded
<1> HIDE DEF i
<1>6. Kept(w, k) = [op |-> i.op, am |-> i.am, dst |-> i.dst, src |-> i.src, idx |-> i.idx,
                    imm |-> Wrap(i.imm), tgt |-> i.tgt]
  BY <1>2, <1>4
<1>7. Loaded(w, k) = [op |-> i.op, am |-> i.am, dst |-> i.dst, src |-> i.src, idx |-> i.idx,
                      imm |-> Wrap(i.imm), tgt |-> t]
  BY <1>5, <1>6
<1> HIDE DEF t
<1>8. AsRead(Loaded(w, k)) = [op |-> i.op, am |-> i.am, dst |-> i.dst, src |-> i.src,
                              idx |-> i.idx, imm |-> v, tgt |-> t]
  BY <1>7 DEF AsRead
<1>9. v = i.imm
  <2>1. CASE i.op \in ArithOp \ UnsignedOp
    BY <1>3, <2>1
  <2>2. CASE i.op \notin ArithOp \ UnsignedOp
    <3>1. CASE i.op \in ArithOp /\ i.am = "IMM"
      <4>1. i.op \notin MemoryOp /\ i.op \notin BranchOp /\ i.op \in UnsignedOp
        BY <2>2, <3>1 DEF ArithOp, MoveOp, MemoryOp, BranchOp, CondOp
      <4>2. InBytes(i.imm, WordMod, i.op \notin UnsignedOp /\ i.imm < 0)
        BY <1>3, <3>1, <4>1 DEF Encodable
      <4>3. i.imm \in 0 .. WordMod - 1
        BY <4>1, <4>2 DEF InBytes
      <4>4. WordMod \in Nat \ {0}
        BY WidthAssumption DEF WordMod
      <4> QED
        BY <2>2, <4>3, <4>4 DEF Wrap
    <3>2. CASE ~(i.op \in ArithOp /\ i.am = "IMM")
      <4>1. i.imm = 0
        BY <1>1, <3>2 DEF Plainest, i
      <4>2. WordMod \in Nat \ {0}
        BY WidthAssumption DEF WordMod
      <4>3. 0 % WordMod = 0
        BY <4>2
      <4> QED
        BY <2>2, <4>1, <4>3 DEF Wrap
    <3> QED
      BY <3>1, <3>2
  <2> QED
    BY <2>1, <2>2
<1> HIDE DEF v
<1> DEFINE r == AsRead(Loaded(w, k))
<1>10. r = [op |-> i.op, am |-> i.am, dst |-> i.dst, src |-> i.src,
            idx |-> i.idx, imm |-> i.imm, tgt |-> t]
  BY <1>8, <1>9
<1> HIDE DEF r
<1>11. [r EXCEPT !.tgt = 0] = [op |-> i.op, am |-> i.am, dst |-> i.dst, src |-> i.src,
                               idx |-> i.idx, imm |-> i.imm, tgt |-> 0]
  BY <1>10
<1>12. [i EXCEPT !.tgt = 0] = [op |-> i.op, am |-> i.am, dst |-> i.dst, src |-> i.src,
                               idx |-> i.idx, imm |-> i.imm, tgt |-> 0]
  BY <1>2
<1>13. RefAt(w, k) => i = [op |-> i.op, am |-> i.am, dst |-> i.dst, src |-> i.src,
                           idx |-> i.idx, imm |-> i.imm, tgt |-> 0]
  <2> SUFFICES ASSUME RefAt(w, k) PROVE i.tgt = 0
    BY <1>2
  <2> QED
    BY <1>1 DEF i
<1>14. r.op = i.op /\ r.idx = i.idx /\ r.tgt = t
  BY <1>10
<1>15. [r EXCEPT !.tgt = 0] = IF RefAt(w, k) THEN i ELSE [i EXCEPT !.tgt = 0]
  BY <1>11, <1>12, <1>13
<1> QED
  BY <1>14, <1>15 DEF r, i, t

\* A label without capitals is in lower case.
LEMMA LowerLabel ==
  ASSUME NEW l \in Labels, ~l.caps
  PROVE  lower(l) = l
<1> DEFINE R == [name : STRING, low : BOOLEAN, caps : BOOLEAN]
<1>1. LabelOrder \in Seq(R)
  BY LabelAssumption
<1> HIDE DEF R
<1>2. \A x \in DOMAIN LabelOrder : LabelOrder[x] \in R
  BY <1>1
<1>3. Labels = {LabelOrder[x] : x \in DOMAIN LabelOrder}
  BY DEF Labels, Range
<1>4. l \in R
  BY <1>2, <1>3
<1>5. l.caps = FALSE
  BY <1>4 DEF R
<1> QED
  BY <1>4, <1>5 DEF lower, R

\* The label that a transfer is to, and the line that it is in.
LEMMA Named ==
  ASSUME NEW w, Text(w), Clean(w), NEW s, Assembled(w, s), NEW k \in 1 .. Len(w), RefAt(w, k),
         ~w[k].label.caps
  PROVE  /\ lower(w[k].label) = w[k].label
         /\ \E j \in 1 .. Len(w) : LabelAt(w, j) /\ w[j].label = w[k].label /\ Dest(w, k) = At(w, j)
<1> DEFINE n == Len(w)
           l == w[k].label
           m == Mangled(w, lower(l), k)
           D == Defs(w, m, n)
<1>1. ~LabelAt(w, k)
  BY DEF RefAt, LabelAt
<1>2. l \in Labels
  BY <1>1, SourceInstr
<1>3. lower(l) = l
  BY <1>2, LowerLabel
<1>4. D # {}
  BY DEF Assembled
<1>5. Dest(w, k) = At(w, Greatest(D))
  BY DEF Dest
<1>6. D \in SUBSET (1 .. n) /\ n \in Nat
  BY Lines DEF Defs
<1> DEFINE j == Greatest(D)
<1>7. j \in D
  <2> HIDE DEF D, n
  <2> QED
    BY <1>4, <1>6, GreatestOf
<1> HIDE DEF j
<1>8. j \in 1 .. n /\ LabelAt(w, j) /\ Mangled(w, w[j].label, j) = m
  BY <1>7 DEF Defs
<1>9. w[j].label = l
  <2> DEFINE x == w[j].label
             a == Under(w, j)
             b == Under(w, k)
  <2>1. (IF x.low THEN <<a, x>> ELSE <<x>>) = (IF l.low THEN <<b, l>> ELSE <<l>>)
    BY <1>3, <1>8 DEF Mangled
  <2> HIDE DEF x, a, b, l
  <2>2. x = l
    BY <2>1
  <2> QED
    BY <2>2 DEF x
<1> QED
  BY <1>3, <1>5, <1>8, <1>9 DEF j

\* The lines that are written for the instruction of line k.
LinesFor(w, k) == (IF k > 1 /\ LabelAt(w, k - 1) THEN <<w[k - 1]>> ELSE <<>>) \o <<w[k]>>

\* The disassembler writes them.
LEMMA ShowsLines ==
  ASSUME NEW w, Text(w), Clean(w), NEW s, Assembled(w, s), NEW k \in 1 .. Len(w), ~LabelAt(w, k),
         program[At(w, k)] = AsRead(Loaded(w, k)),
         LabelsLoaded(LabelData(s), {}, rev_label_addr)
  PROVE  Shows(At(w, k)) = LinesFor(w, k)
<1> DEFINE a      == At(w, k)
           i      == program[a]
           x      == w[k].instr
           l      == w[k].label
           r      == rev_label_addr
           branch == i.op \in BranchOp
           named  == branch /\ i.tgt \in DOMAIN r
           torn   == (branch /\ ~named) \/ (i.op = "STORE" /\ i.idx = 0)
           line   == InstrLine([i EXCEPT !.tgt = 0], IF named THEN lower(r[i.tgt]) ELSE NoLabel)
           first  == IF a \in DOMAIN r THEN <<LabelLine(lower(r[a]))>> ELSE <<>>
           second == IF torn THEN [line EXCEPT !.kind = "torn"] ELSE line
<1>1. Shows(a) = first \o <<second>>
  BY DEF Shows
<1>2. /\ \A b : b \in DOMAIN r <=> \E j \in 1 .. Len(w) : LabelAt(w, j) /\ b = At(w, j)
      /\ \A j \in 1 .. Len(w) : LabelAt(w, j) => r[At(w, j)] = w[j].label
  <2> DEFINE T == LabelData(s)
  <2>1. \A p : p \in T <=> \E j \in 1 .. Len(w) : LabelAt(w, j) /\ p = <<At(w, j), w[j].label>>
    BY LabelsFile
  <2> HIDE DEF T
  <2>2. /\ \A b : b \in DOMAIN r <=> \E p \in T : b = p[1]
        /\ \A p \in T : r[p[1]] = p[2]
    BY DEF LabelsLoaded, T
  <2> HIDE DEF r
  <2>3. ASSUME NEW b PROVE b \in DOMAIN r <=> \E j \in 1 .. Len(w) : LabelAt(w, j) /\ b = At(w, j)
    <3>1. ASSUME b \in DOMAIN r PROVE \E j \in 1 .. Len(w) : LabelAt(w, j) /\ b = At(w, j)
      <4>1. PICK p \in T : b = p[1]
        BY <2>2, <3>1
      <4>2. PICK j \in 1 .. Len(w) : LabelAt(w, j) /\ p = <<At(w, j), w[j].label>>
        BY <2>1
      <4> QED
        BY <4>1, <4>2
    <3>2. ASSUME NEW j \in 1 .. Len(w), LabelAt(w, j), b = At(w, j) PROVE b \in DOMAIN r
      <4> DEFINE p == <<At(w, j), w[j].label>>
      <4>1. p \in T /\ p[1] = At(w, j)
        BY <2>1, <3>2
      <4> HIDE DEF p
      <4> QED
        BY <2>2, <3>2, <4>1
    <3> QED
      BY <3>1, <3>2
  <2>4. ASSUME NEW j \in 1 .. Len(w), LabelAt(w, j) PROVE r[At(w, j)] = w[j].label
    <3> DEFINE p == <<At(w, j), w[j].label>>
    <3>1. p \in T /\ p[1] = At(w, j) /\ p[2] = w[j].label
      BY <2>1, <2>4
    <3> HIDE DEF p
    <3> QED
      BY <2>2, <3>1
  <2> QED
    BY <2>3, <2>4
<1>3. /\ x \in [op : Opcode, am : Mode, dst : Reg, src : Reg, idx : Int, imm : Int, tgt : Int]
      /\ Plainest(x) /\ (RefAt(w, k) => x.op \in BranchOp /\ x.tgt = 0)
  BY SourceInstr
<1>4. w[k] = InstrLine(x, l) /\ w[k] \in InstrLines
  <2>1. w[k] \in LabelLines \cup InstrLines
    BY Lines
  <2> QED
    BY <2>1, LineLength DEF LabelAt
<1>5. /\ x.op \in BranchOp => RefAt(w, k) /\ ~l.caps
      /\ x.op = "STORE" => x.idx # 0
  BY DEF Clean
<1>6. ~RefAt(w, k) => l = NoLabel
  BY <1>4 DEF RefAt, InstrLine
<1>7. Encodable(x)
  BY DEF Assembled
<1>8. /\ [i EXCEPT !.tgt = 0] = (IF RefAt(w, k) THEN x ELSE [x EXCEPT !.tgt = 0])
      /\ i.op = x.op /\ i.idx = x.idx
      /\ i.tgt = IF RefAt(w, k) THEN Dest(w, k) ELSE x.tgt
  BY <1>7, ReadsSource
<1>9. second = w[k]
  <2>1. CASE RefAt(w, k)
    <3>1. x.op \in BranchOp /\ ~l.caps
      BY <1>3, <1>5, <2>1
    <3>2. PICK j \in 1 .. Len(w) : LabelAt(w, j) /\ w[j].label = l /\ Dest(w, k) = At(w, j)
      BY <2>1, <3>1, Named
    <3>3. lower(l) = l
      BY <2>1, <3>1, Named
    <3>4. Dest(w, k) \in DOMAIN r /\ r[Dest(w, k)] = l
      BY <1>2, <3>2
    <3>5. i.tgt = Dest(w, k) /\ [i EXCEPT !.tgt = 0] = x /\ i.op = x.op
      BY <1>8, <2>1
    <3>6. x.op # "STORE"
      BY <3>1 DEF BranchOp, CondOp
    <3> HIDE DEF i, r, x, l
    <3>7. named
      BY <3>1, <3>4, <3>5
    <3>8. ~torn
      BY <3>5, <3>6, <3>7
    <3>9. line = InstrLine(x, l)
      BY <3>3, <3>4, <3>5, <3>7
    <3> HIDE DEF torn, line
    <3> QED
      BY <1>4, <3>8, <3>9
  <2>2. CASE ~RefAt(w, k)
    <3>1. x.op \notin BranchOp /\ l = NoLabel
      BY <1>5, <1>6, <2>2
    <3>2. x.tgt = 0
      BY <1>3, <3>1 DEF Plainest
    <3>3. [x EXCEPT !.tgt = 0] = x
      <4>1. x = [op |-> x.op, am |-> x.am, dst |-> x.dst, src |-> x.src, idx |-> x.idx,
                 imm |-> x.imm, tgt |-> x.tgt]
        BY <1>3
      <4> HIDE DEF x
      <4> QED
        BY <3>2, <4>1
    <3>4. [i EXCEPT !.tgt = 0] = x /\ i.op = x.op /\ i.idx = x.idx
      BY <1>8, <2>2, <3>3
    <3>5. x.op = "STORE" => x.idx # 0
      BY <1>5
    <3> HIDE DEF i, r, x, l
    <3>6. ~named /\ ~torn
      BY <3>1, <3>4, <3>5
    <3>7. line = InstrLine(x, l)
      BY <3>1, <3>4, <3>6
    <3> HIDE DEF torn, line
    <3> QED
      BY <1>4, <3>6, <3>7
  <2> QED
    BY <2>1, <2>2
<1>10. first = IF k > 1 /\ LabelAt(w, k - 1) THEN <<w[k - 1]>> ELSE <<>>
  <2>1. CASE k > 1 /\ LabelAt(w, k - 1)
    <3> DEFINE j == k - 1
    <3>1. j \in 1 .. Len(w) /\ LabelAt(w, j) /\ j + 1 = k
      BY <2>1
    <3> HIDE DEF j
    <3>2. At(w, j) = a
      BY <3>1, LabelOfInstr
    <3>3. a \in DOMAIN r /\ r[a] = w[j].label
      BY <1>2, <3>1, <3>2
    <3>4. w[j] = LabelLine(w[j].label) /\ w[j].label \in Labels
      <4>1. w[j] \in LabelLines \cup InstrLines
        BY <3>1, Lines
      <4> QED
        BY <3>1, <4>1, LineLength DEF LabelAt
    <3>5. ~w[j].label.caps
      BY <3>1 DEF Clean
    <3>6. lower(w[j].label) = w[j].label
      BY <3>4, <3>5, LowerLabel
    <3>7. first = <<LabelLine(w[j].label)>>
      <4> HIDE DEF a, r
      <4> QED
        BY <3>3, <3>6
    <3>8. first = <<w[j]>>
      <4> HIDE DEF first
      <4> QED
        BY <3>4, <3>7
    <3> HIDE DEF first
    <3> QED
      BY <2>1, <3>8 DEF j
  <2>2. CASE ~(k > 1 /\ LabelAt(w, k - 1))
    <3>1. ASSUME a \in DOMAIN r PROVE FALSE
      <4>1. PICK j \in 1 .. Len(w) : LabelAt(w, j) /\ a = At(w, j)
        BY <1>2, <3>1
      <4>2. k = j + 1
        BY <4>1, LabelOfInstr
      <4>3. k > 1 /\ k - 1 = j
        BY <4>2
      <4> QED
        BY <2>2, <4>1, <4>3
    <3>2. first = <<>>
      BY <3>1
    <3> HIDE DEF first
    <3> QED
      BY <2>2, <3>2
  <2> QED
    BY <2>1, <2>2
<1> HIDE DEF first, second
<1> QED
  BY <1>1, <1>9, <1>10 DEF LinesFor

\* The first k lines of w.
First(w, k) == [j \in 1 .. k |-> w[j]]

\* Another line, or a label and its instruction, behind the first k.
LEMMA FirstNext ==
  ASSUME NEW V, NEW w \in Seq(V), NEW k \in 0 .. Len(w) - 1
  PROVE  /\ First(w, k) \in Seq(V) /\ First(w, k) \o <<w[k + 1]>> = First(w, k + 1)
         /\ k + 2 <= Len(w) =>
              First(w, k) \o (<<w[k + 1]>> \o <<w[k + 2]>>) = First(w, k + 2)
<1>1. ASSUME NEW j \in 0 .. Len(w) PROVE First(w, j) \in Seq(V) /\ Len(First(w, j)) = j
  BY DEF First
<1>2. k \in 0 .. Len(w) /\ k + 1 \in 0 .. Len(w) /\ w[k + 1] \in V
  OBVIOUS
<1>3. First(w, k) \o <<w[k + 1]>> = First(w, k + 1)
  <2> DEFINE s == First(w, k)
             t == <<w[k + 1]>>
             u == First(w, k + 1)
             c == s \o t
  <2>1. s \in Seq(V) /\ t \in Seq(V) /\ Len(s) = k /\ Len(t) = 1 /\ t[1] = w[k + 1]
    BY <1>1, <1>2
  <2>2. u \in Seq(V) /\ Len(u) = k + 1 /\ \A j \in 1 .. k + 1 : u[j] = w[j]
    BY <1>1, <1>2 DEF First
  <2>3. \A j \in 1 .. k : s[j] = w[j]
    BY DEF First
  <2> HIDE DEF s, t, u
  <2>4. c \in Seq(V) /\ Joined(c, s, t)
    BY <2>1, Joins
  <2> HIDE DEF c
  <2>5. Len(c) = k + 1 /\ (\A j \in 1 .. k : c[j] = w[j]) /\ c[k + 1] = w[k + 1]
    <3>1. Len(c) = Len(s) + Len(t) /\ (\A j \in 1 .. Len(s) : c[j] = s[j])
          /\ \A j \in 1 .. Len(t) : c[j + Len(s)] = t[j]
      BY <2>4 DEF Joined
    <3>2. 1 \in 1 .. Len(t) /\ 1 + Len(s) = k + 1
      BY <2>1
    <3>3. c[k + 1] = t[1]
      BY <3>1, <3>2
    <3> QED
      BY <2>1, <2>3, <3>1, <3>3
  <2>6. \A j \in 1 .. k + 1 : c[j] = u[j]
    <3> TAKE j \in 1 .. k + 1
    <3>1. j \in 1 .. k \/ j = k + 1
      OBVIOUS
    <3> QED
      BY <2>2, <2>5, <3>1
  <2>7. c = [j \in 1 .. k + 1 |-> c[j]] /\ u = [j \in 1 .. k + 1 |-> u[j]]
    BY <2>2, <2>4, <2>5
  <2>8. c = u
    BY <2>6, <2>7
  <2> QED
    BY <2>8 DEF c, s, t, u
<1>4. ASSUME k + 2 <= Len(w)
      PROVE  First(w, k) \o (<<w[k + 1]>> \o <<w[k + 2]>>) = First(w, k + 2)
  <2> DEFINE s == First(w, k)
             t == <<w[k + 1]>> \o <<w[k + 2]>>
             u == First(w, k + 2)
             c == s \o t
  <2>0. w[k + 2] \in V /\ k + 2 \in 0 .. Len(w)
    BY <1>4
  <2>1. /\ s \in Seq(V) /\ t \in Seq(V) /\ Len(s) = k /\ Len(t) = 2
        /\ t[1] = w[k + 1] /\ t[2] = w[k + 2]
    <3>1. s \in Seq(V) /\ Len(s) = k
      BY <1>1, <1>2
    <3> DEFINE p == <<w[k + 1]>>
               q == <<w[k + 2]>>
    <3>2. /\ p \in Seq(V) /\ q \in Seq(V) /\ Len(p) = 1 /\ Len(q) = 1
          /\ p[1] = w[k + 1] /\ q[1] = w[k + 2] /\ t = p \o q
      BY <1>2, <2>0
    <3> HIDE DEF s, t, p, q
    <3>3. t \in Seq(V) /\ Joined(t, p, q)
      BY <3>2, Joins
    <3>4. Len(t) = 2 /\ t[1] = w[k + 1] /\ t[2] = w[k + 2]
      <4>1. /\ Len(t) = Len(p) + Len(q) /\ \A j \in 1 .. Len(p) : t[j] = p[j]
            /\ \A j \in 1 .. Len(q) : t[j + Len(p)] = q[j]
        BY <3>3 DEF Joined
      <4> QED
        BY <3>2, <4>1, 1 \in 1 .. 1, 1 + 1 = 2
    <3> QED
      BY <3>1, <3>3, <3>4
  <2>2. u \in Seq(V) /\ Len(u) = k + 2 /\ \A j \in 1 .. k + 2 : u[j] = w[j]
    BY <1>1, <2>0 DEF First
  <2>3. \A j \in 1 .. k : s[j] = w[j]
    BY DEF First
  <2> HIDE DEF s, t, u
  <2>4. c \in Seq(V) /\ Joined(c, s, t)
    BY <2>1, Joins
  <2> HIDE DEF c
  <2>5. /\ Len(c) = k + 2 /\ (\A j \in 1 .. k : c[j] = w[j])
        /\ c[k + 1] = w[k + 1] /\ c[k + 2] = w[k + 2]
    <3>1. Len(c) = Len(s) + Len(t) /\ (\A j \in 1 .. Len(s) : c[j] = s[j])
          /\ \A j \in 1 .. Len(t) : c[j + Len(s)] = t[j]
      BY <2>4 DEF Joined
    <3>2. 1 \in 1 .. Len(t) /\ 1 + Len(s) = k + 1 /\ 2 \in 1 .. Len(t) /\ 2 + Len(s) = k + 2
      BY <2>1
    <3>3. c[k + 1] = t[1] /\ c[k + 2] = t[2]
      BY <3>1, <3>2
    <3> QED
      BY <2>1, <2>3, <3>1, <3>3
  <2>6. \A j \in 1 .. k + 2 : c[j] = u[j]
    <3> TAKE j \in 1 .. k + 2
    <3>1. j \in 1 .. k \/ j = k + 1 \/ j = k + 2
      OBVIOUS
    <3> QED
      BY <2>2, <2>5, <3>1
  <2>7. c = [j \in 1 .. k + 2 |-> c[j]] /\ u = [j \in 1 .. k + 2 |-> u[j]]
    BY <2>2, <2>4, <2>5
  <2>8. c = u
    BY <2>6, <2>7
  <2> QED
    BY <2>8 DEF c, s, t, u
<1> QED
  BY <1>1, <1>2, <1>3, <1>4

\* The lines written in the order of their instructions are the source.
LEMMA WritesSource ==
  ASSUME NEW w, Text(w), Clean(w), NEW s, Assembled(w, s), NEW f, DOMAIN f = DOMAIN s.code,
         \A k \in 1 .. Len(w) : ~LabelAt(w, k) => f[At(w, k)] = LinesFor(w, k)
  PROVE  InOrder(f, s.size) = w
<1> DEFINE n == Len(w)
           V == LabelLines \cup InstrLines
<1>1. n \in Nat /\ n > 0 /\ w \in Seq(V) /\ \A k \in 1 .. n : w[k] \in V
  BY Lines
<1>2. /\ At(w, 1) = 0 /\ \A k \in 1 .. n + 1 : At(w, k) \in Nat
      /\ \A k \in 1 .. n : /\ Size(w, k) \in 0 .. 10 /\ (~LabelAt(w, k) => Size(w, k) > 0)
                           /\ At(w, k + 1) = At(w, k) + Size(w, k)
  BY Addresses
<1>3. /\ s.size = At(w, n + 1)
      /\ \A a : a \in DOMAIN f <=> \E k \in 1 .. n : ~LabelAt(w, k) /\ a = At(w, k)
  BY DEF Assembled
<1> HIDE DEF V
<1>4. \A k \in 1 .. n : LinesFor(w, k) \in Seq(V)
  <2> TAKE k \in 1 .. n
  <2>1. /\ w[k] \in V /\ (k > 1 => w[k - 1] \in V)
    BY <1>1
  <2>2. CASE k > 1 /\ LabelAt(w, k - 1)
    <3>1. LinesFor(w, k) = <<w[k - 1]>> \o <<w[k]>>
      BY <2>2 DEF LinesFor
    <3> QED
      BY <2>1, <2>2, <3>1
  <2>3. CASE ~(k > 1 /\ LabelAt(w, k - 1))
    <3>1. LinesFor(w, k) = <<>> \o <<w[k]>>
      BY <2>3 DEF LinesFor
    <3> QED
      BY <2>1, <3>1
  <2> QED
    BY <2>2, <2>3
<1>5. \A a \in DOMAIN f : f[a] \in Seq(V)
  BY <1>3, <1>4
<1> DEFINE z == s.size
<1>6. z \in Nat
  <2>1. n + 1 \in 1 .. n + 1
    BY <1>1
  <2> QED
    BY <1>2, <1>3, <2>1
<1>7. PICK g \in [0 .. z -> Seq(V)] : Ordered(g, f, z) /\ InOrder(f, z) = g[z]
  BY <1>5, <1>6, OrderedRec
<1>8. \A k \in 1 .. n + 1 : At(w, k) <= z
  <2> TAKE k \in 1 .. n + 1
  <2>1. CASE k = n + 1
    BY <1>3, <1>6, <2>1
  <2>2. CASE k \in 1 .. n
    <3>1. At(w, k) + Size(w, k) <= At(w, n + 1)
      <4>1. n + 1 \in 1 .. n + 1 /\ k < n + 1
        BY <1>1, <2>2
      <4> QED
        BY <2>2, <4>1, AddressOrder
    <3>2. At(w, k) \in Nat
      <4>1. k \in 1 .. n + 1
        BY <1>1, <2>2
      <4> QED
        BY <1>2, <4>1
    <3>3. Size(w, k) \in Nat
      <4>1. Size(w, k) \in 0 .. 10
        BY <1>2, <2>2
      <4> QED
        BY <4>1
    <3> QED
      BY <1>3, <1>6, <3>1, <3>2, <3>3
  <2> QED
    BY <2>1, <2>2
\* Behind the lines for an instruction, nothing until the next.
<1>9. ASSUME NEW k \in 1 .. n, ~LabelAt(w, k)
      PROVE  g[At(w, k + 1)] = g[At(w, k)] \o LinesFor(w, k)
  <2> DEFINE a == At(w, k)
             m == Size(w, k)
             T == {d \in Nat : d \in 1 .. m => g[a + d] = g[a] \o LinesFor(w, k)}
  <2>1. a \in Nat /\ m \in Nat /\ m > 0 /\ At(w, k + 1) = a + m /\ a + m <= z
    <3>1. k \in 1 .. n + 1 /\ k + 1 \in 1 .. n + 1
      BY <1>1
    <3>2. At(w, k) \in Nat /\ At(w, k + 1) <= z
      BY <1>2, <1>8, <3>1
    <3>3. Size(w, k) \in 0 .. 10 /\ Size(w, k) > 0 /\ At(w, k + 1) = At(w, k) + Size(w, k)
      BY <1>2, <1>9
    <3> QED
      BY <3>2, <3>3
  <2>2. \A d \in 1 .. m - 1 : a + d \notin DOMAIN f
    <3> SUFFICES ASSUME NEW d \in 1 .. m - 1, NEW j \in 1 .. n, ~LabelAt(w, j), a + d = At(w, j)
                 PROVE  FALSE
      BY <1>3
    <3>1. j \in Nat /\ k \in Nat /\ j \in 1 .. n + 1 /\ k \in 1 .. n + 1
      BY <1>1
    <3>2. j < k => At(w, j) + Size(w, j) <= a
      BY <3>1, AddressOrder
    <3>3. ASSUME k < j PROVE a + m <= At(w, j)
      <4>1. At(w, k) + Size(w, k) <= At(w, j)
        BY <3>1, <3>3, AddressOrder
      <4> QED
        BY <4>1
    <3>4. Size(w, j) \in 0 .. 10 /\ At(w, j) \in Nat
      BY <1>2, <3>1
    <3> HIDE DEF a, m
    <3>5. ~(j < k)
      BY <2>1, <3>2, <3>4, SMTT(30)
    <3>6. ~(k < j)
      BY <2>1, <3>3, <3>4
    <3>7. j = k
      BY <3>1, <3>5, <3>6
    <3> QED
      BY <2>1, <3>7 DEF a
  <2>3. a \in DOMAIN f /\ f[a] = LinesFor(w, k)
    BY <1>3, <1>9
  <2> HIDE DEF a, m
  <2>4. 0 \in T
    OBVIOUS
  <2>5. ASSUME NEW d \in T PROVE d + 1 \in T
    <3> SUFFICES ASSUME d + 1 \in 1 .. m PROVE g[a + (d + 1)] = g[a] \o LinesFor(w, k)
      OBVIOUS
    <3> DEFINE b == a + (d + 1)
    <3>1. b \in 1 .. z /\ b - 1 = a + d /\ d \in Nat /\ d \in 0 .. m - 1
      BY <2>1, <1>6
    <3> HIDE DEF b, z
    <3>2. g[b] = g[b - 1] \o IF b - 1 \in DOMAIN f THEN f[b - 1] ELSE <<>>
      BY <1>7, <3>1 DEF Ordered
    <3>3. CASE d = 0
      <4>1. b - 1 = a
        BY <2>1, <3>1, <3>3
      <4> QED
        BY <2>3, <3>2, <4>1 DEF b
    <3>4. CASE d # 0
      <4>1. d \in 1 .. m - 1 /\ d \in 1 .. m
        BY <2>1, <3>1, <3>4
      <4>2. g[a + d] = g[a] \o LinesFor(w, k)
        BY <4>1
      <4>3. g[b] = g[a + d] \o <<>>
        BY <2>2, <3>1, <3>2, <4>1
      <4>4. g[a + d] \in Seq(V)
        <5>1. a + d \in 0 .. z
          BY <1>6, <2>1, <3>1
        <5> QED
          BY <1>7, <5>1 DEF z
      <4> HIDE DEF T
      <4>5. g[a + d] \o <<>> = g[a + d]
        BY <4>4
      <4> QED
        BY <4>2, <4>3, <4>5 DEF b
    <3> QED
      BY <3>3, <3>4
  <2> HIDE DEF T
  <2>6. m \in T
    <3>1. T = Nat
      BY <2>4, <2>5, SetInduction, T \in SUBSET Nat DEF T
    <3> QED
      BY <2>1, <3>1
  <2>7. g[a + m] = g[a] \o LinesFor(w, k)
    <3>1. m \in 1 .. m
      BY <2>1
    <3> QED
      BY <2>6, <3>1 DEF T
  <2> QED
    BY <2>1, <2>7 DEF a
\* Up to the last line that is no label, the source.
<1> DEFINE last(k) == IF k > 0 /\ LabelAt(w, k) THEN k - 1 ELSE k
           Q == {k \in Nat : k \in 0 .. n => g[At(w, k + 1)] = First(w, last(k))}
<1>10. 0 \in Q
  <2>1. First(w, 0) = <<>> /\ last(0) = 0
    BY DEF First
  <2>2. g[0] = <<>>
    BY <1>7 DEF Ordered
  <2>3. At(w, 0 + 1) = 0
    BY <1>2
  <2> HIDE DEF last
  <2> QED
    BY <2>1, <2>2, <2>3
<1>11. ASSUME NEW k \in Q PROVE k + 1 \in Q
  <2> SUFFICES ASSUME k + 1 \in 0 .. n PROVE g[At(w, (k + 1) + 1)] = First(w, last(k + 1))
    OBVIOUS
  <2>1. k \in Nat /\ k + 1 \in 1 .. n /\ k \in 0 .. n /\ k + 1 > 0 /\ (k + 1) - 1 = k
    BY <1>1
  <2>2. g[At(w, k + 1)] = First(w, last(k))
    BY <2>1
  <2> HIDE DEF Q
  <2>3. CASE LabelAt(w, k + 1)
    <3>1. last(k + 1) = k
      BY <2>1, <2>3
    <3>2. At(w, (k + 1) + 1) = At(w, k + 1)
      BY <2>1, <2>3, LabelOfInstr
    <3>3. last(k) = k
      <4>1. ~(k > 0 /\ LabelAt(w, k))
        <5> SUFFICES ASSUME k > 0, LabelAt(w, k) PROVE FALSE
          OBVIOUS
        <5>1. k \in 1 .. n
          BY <2>1
        <5> QED
          BY <2>3, <5>1 DEF Clean
      <4> QED
        BY <4>1
    <3> HIDE DEF last
    <3> QED
      BY <2>2, <3>1, <3>2, <3>3
  <2>4. CASE ~LabelAt(w, k + 1)
    <3>1. last(k + 1) = k + 1
      BY <2>4
    <3>2. g[At(w, (k + 1) + 1)] = g[At(w, k + 1)] \o LinesFor(w, k + 1)
      BY <1>9, <2>1, <2>4
    <3>3. CASE k > 0 /\ LabelAt(w, k)
      <4> DEFINE i == k - 1
      <4>1. last(k) = i /\ i \in 0 .. n - 1 /\ i + 1 = k /\ i + 2 = k + 1 /\ i + 2 <= n
        BY <2>1, <3>3
      <4> HIDE DEF i
      <4>2. First(w, i) \o (<<w[i + 1]>> \o <<w[i + 2]>>) = First(w, i + 2)
        BY <1>1, <4>1, FirstNext
      <4>3. LinesFor(w, k + 1) = <<w[k]>> \o <<w[k + 1]>>
        BY <2>1, <3>3 DEF LinesFor
      <4> HIDE DEF last
      <4> QED
        BY <2>2, <3>1, <3>2, <4>1, <4>2, <4>3
    <3>4. CASE ~(k > 0 /\ LabelAt(w, k))
      <4>1. last(k) = k /\ k \in 0 .. n - 1
        BY <2>1, <3>4
      <4>2. First(w, k) \o <<w[k + 1]>> = First(w, k + 1)
        BY <1>1, <4>1, FirstNext
      <4>3. LinesFor(w, k + 1) = <<w[k + 1]>>
        <5>1. LinesFor(w, k + 1) = <<>> \o <<w[k + 1]>>
          <6>1. ~(k + 1 > 1 /\ LabelAt(w, (k + 1) - 1))
            BY <2>1, <3>4
          <6> HIDE DEF last
          <6> QED
            BY <6>1 DEF LinesFor
        <5> QED
          BY <5>1
      <4> HIDE DEF last
      <4> QED
        BY <2>2, <3>1, <3>2, <4>1, <4>2, <4>3
    <3> QED
      BY <3>3, <3>4
  <2> QED
    BY <2>3, <2>4
<1>12. g[At(w, n + 1)] = First(w, n)
  <2>1. last(n) = n
    <3>1. ~LabelAt(w, n)
      <4>1. n \in 1 .. n /\ n + 1 \notin 1 .. n
        BY <1>1
      <4> QED
        BY <4>1 DEF Clean
    <3> QED
      BY <3>1
  <2> HIDE DEF last
  <2>2. Q = Nat
    <3> HIDE DEF Q
    <3> QED
      BY <1>10, <1>11, SetInduction, Q \in SUBSET Nat DEF Q
  <2>3. n \in Q /\ n \in 0 .. n
    BY <1>1, <2>2
  <2> QED
    BY <2>1, <2>3
<1>13. First(w, n) = w
  BY <1>1 DEF First
<1> QED
  BY <1>3, <1>7, <1>12, <1>13

\* What becomes of the labels file of a clean source, and then of its lines.
InvLabels ==
  with_labels /\ Clean(Whole) =>
    /\ phase \in {"asm", "disasm"} => rev_label_addr = <<>>
    /\ phase = "disasm" => lbl = LabelData(assembler)
    /\ phase \in {"labels", "dump", "done"} =>
         LabelsLoaded(LabelData(assembler), lbl, rev_label_addr)
    /\ phase \in {"dump", "done"} => lbl = {}
    /\ phase = "done" => output = Whole

\* The lines of a decoded program are its source's.
LEMMA DumpsSource ==
  ASSUME Inv, InvLabels, dump_program, with_labels, Clean(Whole)
  PROVE  output' = Whole
<1> DEFINE w == Whole
           s == assembler
           f == [a \in DOMAIN program |-> Shows(a)]
<1>1. /\ Text(w) /\ Assembled(w, s) /\ Decodes(s.code, s.size, hex, program, cur_addr)
      /\ hex = <<>> /\ LabelsLoaded(LabelData(s), {}, rev_label_addr) /\ Clean(w)
  BY WholeSource DEF Inv, InvLabels, Linked, Decoded, dump_program
<1>2. output' = InOrder(f, cur_addr)
  BY DEF dump_program
<1> HIDE DEF w, s
<1>3. s.size \in Nat /\ EndToEnd(s.code, s.size)
  BY <1>1, Laid
<1>4. cur_addr = s.size
  <2>1. Len(hex) = 0 /\ Len(hex) = s.size - cur_addr /\ cur_addr \in DOMAIN s.code \cup {s.size}
    BY <1>1 DEF Decodes
  <2>2. cur_addr \in Nat
    BY <1>3, <2>1 DEF EndToEnd
  <2> QED
    BY <1>3, <2>1, <2>2
<1>5. DOMAIN program = DOMAIN s.code /\ \A a \in DOMAIN program : program[a] = AsRead(s.code[a])
  <2>1. \A a \in DOMAIN s.code : a < s.size
    BY <1>3 DEF EndToEnd
  <2> QED
    BY <1>1, <1>4, <2>1 DEF Decodes
<1>6. ASSUME NEW k \in 1 .. Len(w), ~LabelAt(w, k) PROVE f[At(w, k)] = LinesFor(w, k)
  <2>1. At(w, k) \in DOMAIN s.code /\ s.code[At(w, k)] = Loaded(w, k)
    BY <1>1, <1>6 DEF Assembled
  <2>2. program[At(w, k)] = AsRead(Loaded(w, k)) /\ f[At(w, k)] = Shows(At(w, k))
    BY <1>5, <2>1
  <2> HIDE DEF f
  <2>3. Shows(At(w, k)) = LinesFor(w, k)
    BY <1>1, <1>6, <2>2, ShowsLines
  <2> QED
    BY <2>2, <2>3
<1>7. DOMAIN f = DOMAIN s.code
  BY <1>5
<1> HIDE DEF f
<1>8. InOrder(f, s.size) = w
  BY <1>1, <1>6, <1>7, WritesSource
<1> QED
  BY <1>2, <1>4, <1>8 DEF w

\* A step keeps the invariant.
LEMMA LabelsInv ==
  ASSUME Inv, InvLabels, [Next]_vars PROVE InvLabels'
<1> SUFFICES ASSUME with_labels', Clean(Whole)'
             PROVE  /\ phase' \in {"asm", "disasm"} => rev_label_addr' = <<>>
                    /\ phase' = "disasm" => lbl' = LabelData(assembler')
                    /\ phase' \in {"labels", "dump", "done"} =>
                         LabelsLoaded(LabelData(assembler'), lbl', rev_label_addr')
                    /\ phase' \in {"dump", "done"} => lbl' = {}
                    /\ phase' = "done" => output' = Whole'
  BY DEF InvLabels
<1>1. UNCHANGED <<source, with_labels>>
  BY DEF Next, asm_source_line, link_and_dump, disasm_one, disasm_end, load_label_line,
         load_label_end, compute_label_data, dump_program, Fail, vars
<1>2. Whole' = Whole
  BY <1>1 DEF Whole
<1>3. with_labels /\ Clean(Whole)
  BY <1>1, <1>2
<1>4. /\ phase \in {"asm", "disasm"} => rev_label_addr = <<>>
      /\ phase = "disasm" => lbl = LabelData(assembler)
      /\ phase \in {"labels", "dump", "done"} =>
           LabelsLoaded(LabelData(assembler), lbl, rev_label_addr)
      /\ phase \in {"dump", "done"} => lbl = {}
      /\ phase = "done" => output = Whole
  BY <1>3 DEF InvLabels
<1>5. CASE asm_source_line
  BY <1>4, <1>5 DEF asm_source_line, Fail, disasmVars
<1>6. CASE link_and_dump
  BY <1>4, <1>6 DEF link_and_dump, Fail, disasmVars
<1>7. CASE disasm_one
  BY <1>4, <1>7 DEF disasm_one
<1>8. CASE disasm_end
  <2>1. LabelsLoaded(LabelData(assembler), lbl, <<>>)
    <3>1. \A T : LabelsLoaded(T, T, <<>>)
      BY DEF LabelsLoaded
    <3> QED
      BY <1>4, <1>8, <3>1 DEF disasm_end
  <2> QED
    BY <1>4, <1>8, <2>1 DEF disasm_end, disasmVars
<1>9. CASE load_label_line
  <2>1. phase = "labels" /\ phase' = "labels" /\ assembler' = assembler /\ lbl # {}
    BY <1>9 DEF load_label_line
  <2> DEFINE p == Earliest(lbl)
             T == LabelData(assembler)
  <2>2. rev_label_addr' = Labelled(rev_label_addr, p[1], p[2]) /\ lbl' = lbl \ {p}
    BY <1>9 DEF load_label_line, Earliest
  <2>3. Text(Whole) /\ Assembled(Whole, assembler)
    BY <2>1, WholeSource DEF Inv, Linked
  <2>4. Single(T)
    <3> DEFINE w == Whole
               s == assembler
    <3>1. Text(w) /\ Clean(w) /\ Assembled(w, s)
      BY <1>3, <2>3
    <3> HIDE DEF w, s, T
    <3>2. Single(LabelData(s))
      BY <3>1, SingleLabels
    <3> QED
      BY <3>2 DEF T, s
  <2>5. LabelsLoaded(T, lbl \ {p}, Labelled(rev_label_addr, p[1], p[2]))
    <3> DEFINE l == lbl
               r == rev_label_addr
    <3>1. Single(T) /\ LabelsLoaded(T, l, r) /\ l # {}
      BY <1>4, <2>1, <2>4
    <3> HIDE DEF T, l, r
    <3>2. LabelsLoaded(T, l \ {Earliest(l)}, Labelled(r, Earliest(l)[1], Earliest(l)[2]))
      BY <3>1, LoadsLabel
    <3> QED
      BY <3>2 DEF l, r
  <2> HIDE DEF p
  <2> QED
    BY <2>1, <2>2, <2>5
<1>10. CASE load_label_end
  BY <1>4, <1>10 DEF load_label_end, disasmVars
<1>11. CASE compute_label_data
  BY <1>3, <1>11 DEF compute_label_data
<1>12. CASE dump_program
  <2>1. output' = Whole
    BY <1>3, <1>12, DumpsSource
  <2> QED
    BY <1>2, <1>4, <1>12, <2>1 DEF dump_program
<1>13. CASE UNCHANGED vars
  BY <1>2, <1>4, <1>13 DEF vars
<1> QED
  BY <1>5, <1>6, <1>7, <1>8, <1>9, <1>10, <1>11, <1>12, <1>13 DEF Next

\* The source behind the jump of sys_enter.asm, and nothing else, comes out of the two tools,
\* for every source written their way (tests/bin/tasmroundtrip.py:16-33).
THEOREM RoundTrips == Spec => []RoundTrip
<1>1. Init => InvLabels
  BY DEF Init, InvLabels
<1>2. Inv /\ InvLabels /\ [Next]_vars => InvLabels'
  BY LabelsInv
<1>3. InvLabels => RoundTrip
  BY CanonicalClean DEF InvLabels, RoundTrip
<1> QED
  BY <1>1, <1>2, <1>3, Invariant, PTL DEF Spec
=============================================================================
